SPECIFICATION FairSpec
CONSTANTS
  Words <- MCWords
  Endpoints <- MCEndpoints
  Decl <- MCDecl
  Requests <- MCRequests
  Threads = {c1, c2}
  MaxSamples = 4
INVARIANTS TopicsTypeOK ListedIsKnown CompleteWhenWhole DeniedMeansAbsent EchoDoesItsCount
PROPERTIES CommandsEnd
CHECK_DEADLOCK FALSE
