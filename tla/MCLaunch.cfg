SPECIFICATION FairSpec
CONSTANTS
  N = 3
  ExitCodes <- Codes
  None = None
INVARIANTS IInv NoChildLeftBehind
PROPERTIES ImplementsContract SignalEndsLaunch ShutdownConverges
CHECK_DEADLOCK FALSE
