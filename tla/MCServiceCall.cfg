SPECIFICATION FairSpec
CONSTANTS
  Threads = {py}
  PyThreads = {py}
  Servers = {pysrv, srv}
  PyServers = {pysrv}
  MaxCalls = 2
  Failed = Failed
  None = None
INVARIANTS IInv AnswerIsOwn
PROPERTIES ImplementsContract CallReturns LockComesFree
CHECK_DEADLOCK FALSE
