SPECIFICATION FairSpec
CONSTANTS
  Callers = {a1, a2, a3}
  Collector = collector
INVARIANT IInv
PROPERTIES CancelStops ImplementsContract
CHECK_DEADLOCK FALSE
