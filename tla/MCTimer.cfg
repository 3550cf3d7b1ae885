SPECIFICATION FairSpec
CONSTANTS
  Callers = {a1, a2, a3}
  Owner = owner
  TimerThread = timer
  None = None
INVARIANT IInv
PROPERTIES ImplementsContract CancelReturns
CHECK_DEADLOCK FALSE
