SPECIFICATION Spec
CONSTANTS
  Callers = {a1, a2}
  Owner = owner
  TimerThread = timer
  None = None
INVARIANT DestructorJoins
CHECK_DEADLOCK FALSE
