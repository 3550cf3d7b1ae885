SPECIFICATION ActionSpec
CONSTANTS
  Goals = {g1}
  Workers = {w1}
  Receivers = {r1}
  Callbacks = {c1}
  Statuses = {succeeded}
  None = None
  kUnknown = kUnknown
  MayLose = FALSE
  MayDuplicate = FALSE
  MayThrow = FALSE
INVARIANT CancelAtAnyTime
CHECK_DEADLOCK FALSE
