SPECIFICATION FairServedSpec
CONSTANTS
  Goals = {g1}
  Workers = {w1}
  Receivers = {r1}
  Callbacks = {c1}
  Statuses = {succeeded}
  None = None
  kUnknown = kUnknown
  MayLose = TRUE
  MayDuplicate = FALSE
  MayThrow = FALSE
PROPERTIES GoalIsAnswered ResultReachesWaiter
CHECK_DEADLOCK FALSE
