SPECIFICATION FairSpec
CONSTANTS
  Goals = {g1, g2}
  Workers = {w1, w2}
  Receivers = {r1, r2}
  Statuses = {canceled}
  None = None
  MayLose = FALSE
  MayDuplicate = TRUE
  MayThrow = TRUE
INVARIANTS IInv CancelReachesWorker NoLeakedEntry QuietShutdown
PROPERTIES DestructorReturns CancelEndsGoal
CHECK_DEADLOCK FALSE
