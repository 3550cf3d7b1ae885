SPECIFICATION ActionSpec
CONSTANTS
  Goals = {g1}
  Workers = {w1, w2}
  Receivers = {r1}
  Callbacks = {c1, c2}
  Statuses = {succeeded, canceled}
  None = None
  kUnknown = kUnknown
  MayLose = FALSE
  MayDuplicate = TRUE
  MayThrow = FALSE
SYMMETRY Symmetry
INVARIANTS ResultIsGenuine NoOrphanedHandle NoLostWakeup
PROPERTIES ResultIsFinal FeedbackDriesUp ImplementsContract
CHECK_DEADLOCK FALSE
