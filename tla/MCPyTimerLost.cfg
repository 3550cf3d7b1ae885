SPECIFICATION CollectedSpec
CONSTANTS
  Callers = {a1}
  Collector = collector
PROPERTY DroppedTimerStops
CHECK_DEADLOCK FALSE
