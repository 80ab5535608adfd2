CONSTANTS
  QueueSize = 2
  MaxRows = 3
  SSIDs = {"a", "b"}
  Torn = Torn
  MaxNumber = 2
  MaxDelay = 2
  MaxSeconds = 1
  Evaluations = {e1, e2}
  MaxRadarRows = 3
  ClockOf <- MCClockOf
  Records = 3
  Thresholds = {1}
SPECIFICATION MCSpec
INVARIANTS
  LastingRowsKept
  ConfigAgrees
  CollectAtRest
  TrainingMatches
  TopRecordCurrent
  
PROPERTIES
  ShutsDown
  WindowUnblocks
  AutoConnects
CHECK_DEADLOCK FALSE
