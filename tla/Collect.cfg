CONSTANTS
  Timers = {t1, t2}
  Numbers = {1, 2}
  Modulus = 4
  QueueLength = 10
  NULL = NULL
SPECIFICATION FairSpec
INVARIANTS
  OneFilePerSample
  LabelHasTimer
PROPERTIES
  TimerReclaimed
  ImplementsCollection
CHECK_DEADLOCK FALSE
