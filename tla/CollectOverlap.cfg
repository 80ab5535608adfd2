CONSTANTS
  Timers = {t1, t2}
  Numbers = {1, 2}
  Modulus = 4
  QueueLength = 10
  NULL = NULL
SPECIFICATION FairSpec
INVARIANTS
  StopsAutomatically
CHECK_DEADLOCK FALSE
