CONSTANTS
  Sessions = {s1, s2}
  Repl = Repl
  EventTask = EventTask
  NULL = NULL
SPECIFICATION FairSpec
PROPERTIES
  AbortStopsPing
CHECK_DEADLOCK FALSE
