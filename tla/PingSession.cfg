CONSTANTS
  Sessions = {s1, s2}
  Repl = Repl
  EventTask = EventTask
  NULL = NULL
SPECIFICATION FairSpec
INVARIANTS
  HandleNotDangling
PROPERTIES
  EndedSessionFreed
  AbortEndsSession
CHECK_DEADLOCK FALSE
