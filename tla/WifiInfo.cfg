CONSTANTS
  Routers = {r1, r2}
  NONE = NONE
  MaxCommands = 4
  MaxRetries = 2
SPECIFICATION FairSpec
PROPERTIES
  InfoOnlyReads
CHECK_DEADLOCK FALSE
