CONSTANTS
  Routers = {r1, r2}
  NONE = NONE
  MaxCommands = 4
  MaxRetries = 2
SPECIFICATION FairSpec
INVARIANTS
  BitsAgree
  NoLostReconnect
PROPERTIES
  CommandReturns
  StaysDropped
CHECK_DEADLOCK FALSE
