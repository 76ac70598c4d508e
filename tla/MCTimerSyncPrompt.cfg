SPECIFICATION AnsweredSpec
CONSTANTS
  Sockets = {1, 2}
  Rids = {1, 2}
  Shapes <- FittingShapes
  Room = 2
  Timeout = 1
  RetryInterval = 1
  DelayInterval = 1
  LocalInterval = 1
  ResyncInterval = 2
  MaxAhead = 2
  Prompt = TRUE
  MaxFaults = 2
  MaxChanges = 2
PROPERTY ComesInSync
CHECK_DEADLOCK FALSE
