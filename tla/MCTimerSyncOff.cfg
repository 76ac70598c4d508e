SPECIFICATION FairSpec
CONSTANTS
  Sockets = {1, 2}
  Rids = {1, 2}
  Shapes <- AllShapes
  Room = 2
  Timeout = 1
  RetryInterval = 1
  DelayInterval = 1
  LocalInterval = 1
  ResyncInterval = 2
  MaxAhead = 2
  Prompt = FALSE
  MaxFaults = 1
  MaxChanges = 2
PROPERTY OffIsUnsynced
CHECK_DEADLOCK FALSE
