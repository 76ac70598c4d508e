SPECIFICATION Spec
CONSTANTS
  Slots = {1}
  Players = {p1, p2}
  Nobody = Nobody
  MaxFlight = 1
  MaxQueue = 1
  MaxLosses = 1
  MaxChanges = 3
  MaxSessions = 2
PROPERTY ModEnableIsWhatWasSent
CHECK_DEADLOCK FALSE
