SPECIFICATION Spec
CONSTANTS
  MaxLines = 3
  SayTimes = {2}
  MaxSaid = 3
  MaxBack = 1
  MaxNotices = 2
  NoticeTimes = {2}
  MaxDeaths = 3
  PlayerFlags = {"suicide"}
  Room = 2
  HistoryTimes = {2}
  MaxPickups = 3
  Panels = {"vote", "playerid"}
  PanelTimes <- TwoPanels
  Hideable = {"vote"}
  Vanishing = {"playerid"}
  CountdownTime = 1
  MaxPanelMessages = 2
  MaxMessages = 3
  MaxBusy = 2
INVARIANTS
  TypeOK
  TopStartsMessage
  NamesInStep
  InOrder
  DisabledIsEmptyUngapped
  FreeIsClean
  OldestIsNext
  PanelsInTime
PROPERTIES
  BoardSpec
  OnlyOldestLeave
  DrawnIsInTime
  Clears
