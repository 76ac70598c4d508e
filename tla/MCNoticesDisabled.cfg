SPECIFICATION Spec
CONSTANTS
  MaxLines = 3
  SayTimes = {2}
  MaxSaid = 3
  MaxBack = 1
  MaxNotices = 2
  NoticeTimes = {1, 2}
  MaxDeaths = 0
  PlayerFlags = {"suicide"}
  Room = 2
  HistoryTimes = {1, 2}
  MaxPickups = 0
  Panels = {"vote", "playerid"}
  PanelTimes <- TwoPanels
  Hideable = {"vote"}
  Vanishing = {"playerid"}
  CountdownTime = 1
  MaxPanelMessages = 0
  MaxMessages = 3
  MaxBusy = 1
INVARIANT DisabledIsEmpty
