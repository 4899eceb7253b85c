CONSTANTS
  Targets = {a}
  NoIcmp = {}
  Methods = {"icmp"}
  Counts = {0, 1}
  Kinds = {"start", "toggle", "delete"}
  CmdCap = 2
  HistoryLen = 3
  MaxClicks = 4
  MaxRounds = 2
SPECIFICATION Spec
INVARIANTS RunningIsTrue
CHECK_DEADLOCK FALSE
