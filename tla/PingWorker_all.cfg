CONSTANTS
  Targets = {a}
  NoIcmp = {a}
  Methods = {"icmp", "tcp"}
  Counts = {0, 1}
  Kinds = {"start", "toggle", "delete"}
  CmdCap = 2
  HistoryLen = 3
  MaxClicks = 4
  MaxRounds = 2
SPECIFICATION FairSpec
INVARIANTS TypeOK NoOrphan RunningIsTrueUnlessLetGo SamplesInOrder
PROPERTIES StoppedLoopsEnd
CHECK_DEADLOCK FALSE
