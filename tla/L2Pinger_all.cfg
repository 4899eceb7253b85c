CONSTANTS
  Pairs = {p}
  Methods = {"Icmp"}
  CmdCap = 2
  MaxClicks = 4
  MaxRounds = 2
SPECIFICATION FairSpec
INVARIANTS TypeOK RunningIsTrue PhaseIsTrue
PROPERTY StoppedLoopsEnd
CHECK_DEADLOCK FALSE
