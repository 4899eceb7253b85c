CONSTANTS
  n = n
  m = m
  ip = ip
  Names = {n, m}
  Typed = {m}
  Literals = {ip}
  Files <- MCFiles
  Methods = {"icmp", "tcp"}
  ListMethod = "icmp"
  Capacity = 1
  MaxClicks = 3
SPECIFICATION FairSpec
INVARIANTS TypeOK AnswersFit
PROPERTIES NoLineLost EndsIfShown
CHECK_DEADLOCK FALSE
