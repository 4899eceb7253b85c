CONSTANTS
  Requests = {r1, r2, r3}
  Checks = {r3}
  NoRequest = none
  JobCap = 2
  CommandCap = 2
  WireCap = 1
  EventCap = 1
  QueueCap = 1
  MaxClicks = 2
  MaxDhcp = 3
  Faults = {}
SPECIFICATION FairSpec
PROPERTIES SessionEnds
CHECK_DEADLOCK FALSE
