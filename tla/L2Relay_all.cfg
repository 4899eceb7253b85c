CONSTANTS
  Requests = {r1, r3}
  Checks = {r3}
  NoRequest = none
  JobCap = 2
  CommandCap = 1
  WireCap = 1
  EventCap = 1
  QueueCap = 1
  MaxClicks = 3
  MaxDhcp = 3
  Faults = {"crash", "engine"}
SPECIFICATION FairSpec
INVARIANTS TypeOK SessionConsistent HandleInOnePlace DhcpInOrder
PROPERTIES ImplementsJobService AnsweredUnlessClogged EndsUnlessClogged
CHECK_DEADLOCK FALSE
