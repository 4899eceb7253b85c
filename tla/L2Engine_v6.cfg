CONSTANTS
  o4 = o4
  s4 = s4
  a4 = a4
  b4 = b4
  g4 = g4
  o6 = o6
  a6 = a6
  m1 = m1
  m2 = m2
  V4 <- MCV4
  V6 <- MCV6
  Own = {o4, o6}
  OnLink <- MCOnLink
  Gateways = {g4}
  Sources = {}
  Targets = {}
  Candidates = {a6}
  MACs = {m1, m2}
  Us = Us
  NoMac = NoMac
  Untagged = Untagged
  Vlans = {Untagged, 1}
  VlanSpace = 2
  IdentSpace = 3
  Stations <- MCStations
  MaxJobs = 1
  MaxEvents = 1
SPECIFICATION Spec
INVARIANT CheckFindsV6
CHECK_DEADLOCK FALSE
