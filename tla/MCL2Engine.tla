----------------------------- MODULE MCL2Engine -----------------------------
(* A small network for L2Engine: an untagged one with a gateway and an IPv6 *)
(* station, and VLAN 1 with an address that two stations have.              *)
EXTENDS L2Engine

CONSTANTS
  o4, s4,        \* this machine's address, one that nobody has
  a4, b4,        \* on the link; elsewhere
  g4,            \* the gateway
  o6, a6,        \* this machine's IPv6 address, and a station's
  m1, m2

MCV4 == {o4, s4, a4, b4, g4}
MCV6 == {o6, a6}
MCOnLink == (MCV4 \ {b4}) \cup MCV6
MCStations == {<<Untagged, g4, m2>>, <<Untagged, a6, m1>>, <<1, a4, m1>>, <<1, a4, m2>>}
=============================================================================
