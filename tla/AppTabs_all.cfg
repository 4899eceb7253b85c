\* The window's own state: four tabs, the user, restarts.
CONSTANTS
  Sources <- AllSources
  Addresses <- AllAddresses
  VlanTexts <- AllVlanTexts
  VlanIds <- AllVlanIds
  MaxEdits = 4
  Servers = {"s1", "s2"}
  Adapters <- AllAdapters
  Selectable <- AllSelectable
  Nics = {"n1", "n2"}
  MaxPanics = 1
  Subjects = {"form", "servers", "interfaces", "graphics"}
SPECIFICATION FairSpec
INVARIANTS
  TypeOK
  UncheckedStaysUnasked
  LoadRestores
  AddedStays
  PanelIsTrue
  LightIsTrue
PROPERTIES
  LightSettles
  ListCatchesUp
