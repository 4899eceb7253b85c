CONSTANTS
  Modes = {"root"}
  MaxStarts = 1
SPECIFICATION FairSpec
PROPERTIES ToldHelperExits
CHECK_DEADLOCK FALSE
