CONSTANTS
  Modes = {"child", "root", "none"}
  MaxStarts = 2
SPECIFICATION BusyFairSpec
INVARIANTS TypeOK ActiveIsServed
PROPERTIES StartSettles StraysEnd
CHECK_DEADLOCK FALSE
