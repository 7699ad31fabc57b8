CONSTANTS
  Servers = 3
  Limit = 4
  MaxBreaks = 2
SPECIFICATION Spec
INVARIANTS TypeOK GoodFound EachOnce OnlyFailuresLeak
CHECK_DEADLOCK FALSE
