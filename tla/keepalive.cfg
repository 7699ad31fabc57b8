CONSTANTS
  Servers <- ServersMC
  Asked = 6000
  Hold = 1
  Jitter = 1
  MaxTime = 33
  MaxSessions = 2
SPECIFICATION Spec
INVARIANTS TypeOK SessionKept
CHECK_DEADLOCK FALSE
