SPECIFICATION Spec
CONSTANTS
  Cmds <- Listing
  MaxConns = 2
  NServers = 1
  MaxCmds = 2
  MaxPings = 1
  MkdirDepth = 0
  Answers <- FatalCodes
  MaxShifts = 1
  Segments = FALSE
INVARIANT
  LockSurvivesCancel
CHECK_DEADLOCK FALSE
