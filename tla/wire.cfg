SPECIFICATION FairSpec
CONSTANTS
  Cmds <- Finite
  MaxConns = 2
  NServers = 2
  MaxCmds = 2
  MaxPings = 1
  MkdirDepth = 0
  Answers <- NodeCodes
  MaxShifts = 1
  Segments = FALSE
PROPERTIES
  ImplementsWire
  CommandReturns
CHECK_DEADLOCK FALSE
