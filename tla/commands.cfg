SPECIFICATION Spec
CONSTANTS
  Cmds <- Typed
  MaxConns = 2
  NServers = 2
  MaxCmds = 2
  MaxPings = 0
  MkdirDepth = 1
  Answers <- NodeCodes
  MaxShifts = 1
  Segments = TRUE
INVARIANTS
  TypeOK
  SoundConnection
CHECK_DEADLOCK FALSE
