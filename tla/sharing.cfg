SPECIFICATION Spec
CONSTANTS
  Cmds <- Contrary
  MaxConns = 2
  NServers = 1
  MaxCmds = 1
  MaxPings = 2
  MkdirDepth = 0
  Answers <- FatalCodes
  MaxShifts = 1
  Segments = FALSE
INVARIANTS
  SoleLivePing
  ExchangeExclusive
  OwnReply
  WholeFrames
CHECK_DEADLOCK FALSE
