SPECIFICATION FairSpec
CONSTANTS
  LenSize = 2
  ReqSize = 3
  BodySize = 2
  MaxExchanges = 2
  MaxBlocks = 2
INVARIANTS
  TypeOK
  WireWhole
  Surplus
  ReplyWhole
PROPERTY
  ReadReturns
CHECK_DEADLOCK FALSE
