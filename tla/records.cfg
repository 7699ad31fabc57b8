SPECIFICATION FairSpec
CONSTANTS
  Base = 8
  IntSize = 4
  LongSize = 8
  IntMax = 2047
  InitLen = 4
  MaxRecord = 120
  Null = Null
  Exchanges <- Everything
  Ints <- HeaderInts
  Longs <- OneLong
  Strings <- SmallStrings
  Counts <- Lengths
  Cuts <- Shortfalls
  Junk <- Sevens
  MaxNulls = 1
INVARIANTS
  RoundTrip
  ShortNoticed
  SilentLoss
  WithinFrame
  TypeOK
  WithinBlock
  NoOverflow
PROPERTY
  SerializeReturns
