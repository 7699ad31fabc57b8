SPECIFICATION Spec
CONSTANTS
  Depth = 3
  Values = {"x", "y"}
  Commands = {"create", "mkdir", "get", "set", "del"}
  MaxChanges = 2
INVARIANTS
  TypeOK
  MkdirOutcome
  BoundedRequests
  GetShows
  GetCrash
PROPERTY
  StopsAfterLoss
CHECK_DEADLOCK FALSE
