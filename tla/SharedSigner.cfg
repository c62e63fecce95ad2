SPECIFICATION Spec
CONSTANTS
  Procs = {p1}
  WorkerId <- OwnId
  NoOwner = NoOwner
  Jobs = {1, 2}
  Versions = {1}
  Unconfigured = {2}
  AutoMine = TRUE
  MayRevert = TRUE
  FaultPoints <- AllPoints
  MaxFaults = 1
  MaxRetries = 1
  MaxForeign = 1
INVARIANT IInv
PROPERTY PromiseKept
CHECK_DEADLOCK FALSE
