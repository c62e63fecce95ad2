SPECIFICATION Spec
CONSTANTS
  Procs = {p1, p2}
  WorkerId <- SameId
  NoOwner = NoOwner
  Jobs = {1}
  Versions = {1, 2}
  Unconfigured = {}
  AutoMine = FALSE
  MayRevert = TRUE
  FaultPoints <- AllPoints
  MaxFaults = 2
  MaxRetries = 1
  MaxForeign = 0
INVARIANTS
  TypeOK
  LeaseExclusive
  ReservedNonceFresh
  OnlyStoredIsSent
  PaidOnce
  ReadyIsFunded
CHECK_DEADLOCK FALSE
