SPECIFICATION FairSpec
CONSTANTS
  Procs = {p1}
  WorkerId <- OwnId
  NoOwner = NoOwner
  Jobs = {1}
  Versions = {1}
  Unconfigured = {}
  AutoMine = FALSE
  MayRevert = FALSE
  FaultPoints <- StoredPoints
  MaxFaults = 2
  MaxRetries = 1
  MaxForeign = 0
PROPERTY CreatedIsFunded
CHECK_DEADLOCK FALSE
