SPECIFICATION PollFairSpec
CONSTANTS
  Procs = {p1}
  WorkerId <- OwnId
  NoOwner = NoOwner
  Jobs = {1, 2}
  Versions = {1}
  Unconfigured = {1}
  AutoMine = TRUE
  MayRevert = FALSE
  FaultPoints <- NoPoints
  MaxFaults = 0
  MaxRetries = 0
  MaxForeign = 0
PROPERTY CreatedIsFunded
CHECK_DEADLOCK FALSE
