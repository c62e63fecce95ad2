SPECIFICATION FairSpec
CONSTANTS
  Transfers = {t1}
  Posts = {r1}
  HashOf <- Single
  FaultPoints <- NoFaults
  MaxFaults = 0
  MaxCrashes = 1
  t1 = t1
  t2 = t2
  r1 = r1
  r2 = r2
  r3 = r3
CHECK_DEADLOCK FALSE
PROPERTY Settles
