SPECIFICATION FairSpec
CONSTANTS
  Transfers = {t1, t2}
  Posts = {r1, r2, r3}
  HashOf <- TwiceAndOnce
  FaultPoints <- Everywhere
  MaxFaults = 2
  MaxCrashes = 1
  t1 = t1
  t2 = t2
  r1 = r1
  r2 = r2
  r3 = r3
CHECK_DEADLOCK FALSE
INVARIANTS TransferTypeOK RecordedOnce ConfirmedIsMined PanelStands
PROPERTIES PromiseKept LostOnlySo WatchEnds
