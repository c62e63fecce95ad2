SPECIFICATION FairSpec
CONSTANTS
  Transfers = {t1, t2}
  MaxInFlight = 2
  MaxFailures = 2
  t1 = t1
  t2 = t2
INVARIANT HistoryInv
PROPERTIES ShownMovesOn PendingIsFollowed LoadingEnds
CHECK_DEADLOCK FALSE
