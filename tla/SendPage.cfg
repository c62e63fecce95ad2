SPECIFICATION FairSpec
CONSTANTS
  Tabs = {t1, t2}
  Transfers = {x1, x2}
  NoTransfer = NoTransfer
  Tokens = 1
  FaultPoints <- AllFaults
  MaxFaults = 1
INVARIANT SendInv
PROPERTIES BusyEnds PanelSettles
CHECK_DEADLOCK FALSE
