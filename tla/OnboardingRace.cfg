SPECIFICATION FairSpec
CONSTANTS
  Users = {u1, u2}
  Tabs = {t1, t2, t3}
  NoUser = NoUser
  Expired = Expired
  Browsers = {b1, b2}
  BrowserOf <- TwoBrowsers
  Addresses = {a1, a2}
  NoAddress = NoAddress
  FaultPoints <- AllFaults
  MaxFaults = 1
  MaxLeaves = 1
  MaxSessions = 1
  u1 = u1
  u2 = u2
  t1 = t1
  t2 = t2
  t3 = t3
  b1 = b1
  b2 = b2
  a1 = a1
  a2 = a2
  a3 = a3
CHECK_DEADLOCK FALSE
INVARIANTS OnboardingInv KeyIsStored
PROPERTIES OnboardingPromiseKept LoadingEnds
