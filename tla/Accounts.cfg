SPECIFICATION FairSpec
CONSTANTS
  Emails = {e1, e2}
  Secrets = {s1, s2}
  NoSecret = NoSecret
  Seeded = {e1}
  Calls = {c1, c2}
  FaultPoints <- Points
  MaxFaults = 1
INVARIANT AccountInv
PROPERTIES AccountPromiseKept FreezeTakesHold
CHECK_DEADLOCK FALSE
