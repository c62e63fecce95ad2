SPECIFICATION FairSpec
CONSTANTS
  Accounts <- Numbers
  Deployer = 0
  Faucet = Faucet
  ClaimAmount = 2
  MaxSupply = 12
  DemoUsers <- Demo
  NoWallet = NoWallet
  TransferAmount = 1
  MaxDeployments = 2
  MaxTrouble = 1
  admin = admin
  user1 = user1
  user2 = user2
INVARIANTS DemoInv SupplyAccounted DoneIsConsistent BaselineKept
PROPERTIES TokenPromiseKept FundsOnlyKept RerunsRepair
CHECK_DEADLOCK FALSE
