SPECIFICATION FairSpec
CONSTANTS
  Users = {admin, other}
  Me = admin
  Nobody = Nobody
  MaxInFlight = 2
  MaxFailures = 1
  admin = admin
  other = other
INVARIANTS AdminInv ShowsWhatItDid
PROPERTIES LoadingEnds
CHECK_DEADLOCK FALSE
