------------------------- MODULE OnboardingPromise -------------------------
(***************************************************************************)
(* What creating a wallet promises: a user's first wallet is the only one, *)
(* and the job that will fund it comes with it and names its address.      *)
(***************************************************************************)
CONSTANTS Users, Addresses, NoAddress

VARIABLES
  wallet,   \* the address of each user's wallet
  job       \* the address each user's funding job pays

Init == wallet = [u \in Users |-> NoAddress] /\ job = [u \in Users |-> NoAddress]

Create(u, a) ==
  /\ wallet[u] = NoAddress
  /\ wallet' = [wallet EXCEPT ![u] = a]
  /\ job' = [job EXCEPT ![u] = a]

Next == \E u \in Users, a \in Addresses : Create(u, a)

Spec == Init /\ [][Next]_<<wallet, job>>
=============================================================================
