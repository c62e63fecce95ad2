---------------------------- MODULE TokenPromise ----------------------------
(***************************************************************************)
(* What the faucet promises of the token: on a chain, a wallet is granted  *)
(* its amount at most once, tokens are moved but not made otherwise, unless *)
(* the token is taken from the faucet; a new chain starts from nothing.    *)
(***************************************************************************)
EXTENDS Naturals

CONSTANTS Accounts, ClaimAmount

VARIABLES
  holds,     \* what each account has
  granted,   \* the wallets that were granted their amount
  guarded    \* does the faucet alone make tokens?

Nothing == [a \in Accounts |-> 0]

Init == holds = Nothing /\ granted = {} /\ guarded = FALSE

Grant(a) ==
  /\ guarded /\ a \notin granted
  /\ granted' = granted \cup {a}
  /\ holds' = [holds EXCEPT ![a] = @ + ClaimAmount]
  /\ UNCHANGED guarded

Move(from, to) ==
  /\ \E n \in 1..holds[from] :
       holds' = [holds EXCEPT ![from] = @ - n, ![to] = @ + n]
  /\ UNCHANGED <<granted, guarded>>

Make(a) ==
  /\ ~guarded
  /\ holds' = [holds EXCEPT ![a] = holds'[a]]
  /\ holds'[a] > holds[a]
  /\ UNCHANGED <<granted, guarded>>

Guard ==
  /\ guarded' \in BOOLEAN
  /\ UNCHANGED <<holds, granted>>

Restart == holds' = Nothing /\ granted' = {} /\ guarded' = FALSE

Next ==
  \/ Guard \/ Restart
  \/ \E a \in Accounts :
       Grant(a) \/ Make(a) \/ \E b \in Accounts \ {a} : Move(a, b)

Spec == Init /\ [][Next]_<<holds, granted, guarded>>
=============================================================================
