-------------------------- MODULE FundingInvariant --------------------------
(***************************************************************************)
(* The inductive invariant behind the safety properties of FundingWorker,  *)
(* in named parts.                                                         *)
(***************************************************************************)
EXTENDS FundingRefinement

\* A version belongs to one turn: two workers on one job carry different ones.
VersionsDistinct ==
  \A p, q \in Procs :
    p # q /\ pc[p] # "idle" /\ pc[q] # "idle" /\ J(p) = J(q)
      => snap[p].version # snap[q].version

\* The reservation is ahead of every nonce that was ever given out.
ReservationAhead ==
  /\ \A j \in Jobs, ph \in Phases : outbox[j][ph].nonce < nextNonce
  /\ \A p \in Procs : nonce[p] < nextNonce

\* The points a worker reaches only once its phase has an outbox row.
RowPoints ==
  {"checkSigned", "setSigned"} \cup SendPoints \cup FinalizePoints

RowBehind == \A p \in Procs : pc[p] \in RowPoints => Stored(p)

\* A worker that signs has a nonce in hand.
NonceKnown == \A p \in Procs : pc[p] \in Signing => nonce[p] \in Nat

\* A node that mines at once keeps nothing waiting.
PoolEmpty == AutoMine => mempool = {}

\* What a job row or a worker takes for confirmed is on the chain.
ConfirmedIsPaid ==
  /\ \A j \in Jobs, ph \in Phases : job[j].status[ph] = "confirmed" => Paid(j, ph)
  /\ \A p \in Procs : pc[p] # "idle" =>
       /\ Ph(p) = "token" => Paid(J(p), "gas")
       /\ pc[p] \in {"confirm", "outboxConfirmed", "complete"} => Paid(J(p), Ph(p))
       /\ pc[p] = "complete" => Ph(p) = "token"

\* A transaction of the token phase exists only when the gas was paid.
TokenAfterGas ==
  \A j \in Jobs : outbox[j]["token"].nonce # NoNonce => Paid(j, "gas")

IInv ==
  /\ TypeOK /\ VersionsDistinct /\ ReservationAhead /\ ReservedNonceFresh
  /\ RowBehind /\ NonceKnown /\ PoolEmpty /\ OnlyStoredIsSent
  /\ ConfirmedIsPaid /\ ReadyIsFunded /\ TokenAfterGas
=============================================================================
