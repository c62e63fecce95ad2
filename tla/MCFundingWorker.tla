-------------------------- MODULE MCFundingWorker --------------------------
(***************************************************************************)
(* Values for the constants of FundingWorker.                              *)
(***************************************************************************)
EXTENDS FundingInvariant

\* Two containers left at one WALLET_FUNDING_WORKER_ID (worker-1 is the pid a
\* container's only process gets), or two told apart.
SameId == [p \in Procs |-> "worker-1"]
OwnId == [p \in Procs |-> p]

AllPoints == WorkPoints \cup {"stall", "drop"}
NoPoints == {}

\* From the stored row on.
StoredPoints ==
  {"checkSigned", "setSigned", "collect", "drop"} \cup SendPoints \cup FinalizePoints
=============================================================================
