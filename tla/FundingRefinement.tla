------------------------- MODULE FundingRefinement -------------------------
(***************************************************************************)
(* The funding worker implements FundingPromise: the chain holds what was  *)
(* paid, the job rows say who is ready.                                    *)
(***************************************************************************)
EXTENDS FundingWorker

Funds == [j \in Jobs |-> {ph \in Phases : Paid(j, ph)}]
Ready == {j \in Jobs : job[j].ready}

Promise == INSTANCE FundingPromise
             WITH Wallets <- Jobs, funds <- Funds, ready <- Ready

\* Gas is paid before tokens, a wallet becomes ready only when it holds both,
\* and no crash, retry or stale worker ever takes readiness back.
PromiseKept == Promise!Spec
=============================================================================
