--------------------------- MODULE FundingWorker ---------------------------
(***************************************************************************)
(* The wallet funding worker (backend/src/services/walletFundingWorker.js) *)
(* against its three tables and the chain.                                 *)
(*                                                                         *)
(* Every wallet has one funding job.  A worker leases the oldest due job,  *)
(* pays its current phase -- first "gas" (0.005 ETH), then "token" (the    *)
(* faucet claim) -- and releases it.  A payment goes through an outbox: a  *)
(* nonce is reserved, the transaction is signed and stored, and only what  *)
(* is stored is broadcast.                                                 *)
(*                                                                         *)
(* Each action is what a worker does between two awaits: one SQL statement *)
(* (or one SQL transaction) or one RPC, and the branch that follows it.    *)
(* Time is abstracted to the conditions it makes true: a lease expires, a  *)
(* job becomes due.  The job's version is only ever compared for equality, *)
(* so an acquisition takes any version no worker in flight still holds.    *)
(* All workers share one signer, one chain and one chain epoch, and the    *)
(* confirmation target is 1, its default.                                  *)
(***************************************************************************)
EXTENDS Integers, Sequences, FiniteSets, Functions

CONSTANTS
  Procs,          \* the worker processes
  WorkerId,       \* WALLET_FUNDING_WORKER_ID of each; two may share one
  NoOwner,        \* locked_by IS NULL
  Jobs,           \* the funding jobs, numbered in the order of created_at
  Versions,       \* the versions a lease may carry
  Unconfigured,   \* jobs seeded while the chain could not be reached
  AutoMine,       \* a node that mines what it accepts at once (Hardhat)
  MayRevert,      \* may a faucet claim revert when it is mined?
  FaultPoints,    \* where a process may fail: labels, and "stall", "drop"
  MaxFaults,      \* bound: failures in a behaviour
  MaxRetries,     \* bound: retries asked for by users
  MaxForeign      \* bound: transactions sent by others with the signer's key

WorkerIds == {WorkerId[p] : p \in Procs}

ASSUME WorkersAssumption == NoOwner \notin WorkerIds
ASSUME JobsAssumption == Jobs \subseteq Nat \ {0}
ASSUME VersionsAssumption == Versions \subseteq Nat \ {0}
ASSUME BoundsAssumption ==
  /\ MaxFaults \in Nat
  /\ MaxRetries \in Nat
  /\ MaxForeign \in Nat
  /\ AutoMine \in BOOLEAN
  /\ MayRevert \in BOOLEAN

Phases == {"gas", "token"}

PhaseStatuses ==
  {"not_started", "signed", "broadcast", "pending", "confirmed",
   "failed", "blocked", "needs_manual_review"}

Lifecycles ==
  {"wallet_missing", "funding_pending", "funding_failed", "blocked",
   "needs_manual_review", "ready"}

\* The lifecycle states the worker and the retry may pick up.
Retryable == {"funding_pending", "funding_failed", "blocked"}

OutboxStatuses == {"none", "signed", "broadcast", "confirmed"}

\* The foreign transactions carry a job and a phase that are no wallet's.
NoJob == 0
NoNonce == -1

\* Where a worker waits: before the SQL statement or RPC of that name.
LookupPoints == {"lookup", "prepare", "recheck", "collect"}
ReservePoints == {"readNonce", "readOutbox", "upsert", "reserve"}
StorePoints == {"sign", "persist", "insert", "checkSigned", "setSigned"}
SendPoints == {"checkLease", "broadcast", "outboxBroadcast", "jobBroadcast"}
FinalizePoints == {"receipt", "pending", "reverted", "confirm", "outboxConfirmed"}
EndPoints == {"missing", "complete", "release", "catchBlocked", "catchReview"}

WorkPoints == LookupPoints \cup ReservePoints \cup StorePoints
                \cup SendPoints \cup FinalizePoints \cup EndPoints
Points == {"idle"} \cup WorkPoints

VARIABLES
  job,        \* wallet_funding_jobs
  outbox,     \* signed_transaction_outbox, one row per job and phase
  nextNonce,  \* faucet_nonce_reservations.next_nonce
  mempool,    \* transactions the node holds, not mined yet
  mined,      \* the signer's transactions on the chain, in nonce order
  pc,         \* where each worker is
  snap,       \* what it read of its job when it acquired it
  floor,      \* its provider nonce, then the floor it computed from it
  nonce,      \* the nonce it reserved
  sent,       \* has it passed the broadcast in this turn?
  faults, retries, foreign   \* how much of each bound is used

rows == <<job, outbox, nextNonce>>
chain == <<mempool, mined>>
locals == <<snap, floor, nonce, sent>>
used == <<faults, retries, foreign>>
vars == <<rows, chain, pc, locals, used>>

NoSnap == [job |-> NoJob, version |-> 0, phase |-> "gas", status |-> "not_started"]

NewJob ==
  [status |-> [ph \in Phases |-> "not_started"], lifecycle |-> "wallet_missing",
   ready |-> FALSE, lockedBy |-> NoOwner, leaseLive |-> FALSE, version |-> 0,
   due |-> FALSE]

NoRow == [nonce |-> NoNonce, status |-> "none"]

Init ==
  /\ job = [j \in Jobs |-> NewJob]
  /\ outbox = [j \in Jobs |-> [ph \in Phases |-> NoRow]]
  /\ nextNonce = 0
  /\ mempool = {} /\ mined = <<>>
  /\ pc = [p \in Procs |-> "idle"]
  /\ snap = [p \in Procs |-> NoSnap]
  /\ floor = [p \in Procs |-> NoNonce]
  /\ nonce = [p \in Procs |-> NoNonce]
  /\ sent = [p \in Procs |-> FALSE]
  /\ faults = 0 /\ retries = 0 /\ foreign = 0

-----------------------------------------------------------------------------
(* The chain, as the worker sees it through the node's RPC.                *)

PoolNonces == {tx.nonce : tx \in mempool}

\* getTransactionCount(signer, "pending"): the first nonce neither mined nor
\* waiting right behind what is mined.  The set has exactly one member.
PendingNonces ==
  {n \in {Len(mined)} \cup {tx.nonce + 1 : tx \in mempool} :
      /\ n >= Len(mined) /\ n \notin PoolNonces
      /\ \A m \in Len(mined)..(n - 1) : m \in PoolNonces}

IsMinedAt(n, j, ph) ==
  /\ n + 1 \in 1..Len(mined)
  /\ mined[n + 1].job = j /\ mined[n + 1].phase = ph

Paid(j, ph) ==
  \E i \in 1..Len(mined) :
    mined[i].job = j /\ mined[i].phase = ph /\ mined[i].ok

\* The faucet pays a wallet once, and only under its own request id.
Claimable(j) == ~Paid(j, "token") /\ j \notin Unconfigured

\* Does the node take the transaction?  A pool queues nonces that are ahead,
\* and answers "already known" for what it holds, which the client takes for
\* success; a node that mines at once has nothing to queue behind.
Accepted(tx) ==
  \/ tx \in mempool
  \/ tx.nonce >= Len(mined) /\ tx.nonce \notin PoolNonces
     /\ (AutoMine => tx.nonce = Len(mined))

\* How it can end when it is mined: a transfer succeeds, a claim may revert.
Outcomes(tx) ==
  IF tx.phase # "token" THEN {TRUE}
  ELSE {ok \in BOOLEAN : /\ ok => Claimable(tx.job)
                         /\ ok \/ MayRevert \/ ~Claimable(tx.job)}

MineAs(tx, ok) ==
  mined' = Append(mined, [job |-> tx.job, phase |-> tx.phase, ok |-> ok])

Mine ==
  \E tx \in mempool : \E ok \in Outcomes(tx) :
    /\ tx.nonce = Len(mined)
    /\ MineAs(tx, ok)
    /\ mempool' = mempool \ {tx}
    /\ UNCHANGED <<rows, pc, locals, used>>

\* The node accepts a transaction.  One that mines at once reports a revert
\* as the error of the submission itself.
Accept(tx, ok) ==
  IF AutoMine THEN MineAs(tx, ok) /\ UNCHANGED mempool
              ELSE mempool' = mempool \cup {tx} /\ UNCHANGED mined

Answers(tx) == IF AutoMine THEN Outcomes(tx) ELSE {TRUE}

\* The demo seed sends from the same account, past the reservation table.
ForeignSend ==
  /\ foreign < MaxForeign
  /\ foreign' = foreign + 1
  /\ \E n \in PendingNonces :
       Accept([job |-> NoJob, phase |-> "foreign", nonce |-> n], TRUE)
  /\ UNCHANGED <<rows, pc, locals, faults, retries>>

-----------------------------------------------------------------------------
(* The lease, and the ways a turn ends.                                    *)

J(p) == snap[p].job
Ph(p) == snap[p].phase
Stored(p) == outbox[J(p)][Ph(p)].nonce # NoNonce
MyTxSigned(p) ==
  [job |-> J(p), phase |-> Ph(p),
   nonce |-> IF nonce[p] # NoNonce THEN nonce[p] ELSE outbox[J(p)][Ph(p)].nonce]

\* What is broadcast is the stored transaction, not the one just signed.
MyTx(p) == [job |-> J(p), phase |-> Ph(p), nonce |-> outbox[J(p)][Ph(p)].nonce]

\* WHERE locked_by = me AND version = mine: the guard of every job update.
Holds(p) ==
  job[J(p)].lockedBy = WorkerId[p] /\ job[J(p)].version = snap[p].version

OwnsJobLease(p) == Holds(p) /\ ~job[J(p)].ready

\* A guarded update of the worker's job row: nothing when the guard fails.
UpdateJob(p, row) == job' = IF Holds(p) THEN [job EXCEPT ![J(p)] = row] ELSE job

Goto(p, point) == pc' = [pc EXCEPT ![p] = point]

EndTurn(p) ==
  /\ Goto(p, "idle")
  /\ snap' = [snap EXCEPT ![p] = NoSnap]
  /\ floor' = [floor EXCEPT ![p] = NoNonce]
  /\ nonce' = [nonce EXCEPT ![p] = NoNonce]
  /\ sent' = [sent EXCEPT ![p] = FALSE]

LifecycleOfStatus(status) == status

\* An error status also decides the lifecycle.
LifecycleOf(status) ==
  CASE status = "failed" -> "funding_failed"
    [] status = "needs_manual_review" -> "needs_manual_review"
    [] OTHER -> "blocked"

MarkJobError(p, status) ==
  UpdateJob(p, [job[J(p)] EXCEPT !.status[Ph(p)] = status,
                                 !.lifecycle = LifecycleOf(status),
                                 !.lockedBy = NoOwner, !.leaseLive = FALSE,
                                 !.due = FALSE])

-----------------------------------------------------------------------------
(* acquireJob and the start of processJob.                                 *)

EligibleUnlocked(j) ==
  /\ ~job[j].ready /\ job[j].lifecycle \in Retryable /\ job[j].due
  /\ job[j].lockedBy = NoOwner

Eligible(j) ==
  /\ ~job[j].ready /\ job[j].lifecycle \in Retryable /\ job[j].due
  /\ job[j].lockedBy = NoOwner \/ ~job[j].leaseLive

FreshVersionUnchecked(j, v) == v = 1

FreshVersion(j, v) ==
  \A q \in Procs : snap[q].job = j => snap[q].version # v

PhaseOfStarted(status) == IF status["gas"] = "not_started" THEN "gas" ELSE "token"

PhaseOf(status) == IF status["gas"] # "confirmed" THEN "gas" ELSE "token"

Acquire(p, j) ==
  /\ pc[p] = "idle"
  /\ Eligible(j) /\ \A k \in Jobs : Eligible(k) => j <= k
  /\ \E v \in Versions :
       /\ FreshVersion(j, v)
       /\ job' = [job EXCEPT ![j] = [@ EXCEPT !.lockedBy = WorkerId[p],
                                      !.leaseLive = TRUE, !.version = v]]
       /\ LET ph == PhaseOf(job[j].status)
              st == job[j].status[ph]
          IN /\ snap' = [snap EXCEPT ![p] =
                    [job |-> j, version |-> v, phase |-> ph, status |-> st]]
             /\ Goto(p, IF st = "confirmed" THEN "complete" ELSE "lookup")
  /\ UNCHANGED <<outbox, nextNonce, chain, floor, nonce, sent, used>>

\* releaseJob; or, when both phases were confirmed already, the job is settled.
Release(p) ==
  /\ pc[p] \in {"release", "complete"}
  /\ LET free == [job[J(p)] EXCEPT !.lockedBy = NoOwner, !.leaseLive = FALSE]
     IN UpdateJob(p, IF pc[p] = "complete"
                     THEN [free EXCEPT !.lifecycle = "ready", !.ready = TRUE]
                     ELSE [free EXCEPT !.due = FALSE])
  /\ EndTurn(p)
  /\ UNCHANGED <<outbox, nextNonce, chain, used>>

-----------------------------------------------------------------------------
(* processPhase, once it has an outbox row: what the status it read at     *)
(* acquisition calls for.                                                  *)

WithOutbox(p) ==
  LET st == snap[p].status IN
  /\ Goto(p, IF st \in {"not_started", "signed"} THEN "checkLease" ELSE "receipt")
  /\ sent' = [sent EXCEPT ![p] = st \notin {"not_started", "signed",
                                            "broadcast", "pending"}]

LookUp(p) ==
  /\ pc[p] = "lookup"
  /\ \/ /\ Stored(p) /\ WithOutbox(p)
     \/ /\ ~Stored(p)
        /\ Goto(p, IF snap[p].status = "not_started" THEN "prepare" ELSE "missing")
        /\ UNCHANGED sent
  /\ UNCHANGED <<rows, chain, snap, floor, nonce, used>>

\* OUTBOX_MISSING: the job is blocked and the turn ends.
Missing(p) ==
  /\ pc[p] = "missing"
  /\ MarkJobError(p, "blocked")
  /\ Goto(p, "release")
  /\ UNCHANGED <<outbox, nextNonce, chain, locals, used>>

-----------------------------------------------------------------------------
(* preparePhase: reserve a nonce, sign, store, mark the job signed.        *)

Prepare(p) ==
  /\ pc[p] = "prepare"
  /\ Goto(p, IF OwnsJobLease(p) THEN "recheck" ELSE "missing")
  /\ UNCHANGED <<rows, chain, locals, used>>

Recheck(p) ==
  /\ pc[p] = "recheck"
  /\ \/ Stored(p) /\ WithOutbox(p)
     \/ ~Stored(p) /\ Goto(p, "readNonce") /\ UNCHANGED sent
  /\ UNCHANGED <<rows, chain, snap, floor, nonce, used>>

ReadNonce(p) ==
  /\ pc[p] = "readNonce"
  /\ \E n \in PendingNonces : floor' = [floor EXCEPT ![p] = n]
  /\ Goto(p, "readOutbox")
  /\ UNCHANGED <<rows, chain, snap, nonce, sent, used>>

\* The nonces of the rows still in flight, by their recorded status.
Unsettled ==
  {row.nonce : row \in
     {r \in UNION {Range(outbox[j]) : j \in Jobs} : r.status \in {"signed", "broadcast"}}}

\* providerNonce > MAX(nonce) + 1, when there is a row to take the MAX of.
NonceGap(p) ==
  Unsettled # {} /\ \A n \in Unsettled : n + 1 < floor[p]

ReadOutbox(p) ==
  /\ pc[p] = "readOutbox"
  /\ \/ NonceGap(p) /\ Goto(p, "catchReview") /\ UNCHANGED floor
     \/ /\ ~NonceGap(p)
        /\ \E n \in {floor[p]} \cup {u + 1 : u \in Unsettled} :
             /\ \A u \in Unsettled : u + 1 <= n
             /\ n >= floor[p]
             /\ floor' = [floor EXCEPT ![p] = n]
        /\ Goto(p, "upsert")
  /\ UNCHANGED <<rows, chain, snap, nonce, sent, used>>

\* next_nonce = GREATEST(next_nonce, EXCLUDED.next_nonce)
GreatestNew(old, new) == new

Greatest(old, new) == IF new > old THEN new ELSE old

Upsert(p) ==
  /\ pc[p] = "upsert"
  /\ nextNonce' = Greatest(nextNonce, floor[p])
  /\ Goto(p, "reserve")
  /\ UNCHANGED <<job, outbox, chain, locals, used>>

\* SELECT ... FOR UPDATE and the increment, in one SQL transaction.
Reserve(p) ==
  /\ pc[p] = "reserve"
  /\ nonce' = [nonce EXCEPT ![p] = nextNonce]
  /\ nextNonce' = nextNonce + 1
  /\ Goto(p, "sign")
  /\ UNCHANGED <<job, outbox, chain, snap, floor, sent, used>>

\* estimateGas reverts on a claim the faucet would refuse.
Sign(p) ==
  /\ pc[p] = "sign"
  /\ Goto(p, IF Ph(p) = "token" /\ ~Claimable(J(p)) THEN "catchBlocked"
                                                    ELSE "persist")
  /\ UNCHANGED <<rows, chain, locals, used>>

Persist(p) ==
  /\ pc[p] = "persist"
  /\ Goto(p, IF OwnsJobLease(p) THEN "insert" ELSE "collect")
  /\ UNCHANGED <<rows, chain, locals, used>>

\* ON CONFLICT (job, phase) DO NOTHING; a nonce in use is an error.
InsertableAlways(p) == TRUE

Insertable(p) == ~Stored(p)

NonceUnused(p) == \A j \in Jobs, ph \in Phases : outbox[j][ph].nonce # nonce[p]

Insert(p) ==
  /\ pc[p] = "insert"
  /\ \/ ~Insertable(p) /\ Goto(p, "collect") /\ UNCHANGED outbox
     \/ /\ Insertable(p)
        /\ outbox' = IF NonceUnused(p)
                     THEN [outbox EXCEPT ![J(p)][Ph(p)] =
                             [nonce |-> nonce[p], status |-> "signed"]]
                     ELSE outbox
        /\ Goto(p, IF NonceUnused(p) THEN "checkSigned" ELSE "catchBlocked")
  /\ UNCHANGED <<job, nextNonce, chain, locals, used>>

CheckSigned(p) ==
  /\ pc[p] = "checkSigned"
  /\ Goto(p, IF OwnsJobLease(p) THEN "setSigned" ELSE "collect")
  /\ UNCHANGED <<rows, chain, locals, used>>

SetPhaseSigned(p) ==
  /\ pc[p] = "setSigned"
  /\ UpdateJob(p, [job[J(p)] EXCEPT !.status[Ph(p)] = "signed",
                                    !.lifecycle = "funding_pending"])
  /\ Goto(p, "collect")
  /\ UNCHANGED <<outbox, nextNonce, chain, locals, used>>

Collect(p) ==
  /\ pc[p] = "collect"
  /\ \/ Stored(p) /\ WithOutbox(p)
     \/ ~Stored(p) /\ Goto(p, "missing") /\ UNCHANGED sent
  /\ UNCHANGED <<rows, chain, snap, floor, nonce, used>>

-----------------------------------------------------------------------------
(* broadcastOutbox.                                                        *)

CheckLease(p) ==
  /\ pc[p] = "checkLease"
  /\ Goto(p, IF OwnsJobLease(p) THEN "broadcast" ELSE "release")
  /\ UNCHANGED <<rows, chain, locals, used>>

Broadcast(p) ==
  /\ pc[p] = "broadcast"
  /\ \/ /\ Accepted(MyTx(p))
        /\ \E ok \in Answers(MyTx(p)) :
             /\ Accept(MyTx(p), ok)
             /\ Goto(p, IF ok THEN "outboxBroadcast" ELSE "catchBlocked")
     \/ ~Accepted(MyTx(p)) /\ Goto(p, "catchBlocked") /\ UNCHANGED chain
  /\ UNCHANGED <<rows, locals, used>>

\* This update and the one in OutboxConfirmed are not guarded by the lease.
OutboxBroadcast(p) ==
  /\ pc[p] = "outboxBroadcast"
  /\ outbox' = [outbox EXCEPT ![J(p)][Ph(p)].status = "broadcast"]
  /\ Goto(p, "jobBroadcast")
  /\ UNCHANGED <<job, nextNonce, chain, locals, used>>

JobBroadcast(p) ==
  /\ pc[p] = "jobBroadcast"
  /\ UpdateJob(p, [job[J(p)] EXCEPT !.status[Ph(p)] = "broadcast"])
  /\ sent' = [sent EXCEPT ![p] = TRUE]
  /\ Goto(p, "receipt")
  /\ UNCHANGED <<outbox, nextNonce, chain, snap, floor, nonce, used>>

-----------------------------------------------------------------------------
(* finalizePhaseIfReady.  When it returns false before the broadcast, the  *)
(* turn goes on with the broadcast; after it, the turn is over.            *)

AfterNotFinal(p) == IF sent[p] THEN "release" ELSE "checkLease"

SucceededUnchecked(n) == TRUE

\* receipt.status = 1; a claim that succeeded also logged its FaucetClaimed.
Succeeded(n) == mined[n + 1].ok

ReadReceipt(p) ==
  LET n == outbox[J(p)][Ph(p)].nonce IN
  /\ pc[p] = "receipt"
  /\ \/ ~IsMinedAt(n, J(p), Ph(p)) /\ Goto(p, "pending")
     \/ /\ IsMinedAt(n, J(p), Ph(p))
        /\ Goto(p, IF Succeeded(n) THEN "confirm" ELSE "reverted")
  /\ UNCHANGED <<rows, chain, locals, used>>

Pending(p) ==
  /\ pc[p] = "pending"
  /\ UpdateJob(p, [job[J(p)] EXCEPT !.status[Ph(p)] = "pending"])
  /\ Goto(p, AfterNotFinal(p))
  /\ UNCHANGED <<outbox, nextNonce, chain, locals, used>>

Reverted(p) ==
  /\ pc[p] = "reverted"
  /\ MarkJobError(p, "failed")
  /\ Goto(p, AfterNotFinal(p))
  /\ UNCHANGED <<outbox, nextNonce, chain, locals, used>>

Confirm(p) ==
  /\ pc[p] = "confirm"
  /\ LET row == [job[J(p)] EXCEPT !.status[Ph(p)] = "confirmed"]
     IN UpdateJob(p, IF Ph(p) = "token"
                     THEN [row EXCEPT !.lifecycle = "ready", !.ready = TRUE]
                     ELSE row)
  /\ Goto(p, "outboxConfirmed")
  /\ UNCHANGED <<outbox, nextNonce, chain, locals, used>>

OutboxConfirmed(p) ==
  /\ pc[p] = "outboxConfirmed"
  /\ outbox' = [outbox EXCEPT ![J(p)][Ph(p)].status = "confirmed"]
  /\ Goto(p, "release")
  /\ UNCHANGED <<job, nextNonce, chain, locals, used>>

-----------------------------------------------------------------------------
(* The catch of processJob, and what may throw or stop it.                 *)

CatchError(p) ==
  /\ \/ pc[p] = "catchBlocked" /\ MarkJobError(p, "blocked")
     \/ pc[p] = "catchReview" /\ MarkJobError(p, "needs_manual_review")
  /\ EndTurn(p)
  /\ UNCHANGED <<outbox, nextNonce, chain, used>>

Fail(point) ==
  /\ point \in FaultPoints /\ faults < MaxFaults
  /\ faults' = faults + 1
  /\ UNCHANGED <<retries, foreign>>

\* The statement or the RPC a worker waits for throws.  When it throws after
\* it took effect, that is its step and then a throw at the next point.
Throw(p) ==
  /\ pc[p] \in WorkPoints \ {"catchBlocked", "catchReview"}
  /\ Fail(pc[p])
  /\ Goto(p, "catchBlocked")
  /\ UNCHANGED <<rows, chain, locals>>

\* The process stops, or throws inside the catch: its locals are gone, and
\* the lease stays on the row until it expires.
Crash(p) ==
  /\ pc[p] \in WorkPoints
  /\ Fail(pc[p])
  /\ EndTurn(p)
  /\ UNCHANGED <<rows, chain>>

\* A node that forgets an unmined transaction.
DropTx ==
  /\ Fail("drop")
  /\ \E tx \in mempool : mempool' = mempool \ {tx}
  /\ UNCHANGED <<rows, mined, pc, locals>>

-----------------------------------------------------------------------------
(* The rest of the backend, and time.                                      *)

\* createFundingJobInTransaction, in the order of created_at.
CreateFundingJob(j) ==
  /\ job[j].lifecycle = "wallet_missing"
  /\ \A k \in Jobs : k < j => job[k].lifecycle # "wallet_missing"
  /\ job' = [job EXCEPT ![j].lifecycle = "funding_pending", ![j].due = TRUE]
  /\ UNCHANGED <<outbox, nextNonce, chain, pc, locals, used>>

\* enqueueFundingRetry: the user asks for a retry, whoever holds the lease.
EnqueueFundingRetry(j) ==
  /\ retries < MaxRetries
  /\ ~job[j].ready /\ job[j].lifecycle \in Retryable
  /\ LET st == job[j].status
         gasStatus == IF st["gas"] = "confirmed" THEN "confirmed" ELSE "not_started"
         tokenStatus == IF st["token"] # "confirmed" /\ st["gas"] = "confirmed"
                        THEN "not_started" ELSE st["token"]
     IN job' = [job EXCEPT ![j] = [@ EXCEPT !.due = TRUE,
                  !.lifecycle = "funding_pending",
                  !.status = [ph \in Phases |-> IF ph = "gas" THEN gasStatus
                                                ELSE tokenStatus]]]
  /\ retries' = retries + 1
  /\ UNCHANGED <<outbox, nextNonce, chain, pc, locals, faults, foreign>>

\* next_retry_at passes.
BecomeDue(j) ==
  /\ job[j].lifecycle \in Retryable /\ ~job[j].ready /\ ~job[j].due
  /\ job' = [job EXCEPT ![j].due = TRUE]
  /\ UNCHANGED <<outbox, nextNonce, chain, pc, locals, used>>

\* locked_until passes: over a worker that is gone, or over a slow one.
LeaseExpires(j) ==
  LET held == \E p \in Procs : J(p) = j /\ Holds(p) IN
  /\ job[j].leaseLive /\ ~job[j].ready
  /\ job' = [job EXCEPT ![j].leaseLive = FALSE]
  /\ IF held THEN Fail("stall") ELSE UNCHANGED used
  /\ UNCHANGED <<outbox, nextNonce, chain, pc, locals>>

-----------------------------------------------------------------------------
Prepares(p) ==
  \/ Prepare(p) \/ Recheck(p) \/ ReadNonce(p) \/ ReadOutbox(p) \/ Upsert(p)
  \/ Reserve(p) \/ Sign(p) \/ Persist(p) \/ Insert(p) \/ CheckSigned(p)
  \/ SetPhaseSigned(p) \/ Collect(p)

Sends(p) ==
  CheckLease(p) \/ Broadcast(p) \/ OutboxBroadcast(p) \/ JobBroadcast(p)

Finalizes(p) ==
  \/ ReadReceipt(p) \/ Pending(p) \/ Reverted(p) \/ Confirm(p)
  \/ OutboxConfirmed(p)

Works(p) ==
  \/ Release(p) \/ LookUp(p) \/ Missing(p) \/ CatchError(p)
  \/ Prepares(p) \/ Sends(p) \/ Finalizes(p)

Next ==
  \/ \E p \in Procs : \/ \E j \in Jobs : Acquire(p, j)
                      \/ Works(p) \/ Throw(p) \/ Crash(p)
  \/ \E j \in Jobs : \/ CreateFundingJob(j) \/ EnqueueFundingRetry(j)
                     \/ BecomeDue(j) \/ LeaseExpires(j)
  \/ Mine \/ ForeignSend \/ DropTx

Spec == Init /\ [][Next]_vars

\* What the scheduling gives: a worker that is not stopped finishes the turn
\* it is in and polls again, clocks run, wallets are created, the chain mines.
FairSpec ==
  /\ Spec
  /\ \A p \in Procs : WF_vars(Works(p)) /\ WF_vars(\E j \in Jobs : Acquire(p, j))
  /\ \A j \in Jobs : /\ WF_vars(CreateFundingJob(j)) /\ WF_vars(BecomeDue(j))
                     /\ WF_vars(LeaseExpires(j))
  /\ WF_vars(Mine)

\* On a node that mines at once no job is pending, and one that cannot go on
\* is blocked for 30 seconds, six polls: some polls find no older job due.
PollFairSpec ==
  /\ FairSpec
  /\ \A p \in Procs, j \in Jobs :
       /\ SF_vars(Acquire(p, j))
       /\ []<>(pc[p] = "idle" /\ \A k \in Jobs : Eligible(k) => j <= k)

-----------------------------------------------------------------------------
(* Properties.                                                             *)

JobRows ==
  [status : [Phases -> PhaseStatuses], lifecycle : Lifecycles, ready : BOOLEAN,
   lockedBy : WorkerIds \cup {NoOwner}, leaseLive : BOOLEAN,
   version : Versions \cup {0}, due : BOOLEAN]

Snaps ==
  [job : Jobs \cup {NoJob}, version : Versions \cup {0}, phase : Phases,
   status : PhaseStatuses]

Nonces == Nat \cup {NoNonce}

OutboxTable == [Jobs -> [Phases -> [nonce : Nonces, status : OutboxStatuses]]]

\* The worker's transactions, and the ones others send with its key.
PoolTxs ==
  [job : Jobs, phase : Phases, nonce : Nat]
    \cup [job : {NoJob}, phase : {"foreign"}, nonce : Nat]

MinedTxs ==
  [job : Jobs, phase : Phases, ok : BOOLEAN]
    \cup [job : {NoJob}, phase : {"foreign"}, ok : BOOLEAN]

\* Every table, the chain and the workers' locals have the shape the code
\* gives them; a worker in flight is on a job.
TypeOK ==
  /\ job \in [Jobs -> JobRows]
  /\ outbox \in OutboxTable
  /\ nextNonce \in Nat
  /\ mempool \subseteq PoolTxs
  /\ mined \in Seq(MinedTxs)
  /\ pc \in [Procs -> Points]
  /\ snap \in [Procs -> Snaps]
  /\ \A p \in Procs : pc[p] # "idle" => J(p) \in Jobs
  /\ floor \in [Procs -> Nonces] /\ nonce \in [Procs -> Nonces]
  /\ sent \in [Procs -> BOOLEAN]
  /\ faults \in Nat /\ retries \in Nat /\ foreign \in Nat

\* Two workers, even under one WORKER_ID, never both hold a job's lease: the
\* version alone keeps a worker whose lease ran out from passing its checks.
LeaseExclusive ==
  \A p, q \in Procs :
    p # q /\ J(p) = J(q) /\ pc[p] # "idle" /\ pc[q] # "idle"
      => ~(Holds(p) /\ Holds(q))

\* The nonces reserved but not stored yet: the signer may still use them.
Signing == {"sign", "persist", "insert"}

\* A nonce a worker is signing with is on no stored transaction and is not
\* another worker's, so the table's UNIQUE(signer, nonce) never refuses a row.
ReservedNonceFresh ==
  \A p \in Procs : pc[p] \in Signing =>
    /\ NonceUnused(p)
    /\ \A q \in Procs \ {p} : pc[q] \in Signing => nonce[q] # nonce[p]

\* Nothing reaches the chain that the outbox could not produce again after a
\* crash: what the node holds or mined is the stored transaction.
OnlyStoredIsSent ==
  /\ \A tx \in mempool : tx.job # NoJob => outbox[tx.job][tx.phase].nonce = tx.nonce
  /\ \A i \in 1..Len(mined) : mined[i].job # NoJob =>
       outbox[mined[i].job][mined[i].phase].nonce = i - 1

\* A wallet is paid its gas once and its tokens once, whatever is retried.
PaidOnce ==
  \A i, k \in 1..Len(mined) :
    mined[i].job # NoJob /\ mined[i].job = mined[k].job
      /\ mined[i].phase = mined[k].phase /\ mined[i].ok /\ mined[k].ok => i = k

\* funding_ready says that the wallet holds its gas and its tokens.
ReadyIsFunded ==
  \A j \in Jobs : job[j].ready => Paid(j, "gas") /\ Paid(j, "token")

\* Every wallet created while the chain could be reached is funded in the end.
CreatedIsFunded ==
  \A j \in Jobs \ Unconfigured : job[j].lifecycle = "funding_pending" ~> job[j].ready
=============================================================================
