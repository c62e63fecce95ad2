------------------------- MODULE FundingWorkerProofs -------------------------
(***************************************************************************)
(* Proofs about FundingWorker, for any workers, jobs and bounds.           *)
(***************************************************************************)
EXTENDS FundingInvariant, TLAPS

\* The ranges that every action writes from.
LEMMA Ranges ==
  /\ WorkPoints \subseteq Points /\ "idle" \in Points /\ "idle" \notin WorkPoints
  /\ NoSnap \in Snaps /\ NoNonce \in Nonces /\ NoJob \notin Jobs
BY JobsAssumption DEF WorkPoints, Points, NoSnap, Snaps, Nonces, NoNonce, NoJob,
   Phases, PhaseStatuses, LookupPoints, ReservePoints, StorePoints, SendPoints,
   FinalizePoints, EndPoints

\* A guarded update of the worker's row keeps the jobs typed.
LEMMA UpdateJobTyped ==
  ASSUME TypeOK, NEW p \in Procs, J(p) \in Jobs,
         NEW STATE row, row \in JobRows, UpdateJob(p, row)
  PROVE  job' \in [Jobs -> JobRows]
BY DEF UpdateJob, TypeOK

\* One field of a row is written at a time; each keeps it a row.
LEMMA RowWrites ==
  ASSUME NEW row \in JobRows
  PROVE  /\ \A ph \in Phases, st \in PhaseStatuses :
              [row EXCEPT !.status[ph] = st] \in JobRows
         /\ \A lc \in Lifecycles : [row EXCEPT !.lifecycle = lc] \in JobRows
         /\ \A v \in Versions, w \in WorkerIds :
              [row EXCEPT !.lockedBy = w, !.leaseLive = TRUE, !.version = v] \in JobRows
         /\ \A b \in BOOLEAN : [row EXCEPT !.due = b] \in JobRows
         /\ [row EXCEPT !.leaseLive = FALSE] \in JobRows
         /\ [row EXCEPT !.lockedBy = NoOwner, !.leaseLive = FALSE] \in JobRows
         /\ [row EXCEPT !.ready = TRUE] \in JobRows
BY DEF JobRows

LEMMA MarkTyped ==
  ASSUME TypeOK, NEW p \in Procs, J(p) \in Jobs,
         NEW st \in PhaseStatuses, MarkJobError(p, st)
  PROVE  job' \in [Jobs -> JobRows]
<1> DEFINE row == [job[J(p)] EXCEPT !.status[Ph(p)] = st,
                                 !.lifecycle = LifecycleOf(st),
                                 !.lockedBy = NoOwner, !.leaseLive = FALSE,
                                 !.due = FALSE]
<1>1. LifecycleOf(st) \in Lifecycles
  BY DEF LifecycleOf, Lifecycles
<1>2. job[J(p)] \in JobRows /\ Ph(p) \in Phases
  BY DEF TypeOK, Ph, Snaps
<1>3. row \in JobRows
  BY <1>1, <1>2 DEF JobRows
<1> QED
  BY <1>3, UpdateJobTyped DEF MarkJobError
\* A step inside a turn keeps the types when what it writes is typed.
LEMMA StepTyped ==
  ASSUME TypeOK, NEW p \in Procs, pc[p] # "idle", pc' \in [Procs -> Points],
         \A q \in Procs \ {p} : pc'[q] = pc[q],
         UNCHANGED snap,
         job' \in [Jobs -> JobRows], outbox' \in OutboxTable, nextNonce' \in Nat,
         mempool' \subseteq PoolTxs, mined' \in Seq(MinedTxs),
         floor' \in [Procs -> Nonces], nonce' \in [Procs -> Nonces],
         sent' \in [Procs -> BOOLEAN],
         faults' \in Nat, retries' \in Nat, foreign' \in Nat
  PROVE  TypeOK'
BY DEF TypeOK, J, OutboxTable, PoolTxs, MinedTxs

\* So does the end of a turn.
LEMMA EndTurnTyped ==
  ASSUME TypeOK, NEW p \in Procs, EndTurn(p),
         job' \in [Jobs -> JobRows], faults' \in Nat,
         UNCHANGED <<outbox, nextNonce, chain, retries, foreign>>
  PROVE  TypeOK'
BY Ranges DEF TypeOK, J, EndTurn, Goto, chain

LEMMA InFlight ==
  ASSUME TypeOK, NEW p \in Procs, pc[p] # "idle"
  PROVE  /\ J(p) \in Jobs /\ Ph(p) \in Phases /\ job[J(p)] \in JobRows
         /\ snap[p].status \in PhaseStatuses
         /\ outbox[J(p)][Ph(p)] \in [nonce : Nonces, status : OutboxStatuses]
BY DEF TypeOK, J, Ph, Snaps, OutboxTable

LEMMA GotoTyped ==
  ASSUME TypeOK, NEW p \in Procs, NEW STATE point, point \in WorkPoints, Goto(p, point)
  PROVE  pc' \in [Procs -> Points] /\ \A q \in Procs \ {p} : pc'[q] = pc[q]
BY Ranges DEF TypeOK, Goto

LEMMA AcquireTyped ==
  ASSUME TypeOK, NEW p \in Procs, NEW j \in Jobs, Acquire(p, j)
  PROVE  TypeOK'
<1>1. PICK v \in Versions :
        /\ job' = [job EXCEPT ![j] = [@ EXCEPT !.lockedBy = WorkerId[p],
                                      !.leaseLive = TRUE, !.version = v]]
        /\ snap' = [snap EXCEPT ![p] =
             [job |-> j, version |-> v, phase |-> PhaseOf(job[j].status),
              status |-> job[j].status[PhaseOf(job[j].status)]]]
        /\ Goto(p, IF job[j].status[PhaseOf(job[j].status)] = "confirmed"
                   THEN "complete" ELSE "lookup")
  BY DEF Acquire
<1>2. job[j] \in JobRows /\ WorkerId[p] \in WorkerIds
  BY DEF TypeOK, WorkerIds
<1>3. job' \in [Jobs -> JobRows]
  BY <1>1, <1>2, RowWrites DEF TypeOK
<1>4. snap' \in [Procs -> Snaps] /\ snap'[p].job = j
  <2>1. PhaseOf(job[j].status) \in Phases
    BY DEF PhaseOf, Phases
  <2>2. job[j].status[PhaseOf(job[j].status)] \in PhaseStatuses
    BY <1>2, <2>1 DEF JobRows
  <2> QED
    BY <1>1, <2>1, <2>2 DEF TypeOK, Snaps
<1>5. "complete" \in Points /\ "lookup" \in Points
  BY DEF Points, WorkPoints, EndPoints, LookupPoints
<1>6. pc' \in [Procs -> Points]
  BY <1>1, <1>5 DEF TypeOK, Goto
<1>7. \A q \in Procs : pc'[q] # "idle" => snap'[q].job \in Jobs
  BY <1>1, <1>4, <1>6 DEF TypeOK, Goto, J
<1> QED
  BY <1>3, <1>4, <1>6, <1>7 DEF TypeOK, J, Acquire, chain, used
LEMMA Typed ==
  ASSUME TypeOK
  PROVE  /\ job \in [Jobs -> JobRows] /\ outbox \in OutboxTable /\ nextNonce \in Nat
         /\ mempool \subseteq PoolTxs /\ mined \in Seq(MinedTxs)
         /\ pc \in [Procs -> Points] /\ snap \in [Procs -> Snaps]
         /\ floor \in [Procs -> Nonces] /\ nonce \in [Procs -> Nonces]
         /\ sent \in [Procs -> BOOLEAN]
         /\ faults \in Nat /\ retries \in Nat /\ foreign \in Nat
         /\ Len(mined) \in Nat
BY DEF TypeOK, OutboxTable, PoolTxs, MinedTxs

LEMMA PointNames ==
  /\ LookupPoints \cup ReservePoints \cup StorePoints \cup SendPoints
       \cup FinalizePoints \cup EndPoints \subseteq WorkPoints
  /\ "lookup" \in LookupPoints /\ "prepare" \in LookupPoints
  /\ "recheck" \in LookupPoints /\ "collect" \in LookupPoints
  /\ "readNonce" \in ReservePoints /\ "readOutbox" \in ReservePoints
  /\ "upsert" \in ReservePoints /\ "reserve" \in ReservePoints
  /\ StorePoints = {"sign", "persist", "insert", "checkSigned", "setSigned"}
  /\ SendPoints = {"checkLease", "broadcast", "outboxBroadcast", "jobBroadcast"}
  /\ FinalizePoints = {"receipt", "pending", "reverted", "confirm", "outboxConfirmed"}
  /\ EndPoints = {"missing", "complete", "release", "catchBlocked", "catchReview"}
BY DEF WorkPoints, LookupPoints, ReservePoints, StorePoints, SendPoints,
   FinalizePoints, EndPoints

LEMMA PendingTyped ==
  ASSUME TypeOK, NEW n \in PendingNonces
  PROVE  n \in Nat
BY Typed DEF PendingNonces, PoolTxs

LEMMA UnsettledTyped ==
  ASSUME TypeOK, NEW n \in Unsettled
  PROVE  n \in Nonces
BY Typed DEF Unsettled, OutboxTable, Range

\* A row of the outbox written as a whole, or its status alone.
LEMMA RowTyped ==
  ASSUME TypeOK, NEW j \in Jobs, NEW ph \in Phases,
         NEW STATE row, row \in [nonce : Nonces, status : OutboxStatuses],
         outbox' = [outbox EXCEPT ![j][ph] = row]
  PROVE  outbox' \in OutboxTable
<1>1. [outbox[j] EXCEPT ![ph] = row] \in [Phases -> [nonce : Nonces, status : OutboxStatuses]]
  BY Typed DEF OutboxTable
<1> QED
  BY <1>1, Typed DEF OutboxTable

LEMMA RowStatusTyped ==
  ASSUME TypeOK, NEW j \in Jobs, NEW ph \in Phases, NEW st \in OutboxStatuses,
         outbox' = [outbox EXCEPT ![j][ph].status = st]
  PROVE  outbox' \in OutboxTable
<1> DEFINE row == [outbox[j][ph] EXCEPT !.status = st]
<1>0. outbox[j][ph] \in [nonce : Nonces, status : OutboxStatuses]
  BY Typed DEF OutboxTable
<1>1. row \in [nonce : Nonces, status : OutboxStatuses]
  BY <1>0
<1>2. [outbox[j] EXCEPT ![ph] = row] \in [Phases -> [nonce : Nonces, status : OutboxStatuses]]
  BY <1>1, Typed DEF OutboxTable
<1>3. outbox' = [outbox EXCEPT ![j] = [outbox[j] EXCEPT ![ph] = row]]
  BY Typed DEF OutboxTable
<1> QED
  BY <1>2, <1>3, Typed DEF OutboxTable

\* processPhase's branch writes the point and the flag.
LEMMA WithOutboxTyped ==
  ASSUME TypeOK, NEW p \in Procs, WithOutbox(p)
  PROVE  /\ pc' \in [Procs -> Points] /\ \A q \in Procs \ {p} : pc'[q] = pc[q]
         /\ sent' \in [Procs -> BOOLEAN]
<1>1. "checkLease" \in WorkPoints /\ "receipt" \in WorkPoints
  BY PointNames
<1> QED
  BY <1>1, GotoTyped, Typed DEF WithOutbox

LEMMA PreparesTyped ==
  ASSUME TypeOK, NEW p \in Procs, Prepares(p)
  PROVE  TypeOK'
<1> USE DEF rows, chain, locals, used
<1>1. CASE Prepare(p)
  BY <1>1, StepTyped, Typed, GotoTyped, PointNames DEF Prepare
<1>2. CASE Recheck(p)
  BY <1>2, StepTyped, Typed, GotoTyped, WithOutboxTyped, PointNames DEF Recheck
<1>3. CASE ReadNonce(p)
  <2>1. floor' \in [Procs -> Nonces]
    BY <1>3, Typed, PendingTyped DEF ReadNonce, Nonces
  <2> QED
    BY <1>3, <2>1, StepTyped, Typed, GotoTyped, PointNames DEF ReadNonce
<1>4. CASE ReadOutbox(p)
  <2>1. floor' \in [Procs -> Nonces]
    <3>1. CASE NonceGap(p)
      BY <1>4, <3>1, Typed DEF ReadOutbox
    <3>2. CASE ~NonceGap(p)
      <4>1. PICK n \in {floor[p]} \cup {u + 1 : u \in Unsettled} :
              floor' = [floor EXCEPT ![p] = n]
        BY <1>4, <3>2 DEF ReadOutbox
      <4>2. n \in Nonces
        BY UnsettledTyped, Typed DEF Nonces, NoNonce
      <4> QED
        BY <4>1, <4>2, Typed
    <3> QED
      BY <3>1, <3>2
  <2> QED
    BY <1>4, <2>1, StepTyped, Typed, GotoTyped, PointNames DEF ReadOutbox<1>5. CASE Upsert(p)
  <2>1. nextNonce' \in Nat
    BY <1>5, Typed DEF Upsert, Greatest, Nonces, NoNonce
  <2> QED
    BY <1>5, <2>1, StepTyped, Typed, GotoTyped, PointNames DEF Upsert
<1>6. CASE Reserve(p)
  <2>1. nextNonce' \in Nat /\ nonce' \in [Procs -> Nonces]
    BY <1>6, Typed DEF Reserve, Nonces
  <2> QED
    BY <1>6, <2>1, StepTyped, Typed, GotoTyped, PointNames DEF Reserve
<1>7. CASE Sign(p)
  BY <1>7, StepTyped, Typed, GotoTyped, PointNames DEF Sign
<1>8. CASE Persist(p)
  BY <1>8, StepTyped, Typed, GotoTyped, PointNames DEF Persist
<1>9. CASE Insert(p)
  <2>1. outbox' \in OutboxTable
    <3>1. nonce[p] \in Nonces /\ "signed" \in OutboxStatuses
      BY Typed DEF OutboxStatuses
    <3> QED
      BY <1>9, <3>1, Typed, InFlight, RowTyped DEF Insert
  <2> QED
    BY <1>9, <2>1, StepTyped, Typed, GotoTyped, PointNames DEF Insert
<1>10. CASE CheckSigned(p)
  BY <1>10, StepTyped, Typed, GotoTyped, PointNames DEF CheckSigned
<1>11. CASE SetPhaseSigned(p)
  <2>1. job' \in [Jobs -> JobRows]
    <3>1. "signed" \in PhaseStatuses /\ "funding_pending" \in Lifecycles
      BY DEF PhaseStatuses, Lifecycles
    <3>2. [job[J(p)] EXCEPT !.status[Ph(p)] = "signed",
                            !.lifecycle = "funding_pending"] \in JobRows
      BY <1>11, <3>1, InFlight DEF SetPhaseSigned, JobRows
    <3> QED
      BY <1>11, <3>2, UpdateJobTyped, InFlight DEF SetPhaseSigned
  <2> QED
    BY <1>11, <2>1, StepTyped, Typed, GotoTyped, PointNames DEF SetPhaseSigned
<1>12. CASE Collect(p)
  BY <1>12, StepTyped, Typed, GotoTyped, WithOutboxTyped, PointNames DEF Collect
<1> QED
  BY <1>1, <1>2, <1>3, <1>4, <1>5, <1>6, <1>7, <1>8, <1>9, <1>10, <1>11, <1>12
  DEF Prepares

\* What the node mines or takes is typed.
LEMMA AcceptTyped ==
  ASSUME TypeOK, NEW STATE tx, tx \in PoolTxs, NEW ok \in BOOLEAN, Accept(tx, ok)
  PROVE  mempool' \subseteq PoolTxs /\ mined' \in Seq(MinedTxs)
<1> DEFINE block == [job |-> tx.job, phase |-> tx.phase, ok |-> ok]
<1>1. block \in MinedTxs
  BY DEF PoolTxs, MinedTxs
<1>2. Append(mined, block) \in Seq(MinedTxs)
  BY <1>1, Typed
<1> QED
  BY <1>2, Typed DEF Accept, MineAs

LEMMA SendsTyped ==
  ASSUME TypeOK, NEW p \in Procs, Sends(p), RowBehind
  PROVE  TypeOK'
<1> USE DEF rows, chain, locals, used
<1>1. CASE CheckLease(p)
  BY <1>1, StepTyped, Typed, GotoTyped, PointNames DEF CheckLease
<1>2. CASE Broadcast(p)
  <2>1. MyTx(p) \in PoolTxs
    <3>1. Stored(p)
      BY <1>2, PointNames DEF Broadcast, RowBehind, RowPoints
    <3> QED
      BY <1>2, <3>1, InFlight DEF Broadcast, Stored, MyTx, PoolTxs, Nonces
  <2>2. mempool' \subseteq PoolTxs /\ mined' \in Seq(MinedTxs)
    <3>1. CASE Accepted(MyTx(p))
      <4>1. PICK ok \in Answers(MyTx(p)) : Accept(MyTx(p), ok)
        BY <1>2, <3>1 DEF Broadcast
      <4>2. ok \in BOOLEAN
        BY DEF Answers, Outcomes
      <4> QED
        BY <2>1, <4>1, <4>2, AcceptTyped
    <3>2. CASE ~Accepted(MyTx(p))
      BY <1>2, <3>2, Typed DEF Broadcast
    <3> QED
      BY <3>1, <3>2
  <2>3. pc' \in [Procs -> Points] /\ \A q \in Procs \ {p} : pc'[q] = pc[q]
    BY <1>2, GotoTyped, PointNames DEF Broadcast
  <2> QED
    BY <1>2, <2>2, <2>3, StepTyped, Typed DEF Broadcast
<1>3. CASE OutboxBroadcast(p)
  <2>1. outbox' \in OutboxTable
    <3>1. "broadcast" \in OutboxStatuses
      BY DEF OutboxStatuses
    <3> QED
      BY <1>3, <3>1, InFlight, RowStatusTyped DEF OutboxBroadcast
  <2> QED
    BY <1>3, <2>1, StepTyped, Typed, GotoTyped, PointNames DEF OutboxBroadcast
<1>4. CASE JobBroadcast(p)
  <2>1. job' \in [Jobs -> JobRows]
    <3>1. "broadcast" \in PhaseStatuses
      BY DEF PhaseStatuses
    <3> QED
      BY <1>4, <3>1, RowWrites, UpdateJobTyped, InFlight DEF JobBroadcast
  <2> QED
    BY <1>4, <2>1, StepTyped, Typed, GotoTyped, PointNames DEF JobBroadcast
<1> QED
  BY <1>1, <1>2, <1>3, <1>4 DEF Sends

LEMMA FinalizesTyped ==
  ASSUME TypeOK, NEW p \in Procs, Finalizes(p)
  PROVE  TypeOK'
<1> USE DEF rows, chain, locals, used
<1>0. AfterNotFinal(p) \in WorkPoints
  BY PointNames DEF AfterNotFinal
<1>1. CASE ReadReceipt(p)
  BY <1>1, StepTyped, Typed, GotoTyped, PointNames DEF ReadReceipt
<1>2. CASE Pending(p)
  <2>1. job' \in [Jobs -> JobRows]
    <3>1. "pending" \in PhaseStatuses
      BY DEF PhaseStatuses
    <3> QED
      BY <1>2, <3>1, RowWrites, UpdateJobTyped, InFlight DEF Pending
  <2> QED
    BY <1>0, <1>2, <2>1, StepTyped, Typed, GotoTyped DEF Pending
<1>3. CASE Reverted(p)
  <2>1. job' \in [Jobs -> JobRows]
    <3>1. "failed" \in PhaseStatuses
      BY DEF PhaseStatuses
    <3> QED
      BY <1>3, <3>1, MarkTyped, InFlight DEF Reverted
  <2> QED
    BY <1>0, <1>3, <2>1, StepTyped, Typed, GotoTyped DEF Reverted
<1>4. CASE Confirm(p)
  <2>1. job' \in [Jobs -> JobRows]
    <3>1. "confirmed" \in PhaseStatuses /\ "ready" \in Lifecycles
      BY DEF PhaseStatuses, Lifecycles
    <3> DEFINE row == [job[J(p)] EXCEPT !.status[Ph(p)] = "confirmed"]
    <3>2. row \in JobRows
      BY <1>4, <3>1, RowWrites, InFlight DEF Confirm
    <3>3. [row EXCEPT !.lifecycle = "ready", !.ready = TRUE] \in JobRows
      BY <3>1, <3>2 DEF JobRows
    <3>4. UpdateJob(p, IF Ph(p) = "token"
                       THEN [row EXCEPT !.lifecycle = "ready", !.ready = TRUE]
                       ELSE row)
      BY <1>4 DEF Confirm
    <3> HIDE DEF row
    <3> QED
      BY <1>4, <3>2, <3>3, <3>4, UpdateJobTyped, InFlight DEF Confirm
  <2> QED
    BY <1>4, <2>1, StepTyped, Typed, GotoTyped, PointNames DEF Confirm
<1>5. CASE OutboxConfirmed(p)
  <2>1. outbox' \in OutboxTable
    <3>1. "confirmed" \in OutboxStatuses
      BY DEF OutboxStatuses
    <3> QED
      BY <1>5, <3>1, InFlight, RowStatusTyped DEF OutboxConfirmed
  <2> QED
    BY <1>5, <2>1, StepTyped, Typed, GotoTyped, PointNames DEF OutboxConfirmed
<1> QED
  BY <1>1, <1>2, <1>3, <1>4, <1>5 DEF Finalizes
LEMMA TurnsTyped ==
  ASSUME TypeOK, NEW p \in Procs,
         Release(p) \/ LookUp(p) \/ Missing(p) \/ CatchError(p)
           \/ Throw(p) \/ Crash(p)
  PROVE  TypeOK'
<1> USE DEF rows, chain, locals, used
<1>0. pc[p] # "idle"
  BY Ranges, PointNames DEF Release, LookUp, Missing, CatchError, Throw, Crash
<1>1. CASE Release(p)
  <2> DEFINE free == [job[J(p)] EXCEPT !.lockedBy = NoOwner, !.leaseLive = FALSE]
  <2>1. free \in JobRows
    BY <1>0, InFlight, RowWrites
  <2>2. [free EXCEPT !.lifecycle = "ready", !.ready = TRUE] \in JobRows
    BY <2>1 DEF JobRows, Lifecycles
  <2>3. [free EXCEPT !.due = FALSE] \in JobRows
    BY <2>1, RowWrites
  <2>4. UpdateJob(p, IF pc[p] = "complete"
                     THEN [free EXCEPT !.lifecycle = "ready", !.ready = TRUE]
                     ELSE [free EXCEPT !.due = FALSE])
    BY <1>1 DEF Release
  <2> HIDE DEF free
  <2>5. job' \in [Jobs -> JobRows]
    BY <1>0, <2>2, <2>3, <2>4, UpdateJobTyped, InFlight
  <2> QED
    BY <1>1, <2>5, EndTurnTyped, Typed DEF Release
<1>2. CASE LookUp(p)
  BY <1>0, <1>2, StepTyped, Typed, GotoTyped, WithOutboxTyped, PointNames DEF LookUp
<1>3. CASE Missing(p)
  <2>1. job' \in [Jobs -> JobRows]
    BY <1>0, <1>3, MarkTyped, InFlight DEF Missing, PhaseStatuses
  <2> QED
    BY <1>0, <1>3, <2>1, StepTyped, Typed, GotoTyped, PointNames DEF Missing
<1>4. CASE CatchError(p)
  <2>1. job' \in [Jobs -> JobRows]
    BY <1>0, <1>4, MarkTyped, InFlight DEF CatchError, PhaseStatuses
  <2> QED
    BY <1>4, <2>1, EndTurnTyped, Typed DEF CatchError
<1>5. CASE Throw(p)
  BY <1>0, <1>5, StepTyped, Typed, GotoTyped, PointNames DEF Throw, Fail
<1>6. CASE Crash(p)
  BY <1>6, EndTurnTyped, Typed DEF Crash, Fail
<1> QED
  BY <1>1, <1>2, <1>3, <1>4, <1>5, <1>6

\* A step of the backend, of time or of the chain moves no worker.
LEMMA OutsideTyped ==
  ASSUME TypeOK, UNCHANGED <<pc, locals, nextNonce, outbox>>,
         job' \in [Jobs -> JobRows],
         mempool' \subseteq PoolTxs, mined' \in Seq(MinedTxs),
         faults' \in Nat, retries' \in Nat, foreign' \in Nat
  PROVE  TypeOK'
BY DEF TypeOK, J, locals, OutboxTable, PoolTxs, MinedTxs

LEMMA ChainTyped ==
  ASSUME TypeOK, Mine \/ ForeignSend \/ DropTx
  PROVE  TypeOK'
<1> USE DEF rows, chain, used
<1>1. CASE Mine
  <2>1. PICK tx \in mempool : \E ok \in Outcomes(tx) :
          MineAs(tx, ok) /\ mempool' = mempool \ {tx} /\ UNCHANGED <<rows, pc, locals, used>>
    BY <1>1 DEF Mine
  <2>2. PICK ok \in Outcomes(tx) : MineAs(tx, ok)
    BY <2>1
  <2> DEFINE block == [job |-> tx.job, phase |-> tx.phase, ok |-> ok]
  <2>3. block \in MinedTxs
    <3>1. ok \in BOOLEAN
      BY <2>2 DEF Outcomes
    <3>2. tx \in PoolTxs
      BY Typed
    <3> QED
      BY <3>1, <3>2 DEF PoolTxs, MinedTxs
  <2>4. mined' \in Seq(MinedTxs)
    <3>1. Append(mined, block) \in Seq(MinedTxs)
      BY <2>3, Typed
    <3> QED
      BY <2>2, <3>1 DEF MineAs
  <2> QED
    BY <2>1, <2>4, OutsideTyped, Typed
<1>2. CASE ForeignSend
  <2>1. PICK n \in PendingNonces :
          Accept([job |-> NoJob, phase |-> "foreign", nonce |-> n], TRUE)
    BY <1>2 DEF ForeignSend
  <2>2. [job |-> NoJob, phase |-> "foreign", nonce |-> n] \in PoolTxs
    BY PendingTyped DEF PoolTxs
  <2>3. mempool' \subseteq PoolTxs /\ mined' \in Seq(MinedTxs)
    BY <2>1, <2>2, AcceptTyped
  <2> QED
    BY <1>2, <2>3, OutsideTyped, Typed DEF ForeignSend
<1>3. CASE DropTx
  BY <1>3, OutsideTyped, Typed DEF DropTx, Fail
<1> QED
  BY <1>1, <1>2, <1>3

LEMMA BackendTyped ==
  ASSUME TypeOK, NEW j \in Jobs,
         CreateFundingJob(j) \/ EnqueueFundingRetry(j) \/ BecomeDue(j) \/ LeaseExpires(j)
  PROVE  TypeOK'
<1> USE DEF chain, used
<1>0. job[j] \in JobRows
  BY Typed
<1>1. CASE CreateFundingJob(j)
  <2>1. [job[j] EXCEPT !.lifecycle = "funding_pending", !.due = TRUE] \in JobRows
    BY <1>0 DEF JobRows, Lifecycles
  <2>2. job' = [job EXCEPT ![j] = [@ EXCEPT !.lifecycle = "funding_pending", !.due = TRUE]]
    BY <1>1, Typed DEF CreateFundingJob
  <2>3. job' \in [Jobs -> JobRows]
    BY <2>1, <2>2, Typed
  <2> QED
    BY <1>1, <2>3, OutsideTyped, Typed DEF CreateFundingJob
<1>2. CASE EnqueueFundingRetry(j)
  <2> DEFINE st == job[j].status
             gasStatus == IF st["gas"] = "confirmed" THEN "confirmed" ELSE "not_started"
             tokenStatus == IF st["token"] # "confirmed" /\ st["gas"] = "confirmed"
                            THEN "not_started" ELSE st["token"]
             new == [ph \in Phases |-> IF ph = "gas" THEN gasStatus ELSE tokenStatus]
  <2>1. new \in [Phases -> PhaseStatuses]
    <3>1. st \in [Phases -> PhaseStatuses]
      BY <1>0 DEF JobRows
    <3>2. gasStatus \in PhaseStatuses /\ tokenStatus \in PhaseStatuses
      BY <3>1 DEF Phases, PhaseStatuses
    <3> HIDE DEF gasStatus, tokenStatus
    <3> QED
      BY <3>2
  <2>2. [job[j] EXCEPT !.due = TRUE, !.lifecycle = "funding_pending", !.status = new] \in JobRows
    <3> HIDE DEF new
    <3> QED
      BY <1>0, <2>1 DEF JobRows, Lifecycles
  <2>3. job' = [job EXCEPT ![j] = [@ EXCEPT !.due = TRUE, !.lifecycle = "funding_pending",
                                            !.status = new]]
    BY <1>2 DEF EnqueueFundingRetry
  <2>4. job' \in [Jobs -> JobRows]
    <3> HIDE DEF new
    <3> QED
      BY <2>2, <2>3, Typed
  <2> QED
    BY <1>2, <2>4, OutsideTyped, Typed DEF EnqueueFundingRetry
<1>3. CASE BecomeDue(j)
  <2>1. job' \in [Jobs -> JobRows]
    BY <1>0, <1>3, RowWrites, Typed DEF BecomeDue
  <2> QED
    BY <1>3, <2>1, OutsideTyped, Typed DEF BecomeDue
<1>4. CASE LeaseExpires(j)
  <2>1. job' \in [Jobs -> JobRows]
    BY <1>0, <1>4, RowWrites, Typed DEF LeaseExpires
  <2> QED
    BY <1>4, <2>1, OutsideTyped, Typed DEF LeaseExpires, Fail
<1> QED
  BY <1>1, <1>2, <1>3, <1>4

LEMMA TypeInit == Init => TypeOK
<1> SUFFICES ASSUME Init PROVE TypeOK
  OBVIOUS
<1>1. NewJob \in JobRows
  BY DEF NewJob, JobRows, Phases, PhaseStatuses, Lifecycles
<1>2. NoRow \in [nonce : Nonces, status : OutboxStatuses]
  BY DEF NoRow, Nonces, OutboxStatuses
<1>3. NoSnap \in Snaps /\ "idle" \in Points /\ NoNonce \in Nonces
  BY Ranges
<1> QED
  BY <1>1, <1>2, <1>3 DEF Init, TypeOK, OutboxTable, J

-----------------------------------------------------------------------------
(* What a step may touch.                                                  *)

\* A worker's step moves no other worker, keeps what it read of its job until
\* the turn ends, and reaches the signing and the stored points only one way.
LEMMA WorkFrame ==
  ASSUME TypeOK, NEW p \in Procs, Works(p) \/ Throw(p) \/ Crash(p)
  PROVE  /\ pc[p] # "idle"
         /\ \A q \in Procs \ {p} :
              pc'[q] = pc[q] /\ snap'[q] = snap[q] /\ nonce'[q] = nonce[q]
         /\ pc'[p] # "idle" => snap'[p] = snap[p]
         /\ nonce'[p] \in {nonce[p], NoNonce} \/ Reserve(p)
         /\ pc'[p] \in Signing =>
              Reserve(p) \/ (pc[p] \in Signing /\ nonce'[p] = nonce[p])
         /\ pc'[p] \in RowPoints =>
              pc[p] \in RowPoints \/ Stored(p)
                \/ (Insert(p) /\ Insertable(p) /\ NonceUnused(p))
         /\ pc'[p] \notin {"complete", "idle"} => pc[p] # "complete" \/ Throw(p)
         /\ pc'[p] # "complete"
         /\ pc'[p] = "confirm" => ReadReceipt(p)
         /\ pc'[p] = "outboxConfirmed" => Confirm(p)
<1> USE Typed DEF Goto, Signing, RowPoints, SendPoints, FinalizePoints, locals, NoNonce
<1>1. CASE Release(p)
  BY <1>1 DEF Release, EndTurn
<1>2. CASE LookUp(p)
  BY <1>2 DEF LookUp, WithOutbox
<1>3. CASE Missing(p)
  BY <1>3 DEF Missing
<1>4. CASE CatchError(p)
  BY <1>4 DEF CatchError, EndTurn
<1>5. CASE Prepare(p)
  BY <1>5 DEF Prepare
<1>6. CASE Recheck(p)
  BY <1>6 DEF Recheck, WithOutbox
<1>7. CASE ReadNonce(p)
  BY <1>7 DEF ReadNonce
<1>8. CASE ReadOutbox(p)
  BY <1>8 DEF ReadOutbox
<1>9. CASE Upsert(p)
  BY <1>9 DEF Upsert
<1>10. CASE Reserve(p)
  BY <1>10 DEF Reserve
<1>11. CASE Sign(p)
  BY <1>11 DEF Sign
<1>12. CASE Persist(p)
  BY <1>12 DEF Persist
<1>13. CASE Insert(p)
  BY <1>13 DEF Insert
<1>14. CASE CheckSigned(p)
  BY <1>14 DEF CheckSigned
<1>15. CASE SetPhaseSigned(p)
  BY <1>15 DEF SetPhaseSigned
<1>16. CASE Collect(p)
  BY <1>16 DEF Collect, WithOutbox
<1>17. CASE CheckLease(p)
  BY <1>17 DEF CheckLease
<1>18. CASE Broadcast(p)
  BY <1>18 DEF Broadcast
<1>19. CASE OutboxBroadcast(p)
  BY <1>19 DEF OutboxBroadcast
<1>20. CASE JobBroadcast(p)
  BY <1>20 DEF JobBroadcast
<1>21. CASE ReadReceipt(p)
  BY <1>21 DEF ReadReceipt
<1>22. CASE Pending(p)
  BY <1>22 DEF Pending, AfterNotFinal
<1>23. CASE Reverted(p)
  BY <1>23 DEF Reverted, AfterNotFinal
<1>24. CASE Confirm(p)
  BY <1>24 DEF Confirm
<1>25. CASE OutboxConfirmed(p)
  BY <1>25 DEF OutboxConfirmed
<1>26. CASE Throw(p)
  BY <1>26 DEF Throw, Fail, WorkPoints, LookupPoints, ReservePoints,
     StorePoints, EndPoints
<1>27. CASE Crash(p)
  BY <1>27 DEF Crash, EndTurn, Fail, WorkPoints, LookupPoints,
     ReservePoints, StorePoints, EndPoints
<1> QED
  BY <1>1, <1>2, <1>3, <1>4, <1>5, <1>6, <1>7, <1>8, <1>9, <1>10, <1>11,
     <1>12, <1>13, <1>14, <1>15, <1>16, <1>17, <1>18, <1>19, <1>20,
     <1>21, <1>22, <1>23, <1>24, <1>25, <1>26, <1>27
  DEF Works, Prepares, Sends, Finalizes
\* The steps of the chain, of the rest of the backend and of time.
Outside ==
  \/ \E j \in Jobs : \/ CreateFundingJob(j) \/ EnqueueFundingRetry(j)
                     \/ BecomeDue(j) \/ LeaseExpires(j)
  \/ Mine \/ ForeignSend \/ DropTx

LEMMA NextSplit ==
  Next <=> \/ \E p \in Procs, j \in Jobs : Acquire(p, j)
           \/ \E p \in Procs : Works(p) \/ Throw(p) \/ Crash(p)
           \/ Outside
BY DEF Next, Outside

LEMMA OutsideFrame ==
  ASSUME Outside
  PROVE  UNCHANGED <<pc, locals, outbox, nextNonce>>
BY DEF Outside, CreateFundingJob, EnqueueFundingRetry, BecomeDue, LeaseExpires,
   Mine, ForeignSend, DropTx, rows

\* The write of Insert, the only one that gives a row its nonce.
Stores(p) ==
  /\ Insert(p) /\ Insertable(p) /\ NonceUnused(p)
  /\ outbox' = [outbox EXCEPT ![J(p)][Ph(p)] = [nonce |-> nonce[p], status |-> "signed"]]

KeepsNonces ==
  \A j \in Jobs, ph \in Phases : outbox'[j][ph].nonce = outbox[j][ph].nonce

LEMMA TableFrame ==
  ASSUME TypeOK, NEW p \in Procs, Works(p) \/ Throw(p) \/ Crash(p)
  PROVE  /\ KeepsNonces \/ Stores(p)
         /\ nextNonce' \in Nat /\ nextNonce' >= nextNonce
         /\ Reserve(p) => nonce'[p] = nextNonce /\ nextNonce' = nextNonce + 1
<1> USE Typed
<1>1. CASE Insert(p)
  <2>1. UNCHANGED nextNonce /\ (UNCHANGED outbox \/ Stores(p))
    BY <1>1 DEF Insert, Stores
  <2> QED
    BY <1>1, <2>1 DEF Insert, Reserve, KeepsNonces
<1>2. CASE Reserve(p)
  BY <1>2 DEF Reserve, KeepsNonces
<1>3. CASE Upsert(p)
  BY <1>3 DEF Upsert, Greatest, Reserve, KeepsNonces, Nonces, NoNonce
<1>4. CASE OutboxBroadcast(p) \/ OutboxConfirmed(p)
  <2>1. J(p) \in Jobs /\ Ph(p) \in Phases
    BY <1>4, InFlight DEF OutboxBroadcast, OutboxConfirmed
  <2>2. PICK st : outbox' = [outbox EXCEPT ![J(p)][Ph(p)].status = st]
    BY <1>4 DEF OutboxBroadcast, OutboxConfirmed
  <2>3. KeepsNonces
    BY <2>1, <2>2 DEF OutboxTable, KeepsNonces
  <2> QED
    BY <1>4, <2>3 DEF OutboxBroadcast, OutboxConfirmed, Reserve
<1>5. CASE Throw(p) \/ Crash(p)
  BY <1>5 DEF Throw, Crash, rows, KeepsNonces, Reserve, WorkPoints, Goto, EndTurn, locals
<1>6. CASE Sends(p) /\ ~OutboxBroadcast(p)
  BY <1>6 DEF Sends, CheckLease, Broadcast, JobBroadcast, rows, KeepsNonces, Reserve
<1>7. CASE Finalizes(p) /\ ~OutboxConfirmed(p)
  BY <1>7 DEF Finalizes, ReadReceipt, Pending, Reverted, Confirm, rows, KeepsNonces, Reserve
<1>8. CASE Prepares(p) /\ ~Insert(p) /\ ~Reserve(p) /\ ~Upsert(p)
  BY <1>8 DEF Prepares, Prepare, Recheck, ReadNonce, ReadOutbox, Sign, Persist,
     CheckSigned, SetPhaseSigned, Collect, rows, KeepsNonces
<1>9. CASE Release(p) \/ LookUp(p) \/ Missing(p) \/ CatchError(p)
  BY <1>9 DEF Release, LookUp, Missing, CatchError, rows, KeepsNonces, Reserve
<1> QED
  BY <1>1, <1>2, <1>3, <1>4, <1>5, <1>6, <1>7, <1>8, <1>9 DEF Works, Prepares

-----------------------------------------------------------------------------
(* The parts of the invariant, one lemma each.                             *)

LEMMA VersionsStep ==
  ASSUME TypeOK, VersionsDistinct, [Next]_vars
  PROVE  VersionsDistinct'
<1>1. CASE \E p \in Procs, j \in Jobs : Acquire(p, j)
  <2>1. PICK p \in Procs, j \in Jobs : Acquire(p, j)
    BY <1>1
  <2>2. PICK v \in Versions :
          /\ FreshVersion(j, v)
          /\ snap'[p].job = j /\ snap'[p].version = v
          /\ \A q \in Procs \ {p} : snap'[q] = snap[q] /\ pc'[q] = pc[q]
    BY <2>1, Typed DEF Acquire, Goto
  <2> QED
    BY <2>2 DEF VersionsDistinct, FreshVersion, J
<1>2. CASE \E p \in Procs : Works(p) \/ Throw(p) \/ Crash(p)
  BY <1>2, WorkFrame DEF VersionsDistinct, J
<1>3. CASE Outside
  BY <1>3, OutsideFrame DEF VersionsDistinct, J, locals
<1>4. CASE UNCHANGED vars
  BY <1>4 DEF VersionsDistinct, J, locals, vars
<1> QED
  BY <1>1, <1>2, <1>3, <1>4, NextSplit

LEMMA AcquireFrame ==
  ASSUME TypeOK, NEW p \in Procs, NEW j \in Jobs, Acquire(p, j)
  PROVE  /\ UNCHANGED <<outbox, nextNonce, nonce, chain>>
         /\ \A q \in Procs \ {p} : pc'[q] = pc[q] /\ snap'[q] = snap[q]
         /\ pc'[p] \in {"complete", "lookup"}
BY Typed DEF Acquire, Goto

LEMMA ReservationStep ==
  ASSUME TypeOK, ReservationAhead, [Next]_vars
  PROVE  ReservationAhead'
<1>1. CASE \E p \in Procs, j \in Jobs : Acquire(p, j)
  BY <1>1, AcquireFrame DEF ReservationAhead
<1>2. ASSUME NEW p \in Procs, Works(p) \/ Throw(p) \/ Crash(p)
      PROVE  ReservationAhead'
  <2>1. nextNonce' >= nextNonce /\ nextNonce \in Nat /\ nextNonce' \in Nat
    BY <1>2, TableFrame, Typed DEF TypeOK
  <2>2. \A q \in Procs : nonce'[q] < nextNonce'
    BY <1>2, <2>1, TableFrame, WorkFrame, Typed DEF ReservationAhead, Nonces, NoNonce
  <2>3. CASE KeepsNonces
    <3>1. \A j \in Jobs, ph \in Phases : outbox[j][ph].nonce \in Int
      BY Typed DEF OutboxTable, Nonces, NoNonce
    <3> QED
      BY <2>1, <2>2, <2>3, <3>1 DEF ReservationAhead, KeepsNonces
  <2>4. CASE Stores(p)
    <3>1. UNCHANGED nextNonce
      BY <2>4 DEF Stores, Insert
    <3> QED
      BY <2>2, <2>4, <3>1, Typed DEF ReservationAhead, Stores, OutboxTable
  <2> QED
    BY <1>2, <2>3, <2>4, TableFrame
<1>3. CASE Outside
  BY <1>3, OutsideFrame DEF ReservationAhead, locals
<1>4. CASE UNCHANGED vars
  BY <1>4 DEF ReservationAhead, locals, vars, rows
<1> QED
  BY <1>1, <1>2, <1>3, <1>4, NextSplit
LEMMA ReservedStep ==
  ASSUME TypeOK, ReservationAhead, ReservedNonceFresh, [Next]_vars
  PROVE  ReservedNonceFresh'
<1>1. CASE \E p \in Procs, j \in Jobs : Acquire(p, j)
  <2>1. PICK p \in Procs, j \in Jobs : Acquire(p, j)
    BY <1>1
  <2> QED
    BY <2>1, AcquireFrame DEF ReservedNonceFresh, NonceUnused, Signing
<1>2. ASSUME NEW p \in Procs, Works(p) \/ Throw(p) \/ Crash(p)
      PROVE  ReservedNonceFresh'
  <2>1. CASE Reserve(p)
    <3>1. KeepsNonces /\ nonce'[p] = nextNonce
      BY <1>2, <2>1, TableFrame DEF Stores, Insert, Reserve
    <3>2. \A q \in Procs \ {p} : pc'[q] = pc[q] /\ nonce'[q] = nonce[q]
      BY <1>2, WorkFrame
    <3>3. NonceUnused(p)'
      BY <3>1, Typed DEF ReservationAhead, KeepsNonces, NonceUnused
    <3>4. \A q \in Procs \ {p} : nonce'[q] # nonce'[p]
      BY <3>1, <3>2, Typed DEF ReservationAhead
    <3> QED
      BY <3>1, <3>2, <3>3, <3>4 DEF ReservedNonceFresh, NonceUnused, KeepsNonces
  <2>2. CASE ~Reserve(p)
    <3>1. \A q \in Procs : pc'[q] \in Signing => pc[q] \in Signing /\ nonce'[q] = nonce[q]
      BY <1>2, <2>2, WorkFrame
    <3>2. CASE KeepsNonces
      BY <3>1, <3>2 DEF ReservedNonceFresh, NonceUnused, KeepsNonces
    <3>3. CASE Stores(p)
      <4>1. pc[p] \in Signing /\ pc'[p] \notin Signing
        BY <3>3, Typed DEF Stores, Insert, Goto, Signing
      <4>2. \A j \in Jobs, ph \in Phases :
              outbox'[j][ph].nonce \in {outbox[j][ph].nonce, nonce[p]}
        BY <3>3, Typed DEF Stores, OutboxTable
      <4> QED
        BY <3>1, <4>1, <4>2 DEF ReservedNonceFresh, NonceUnused
    <3> QED
      BY <1>2, <3>2, <3>3, TableFrame
  <2> QED
    BY <2>1, <2>2
<1>3. CASE Outside
  BY <1>3, OutsideFrame DEF ReservedNonceFresh, NonceUnused, locals
<1>4. CASE UNCHANGED vars
  BY <1>4 DEF ReservedNonceFresh, NonceUnused, locals, vars, rows
<1> QED
  BY <1>1, <1>2, <1>3, <1>4, NextSplit

LEMMA NonceKnownStep ==
  ASSUME TypeOK, NonceKnown, [Next]_vars
  PROVE  NonceKnown'
<1>1. CASE \E p \in Procs, j \in Jobs : Acquire(p, j)
  <2>1. PICK p \in Procs, j \in Jobs : Acquire(p, j)
    BY <1>1
  <2> QED
    BY <2>1, AcquireFrame DEF NonceKnown, Signing
<1>2. ASSUME NEW p \in Procs, Works(p) \/ Throw(p) \/ Crash(p)
      PROVE  NonceKnown'
  BY <1>2, WorkFrame, TableFrame, Typed DEF NonceKnown
<1>3. CASE Outside
  BY <1>3, OutsideFrame DEF NonceKnown, locals
<1>4. CASE UNCHANGED vars
  BY <1>4 DEF NonceKnown, locals, vars
<1> QED
  BY <1>1, <1>2, <1>3, <1>4, NextSplit

\* A row that exists stays, with its nonce.
LEMMA RowsStay ==
  ASSUME TypeOK, NonceKnown, [Next]_vars, NEW j \in Jobs, NEW ph \in Phases,
         outbox[j][ph].nonce # NoNonce
  PROVE  outbox'[j][ph].nonce = outbox[j][ph].nonce
<1>1. CASE \E p \in Procs, i \in Jobs : Acquire(p, i)
  BY <1>1, AcquireFrame
<1>2. ASSUME NEW p \in Procs, Works(p) \/ Throw(p) \/ Crash(p)
      PROVE  outbox'[j][ph].nonce = outbox[j][ph].nonce
  <2>1. CASE Stores(p)
    <3>1. ~(J(p) = j /\ Ph(p) = ph)
      BY <2>1 DEF Stores, Insertable, Stored
    <3> QED
      BY <2>1, <3>1, Typed DEF Stores, OutboxTable
  <2> QED
    BY <1>2, <2>1, TableFrame DEF KeepsNonces
<1>3. CASE Outside
  BY <1>3, OutsideFrame
<1>4. CASE UNCHANGED vars
  BY <1>4 DEF vars, rows
<1> QED
  BY <1>1, <1>2, <1>3, <1>4, NextSplit

LEMMA RowBehindStep ==
  ASSUME TypeOK, NonceKnown, RowBehind, [Next]_vars
  PROVE  RowBehind'
<1>0. \A p \in Procs : pc[p] # "idle" /\ Stored(p) /\ snap'[p] = snap[p] => Stored(p)'
  <2> SUFFICES ASSUME NEW p \in Procs, pc[p] # "idle", Stored(p), snap'[p] = snap[p]
               PROVE  Stored(p)'
    OBVIOUS
  <2>1. outbox'[J(p)][Ph(p)].nonce = outbox[J(p)][Ph(p)].nonce
    BY InFlight, RowsStay DEF Stored
  <2> QED
    BY <2>1 DEF Stored, J, Ph
<1>1. CASE \E p \in Procs, j \in Jobs : Acquire(p, j)
  <2>1. PICK p \in Procs, j \in Jobs : Acquire(p, j)
    BY <1>1
  <2>2. pc'[p] \notin RowPoints
    BY <2>1, AcquireFrame DEF RowPoints, SendPoints, FinalizePoints
  <2>3. "idle" \notin RowPoints
    BY DEF RowPoints, SendPoints, FinalizePoints
  <2> QED
    BY <1>0, <2>1, <2>2, <2>3, AcquireFrame DEF RowBehind
<1>2. ASSUME NEW p \in Procs, Works(p) \/ Throw(p) \/ Crash(p)
      PROVE  RowBehind'
  <2>0. "idle" \notin RowPoints
    BY DEF RowPoints, SendPoints, FinalizePoints
  <2>1. \A q \in Procs \ {p} : pc'[q] \in RowPoints => Stored(q)'
    BY <1>0, <1>2, <2>0, WorkFrame DEF RowBehind
  <2>2. ASSUME pc'[p] \in RowPoints PROVE Stored(p)'
    <3>1. pc[p] # "idle" /\ snap'[p] = snap[p]
      BY <1>2, <2>0, <2>2, WorkFrame
    <3>2. CASE Stored(p)
      BY <1>0, <3>1, <3>2
    <3>3. CASE Insert(p) /\ Insertable(p) /\ NonceUnused(p)
      <4>1. outbox' = [outbox EXCEPT ![J(p)][Ph(p)] = [nonce |-> nonce[p], status |-> "signed"]]
        BY <3>3 DEF Insert
      <4>2. nonce[p] \in Nat
        BY <3>3 DEF Insert, NonceKnown, Signing
      <4>3. outbox'[J(p)][Ph(p)].nonce = nonce[p]
        BY <3>1, <4>1, InFlight, Typed DEF OutboxTable
      <4> QED
        BY <3>1, <4>2, <4>3 DEF Stored, J, Ph, NoNonce
    <3> QED
      BY <1>2, <2>2, <3>2, <3>3, WorkFrame DEF RowBehind
  <2> QED
    BY <2>1, <2>2 DEF RowBehind
<1>3. CASE Outside
  BY <1>3, OutsideFrame DEF RowBehind, Stored, J, Ph, locals
<1>4. CASE UNCHANGED vars
  BY <1>4 DEF RowBehind, Stored, J, Ph, locals, vars, rows
<1> QED
  BY <1>1, <1>2, <1>3, <1>4, NextSplit
LEMMA TypeStep ==
  ASSUME TypeOK, RowBehind, [Next]_vars
  PROVE  TypeOK'
<1>1. CASE \E p \in Procs, j \in Jobs : Acquire(p, j)
  BY <1>1, AcquireTyped
<1>2. CASE \E p \in Procs : Works(p) \/ Throw(p) \/ Crash(p)
  BY <1>2, TurnsTyped, PreparesTyped, SendsTyped, FinalizesTyped DEF Works
<1>3. CASE Outside
  BY <1>3, BackendTyped, ChainTyped DEF Outside
<1>4. CASE UNCHANGED vars
  BY <1>4 DEF TypeOK, J, vars, rows, chain, locals, used
<1> QED
  BY <1>1, <1>2, <1>3, <1>4, NextSplit

-----------------------------------------------------------------------------
(* The chain.                                                              *)

\* A worker sends nothing but its stored transaction, and only by Broadcast.
LEMMA ChainFrame ==
  ASSUME TypeOK, NEW p \in Procs, Works(p) \/ Throw(p) \/ Crash(p)
  PROVE  \/ UNCHANGED chain
         \/ /\ Broadcast(p) /\ Accepted(MyTx(p)) /\ UNCHANGED outbox
            /\ \E ok \in BOOLEAN : Accept(MyTx(p), ok)
<1>1. CASE Broadcast(p)
  <2>1. Answers(MyTx(p)) \subseteq BOOLEAN
    BY DEF Answers, Outcomes
  <2> QED
    BY <1>1, <2>1 DEF Broadcast, rows
<1>2. CASE ~Broadcast(p)
  BY <1>2 DEF Works, Prepares, Sends, Finalizes, Release, LookUp, Missing, CatchError,
     Prepare, Recheck, ReadNonce, ReadOutbox, Upsert, Reserve, Sign, Persist, Insert,
     CheckSigned, SetPhaseSigned, Collect, CheckLease, OutboxBroadcast, JobBroadcast,
     ReadReceipt, Pending, Reverted, Confirm, OutboxConfirmed, Throw, Crash
<1> QED
  BY <1>1, <1>2

LEMMA PoolEmptyStep ==
  ASSUME TypeOK, PoolEmpty, [Next]_vars
  PROVE  PoolEmpty'
<1>1. CASE \E p \in Procs, j \in Jobs : Acquire(p, j)
  BY <1>1, AcquireFrame DEF PoolEmpty, chain
<1>2. CASE \E p \in Procs : Works(p) \/ Throw(p) \/ Crash(p)
  BY <1>2, ChainFrame DEF PoolEmpty, chain, Accept
<1>3. CASE Outside
  BY <1>3 DEF Outside, PoolEmpty, chain, Accept, CreateFundingJob, EnqueueFundingRetry,
     BecomeDue, LeaseExpires, Mine, ForeignSend, DropTx
<1>4. CASE UNCHANGED vars
  BY <1>4 DEF PoolEmpty, vars, chain
<1> QED
  BY <1>1, <1>2, <1>3, <1>4, NextSplit

\* A block whose transaction is the stored one, or nobody's, may be appended.
LEMMA BlockStored ==
  ASSUME TypeOK, OnlyStoredIsSent, NEW STATE tx, tx \in PoolTxs, NEW ok, MineAs(tx, ok),
         UNCHANGED outbox,
         tx.job # NoJob => /\ outbox[tx.job][tx.phase].nonce = tx.nonce
                           /\ tx.nonce = Len(mined)
  PROVE  \A i \in 1..Len(mined') : mined'[i].job # NoJob =>
           outbox'[mined'[i].job][mined'[i].phase].nonce = i - 1
<1>1. /\ Len(mined') = Len(mined) + 1
      /\ \A i \in 1..Len(mined) : mined'[i] = mined[i]
      /\ mined'[Len(mined) + 1] = [job |-> tx.job, phase |-> tx.phase, ok |-> ok]
  BY Typed DEF MineAs
<1> SUFFICES ASSUME NEW i \in 1..Len(mined'), mined'[i].job # NoJob
             PROVE  outbox[mined'[i].job][mined'[i].phase].nonce = i - 1
  OBVIOUS
<1>2. CASE i \in 1..Len(mined)
  BY <1>1, <1>2 DEF OnlyStoredIsSent
<1>3. CASE i = Len(mined) + 1
  BY <1>1, <1>3, Typed
<1> QED
  BY <1>1, <1>2, <1>3, Typed

LEMMA SentStep ==
  ASSUME TypeOK, NonceKnown, RowBehind, PoolEmpty, OnlyStoredIsSent, [Next]_vars
  PROVE  OnlyStoredIsSent'
\* When the chain does not move, rows only come to exist.
<1>1. ASSUME UNCHANGED mined, mempool' \subseteq mempool
      PROVE  OnlyStoredIsSent'
  <2>1. ASSUME NEW tx \in mempool, tx.job # NoJob
        PROVE  outbox'[tx.job][tx.phase].nonce = tx.nonce
    <3>1. tx.job \in Jobs /\ tx.phase \in Phases /\ tx.nonce \in Nat
      BY <2>1, Typed DEF PoolTxs
    <3>2. outbox[tx.job][tx.phase].nonce = tx.nonce
      BY <2>1 DEF OnlyStoredIsSent
    <3> QED
      BY <3>1, <3>2, RowsStay DEF NoNonce
  <2>2. ASSUME NEW i \in 1..Len(mined), mined[i].job # NoJob
        PROVE  outbox'[mined[i].job][mined[i].phase].nonce = i - 1
    <3>1. mined[i] \in MinedTxs /\ i - 1 \in Nat
      BY Typed
    <3>2. mined[i].job \in Jobs /\ mined[i].phase \in Phases
      BY <2>2, <3>1 DEF MinedTxs
    <3>3. outbox[mined[i].job][mined[i].phase].nonce = i - 1
      BY <2>2 DEF OnlyStoredIsSent
    <3> QED
      BY <3>1, <3>2, <3>3, RowsStay DEF NoNonce
  <2> QED
    BY <1>1, <2>1, <2>2 DEF OnlyStoredIsSent
<1>2. ASSUME NEW tx \in PoolTxs, NEW ok \in BOOLEAN, Accept(tx, ok), UNCHANGED outbox,
             tx.job # NoJob => /\ outbox[tx.job][tx.phase].nonce = tx.nonce
                               /\ AutoMine => tx.nonce = Len(mined)
      PROVE  OnlyStoredIsSent'
  <2>1. CASE AutoMine
    <3>1. MineAs(tx, ok) /\ UNCHANGED mempool
      BY <1>2, <2>1 DEF Accept
    <3> QED
      BY <1>2, <2>1, <3>1, BlockStored DEF OnlyStoredIsSent
  <2>2. CASE ~AutoMine
    BY <1>2, <2>2 DEF Accept, OnlyStoredIsSent
  <2> QED
    BY <2>1, <2>2
<1>3. CASE \E p \in Procs, j \in Jobs : Acquire(p, j)
  BY <1>1, <1>3, AcquireFrame DEF chain
<1>4. ASSUME NEW p \in Procs, Works(p) \/ Throw(p) \/ Crash(p)
      PROVE  OnlyStoredIsSent'
  <2>1. CASE UNCHANGED chain
    BY <1>1, <2>1 DEF chain
  <2>2. CASE /\ Broadcast(p) /\ Accepted(MyTx(p)) /\ UNCHANGED outbox
             /\ \E ok \in BOOLEAN : Accept(MyTx(p), ok)
    <3>1. Stored(p)
      BY <2>2 DEF Broadcast, RowBehind, RowPoints, SendPoints
    <3>2. MyTx(p) \in PoolTxs /\ outbox[J(p)][Ph(p)].nonce = MyTx(p).nonce
      BY <2>2, <3>1, InFlight DEF Broadcast, Stored, MyTx, PoolTxs, Nonces
    <3>3. AutoMine => MyTx(p).nonce = Len(mined)
      BY <2>2 DEF Accepted, PoolEmpty
    <3>4. MyTx(p).job = J(p) /\ MyTx(p).phase = Ph(p)
      BY DEF MyTx
    <3> QED
      BY <1>2, <2>2, <3>2, <3>3, <3>4
  <2> QED
    BY <1>4, <2>1, <2>2, ChainFrame
<1>5. CASE Mine
  <2>1. PICK tx \in mempool, ok \in BOOLEAN :
          tx.nonce = Len(mined) /\ MineAs(tx, ok) /\ mempool' = mempool \ {tx}
    BY <1>5 DEF Mine, Outcomes
  <2>2. UNCHANGED outbox
    BY <1>5 DEF Mine, rows
  <2>3. tx \in PoolTxs
    BY Typed
  <2>4. \A i \in 1..Len(mined') : mined'[i].job # NoJob =>
           outbox'[mined'[i].job][mined'[i].phase].nonce = i - 1
    BY <2>1, <2>2, <2>3, BlockStored DEF OnlyStoredIsSent
  <2> QED
    BY <2>1, <2>2, <2>4 DEF OnlyStoredIsSent
<1>6. CASE ForeignSend
  <2>1. PICK n \in PendingNonces :
          Accept([job |-> NoJob, phase |-> "foreign", nonce |-> n], TRUE)
    BY <1>6 DEF ForeignSend
  <2>2. [job |-> NoJob, phase |-> "foreign", nonce |-> n] \in PoolTxs
    BY PendingTyped DEF PoolTxs
  <2> QED
    BY <1>2, <1>6, <2>1, <2>2 DEF ForeignSend, rows
<1>7. CASE Outside /\ ~Mine /\ ~ForeignSend
  BY <1>1, <1>7 DEF Outside, CreateFundingJob, EnqueueFundingRetry, BecomeDue,
     LeaseExpires, DropTx, chain
<1>8. CASE UNCHANGED vars
  BY <1>1, <1>8 DEF vars, chain
<1> QED
  BY <1>3, <1>4, <1>5, <1>6, <1>7, <1>8, NextSplit
-----------------------------------------------------------------------------
(* What a job row says against what the chain holds.                       *)

\* No row gains a confirmed phase, none becomes ready.
NothingClaimed ==
  \A j \in Jobs :
    /\ \A ph \in Phases :
         job'[j].status[ph] = "confirmed" => job[j].status[ph] = "confirmed"
    /\ job'[j].ready => job[j].ready

LEMMA UpdateClaims ==
  ASSUME TypeOK, NEW p \in Procs, pc[p] # "idle", NEW STATE row, UpdateJob(p, row),
         \A ph \in Phases : row.status[ph] = "confirmed" => job[J(p)].status[ph] = "confirmed",
         row.ready => job[J(p)].ready
  PROVE  NothingClaimed
BY Typed, InFlight DEF UpdateJob, NothingClaimed

LEMMA MarkClaims ==
  ASSUME TypeOK, NEW p \in Procs, pc[p] # "idle", NEW st, MarkJobError(p, st),
         st # "confirmed"
  PROVE  NothingClaimed
<1> DEFINE row == [job[J(p)] EXCEPT !.status[Ph(p)] = st,
                                 !.lifecycle = LifecycleOf(st),
                                 !.lockedBy = NoOwner, !.leaseLive = FALSE,
                                 !.due = FALSE]
<1>1. job[J(p)] \in JobRows
  BY InFlight
<1>2. /\ \A ph \in Phases : row.status[ph] = "confirmed" => job[J(p)].status[ph] = "confirmed"
      /\ row.ready => job[J(p)].ready
  BY <1>1 DEF JobRows
<1>3. UpdateJob(p, row)
  BY DEF MarkJobError
<1> HIDE DEF row
<1> QED
  BY <1>2, <1>3, UpdateClaims

\* Only Confirm, and the settling of a complete job, claim anything.
LEMMA WorkClaims ==
  ASSUME TypeOK, NEW p \in Procs, Works(p) \/ Throw(p) \/ Crash(p)
  PROVE  NothingClaimed \/ Confirm(p) \/ (Release(p) /\ pc[p] = "complete")
<1>0. pc[p] # "idle" /\ job[J(p)] \in JobRows /\ Ph(p) \in Phases
  BY WorkFrame, InFlight
<1>1. CASE SetPhaseSigned(p)
  <2> DEFINE row == [job[J(p)] EXCEPT !.status[Ph(p)] = "signed",
                                      !.lifecycle = "funding_pending"]
  <2>1. /\ \A ph \in Phases : row.status[ph] = "confirmed" => job[J(p)].status[ph] = "confirmed"
        /\ row.ready => job[J(p)].ready
    BY <1>0 DEF JobRows
  <2>2. UpdateJob(p, row)
    BY <1>1 DEF SetPhaseSigned
  <2> HIDE DEF row
  <2> QED
    BY <1>0, <2>1, <2>2, UpdateClaims
<1>2. ASSUME JobBroadcast(p) \/ Pending(p)
      PROVE  NothingClaimed
  <2>1. PICK st \in {"broadcast", "pending"} :
          UpdateJob(p, [job[J(p)] EXCEPT !.status[Ph(p)] = st])
    BY <1>2 DEF JobBroadcast, Pending
  <2> DEFINE row == [job[J(p)] EXCEPT !.status[Ph(p)] = st]
  <2>2. /\ \A ph \in Phases : row.status[ph] = "confirmed" => job[J(p)].status[ph] = "confirmed"
        /\ row.ready => job[J(p)].ready
    BY <1>0, <2>1 DEF JobRows
  <2>3. UpdateJob(p, row)
    BY <2>1
  <2> HIDE DEF row
  <2> QED
    BY <1>0, <2>2, <2>3, UpdateClaims
<1>3. CASE Reverted(p) \/ Missing(p) \/ CatchError(p)
  BY <1>0, <1>3, MarkClaims DEF Reverted, Missing, CatchError
<1>4. CASE Release(p) /\ pc[p] # "complete"
  <2> DEFINE row == [[job[J(p)] EXCEPT !.lockedBy = NoOwner, !.leaseLive = FALSE]
                       EXCEPT !.due = FALSE]
  <2>1. /\ \A ph \in Phases : row.status[ph] = "confirmed" => job[J(p)].status[ph] = "confirmed"
        /\ row.ready => job[J(p)].ready
    BY <1>0 DEF JobRows
  <2>2. UpdateJob(p, row)
    BY <1>4 DEF Release
  <2> HIDE DEF row
  <2> QED
    BY <1>0, <2>1, <2>2, UpdateClaims
<1>5. CASE /\ ~SetPhaseSigned(p) /\ ~JobBroadcast(p) /\ ~Pending(p) /\ ~Reverted(p)
           /\ ~Missing(p) /\ ~CatchError(p) /\ ~Release(p) /\ ~Confirm(p)
  <2>1. UNCHANGED job
    BY <1>5 DEF Works, Prepares, Sends, Finalizes, LookUp, Prepare, Recheck, ReadNonce,
       ReadOutbox, Upsert, Reserve, Sign, Persist, Insert, CheckSigned, Collect,
       CheckLease, Broadcast, OutboxBroadcast, ReadReceipt, OutboxConfirmed, Throw,
       Crash, rows
  <2> QED
    BY <2>1 DEF NothingClaimed
<1> QED
  BY <1>1, <1>2, <1>3, <1>4, <1>5

LEMMA AcquireClaims ==
  ASSUME TypeOK, NEW p \in Procs, NEW j \in Jobs, Acquire(p, j)
  PROVE  NothingClaimed
<1>1. PICK v : job' = [job EXCEPT ![j] = [@ EXCEPT !.lockedBy = WorkerId[p],
                                      !.leaseLive = TRUE, !.version = v]]
  BY DEF Acquire
<1>2. job[j] \in JobRows
  BY Typed
<1> QED
  BY <1>1, <1>2, Typed DEF NothingClaimed, JobRows

LEMMA OutsideClaims ==
  ASSUME TypeOK, Outside
  PROVE  NothingClaimed
<1> USE Typed
<1>1. CASE UNCHANGED job
  BY <1>1 DEF NothingClaimed
<1>2. ASSUME NEW j \in Jobs, EnqueueFundingRetry(j)
      PROVE  NothingClaimed
  <2> DEFINE st == job[j].status
             gasStatus == IF st["gas"] = "confirmed" THEN "confirmed" ELSE "not_started"
             tokenStatus == IF st["token"] # "confirmed" /\ st["gas"] = "confirmed"
                            THEN "not_started" ELSE st["token"]
             new == [ph \in Phases |-> IF ph = "gas" THEN gasStatus ELSE tokenStatus]
  <2>1. \A ph \in Phases : new[ph] = "confirmed" => st[ph] = "confirmed"
    BY DEF Phases
  <2>2. job' = [job EXCEPT ![j] = [@ EXCEPT !.due = TRUE, !.lifecycle = "funding_pending",
                                            !.status = new]]
    BY <1>2 DEF EnqueueFundingRetry
  <2>3. job[j] \in JobRows
    OBVIOUS
  <2> HIDE DEF new
  <2> QED
    BY <2>1, <2>2, <2>3 DEF NothingClaimed, JobRows
<1>3. ASSUME NEW j \in Jobs, CreateFundingJob(j) \/ BecomeDue(j) \/ LeaseExpires(j)
      PROVE  NothingClaimed
  <2>1. job[j] \in JobRows
    OBVIOUS
  <2>2. CASE CreateFundingJob(j)
    BY <2>1, <2>2 DEF CreateFundingJob, NothingClaimed, JobRows
  <2>3. CASE BecomeDue(j)
    BY <2>1, <2>3 DEF BecomeDue, NothingClaimed, JobRows
  <2>4. CASE LeaseExpires(j)
    BY <2>1, <2>4 DEF LeaseExpires, NothingClaimed, JobRows
  <2> QED
    BY <1>3, <2>2, <2>3, <2>4
<1>4. CASE Mine \/ ForeignSend \/ DropTx
  BY <1>1, <1>4 DEF Mine, ForeignSend, DropTx, rows
<1> QED
  BY <1>2, <1>3, <1>4 DEF Outside
\* A step leaves the chain alone, or adds a block and leaves the jobs alone.
LEMMA ChainGrows ==
  ASSUME TypeOK, [Next]_vars
  PROVE  UNCHANGED mined \/ (UNCHANGED job /\ \E block : mined' = Append(mined, block))
<1>1. CASE \E p \in Procs, i \in Jobs : Acquire(p, i)
  BY <1>1, AcquireFrame DEF chain
<1>2. CASE \E p \in Procs : Works(p) \/ Throw(p) \/ Crash(p)
  BY <1>2, ChainFrame DEF chain, Accept, MineAs, Broadcast, rows
<1>3. CASE Outside
  BY <1>3 DEF Outside, CreateFundingJob, EnqueueFundingRetry, BecomeDue,
     LeaseExpires, Mine, ForeignSend, DropTx, Accept, MineAs, chain, rows
<1>4. CASE UNCHANGED vars
  BY <1>4 DEF vars, chain
<1> QED
  BY <1>1, <1>2, <1>3, <1>4, NextSplit

\* The chain only grows: what is paid stays paid.
LEMMA PaidStays ==
  ASSUME TypeOK, [Next]_vars, NEW j, NEW ph, Paid(j, ph)
  PROVE  Paid(j, ph)'
<1>1. UNCHANGED mined \/ \E block : mined' = Append(mined, block)
  BY ChainGrows
<1>2. \A i \in 1..Len(mined) : i \in 1..Len(mined') /\ mined'[i] = mined[i]
  <2>1. CASE UNCHANGED mined
    BY <2>1
  <2>2. ASSUME NEW block, mined' = Append(mined, block)
        PROVE  \A i \in 1..Len(mined) : i \in 1..Len(mined') /\ mined'[i] = mined[i]
    <3>1. mined \in Seq(MinedTxs) /\ Len(mined) \in Nat
      BY Typed
    <3>2. ASSUME NEW i \in 1..Len(mined)
          PROVE  i \in 1..Len(mined') /\ mined'[i] = mined[i]
      BY <2>2, <3>1
    <3> QED
      BY <3>2
  <2> QED
    BY <1>1, <2>1, <2>2
<1> QED
  BY <1>2 DEF Paid

\* The same, over the chain as a value: a step may prime it alone.
PaidOn(blocks, j, ph) ==
  \E i \in 1..Len(blocks) : blocks[i].job = j /\ blocks[i].phase = ph /\ blocks[i].ok

LEMMA PaidOnStays ==
  ASSUME TypeOK, [Next]_vars
  PROVE  \A j, ph : PaidOn(mined, j, ph) => PaidOn(mined', j, ph)
<1> SUFFICES ASSUME NEW j, NEW ph, PaidOn(mined, j, ph)
             PROVE  PaidOn(mined', j, ph)
  OBVIOUS
<1>1. Paid(j, ph)
  BY DEF Paid, PaidOn
<1>2. Paid(j, ph)'
  BY <1>1, PaidStays
<1> QED
  BY <1>2 DEF Paid, PaidOn

LEMMA ConfirmedByRows ==
  ConfirmedIsPaid <=>
    /\ \A j \in Jobs, ph \in Phases : job[j].status[ph] = "confirmed" => PaidOn(mined, j, ph)
    /\ \A p \in Procs : pc[p] # "idle" =>
         /\ snap[p].phase = "token" => PaidOn(mined, snap[p].job, "gas")
         /\ pc[p] \in {"confirm", "outboxConfirmed", "complete"}
              => PaidOn(mined, snap[p].job, snap[p].phase)
         /\ pc[p] = "complete" => snap[p].phase = "token"
BY DEF ConfirmedIsPaid, J, Ph, Paid, PaidOn

LEMMA ConfirmedStep ==
  ASSUME TypeOK, ConfirmedIsPaid, [Next]_vars
  PROVE  ConfirmedIsPaid'
<1> DEFINE RowsPaid ==
             \A j \in Jobs, ph \in Phases :
               job'[j].status[ph] = "confirmed" => PaidOn(mined', j, ph)
           TurnPaid(q) ==
             pc'[q] # "idle" =>
               /\ snap'[q].phase = "token" => PaidOn(mined', snap'[q].job, "gas")
               /\ pc'[q] \in {"confirm", "outboxConfirmed", "complete"}
                    => PaidOn(mined', snap'[q].job, snap'[q].phase)
               /\ pc'[q] = "complete" => snap'[q].phase = "token"
<1>0. /\ \A j, ph : PaidOn(mined, j, ph) => PaidOn(mined', j, ph)
      /\ \A j \in Jobs, ph \in Phases :
           job[j].status[ph] = "confirmed" => PaidOn(mined, j, ph)
      /\ \A p \in Procs : pc[p] # "idle" =>
           /\ snap[p].phase = "token" => PaidOn(mined, snap[p].job, "gas")
           /\ pc[p] \in {"confirm", "outboxConfirmed", "complete"}
                => PaidOn(mined, snap[p].job, snap[p].phase)
           /\ pc[p] = "complete" => snap[p].phase = "token"
  BY PaidOnStays, ConfirmedByRows
<1>1. ASSUME RowsPaid, \A q \in Procs : TurnPaid(q)
      PROVE  ConfirmedIsPaid'
  BY <1>1 DEF ConfirmedIsPaid, J, Ph, Paid, PaidOn
<1>2. NothingClaimed => RowsPaid
  BY <1>0 DEF NothingClaimed
<1>3. \A q \in Procs : pc'[q] = pc[q] /\ snap'[q] = snap[q] => TurnPaid(q)
  BY <1>0
<1>4. CASE \E p \in Procs, j \in Jobs : Acquire(p, j)
  <2>1. PICK p \in Procs, j \in Jobs : Acquire(p, j)
    BY <1>4
  <2>2. /\ snap'[p].job = j /\ snap'[p].phase = PhaseOf(job[j].status)
        /\ pc'[p] = "complete" => job[j].status[PhaseOf(job[j].status)] = "confirmed"
        /\ pc'[p] \in {"complete", "lookup"}
    BY <2>1, Typed DEF Acquire, Goto
  <2>3. PhaseOf(job[j].status) = "token" => PaidOn(mined, j, "gas")
    BY <1>0 DEF PhaseOf, Phases
  <2>4. pc'[p] = "complete" =>
          PhaseOf(job[j].status) = "token" /\ PaidOn(mined, j, "token")
    BY <1>0, <2>2 DEF PhaseOf, Phases
  <2>5. TurnPaid(p)
    BY <1>0, <2>2, <2>3, <2>4
  <2>6. \A q \in Procs \ {p} : pc'[q] = pc[q] /\ snap'[q] = snap[q]
    BY <2>1, AcquireFrame
  <2>7. NothingClaimed
    BY <2>1, AcquireClaims
  <2> QED
    BY <1>1, <1>2, <1>3, <2>5, <2>6, <2>7
<1>5. ASSUME NEW p \in Procs, Works(p) \/ Throw(p) \/ Crash(p)
      PROVE  ConfirmedIsPaid'
  <2>0. pc[p] # "idle" /\ snap[p].job \in Jobs /\ snap[p].phase \in Phases
    BY <1>5, WorkFrame, InFlight DEF J, Ph
  <2>1. RowsPaid
    <3>1. CASE Confirm(p)
      <4>1. PaidOn(mined', snap[p].job, snap[p].phase)
        BY <1>0, <2>0, <3>1 DEF Confirm
      <4>2. \A j \in Jobs, ph \in Phases : job'[j].status[ph] = "confirmed" =>
              \/ job[j].status[ph] = "confirmed"
              \/ j = snap[p].job /\ ph = snap[p].phase
        BY <2>0, <3>1, Typed DEF Confirm, UpdateJob, JobRows, J, Ph
      <4> QED
        BY <1>0, <4>1, <4>2
    <3>2. CASE Release(p) /\ pc[p] = "complete"
      <4>1. \A j \in Jobs, ph \in Phases : job'[j].status[ph] = job[j].status[ph]
        BY <2>0, <3>2, Typed DEF Release, UpdateJob, JobRows, J
      <4> QED
        BY <1>0, <4>1
    <3> QED
      BY <1>2, <1>5, <3>1, <3>2, WorkClaims
  <2>2. \A q \in Procs \ {p} : pc'[q] = pc[q] /\ snap'[q] = snap[q]
    BY <1>5, WorkFrame
  <2>3. pc'[p] # "idle" => snap'[p] = snap[p]
    BY <1>5, WorkFrame
  <2>4. pc'[p] # "complete"
    BY <1>5, WorkFrame
  <2>5. pc'[p] \in {"confirm", "outboxConfirmed"} =>
          PaidOn(mined, snap[p].job, snap[p].phase)
    <3>1. CASE ReadReceipt(p) /\ pc'[p] = "confirm"
      <4>1. IsMinedAt(outbox[J(p)][Ph(p)].nonce, J(p), Ph(p))
            /\ mined[outbox[J(p)][Ph(p)].nonce + 1].ok
        BY <3>1, Typed DEF ReadReceipt, Succeeded, Goto
      <4> QED
        BY <4>1 DEF IsMinedAt, PaidOn, J, Ph
    <3>2. CASE Confirm(p)
      BY <1>0, <2>0, <3>2 DEF Confirm
    <3> QED
      BY <1>5, <3>1, <3>2, WorkFrame
  <2>6. TurnPaid(p)
    BY <1>0, <2>0, <2>3, <2>4, <2>5
  <2> QED
    BY <1>1, <1>3, <2>1, <2>2, <2>6
<1>6. CASE Outside
  <2>1. NothingClaimed /\ \A q \in Procs : pc'[q] = pc[q] /\ snap'[q] = snap[q]
    BY <1>6, OutsideClaims, OutsideFrame DEF locals
  <2> QED
    BY <1>1, <1>2, <1>3, <2>1
<1>7. CASE UNCHANGED vars
  BY <1>0, <1>1, <1>3, <1>7 DEF vars, rows, chain, locals
<1> QED
  BY <1>4, <1>5, <1>6, <1>7, NextSplit

LEMMA ReadyStep ==
  ASSUME TypeOK, ConfirmedIsPaid, ReadyIsFunded, [Next]_vars
  PROVE  ReadyIsFunded'
<1>0. \A j, ph : Paid(j, ph) => Paid(j, ph)'
  BY PaidStays
<1>1. ASSUME NothingClaimed PROVE ReadyIsFunded'
  BY <1>0, <1>1 DEF NothingClaimed, ReadyIsFunded
<1>2. CASE \E p \in Procs, j \in Jobs : Acquire(p, j)
  BY <1>1, <1>2, AcquireClaims
<1>3. ASSUME NEW p \in Procs, Works(p) \/ Throw(p) \/ Crash(p)
      PROVE  ReadyIsFunded'
  <2>0. pc[p] # "idle" /\ J(p) \in Jobs
    BY <1>3, WorkFrame, InFlight
  <2>1. ASSUME Confirm(p) \/ (Release(p) /\ pc[p] = "complete")
        PROVE  ReadyIsFunded'
    <3>1. \A j \in Jobs : job'[j].ready => job[j].ready \/ (j = J(p) /\ Ph(p) = "token")
      <4>1. CASE Confirm(p)
        BY <2>0, <4>1, Typed DEF Confirm, UpdateJob, JobRows
      <4>2. CASE Release(p) /\ pc[p] = "complete"
        BY <2>0, <4>2, Typed DEF Release, UpdateJob, JobRows, ConfirmedIsPaid
      <4> QED
        BY <2>1, <4>1, <4>2
    <3>2. Ph(p) = "token" => Paid(J(p), "gas") /\ Paid(J(p), "token")
      BY <2>0, <2>1 DEF Confirm, ConfirmedIsPaid
    <3> QED
      BY <1>0, <3>1, <3>2 DEF ReadyIsFunded
  <2> QED
    BY <1>1, <1>3, <2>1, WorkClaims
<1>4. CASE Outside
  BY <1>1, <1>4, OutsideClaims
<1>5. CASE UNCHANGED vars
  BY <1>5 DEF ReadyIsFunded, Paid, vars, rows, chain
<1> QED
  BY <1>2, <1>3, <1>4, <1>5, NextSplit

LEMMA TokenAfterGasStep ==
  ASSUME TypeOK, ConfirmedIsPaid, TokenAfterGas, [Next]_vars
  PROVE  TokenAfterGas'
<1>0. \A j, ph : Paid(j, ph) => Paid(j, ph)'
  BY PaidStays
<1>1. ASSUME UNCHANGED outbox PROVE TokenAfterGas'
  BY <1>0, <1>1 DEF TokenAfterGas
<1>2. ASSUME NEW p \in Procs, Works(p) \/ Throw(p) \/ Crash(p)
      PROVE  TokenAfterGas'
  <2>1. CASE KeepsNonces
    BY <1>0, <2>1 DEF TokenAfterGas, KeepsNonces, Phases
  <2>2. CASE Stores(p)
    <3>1. pc[p] # "idle"
      BY <2>2 DEF Stores, Insert
    <3>2. Ph(p) = "token" => Paid(J(p), "gas")
      BY <3>1 DEF ConfirmedIsPaid
    <3>3. \A j \in Jobs : outbox'[j]["token"].nonce # NoNonce =>
            outbox[j]["token"].nonce # NoNonce \/ (j = J(p) /\ Ph(p) = "token")
      BY <2>2, <3>1, InFlight, Typed DEF Stores, OutboxTable, Phases
    <3> QED
      BY <1>0, <3>2, <3>3 DEF TokenAfterGas
  <2> QED
    BY <1>2, <2>1, <2>2, TableFrame
<1> QED
  BY <1>1, <1>2, AcquireFrame, OutsideFrame, NextSplit DEF vars, rows

LEMMA InvInit == Init => IInv
<1> SUFFICES ASSUME Init PROVE IInv
  OBVIOUS
<1>1. TypeOK
  BY TypeInit
<1>2. mined = <<>> /\ mempool = {}
  BY DEF Init
<1>3. OnlyStoredIsSent
  BY <1>2 DEF OnlyStoredIsSent
<1>4. \A p \in Procs : pc[p] = "idle" /\ nonce[p] = NoNonce
  BY DEF Init
<1>5. VersionsDistinct /\ ReservedNonceFresh /\ RowBehind /\ NonceKnown
  BY <1>4 DEF VersionsDistinct, ReservedNonceFresh, RowBehind, NonceKnown, Signing,
     RowPoints, SendPoints, FinalizePoints
<1>6. \A j \in Jobs, ph \in Phases :
        outbox[j][ph].nonce = NoNonce /\ job[j].status[ph] = "not_started" /\ ~job[j].ready
  BY DEF Init, NoRow, NewJob
<1>7. ReservationAhead
  BY <1>4, <1>6 DEF ReservationAhead, Init, NoNonce
<1>8. ConfirmedIsPaid /\ ReadyIsFunded /\ TokenAfterGas /\ PoolEmpty
  BY <1>2, <1>4, <1>6 DEF ConfirmedIsPaid, ReadyIsFunded, TokenAfterGas, PoolEmpty, Phases
<1> QED
  BY <1>1, <1>3, <1>5, <1>7, <1>8 DEF IInv

LEMMA InvNext == IInv /\ [Next]_vars => IInv'
<1> SUFFICES ASSUME IInv, [Next]_vars PROVE IInv'
  OBVIOUS
<1>1. TypeOK' /\ VersionsDistinct' /\ ReservationAhead' /\ ReservedNonceFresh'
  BY TypeStep, VersionsStep, ReservationStep, ReservedStep DEF IInv
<1>2. RowBehind' /\ NonceKnown' /\ PoolEmpty' /\ OnlyStoredIsSent'
  BY RowBehindStep, NonceKnownStep, PoolEmptyStep, SentStep DEF IInv
<1>3. ConfirmedIsPaid' /\ ReadyIsFunded' /\ TokenAfterGas'
  BY ConfirmedStep, ReadyStep, TokenAfterGasStep DEF IInv
<1> QED
  BY <1>1, <1>2, <1>3 DEF IInv

\* The inductive invariant holds in every state of every behaviour.
THEOREM Invariant == Spec => []IInv
BY InvInit, InvNext, PTL DEF Spec

\* What the tables, the chain and the workers' locals may hold.
THEOREM TypeCorrect == Spec => []TypeOK
<1>1. IInv => TypeOK
  BY DEF IInv
<1> QED
  BY <1>1, Invariant, PTL

\* No two workers ever hold one job's lease at once, whatever their
\* WORKER_IDs: the version that acquireJob increments tells them apart.
THEOREM LeaseIsExclusive == Spec => []LeaseExclusive
<1>1. IInv => LeaseExclusive
  BY DEF IInv, VersionsDistinct, LeaseExclusive, Holds, J
<1> QED
  BY <1>1, Invariant, PTL

\* No nonce is signed with twice, by one worker or by two: the insert of
\* persistOutbox never meets UNIQUE(signer, nonce).
THEOREM ReservedNoncesAreFresh == Spec => []ReservedNonceFresh
<1>1. IInv => ReservedNonceFresh
  BY DEF IInv
<1> QED
  BY <1>1, Invariant, PTL

\* What the node holds or mined of the worker's is what the outbox stores.
THEOREM OnlyStoredTransactionsAreSent == Spec => []OnlyStoredIsSent
<1>1. IInv => OnlyStoredIsSent
  BY DEF IInv
<1> QED
  BY <1>1, Invariant, PTL

\* Each wallet is paid its gas at most once and its tokens at most once, over
\* every crash, retry, lease that expires and transaction that is resent.
THEOREM WalletsArePaidOnce == Spec => []PaidOnce
<1>1. IInv => PaidOnce
  <2> SUFFICES ASSUME IInv, NEW i \in 1..Len(mined), NEW k \in 1..Len(mined),
                      mined[i].job # NoJob, mined[i].job = mined[k].job,
                      mined[i].phase = mined[k].phase
               PROVE  i = k
    BY DEF PaidOnce
  <2>1. /\ outbox[mined[i].job][mined[i].phase].nonce = i - 1
        /\ outbox[mined[i].job][mined[i].phase].nonce = k - 1
    BY DEF IInv, OnlyStoredIsSent
  <2>2. i \in Int /\ k \in Int
    OBVIOUS
  <2> QED
    BY <2>1, <2>2
<1> QED
  BY <1>1, Invariant, PTL

\* A job that says funding_ready has both its payments on the chain.
THEOREM ReadyWalletsAreFunded == Spec => []ReadyIsFunded
<1>1. IInv => ReadyIsFunded
  BY DEF IInv
<1> QED
  BY <1>1, Invariant, PTL

-----------------------------------------------------------------------------
(* The worker implements FundingPromise.                                   *)

\* Readiness is never taken back: every write of a job row keeps it.
KeepsReady == \A j \in Jobs : job[j].ready => job'[j].ready

LEMMA UpdateKeeps ==
  ASSUME TypeOK, NEW p \in Procs, J(p) \in Jobs, NEW STATE row, UpdateJob(p, row),
         job[J(p)].ready => row.ready
  PROVE  KeepsReady
BY Typed DEF UpdateJob, KeepsReady

LEMMA WorkKeeps ==
  ASSUME TypeOK, NEW p \in Procs, Works(p) \/ Throw(p) \/ Crash(p)
  PROVE  KeepsReady
<1>0. pc[p] # "idle" /\ J(p) \in Jobs /\ job[J(p)] \in JobRows
  BY WorkFrame, InFlight
<1>1. CASE SetPhaseSigned(p)
  <2> DEFINE row == [job[J(p)] EXCEPT !.status[Ph(p)] = "signed",
                                      !.lifecycle = "funding_pending"]
  <2>1. row.ready = job[J(p)].ready /\ UpdateJob(p, row)
    BY <1>0, <1>1 DEF SetPhaseSigned, JobRows
  <2> HIDE DEF row
  <2> QED
    BY <1>0, <2>1, UpdateKeeps
<1>2. ASSUME JobBroadcast(p) \/ Pending(p)
      PROVE  KeepsReady
  <2>1. PICK st \in {"broadcast", "pending"} :
          UpdateJob(p, [job[J(p)] EXCEPT !.status[Ph(p)] = st])
    BY <1>2 DEF JobBroadcast, Pending
  <2> DEFINE row == [job[J(p)] EXCEPT !.status[Ph(p)] = st]
  <2>2. row.ready = job[J(p)].ready /\ UpdateJob(p, row)
    BY <1>0, <2>1 DEF JobRows
  <2> HIDE DEF row
  <2> QED
    BY <1>0, <2>2, UpdateKeeps
<1>3. ASSUME NEW st, MarkJobError(p, st)
      PROVE  KeepsReady
  <2> DEFINE row == [job[J(p)] EXCEPT !.status[Ph(p)] = st,
                                      !.lifecycle = LifecycleOf(st),
                                      !.lockedBy = NoOwner, !.leaseLive = FALSE,
                                      !.due = FALSE]
  <2>1. row.ready = job[J(p)].ready /\ UpdateJob(p, row)
    BY <1>0, <1>3 DEF MarkJobError, JobRows
  <2> HIDE DEF row
  <2> QED
    BY <1>0, <2>1, UpdateKeeps
<1>4. CASE Reverted(p) \/ Missing(p) \/ CatchError(p)
  BY <1>3, <1>4 DEF Reverted, Missing, CatchError
<1>5. CASE Confirm(p)
  BY <1>0, <1>5, Typed DEF Confirm, UpdateJob, KeepsReady, JobRows
<1>6. CASE Release(p)
  BY <1>0, <1>6, Typed DEF Release, UpdateJob, KeepsReady, JobRows
<1>7. CASE /\ ~SetPhaseSigned(p) /\ ~JobBroadcast(p) /\ ~Pending(p) /\ ~Reverted(p)
           /\ ~Missing(p) /\ ~CatchError(p) /\ ~Release(p) /\ ~Confirm(p)
  <2>1. UNCHANGED job
    BY <1>7 DEF Works, Prepares, Sends, Finalizes, LookUp, Prepare, Recheck, ReadNonce,
       ReadOutbox, Upsert, Reserve, Sign, Persist, Insert, CheckSigned, Collect,
       CheckLease, Broadcast, OutboxBroadcast, ReadReceipt, OutboxConfirmed, Throw,
       Crash, rows
  <2> QED
    BY <2>1 DEF KeepsReady
<1> QED
  BY <1>1, <1>2, <1>4, <1>5, <1>6, <1>7

LEMMA ReadyStays ==
  ASSUME TypeOK, [Next]_vars
  PROVE  KeepsReady
<1> USE Typed
<1>1. ASSUME UNCHANGED job
      PROVE  KeepsReady
  BY <1>1 DEF KeepsReady
<1>2. CASE \E p \in Procs, j \in Jobs : Acquire(p, j)
  BY <1>2 DEF Acquire, KeepsReady, JobRows
<1>3. CASE \E p \in Procs : Works(p) \/ Throw(p) \/ Crash(p)
  BY <1>3, WorkKeeps
<1>4. ASSUME NEW j \in Jobs,
             CreateFundingJob(j) \/ EnqueueFundingRetry(j) \/ BecomeDue(j)
               \/ LeaseExpires(j)
      PROVE  KeepsReady
  <2>1. job[j] \in JobRows /\ \A i \in Jobs \ {j} : job'[i] = job[i]
    BY <1>4 DEF CreateFundingJob, EnqueueFundingRetry, BecomeDue, LeaseExpires
  <2>2. job'[j].ready = job[j].ready
    <3>1. CASE EnqueueFundingRetry(j)
      <4>1. PICK new : job' = [job EXCEPT ![j] = [@ EXCEPT !.due = TRUE,
                                 !.lifecycle = "funding_pending", !.status = new]]
        BY <3>1 DEF EnqueueFundingRetry
      <4> QED
        BY <2>1, <4>1 DEF JobRows
    <3>2. CASE CreateFundingJob(j) \/ BecomeDue(j) \/ LeaseExpires(j)
      BY <2>1, <3>2 DEF CreateFundingJob, BecomeDue, LeaseExpires, JobRows
    <3> QED
      BY <1>4, <3>1, <3>2
  <2> QED
    BY <2>1, <2>2 DEF KeepsReady
<1>5. CASE Mine \/ ForeignSend \/ DropTx
  BY <1>1, <1>5 DEF Mine, ForeignSend, DropTx, rows
<1>6. CASE UNCHANGED vars
  BY <1>1, <1>6 DEF vars, rows
<1> QED
  BY <1>2, <1>3, <1>4, <1>5, <1>6, NextSplit DEF Outside

\* A block pays a wallet something new, and its tokens only after its gas.
LEMMA BlockPays ==
  ASSUME IInv, IInv', NEW block, mined' = Append(mined, block),
         \A j \in Jobs, ph \in Phases : Paid(j, ph) => Paid(j, ph)',
         UNCHANGED Ready
  PROVE  [Promise!Next]_<<Funds, Ready>>
<1> DEFINE b == block.job
           n == Len(mined) + 1
<1>1. /\ n \in Nat /\ 1..Len(mined') = 1..n /\ mined'[n] = block /\ block \in MinedTxs
      /\ \A i \in 1..Len(mined) : mined'[i] = mined[i] /\ i # n /\ i \in 1..n
      /\ n \in 1..n /\ \A i \in 1..n : i \in 1..Len(mined) \/ i = n
  <2>1. mined \in Seq(MinedTxs) /\ Len(mined) \in Nat /\ mined' \in Seq(MinedTxs)
    BY DEF IInv, TypeOK
  <2>2. Len(mined') = n /\ mined'[n] = block /\ \A i \in 1..Len(mined) : mined'[i] = mined[i]
    BY <2>1
  <2>3. n \in 1..Len(mined')
    BY <2>1, <2>2
  <2>4. block \in MinedTxs
    <3>1. mined'[n] \in MinedTxs
      BY <2>1, <2>3
    <3> QED
      BY <2>2, <3>1
  <2> QED
    BY <2>1, <2>2, <2>3, <2>4
<1> HIDE DEF n
<1>2. \A j \in Jobs, ph \in Phases :
        Paid(j, ph)' <=> Paid(j, ph) \/ (b = j /\ block.phase = ph /\ block.ok)
  BY <1>1 DEF Paid
<1>3. CASE b \notin Jobs \/ ~block.ok
  <2>1. \A j \in Jobs, ph \in Phases : Paid(j, ph)' <=> Paid(j, ph)
    BY <1>2, <1>3
  <2> QED
    BY <2>1 DEF Funds
<1>4. CASE b \in Jobs /\ block.ok
  <2>0. block.phase \in Phases /\ b # NoJob
    BY <1>1, <1>4, Ranges DEF MinedTxs
  <2>1. ~Paid(b, block.phase)
    <3> SUFFICES ASSUME Paid(b, block.phase) PROVE FALSE
      OBVIOUS
    <3>1. PICK i \in 1..Len(mined) : mined[i].job = b /\ mined[i].phase = block.phase
      BY DEF Paid
    <3>2. /\ outbox'[b][block.phase].nonce = i - 1
          /\ outbox'[b][block.phase].nonce = n - 1
      BY <1>1, <2>0, <3>1 DEF IInv, OnlyStoredIsSent
    <3>3. i \in Int /\ n \in Int
      BY <1>1
    <3> QED
      BY <1>1, <3>2, <3>3
  <2>2. block.phase = "token" => Paid(b, "gas")
    <3> SUFFICES ASSUME block.phase = "token" PROVE Paid(b, "gas")
      OBVIOUS
    <3>1. outbox'[b]["token"].nonce = n - 1
      BY <1>1, <2>0 DEF IInv, OnlyStoredIsSent
    <3>2. outbox'[b]["token"].nonce # NoNonce
      <4>1. n >= 1
        <5>1. Len(mined) \in Nat
          BY Typed DEF IInv
        <5> QED
          BY <5>1 DEF n
      <4> QED
        BY <1>1, <3>1, <4>1 DEF NoNonce
    <3>3. Paid(b, "gas")'
      BY <1>4, <3>2 DEF IInv, TokenAfterGas
    <3> QED
      BY <1>2, <1>4, <3>3 DEF Phases
  <2>3. Funds' = [Funds EXCEPT ![b] = @ \cup {block.phase}]
    <3>1. \A j \in Jobs : {ph \in Phases : Paid(j, ph)'}
            = IF j = b THEN {ph \in Phases : Paid(j, ph)} \cup {block.phase}
              ELSE {ph \in Phases : Paid(j, ph)}
      BY <1>2, <1>4, <2>0
    <3> QED
      BY <1>4, <3>1 DEF Funds
  <2>4. block.phase = "gas" => Promise!PayGas(b)
    BY <1>4, <2>1, <2>3 DEF Promise!PayGas, Funds, Phases
  <2>5. block.phase = "token" => Promise!PayTokens(b)
    <3>1. block.phase = "token" => Funds[b] = {"gas"}
      BY <1>4, <2>1, <2>2 DEF Funds, Phases
    <3> QED
      BY <1>4, <2>3, <3>1 DEF Promise!PayTokens
  <2> QED
    BY <1>4, <2>0, <2>4, <2>5 DEF Promise!Next, Phases
<1> QED
  BY <1>3, <1>4

\* A wallet is declared ready by the worker on its token phase, and is funded.
LEMMA JobDeclares ==
  ASSUME IInv, IInv', [Next]_vars, UNCHANGED mined
  PROVE  [Promise!Next]_<<Funds, Ready>>
<1>0. TypeOK /\ ConfirmedIsPaid /\ ReadyIsFunded'
  BY DEF IInv
<1>1. Funds' = Funds
  BY DEF Funds, Paid
<1>2. Ready \subseteq Ready'
  BY <1>0, ReadyStays DEF KeepsReady, Ready
<1>3. ASSUME NothingClaimed
      PROVE  Ready' = Ready
  BY <1>2, <1>3 DEF NothingClaimed, Ready
<1>4. ASSUME NEW w \in Jobs, Ready' \subseteq Ready \cup {w}
      PROVE  [Promise!Next]_<<Funds, Ready>>
  <2>1. CASE Ready' = Ready
    BY <1>1, <2>1
  <2>2. CASE Ready' # Ready
    <3>1. w \notin Ready /\ w \in Ready' /\ Ready' = Ready \cup {w}
      BY <1>2, <1>4, <2>2
    <3>2. Paid(w, "gas") /\ Paid(w, "token")
      BY <1>0, <3>1 DEF ReadyIsFunded, Ready, Paid
    <3>3. Funds[w] = {"gas", "token"}
      BY <1>4, <3>2 DEF Funds, Phases
    <3>4. Promise!DeclareReady(w)
      BY <1>1, <3>1, <3>3 DEF Promise!DeclareReady
    <3> QED
      BY <1>4, <3>4 DEF Promise!Next
  <2> QED
    BY <2>1, <2>2
<1>5. CASE \E p \in Procs, j \in Jobs : Acquire(p, j)
  BY <1>0, <1>1, <1>3, <1>5, AcquireClaims
<1>6. ASSUME NEW p \in Procs, Works(p) \/ Throw(p) \/ Crash(p)
      PROVE  [Promise!Next]_<<Funds, Ready>>
  <2>0. pc[p] # "idle" /\ J(p) \in Jobs
    BY <1>0, <1>6, WorkFrame, InFlight
  <2>1. ASSUME Confirm(p) \/ Release(p)
        PROVE  \A j \in Jobs \ {J(p)} : job'[j] = job[j]
    BY <1>0, <2>0, <2>1, Typed DEF Confirm, Release, UpdateJob
  <2>2. Confirm(p) \/ Release(p) => Ready' \subseteq Ready \cup {J(p)}
    BY <2>1 DEF Ready
  <2> QED
    BY <1>0, <1>1, <1>3, <1>4, <1>6, <2>0, <2>2, WorkClaims
<1>7. CASE Outside
  BY <1>0, <1>1, <1>3, <1>7, OutsideClaims
<1>8. CASE UNCHANGED vars
  BY <1>1, <1>8 DEF vars, rows, Ready
<1> QED
  BY <1>5, <1>6, <1>7, <1>8, NextSplit

\* The worker implements FundingPromise over every interleaving of workers,
\* crash, lost lease and resend: gas before tokens, each once, ready for good.
THEOREM FundingKeepsPromise == Spec => PromiseKept
<1>1. Init => Promise!Init
  <2> SUFFICES ASSUME Init PROVE Promise!Init
    OBVIOUS
  <2>1. mined = <<>> /\ \A j \in Jobs : ~job[j].ready
    BY DEF Init, NewJob
  <2>2. \A j \in Jobs, ph \in Phases : ~Paid(j, ph)
    BY <2>1 DEF Paid
  <2> QED
    BY <2>1, <2>2 DEF Promise!Init, Funds, Ready
<1>2. IInv /\ IInv' /\ [Next]_vars => [Promise!Next]_<<Funds, Ready>>
  <2> SUFFICES ASSUME IInv, IInv', [Next]_vars PROVE [Promise!Next]_<<Funds, Ready>>
    OBVIOUS
  <2>0. TypeOK
    BY DEF IInv
  <2>1. CASE UNCHANGED mined
    BY <2>1, JobDeclares
  <2>2. CASE ~UNCHANGED mined
    <3>1. PICK block : mined' = Append(mined, block)
      BY <2>0, <2>2, ChainGrows
    <3>2. UNCHANGED Ready
      BY <2>0, <2>2, ChainGrows DEF Ready
    <3>3. \A j \in Jobs, ph \in Phases : Paid(j, ph) => Paid(j, ph)'
      BY <2>0, PaidStays
    <3> QED
      BY <3>1, <3>2, <3>3, BlockPays
  <2> QED
    BY <2>1, <2>2
<1> QED
  BY <1>1, <1>2, Invariant, PTL DEF Spec, PromiseKept, Promise!Spec
=============================================================================
