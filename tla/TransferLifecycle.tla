------------------------- MODULE TransferLifecycle -------------------------
(***************************************************************************)
(* The record of users' transfers (backend/src/services/                   *)
(* transactionService.js) against the chain the browser sends them to.     *)
(*                                                                         *)
(* The browser signs and sends a transfer itself, then posts its hash.     *)
(* The backend checks that the hash is new and that the node knows it,     *)
(* enters it as PENDING, answers, and leaves a promise in its memory that  *)
(* waits for the receipt and writes CONFIRMED or FAILED.  A restart keeps  *)
(* no such promise; its bootstrap fails what has been pending too long.    *)
(*                                                                         *)
(* Each action is what the backend does between two awaits.  The checks    *)
(* that depend on the posted fields alone (their shape, the owner of the   *)
(* wallet, the sender, recipient and amount of the transaction) refuse a   *)
(* post without touching any state: the posts here are those they let by.  *)
(* All posts carry the hash as ethers computed it.                         *)
(***************************************************************************)
EXTENDS Naturals, Sequences

CONSTANTS
  Transfers,     \* the transfers, each named by its hash
  Posts,         \* the requests to record one
  HashOf,        \* the transfer each post names
  FaultPoints,   \* where an await may fail; with "Ack", after it took effect
  MaxFaults,     \* bound: failures in a behaviour
  MaxCrashes     \* bound: restarts of the backend

ASSUME PostsAssumption == HashOf \in [Posts -> Transfers]
ASSUME TransferBounds == MaxFaults \in Nat /\ MaxCrashes \in Nat

VARIABLES
  chain,     \* what became of each transfer
  rows,      \* the transactions table, in the order of tx_id
  post,      \* where each request is
  fin,       \* where the promise of each row is
  panel,     \* what the page of each request shows
  up,        \* is the backend running?
  faults, crashes   \* how much of each bound is used

vars == <<chain, rows, post, fin, panel, up, faults, crashes>>

ChainStates == {"unsent", "pool", "dropped", "mined", "reverted"}
Statuses == {"PENDING", "CONFIRMED", "FAILED"}
PostPoints == {"idle", "unique", "lookup", "insert", "answered"}

\* "confirm" and "fail" are the writes in the try, "rescue" the one in the catch.
FinPoints == {"wait", "confirm", "fail", "rescue", "done"}

Init ==
  /\ chain = [t \in Transfers |-> "unsent"]
  /\ rows = <<>>
  /\ post = [r \in Posts |-> "idle"]
  /\ fin = <<>>
  /\ panel = [r \in Posts |-> "none"]
  /\ up = TRUE
  /\ faults = 0 /\ crashes = 0

TxIds == 1..Len(rows)

Fail(point) ==
  /\ point \in FaultPoints /\ faults < MaxFaults
  /\ faults' = faults + 1

-----------------------------------------------------------------------------
(* The browser and the chain.                                              *)

\* SendTokens signs and broadcasts before it posts.
BroadcastTransfer(t) ==
  /\ chain[t] = "unsent"
  /\ chain' = [chain EXCEPT ![t] = "pool"]
  /\ UNCHANGED <<rows, post, fin, panel, up, faults, crashes>>

Mine(t) ==
  /\ chain[t] = "pool"
  /\ \E end \in {"mined", "reverted"} : chain' = [chain EXCEPT ![t] = end]
  /\ UNCHANGED <<rows, post, fin, panel, up, faults, crashes>>

\* Its nonce is taken by another transaction, or the node forgets it.
Drop(t) ==
  /\ chain[t] = "pool"
  /\ chain' = [chain EXCEPT ![t] = "dropped"]
  /\ UNCHANGED <<rows, post, fin, panel, up, faults, crashes>>

-----------------------------------------------------------------------------
(* recordSubmittedTransfer.                                                *)

Goto(r, point) ==
  /\ post' = [post EXCEPT ![r] = point]
  /\ UNCHANGED panel

\* The request ends; its page shows the row it was given, or an error.
Answer(r, shown) ==
  /\ post' = [post EXCEPT ![r] = "answered"]
  /\ panel' = [panel EXCEPT ![r] = shown]

Submit(r) ==
  /\ up /\ post[r] = "idle" /\ chain[HashOf[r]] # "unsent"
  /\ Goto(r, "unique")
  /\ UNCHANGED <<chain, rows, fin, up, faults, crashes>>

\* No row has this hash: ensureUniqueTxHash, which ignores letter case, and the
\* table's UNIQUE(tx_hash), which does not: the same for hashes as ethers gives them.
UnrecordedUnlessFailed(t) ==
  \A i \in TxIds : rows[i].hash = t => rows[i].status = "FAILED"

Unrecorded(t) == \A i \in TxIds : rows[i].hash # t

EnsureUniqueTxHash(r) ==
  /\ post[r] = "unique"
  /\ IF Unrecorded(HashOf[r]) THEN Goto(r, "lookup") ELSE Answer(r, "error")
  /\ UNCHANGED <<chain, rows, fin, up, faults, crashes>>

\* The node must know the transaction.  Its receipt, when there is one, holds
\* the Transfer event if it succeeded, and is not looked at otherwise.
ValidateSubmittedTransfer(r) ==
  /\ post[r] = "lookup"
  /\ IF chain[HashOf[r]] = "dropped" THEN Answer(r, "error") ELSE Goto(r, "insert")
  /\ UNCHANGED <<chain, rows, fin, up, faults, crashes>>

Enter(r) ==
  /\ Unrecorded(HashOf[r])
  /\ rows' = Append(rows, [hash |-> HashOf[r], status |-> "PENDING", old |-> FALSE])

\* The row, and the promise that will settle it.
CreatePendingTransaction(r) ==
  /\ post[r] = "insert"
  /\ \/ Enter(r) /\ fin' = Append(fin, "wait") /\ Answer(r, "PENDING")
     \/ ~Unrecorded(HashOf[r]) /\ Answer(r, "error") /\ UNCHANGED <<rows, fin>>
  /\ UNCHANGED <<chain, up, faults, crashes>>

\* An await of the request throws: an error is answered.  When the insert
\* took effect first, its row has no promise.
SubmitThrows(r) ==
  /\ Answer(r, "error")
  /\ \/ /\ post[r] \in {"unique", "lookup", "insert"} /\ Fail(post[r])
        /\ UNCHANGED <<rows, fin>>
     \/ /\ post[r] = "insert" /\ Fail("insertAck")
        /\ Enter(r) /\ fin' = Append(fin, "done")
  /\ UNCHANGED <<chain, up, crashes>>

\* The page polls the history until its row is settled.
Poll(r) ==
  /\ up /\ panel[r] = "PENDING"
  /\ \E i \in TxIds : /\ rows[i].hash = HashOf[r]
                      /\ rows[i].status # "PENDING"
                      /\ panel' = [panel EXCEPT ![r] = rows[i].status]
  /\ UNCHANGED <<chain, rows, post, fin, up, faults, crashes>>

-----------------------------------------------------------------------------
(* finalizeTransactionInBackground.                                        *)

FinGoto(i, point) == fin' = [fin EXCEPT ![i] = point]

SetStatus(i, status) == rows' = [rows EXCEPT ![i].status = status]

\* receipt.status = 1, or not.
VerdictRaw(t) == chain[t]

VerdictAlways(t) == "confirm"

Verdict(t) == IF chain[t] = "mined" THEN "confirm" ELSE "fail"

\* Whatever throws in the promise, the catch fails the transaction.
OnErrorNothing == "done"

OnError == "rescue"

Receipt(i) ==
  /\ fin[i] = "wait" /\ chain[rows[i].hash] \in {"mined", "reverted"}
  /\ FinGoto(i, Verdict(rows[i].hash))
  /\ UNCHANGED <<chain, rows, post, panel, up, faults, crashes>>

\* 60 seconds without a receipt.
Timeout(i) ==
  /\ fin[i] = "wait" /\ chain[rows[i].hash] \notin {"mined", "reverted"}
  /\ FinGoto(i, OnError)
  /\ UNCHANGED <<chain, rows, post, panel, up, faults, crashes>>

MarkTransactionConfirmed(i) ==
  /\ fin[i] = "confirm"
  /\ SetStatus(i, "CONFIRMED")
  /\ FinGoto(i, "done")
  /\ UNCHANGED <<chain, post, panel, up, faults, crashes>>

MarkTransactionFailed(i) ==
  /\ fin[i] \in {"fail", "rescue"}
  /\ SetStatus(i, "FAILED")
  /\ FinGoto(i, "done")
  /\ UNCHANGED <<chain, post, panel, up, faults, crashes>>

\* An await of the promise throws.  In the catch itself that ends the promise.
FinalizeThrows(i) ==
  /\ fin[i] # "done"
  /\ FinGoto(i, IF fin[i] = "rescue" THEN "done" ELSE OnError)
  /\ \/ Fail(fin[i]) /\ UNCHANGED rows
     \/ fin[i] = "confirm" /\ Fail("confirmAck") /\ SetStatus(i, "CONFIRMED")
  /\ UNCHANGED <<chain, post, panel, up, crashes>>

-----------------------------------------------------------------------------
(* The backend stops and starts; ten minutes pass.                         *)

Crash ==
  /\ up /\ crashes < MaxCrashes
  /\ up' = FALSE /\ crashes' = crashes + 1
  /\ post' = [r \in Posts |-> IF post[r] = "idle" THEN "idle" ELSE "answered"]
  /\ panel' = [r \in Posts |-> IF post[r] \in {"idle", "answered"}
                               THEN panel[r] ELSE "error"]
  /\ fin' = [i \in TxIds |-> "done"]
  /\ UNCHANGED <<chain, rows, faults>>

StaleAny(row) == row.old

Stale(row) == row.status = "PENDING" /\ row.old

\* runDatabaseBootstrap, before the server listens: the migration that fails
\* stale pending transactions runs at every start.
Boot ==
  /\ ~up /\ up' = TRUE
  /\ rows' = [i \in TxIds |-> IF Stale(rows[i])
                              THEN [rows[i] EXCEPT !.status = "FAILED"] ELSE rows[i]]
  /\ UNCHANGED <<chain, post, fin, panel, faults, crashes>>

GrowOld(i) ==
  /\ ~rows[i].old
  /\ rows' = [rows EXCEPT ![i].old = TRUE]
  /\ UNCHANGED <<chain, post, fin, panel, up, faults, crashes>>

-----------------------------------------------------------------------------
Requests(r) ==
  EnsureUniqueTxHash(r) \/ ValidateSubmittedTransfer(r) \/ CreatePendingTransaction(r)

FinalizesWithoutTimeout(i) ==
  Receipt(i) \/ MarkTransactionConfirmed(i) \/ MarkTransactionFailed(i)

Finalizes(i) ==
  \/ Receipt(i) \/ Timeout(i)
  \/ MarkTransactionConfirmed(i) \/ MarkTransactionFailed(i)

Next ==
  \/ \E t \in Transfers : BroadcastTransfer(t) \/ Mine(t) \/ Drop(t)
  \/ \E r \in Posts : Submit(r) \/ Requests(r) \/ SubmitThrows(r) \/ Poll(r)
  \/ \E i \in TxIds : Finalizes(i) \/ FinalizeThrows(i) \/ GrowOld(i)
  \/ Crash \/ Boot

Spec == Init /\ [][Next]_vars

\* Each request and each promise goes on, and a stopped backend is started
\* again.  Nothing is assumed of the chain: waiting ends by the timeout.
FairSpec ==
  /\ Spec
  /\ \A r \in Posts : WF_vars(Requests(r))
  /\ \A t \in Transfers : WF_vars(\E i \in TxIds : rows[i].hash = t /\ Finalizes(i))
  /\ WF_vars(Boot)

-----------------------------------------------------------------------------
(* Properties.                                                             *)

TransferTypeOK ==
  /\ chain \in [Transfers -> ChainStates]
  /\ rows \in Seq([hash : Transfers, status : Statuses, old : BOOLEAN])
  /\ post \in [Posts -> PostPoints]
  /\ fin \in Seq(FinPoints) /\ Len(fin) = Len(rows)
  /\ panel \in [Posts -> {"none", "error"} \cup Statuses]
  /\ up \in BOOLEAN
  /\ faults \in 0..MaxFaults /\ crashes \in 0..MaxCrashes

\* A transfer is in the history once, and one request at most is told that it
\* recorded it, however requests with the same hash pass each other between
\* the check and the insert.
RecordedOnce ==
  /\ \A i, j \in TxIds : rows[i].hash = rows[j].hash => i = j
  /\ \A r, s \in Posts :
       HashOf[r] = HashOf[s] /\ {panel[r], panel[s]} \subseteq Statuses => r = s

\* What the history, or a page, shows as CONFIRMED is executed on the chain.
ConfirmedIsMined ==
  /\ \A i \in TxIds : rows[i].status = "CONFIRMED" => chain[rows[i].hash] = "mined"
  /\ \A r \in Posts : panel[r] = "CONFIRMED" => chain[HashOf[r]] = "mined"

\* A page stops polling at the first settled status that it is shown.  What it
\* shows from then on stands in the history, whatever restarts and boots come;
\* only the catch, after a failure, takes a confirmation back.
PanelStands ==
  \A r \in Posts : panel[r] \in {"CONFIRMED", "FAILED"} =>
    \E i \in TxIds :
      /\ rows[i].hash = HashOf[r]
      /\ \/ rows[i].status = panel[r]
         \/ panel[r] = "CONFIRMED" /\ rows[i].status = "FAILED" /\ faults > 0

\* A pending row whose promise has ended: nothing but a restart settles it.
Lost(i) == i \in TxIds /\ rows[i].status = "PENDING" /\ fin[i] = "done"

\* A row is lost so when the backend stops, when its insert is reported as
\* failed, or when the write of the catch fails: in no other way.
LostOnlySo ==
  [][\A i \in 1..Len(rows') :
       Lost(i)' /\ ~Lost(i) =>
         \/ ~up'
         \/ faults' > faults /\ (i \notin TxIds \/ fin[i] = "rescue")]_vars

StatusOf(t) ==
  IF Unrecorded(t) THEN "none"
  ELSE rows[CHOOSE i \in TxIds : rows[i].hash = t].status

\* A confirmation whose answer was lost: the catch may yet write FAILED.
Unsure(i) == rows[i].status = "CONFIRMED" /\ fin[i] = "rescue"

Entry(i) == IF Unsure(i) THEN "UNSURE" ELSE rows[i].status

RecordOf(t) ==
  IF Unrecorded(t) THEN "none" ELSE Entry(CHOOSE i \in TxIds : rows[i].hash = t)

\* The record keeps its promise: a transfer is entered once, confirmed only if
\* it was executed, and settled for good unless a confirmation is unsure.
Promise ==
  INSTANCE TransferPromise WITH
    executed <- {t \in Transfers : chain[t] = "mined"},
    record <- [t \in Transfers |-> RecordOf(t)]

PromiseKept == Promise!Spec

\* A pending row is settled or lost: its promise does not wait for ever,
\* whatever becomes of the transaction.
Watched(t) == \E i \in TxIds : /\ rows[i].hash = t /\ rows[i].status = "PENDING"
                               /\ fin[i] # "done"

WatchEnds == \A t \in Transfers : Watched(t) ~> ~Watched(t)

\* "The transaction becomes CONFIRMED or FAILED."
Settles == \A t \in Transfers : StatusOf(t) = "PENDING" ~> StatusOf(t) # "PENDING"

=============================================================================
