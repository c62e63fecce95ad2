--------------------------- MODULE TransferProofs ---------------------------
(***************************************************************************)
(* Proofs about TransferLifecycle, for any transfers, requests, failures   *)
(* and restarts: the history enters a transfer once and shows as CONFIRMED *)
(* only what the chain executed.                                           *)
(*                                                                         *)
(* A step does one of three things to the table: it leaves it, it changes  *)
(* a row's status or age and no hash (SameHashes), or it appends a PENDING *)
(* row for a hash the table does not hold (Entered).                       *)
(***************************************************************************)
EXTENDS TransferLifecycle, TLAPS

Row == [hash : Transfers, status : Statuses, old : BOOLEAN]

\* The step keeps every row and its hash.
SameHashes ==
  /\ rows' \in Seq(Row) /\ Len(rows') = Len(rows)
  /\ \A i \in TxIds : rows'[i].hash = rows[i].hash

\* The step appends a pending row for the transfer t and its promise.
Entered(t) ==
  /\ Unrecorded(t)
  /\ rows' \in Seq(Row) /\ Len(rows') = Len(rows) + 1
  /\ rows'[Len(rows) + 1] = [hash |-> t, status |-> "PENDING", old |-> FALSE]
  /\ \A i \in TxIds : rows'[i] = rows[i]

-----------------------------------------------------------------------------
(* What the operators on the table do.                                     *)

LEMMA TableLengths ==
  ASSUME TransferTypeOK
  PROVE  /\ Len(rows) \in Nat /\ Len(fin) = Len(rows)
         /\ \A i \in TxIds : rows[i] \in Row /\ fin[i] \in FinPoints
<1>1. rows \in Seq(Row) /\ fin \in Seq(FinPoints) /\ Len(fin) = Len(rows)
  BY DEF TransferTypeOK, Row
<1>2. QED
  BY <1>1 DEF TxIds

\* Writing the status of a row keeps the table and every other row.
LEMMA SetStatusKeeps ==
  ASSUME TransferTypeOK, NEW i \in TxIds, NEW status \in Statuses, SetStatus(i, status)
  PROVE  /\ SameHashes
         /\ rows'[i].status = status
         /\ \A k \in TxIds \ {i} : rows'[k] = rows[k]
<1>1. rows \in Seq(Row) /\ Len(rows) \in Nat /\ TxIds = 1..Len(rows)
  BY DEF TransferTypeOK, Row, TxIds
<1>2. rows[i] \in Row
  BY <1>1
<1>3. [rows[i] EXCEPT !.status = status] \in Row
  BY <1>2 DEF Row
<1>4. rows' = [rows EXCEPT ![i] = [rows[i] EXCEPT !.status = status]]
  BY DEF SetStatus
<1>5. rows' \in Seq(Row) /\ Len(rows') = Len(rows)
  BY <1>1, <1>3, <1>4
<1>6. QED
  BY <1>1, <1>2, <1>4, <1>5 DEF SameHashes, Row

\* The insert of a request enters its transfer.
LEMMA EnterEnters ==
  ASSUME TransferTypeOK, NEW r \in Posts, Enter(r)
  PROVE  Entered(HashOf[r])
<1>1. rows \in Seq(Row) /\ Len(rows) \in Nat
  BY DEF TransferTypeOK, Row
<1>2. HashOf[r] \in Transfers
  BY PostsAssumption
<1>3. [hash |-> HashOf[r], status |-> "PENDING", old |-> FALSE] \in Row
  BY <1>2 DEF Row, Statuses
<1>4. QED
  BY <1>1, <1>3 DEF Enter, Entered, TxIds

\* A promise that moves on leaves the others where they are.
LEMMA FinGotoKeeps ==
  ASSUME TransferTypeOK, NEW i \in TxIds, NEW point \in FinPoints, FinGoto(i, point)
  PROVE  /\ fin' \in Seq(FinPoints) /\ Len(fin') = Len(fin)
         /\ fin'[i] = point /\ \A k \in TxIds \ {i} : fin'[k] = fin[k]
BY DEF TransferTypeOK, FinGoto, TxIds

\* The statuses are none of what an error page shows.
LEMMA StatusNames ==
  "none" \notin Statuses /\ "error" \notin Statuses /\ "PENDING" \in Statuses
BY DEF Statuses

-----------------------------------------------------------------------------
(* The inductive invariant.                                                *)

\* The properties of the record, with why they hold: a promise confirms only
\* what it saw mined, and a page that was answered shows a row of its transfer.
TransferInv ==
  /\ TransferTypeOK
  /\ \A i \in TxIds : fin[i] = "confirm" => chain[rows[i].hash] = "mined"
  /\ \A r \in Posts : panel[r] \in Statuses =>
       post[r] = "answered" /\ ~Unrecorded(HashOf[r])
  /\ RecordedOnce
  /\ ConfirmedIsMined

\* A step that keeps the hashes keeps what is recorded, and where.
LEMMA HashesKept ==
  ASSUME TransferInv, SameHashes
  PROVE  /\ TxIds' = TxIds
         /\ \A t \in Transfers : Unrecorded(t)' <=> Unrecorded(t)
         /\ \A i, j \in TxIds' : rows'[i].hash = rows'[j].hash => i = j
<1>1. TxIds' = TxIds /\ \A i \in TxIds : rows'[i].hash = rows[i].hash
  BY DEF SameHashes, TxIds
<1>2. QED
  BY <1>1 DEF TransferInv, RecordedOnce, Unrecorded

\* An entered row is the only one of its transfer.
LEMMA EnteredOnce ==
  ASSUME TransferInv, NEW t \in Transfers, Entered(t)
  PROVE  /\ TxIds' = TxIds \cup {Len(rows) + 1}
         /\ ~Unrecorded(t)'
         /\ \A u \in Transfers : ~Unrecorded(u) => ~Unrecorded(u)'
         /\ \A i, j \in TxIds' : rows'[i].hash = rows'[j].hash => i = j
<1>1. Len(rows) \in Nat
  BY TableLengths DEF TransferInv
<1>2. TxIds' = TxIds \cup {Len(rows) + 1} /\ Len(rows) + 1 \notin TxIds
  BY <1>1 DEF Entered, TxIds
<1>3. \A i \in TxIds : rows'[i] = rows[i] /\ rows[i].hash # t
  BY DEF Entered, Unrecorded
<1>4. rows'[Len(rows) + 1].hash = t
  BY DEF Entered
<1>5. \A i, j \in TxIds : rows[i].hash = rows[j].hash => i = j
  BY DEF TransferInv, RecordedOnce
<1>6. QED
  BY <1>2, <1>3, <1>4, <1>5 DEF Unrecorded

\* The chain moves: what is mined stays mined.
LEMMA ChainKeepsInv ==
  ASSUME TransferInv, NEW t \in Transfers,
         BroadcastTransfer(t) \/ Mine(t) \/ Drop(t)
  PROVE  TransferInv'
<1>1. /\ chain' \in [Transfers -> ChainStates]
      /\ \A u \in Transfers : chain[u] = "mined" => chain'[u] = "mined"
      /\ UNCHANGED <<rows, post, fin, panel, up, faults, crashes>>
  BY DEF TransferInv, TransferTypeOK, ChainStates, BroadcastTransfer, Mine, Drop
<1>2. TxIds' = TxIds /\ \A u : Unrecorded(u)' <=> Unrecorded(u)
  BY <1>1 DEF TxIds, Unrecorded
<1>3. TransferTypeOK'
  BY <1>1 DEF TransferInv, TransferTypeOK
<1>4. \A i \in TxIds : rows[i].hash \in Transfers
  BY TableLengths DEF TransferInv, Row
<1>5. \A r \in Posts : HashOf[r] \in Transfers
  BY PostsAssumption
<1>6. QED
  BY <1>1, <1>2, <1>3, <1>4, <1>5 DEF TransferInv, RecordedOnce, ConfirmedIsMined

\* A request moves on or is answered with an error.
LEMMA NoRowKeepsInv ==
  ASSUME TransferInv, NEW r \in Posts,
         post[r] # "answered",
         \/ \E point \in PostPoints : Goto(r, point)
         \/ Answer(r, "error"),
         UNCHANGED <<chain, rows, fin, up>>,
         faults' \in 0..MaxFaults, crashes' = crashes
  PROVE  TransferInv'
<1>1. /\ panel' \in [Posts -> {"none", "error"} \cup Statuses]
      /\ post' \in [Posts -> PostPoints]
  BY DEF TransferInv, TransferTypeOK, Goto, Answer, PostPoints
<1>2. TransferTypeOK'
  BY <1>1 DEF TransferInv, TransferTypeOK
<1>3. TxIds' = TxIds /\ \A u : Unrecorded(u)' <=> Unrecorded(u)
  BY DEF TxIds, Unrecorded
<1>4. panel[r] \notin Statuses
  BY DEF TransferInv
<1>5. /\ \A s \in Posts : panel'[s] \in Statuses => s # r /\ panel'[s] = panel[s]
      /\ \A s \in Posts \ {r} : post'[s] = post[s]
  BY <1>4, StatusNames DEF TransferInv, TransferTypeOK, Goto, Answer
<1>6. RecordedOnce'
  BY <1>3, <1>5 DEF TransferInv, RecordedOnce
<1>7. ConfirmedIsMined'
  BY <1>3, <1>5 DEF TransferInv, ConfirmedIsMined, Statuses
<1>8. QED
  BY <1>2, <1>3, <1>5, <1>6, <1>7 DEF TransferInv

\* A request enters its row, and is told so or not.
LEMMA EnterKeepsInv ==
  ASSUME TransferInv, NEW r \in Posts, post[r] = "insert", Enter(r),
         NEW point \in FinPoints \ {"confirm"}, fin' = Append(fin, point),
         NEW shown \in {"PENDING", "error"}, Answer(r, shown),
         UNCHANGED <<chain, up>>,
         faults' \in 0..MaxFaults, crashes' = crashes
  PROVE  TransferInv'
<1>1. HashOf[r] \in Transfers /\ Entered(HashOf[r])
  BY EnterEnters, PostsAssumption DEF TransferInv
<1>2. /\ fin' \in Seq(FinPoints) /\ Len(fin') = Len(rows')
      /\ \A i \in TxIds : fin'[i] = fin[i]
      /\ fin'[Len(rows) + 1] = point
  <2>1. fin \in Seq(FinPoints) /\ Len(fin) = Len(rows)
    BY DEF TransferInv, TransferTypeOK
  <2>2. QED
    BY <1>1, <2>1 DEF Entered, TxIds
<1>3. /\ panel' \in [Posts -> {"none", "error"} \cup Statuses]
      /\ post' \in [Posts -> PostPoints]
  BY DEF TransferInv, TransferTypeOK, Answer, PostPoints, Statuses
<1>4. TransferTypeOK'
  BY <1>1, <1>2, <1>3 DEF TransferInv, TransferTypeOK, Entered, Row
<1>5. /\ TxIds' = TxIds \cup {Len(rows) + 1} /\ ~Unrecorded(HashOf[r])'
      /\ \A u \in Transfers : ~Unrecorded(u) => ~Unrecorded(u)'
      /\ \A i, j \in TxIds' : rows'[i].hash = rows'[j].hash => i = j
  BY <1>1, EnteredOnce
<1>6. \A s \in Posts : HashOf[s] = HashOf[r] => panel[s] \notin Statuses
  BY <1>1 DEF TransferInv, Entered
<1>7. \A s \in Posts :
        /\ s # r => panel'[s] = panel[s] /\ post'[s] = post[s]
        /\ s = r => panel'[s] = shown /\ post'[s] = "answered"
  BY DEF Answer, TransferInv, TransferTypeOK
<1>8. RecordedOnce'
  BY <1>5, <1>6, <1>7 DEF TransferInv, RecordedOnce
<1>9. ConfirmedIsMined'
  <2>1. \A i \in TxIds' : rows'[i].status = "CONFIRMED" =>
          i \in TxIds /\ rows'[i] = rows[i]
    BY <1>1, <1>5 DEF Entered
  <2>2. \A s \in Posts : panel'[s] = "CONFIRMED" => panel[s] = "CONFIRMED"
    BY <1>7
  <2>3. QED
    BY <2>1, <2>2 DEF TransferInv, ConfirmedIsMined
<1>10. \A i \in TxIds' : fin'[i] = "confirm" => chain'[rows'[i].hash] = "mined"
  <2>1. ASSUME NEW i \in TxIds', fin'[i] = "confirm"
        PROVE  i \in TxIds
    BY <1>2, <1>5, <2>1
  <2>2. \A i \in TxIds : fin'[i] = fin[i] /\ rows'[i] = rows[i]
    BY <1>1, <1>2 DEF Entered
  <2>3. QED
    BY <2>1, <2>2 DEF TransferInv
<1>11. \A s \in Posts : panel'[s] \in Statuses =>
         post'[s] = "answered" /\ ~Unrecorded(HashOf[s])'
  BY <1>5, <1>7, PostsAssumption DEF TransferInv
<1>12. QED
  BY <1>4, <1>8, <1>9, <1>10, <1>11 DEF TransferInv

\* A page reads the status of its row.
LEMMA PollKeepsInv ==
  ASSUME TransferInv, NEW r \in Posts, Poll(r)
  PROVE  TransferInv'
<1>1. PICK i \in TxIds : /\ rows[i].hash = HashOf[r]
                         /\ panel' = [panel EXCEPT ![r] = rows[i].status]
  BY DEF Poll
<1>2. rows[i].status \in Statuses
  BY TableLengths DEF TransferInv, Row
<1>3. TransferTypeOK'
  BY <1>1, <1>2 DEF Poll, TransferInv, TransferTypeOK
<1>4. TxIds' = TxIds /\ \A u : Unrecorded(u)' <=> Unrecorded(u)
  BY DEF Poll, TxIds, Unrecorded
<1>5. panel[r] \in Statuses
  BY DEF Poll, Statuses
<1>6. \A s \in Posts : panel'[s] \in Statuses => panel[s] \in Statuses
  BY <1>1, <1>5 DEF TransferInv, TransferTypeOK
<1>7. RecordedOnce'
  BY <1>4, <1>6 DEF Poll, TransferInv, RecordedOnce
<1>8. ConfirmedIsMined'
  BY <1>1, <1>4 DEF Poll, TransferInv, TransferTypeOK, ConfirmedIsMined
<1>9. QED
  BY <1>3, <1>4, <1>6, <1>7, <1>8 DEF Poll, TransferInv

\* A promise moves on, and may write the status of its row: CONFIRMED only
\* for what is mined.
LEMMA FinalizeKeepsInv ==
  ASSUME TransferInv, NEW i \in TxIds, NEW point \in FinPoints, FinGoto(i, point),
         point = "confirm" => chain[rows[i].hash] = "mined",
         \/ UNCHANGED rows
         \/ SetStatus(i, "FAILED")
         \/ SetStatus(i, "CONFIRMED") /\ chain[rows[i].hash] = "mined",
         UNCHANGED <<chain, post, panel, up>>,
         faults' \in 0..MaxFaults, crashes' = crashes
  PROVE  TransferInv'
<1>1. /\ fin' \in Seq(FinPoints) /\ Len(fin') = Len(fin)
      /\ fin'[i] = point /\ \A k \in TxIds \ {i} : fin'[k] = fin[k]
  BY FinGotoKeeps DEF TransferInv
<1>2. /\ SameHashes
      /\ \A k \in TxIds : rows'[k].status = "CONFIRMED" =>
           rows[k].status = "CONFIRMED" \/ chain[rows[k].hash] = "mined"
  <2>1. CASE UNCHANGED rows
    BY <2>1 DEF SameHashes, TransferInv, TransferTypeOK, Row
  <2>2. CASE SetStatus(i, "FAILED")
    BY <2>2, SetStatusKeeps DEF TransferInv, Statuses
  <2>3. CASE SetStatus(i, "CONFIRMED") /\ chain[rows[i].hash] = "mined"
    BY <2>3, SetStatusKeeps DEF TransferInv, Statuses
  <2>4. QED
    BY <2>1, <2>2, <2>3
<1>3. TransferTypeOK'
  BY <1>1, <1>2 DEF TransferInv, TransferTypeOK, SameHashes, Row
<1>4. /\ TxIds' = TxIds
      /\ \A t \in Transfers : Unrecorded(t)' <=> Unrecorded(t)
      /\ \A k, j \in TxIds' : rows'[k].hash = rows'[j].hash => k = j
  BY <1>2, HashesKept
<1>5. RecordedOnce'
  BY <1>4 DEF TransferInv, RecordedOnce
<1>6. ConfirmedIsMined'
  BY <1>2, <1>4 DEF TransferInv, ConfirmedIsMined, SameHashes
<1>7. \A k \in TxIds' : fin'[k] = "confirm" => chain'[rows'[k].hash] = "mined"
  BY <1>1, <1>2, <1>4 DEF TransferInv, SameHashes
<1>8. QED
  BY <1>3, <1>4, <1>5, <1>6, <1>7, PostsAssumption DEF TransferInv

\* A restart ends the requests and the promises.
LEMMA CrashKeepsInv ==
  ASSUME TransferInv, Crash
  PROVE  TransferInv'
<1>1. /\ TxIds = 1..Len(rows) /\ Len(rows) \in Nat
      /\ TxIds' = TxIds /\ \A u : Unrecorded(u)' <=> Unrecorded(u)
  BY TableLengths DEF Crash, TransferInv, TxIds, Unrecorded
<1>2. fin' = [i \in 1..Len(rows) |-> "done"]
  BY <1>1 DEF Crash
<1>3. fin' \in Seq(FinPoints) /\ Len(fin') = Len(rows')
  BY <1>1, <1>2 DEF Crash, FinPoints
<1>4. /\ post' \in [Posts -> PostPoints]
      /\ panel' \in [Posts -> {"none", "error"} \cup Statuses]
      /\ crashes' \in 0..MaxCrashes
  BY TransferBounds DEF Crash, TransferInv, TransferTypeOK, PostPoints
<1>5. TransferTypeOK'
  BY <1>3, <1>4 DEF Crash, TransferInv, TransferTypeOK
<1>6. \A s \in Posts : panel'[s] \in Statuses =>
        panel'[s] = panel[s] /\ post'[s] = post[s]
  BY StatusNames DEF Crash, TransferInv
<1>7. RecordedOnce'
  BY <1>1, <1>6 DEF Crash, TransferInv, RecordedOnce
<1>8. ConfirmedIsMined'
  BY <1>1, <1>6 DEF Crash, TransferInv, ConfirmedIsMined, Statuses
<1>9. QED
  BY <1>1, <1>2, <1>5, <1>6, <1>7, <1>8 DEF Crash, TransferInv

\* Whatever a boot fails, or time ages, keeps its hash and confirms nothing.
LEMMA TimeKeepsInv ==
  ASSUME TransferInv, SameHashes,
         \A i \in TxIds : rows'[i].status \in {rows[i].status, "FAILED"},
         UNCHANGED <<chain, post, fin, panel, faults, crashes>>, up' \in BOOLEAN
  PROVE  TransferInv'
<1>1. TransferTypeOK'
  BY DEF TransferInv, TransferTypeOK, SameHashes, Row
<1>2. /\ TxIds' = TxIds
      /\ \A t \in Transfers : Unrecorded(t)' <=> Unrecorded(t)
      /\ \A i, j \in TxIds' : rows'[i].hash = rows'[j].hash => i = j
  BY HashesKept
<1>3. RecordedOnce'
  BY <1>2 DEF TransferInv, RecordedOnce
<1>4. ConfirmedIsMined'
  BY <1>2 DEF TransferInv, ConfirmedIsMined, SameHashes
<1>5. QED
  BY <1>1, <1>2, <1>3, <1>4, PostsAssumption DEF TransferInv, SameHashes

LEMMA BootKeepsInv ==
  ASSUME TransferInv, Boot
  PROVE  TransferInv'
<1>1. rows \in Seq(Row) /\ Len(rows) \in Nat /\ TxIds = 1..Len(rows)
  BY DEF TransferInv, TransferTypeOK, Row, TxIds
<1>2. \A i \in TxIds :
        /\ rows[i] \in Row
        /\ [rows[i] EXCEPT !.status = "FAILED"] \in Row
        /\ [rows[i] EXCEPT !.status = "FAILED"].hash = rows[i].hash
        /\ [rows[i] EXCEPT !.status = "FAILED"].status = "FAILED"
  <2>1. \A i \in TxIds : rows[i] \in Row
    BY <1>1
  <2>2. \A row \in Row :
          /\ [row EXCEPT !.status = "FAILED"] \in Row
          /\ [row EXCEPT !.status = "FAILED"].hash = row.hash
          /\ [row EXCEPT !.status = "FAILED"].status = "FAILED"
    BY DEF Row, Statuses
  <2>3. QED
    BY <2>1, <2>2
<1>3. rows' = [i \in 1..Len(rows) |->
                 IF Stale(rows[i]) THEN [rows[i] EXCEPT !.status = "FAILED"] ELSE rows[i]]
  BY <1>1 DEF Boot
<1>4. SameHashes /\ \A i \in TxIds : rows'[i].status \in {rows[i].status, "FAILED"}
  BY <1>1, <1>2, <1>3 DEF SameHashes
<1>5. QED
  BY <1>4, TimeKeepsInv DEF Boot

LEMMA GrowOldKeepsInv ==
  ASSUME TransferInv, NEW i \in TxIds, GrowOld(i)
  PROVE  TransferInv'
<1>1. rows \in Seq(Row) /\ Len(rows) \in Nat /\ TxIds = 1..Len(rows) /\ rows[i] \in Row
  BY TableLengths DEF TransferInv, TransferTypeOK, Row, TxIds
<1>2. rows' = [rows EXCEPT ![i] = [rows[i] EXCEPT !.old = TRUE]]
  BY DEF GrowOld
<1>3. [rows[i] EXCEPT !.old = TRUE] \in Row
  BY <1>1 DEF Row
<1>4. rows' \in Seq(Row) /\ Len(rows') = Len(rows)
  BY <1>1, <1>2, <1>3
<1>5. SameHashes /\ \A k \in TxIds : rows'[k].status \in {rows[k].status, "FAILED"}
  BY <1>1, <1>2, <1>4 DEF SameHashes, Row
<1>6. QED
  BY <1>5, TimeKeepsInv DEF GrowOld, TransferInv, TransferTypeOK

\* Every behaviour satisfies the invariant, one step of the proof per action.
LEMMA TransferInvariant == Spec => []TransferInv
<1>1. Init => TransferInv
  <2> SUFFICES ASSUME Init PROVE TransferInv
    OBVIOUS
  <2>2. TxIds = {}
    BY DEF Init, TxIds
  <2>3. TransferTypeOK
    BY TransferBounds DEF Init, TransferTypeOK, ChainStates, PostPoints
  <2>4. \A r \in Posts : panel[r] = "none"
    BY DEF Init
  <2>5. QED
    BY <2>2, <2>3, <2>4, StatusNames DEF TransferInv, RecordedOnce, ConfirmedIsMined
<1>2. TransferInv /\ [Next]_vars => TransferInv'
  <2> SUFFICES ASSUME TransferInv, [Next]_vars PROVE TransferInv'
    OBVIOUS
  <2> USE DEF TransferInv, TransferTypeOK
  <2>1. \A point : Fail(point) => faults' \in 0..MaxFaults
    BY TransferBounds DEF Fail
  <2>2. CASE \E t \in Transfers : BroadcastTransfer(t) \/ Mine(t) \/ Drop(t)
    BY <2>2, ChainKeepsInv
  <2>3. ASSUME NEW r \in Posts, Submit(r) PROVE TransferInv'
    BY <2>3, NoRowKeepsInv DEF Submit, PostPoints
  <2>4. ASSUME NEW r \in Posts, EnsureUniqueTxHash(r) PROVE TransferInv'
    BY <2>4, NoRowKeepsInv DEF EnsureUniqueTxHash, PostPoints
  <2>5. ASSUME NEW r \in Posts, ValidateSubmittedTransfer(r) PROVE TransferInv'
    BY <2>5, NoRowKeepsInv DEF ValidateSubmittedTransfer, PostPoints
  <2>6. ASSUME NEW r \in Posts, CreatePendingTransaction(r) PROVE TransferInv'
    BY <2>6, NoRowKeepsInv, EnterKeepsInv DEF CreatePendingTransaction, FinPoints
  <2>7. ASSUME NEW r \in Posts, SubmitThrows(r) PROVE TransferInv'
    <3>1. CASE post[r] = "insert" /\ Enter(r)
      BY <2>1, <2>7, <3>1, EnterKeepsInv, NoRowKeepsInv DEF SubmitThrows, FinPoints
    <3>2. CASE UNCHANGED <<rows, fin>>
      BY <2>1, <2>7, <3>2, NoRowKeepsInv DEF SubmitThrows
    <3>3. QED
      BY <2>7, <3>1, <3>2 DEF SubmitThrows
  <2>8. ASSUME NEW r \in Posts, Poll(r) PROVE TransferInv'
    BY <2>8, PollKeepsInv
  <2>9. ASSUME NEW i \in TxIds, Finalizes(i) PROVE TransferInv'
    <3>1. CASE Receipt(i)
      BY <3>1, FinalizeKeepsInv DEF Receipt, Verdict, FinPoints
    <3>2. CASE Timeout(i)
      BY <3>2, FinalizeKeepsInv DEF Timeout, OnError, FinPoints
    <3>3. CASE MarkTransactionConfirmed(i)
      BY <3>3, FinalizeKeepsInv DEF MarkTransactionConfirmed, FinPoints
    <3>4. CASE MarkTransactionFailed(i)
      BY <3>4, FinalizeKeepsInv DEF MarkTransactionFailed, FinPoints
    <3>5. QED
      BY <2>9, <3>1, <3>2, <3>3, <3>4 DEF Finalizes
  <2>10. ASSUME NEW i \in TxIds, FinalizeThrows(i) PROVE TransferInv'
    <3>1. PICK point \in {"done", "rescue"} : FinGoto(i, point)
      BY <2>10 DEF FinalizeThrows, OnError
    <3>2. fin[i] = "confirm" => chain[rows[i].hash] = "mined"
      OBVIOUS
    <3>3. faults' \in 0..MaxFaults
      BY <2>1, <2>10 DEF FinalizeThrows
    <3>4. UNCHANGED rows \/ (SetStatus(i, "CONFIRMED") /\ chain[rows[i].hash] = "mined")
      BY <2>10, <3>2 DEF FinalizeThrows
    <3>5. QED
      BY <2>10, <3>1, <3>3, <3>4, FinalizeKeepsInv DEF FinalizeThrows, FinPoints
  <2>11. CASE \E i \in TxIds : GrowOld(i)
    BY <2>11, GrowOldKeepsInv
  <2>12. CASE Crash
    BY <2>12, CrashKeepsInv
  <2>13. CASE Boot
    BY <2>13, BootKeepsInv
  <2>14. CASE UNCHANGED vars
    BY <2>14, ChainKeepsInv DEF vars, TxIds, Unrecorded, RecordedOnce, ConfirmedIsMined
  <2>15. QED
    BY <2>2, <2>3, <2>4, <2>5, <2>6, <2>7, <2>8, <2>9, <2>10, <2>11, <2>12, <2>13,
       <2>14 DEF Next, Requests
<1>3. QED
  BY <1>1, <1>2, PTL DEF Spec

-----------------------------------------------------------------------------
(* The properties.                                                         *)

\* The table of transfers, the requests and the promises have their types.
THEOREM TransferTypeCorrect == Spec => []TransferTypeOK
<1>1. TransferInv => TransferTypeOK
  BY DEF TransferInv
<1>2. QED
  BY <1>1, TransferInvariant, PTL

\* recordSubmittedTransfer enters a hash once, and tells one request at most
\* that it did, though the check of ensureUniqueTxHash and the insert are two
\* statements that other requests pass between.
THEOREM TransfersAreRecordedOnce == Spec => []RecordedOnce
<1>1. TransferInv => RecordedOnce
  BY DEF TransferInv
<1>2. QED
  BY <1>1, TransferInvariant, PTL

\* finalizeTransactionInBackground, whatever fails or restarts, leaves
\* CONFIRMED only on what the chain executed.
THEOREM ConfirmedTransfersAreMined == Spec => []ConfirmedIsMined
<1>1. TransferInv => ConfirmedIsMined
  BY DEF TransferInv
<1>2. QED
  BY <1>1, TransferInvariant, PTL

-----------------------------------------------------------------------------
(* The record keeps its promise, unless the answer to the write of         *)
(* CONFIRMED is lost: then the catch fails what was confirmed.             *)

\* A promise that goes on is of a row that is pending, or unsure.
RunningAreOpen ==
  \A i \in TxIds : fin[i] # "done" => rows[i].status = "PENDING" \/ Unsure(i)

\* A backend that is down has no promise and no request.
NothingRunsDown ==
  ~up => /\ \A i \in TxIds : fin[i] = "done"
         /\ \A r \in Posts : post[r] \in {"idle", "answered"}

LEMMA RecordOfRow ==
  ASSUME TransferInv, NEW i \in TxIds
  PROVE  rows[i].hash \in Transfers /\ RecordOf(rows[i].hash) = Entry(i)
<1>1. rows[i].hash \in Transfers
  BY TableLengths DEF TransferInv, Row
<1>2. \A k \in TxIds : rows[k].hash = rows[i].hash => k = i
  BY DEF TransferInv, RecordedOnce
<1>3. (CHOOSE k \in TxIds : rows[k].hash = rows[i].hash) = i
  BY <1>2
<1>4. QED
  BY <1>1, <1>3 DEF RecordOf, Unrecorded

LEMMA RecordOfUnrecorded ==
  ASSUME NEW t \in Transfers, Unrecorded(t)
  PROVE  RecordOf(t) = "none"
BY DEF RecordOf

\* Transfers whose rows keep what they say keep it in the record.
LEMMA RecordKept ==
  ASSUME TransferInv, TransferInv', NEW changed \in SUBSET Transfers,
         TxIds' = TxIds,
         \A i \in TxIds : rows'[i].hash = rows[i].hash,
         \A i \in TxIds : rows[i].hash \notin changed => Entry(i)' = Entry(i)
  PROVE  \A t \in Transfers \ changed : RecordOf(t)' = RecordOf(t)
<1> SUFFICES ASSUME NEW t \in Transfers \ changed PROVE RecordOf(t)' = RecordOf(t)
  OBVIOUS
<1>1. CASE Unrecorded(t)
  <2>1. Unrecorded(t)'
    BY <1>1 DEF Unrecorded
  <2>2. QED
    BY <1>1, <2>1 DEF RecordOf
<1>2. CASE ~Unrecorded(t)
  <2>1. PICK i \in TxIds : rows[i].hash = t
    BY <1>2 DEF Unrecorded
  <2>2. RecordOf(t) = Entry(i)
    BY <2>1, RecordOfRow
  <2>3. \A k \in TxIds' : rows'[k].hash = t => k = i
    BY <2>1 DEF TransferInv, RecordedOnce
  <2>4. (CHOOSE k \in TxIds' : rows'[k].hash = t) = i
    BY <2>1, <2>3
  <2>5. RecordOf(t)' = Entry(i)'
    BY <2>1, <2>4 DEF RecordOf, Unrecorded
  <2>6. QED
    BY <2>1, <2>2, <2>5
<1>3. QED
  BY <1>1, <1>2

\* After a step, too, a row is what the record shows of its transfer.
LEMMA RecordOfNewRow ==
  ASSUME TransferInv', NEW i \in TxIds', NEW t, rows'[i].hash = t
  PROVE  RecordOf(t)' = Entry(i)'
<1>1. \A k \in TxIds' : rows'[k].hash = t => k = i
  BY DEF TransferInv, RecordedOnce
<1>2. (CHOOSE k \in TxIds' : rows'[k].hash = t) = i
  BY <1>1
<1>3. QED
  BY <1>2 DEF RecordOf, Unrecorded

\* Nothing but the promise of a pending row writes its status.
LEMMA RunningAreOpenStep ==
  ASSUME TransferInv, RunningAreOpen, NothingRunsDown, [Next]_vars
  PROVE  RunningAreOpen'
<1>1. TransferTypeOK /\ rows \in Seq(Row) /\ fin \in Seq(FinPoints) /\ Len(fin) = Len(rows)
  BY DEF TransferInv, TransferTypeOK, Row
<1>3. CASE UNCHANGED <<rows, fin>>
  BY <1>3 DEF RunningAreOpen, TxIds, Unsure
<1>4. ASSUME NEW r \in Posts, Enter(r), NEW point, point \in FinPoints,
             fin' = Append(fin, point)
      PROVE  RunningAreOpen'
  <2>1. Entered(HashOf[r])
    BY <1>1, <1>4, EnterEnters
  <2>2. TxIds' = TxIds \cup {Len(rows) + 1}
    BY <2>1, EnteredOnce, PostsAssumption
  <2>3. \A i \in TxIds : fin'[i] = fin[i] /\ rows'[i] = rows[i]
    BY <1>1, <1>4, <2>1 DEF Entered, TxIds
  <2>4. QED
    BY <2>1, <2>2, <2>3 DEF RunningAreOpen, Entered, Unsure
<1>5. ASSUME NEW i \in TxIds, NEW point \in FinPoints, FinGoto(i, point),
             \/ UNCHANGED rows /\ fin[i] \notin {"done", "rescue"}
             \/ UNCHANGED rows /\ point = "done"
             \/ point = "done" /\ \E status \in Statuses : SetStatus(i, status)
             \/ point = "rescue" /\ SetStatus(i, "CONFIRMED")
      PROVE  RunningAreOpen'
  <2>1. /\ fin'[i] = point
        /\ \A k \in TxIds \ {i} : fin'[k] = fin[k]
    BY <1>1, <1>5, FinGotoKeeps
  <2>2. TxIds' = TxIds /\ \A k \in TxIds \ {i} : rows'[k] = rows[k]
    BY <1>1, <1>5, SetStatusKeeps DEF SameHashes, TxIds, Statuses
  <2>3. \/ point = "done"
        \/ rows'[i].status = "PENDING"
        \/ point = "rescue" /\ rows'[i].status = "CONFIRMED"
    BY <1>1, <1>5, SetStatusKeeps DEF RunningAreOpen, Unsure, Statuses
  <2>4. QED
    BY <2>1, <2>2, <2>3 DEF RunningAreOpen, Unsure
<1>6. CASE Crash
  <2>1. TxIds' = TxIds /\ \A i \in TxIds : fin'[i] = "done"
    BY <1>6 DEF Crash, TxIds
  <2>2. QED
    BY <2>1 DEF RunningAreOpen
<1>7. CASE Boot
  <2>1. TxIds' = TxIds /\ fin' = fin /\ \A i \in TxIds : fin[i] = "done"
    BY <1>7 DEF Boot, NothingRunsDown, TxIds
  <2>2. QED
    BY <2>1 DEF RunningAreOpen
<1>8. ASSUME NEW i \in TxIds, GrowOld(i) PROVE RunningAreOpen'
  <2>1. \A k \in TxIds : rows[k] \in Row
    BY <1>1, TableLengths
  <2>2. TxIds' = TxIds /\ fin' = fin /\ \A k \in TxIds : rows'[k].status = rows[k].status
    BY <1>1, <1>8, <2>1 DEF GrowOld, TxIds, Row
  <2>3. QED
    BY <2>2 DEF RunningAreOpen, Unsure
<1>9. CASE \E t \in Transfers : BroadcastTransfer(t) \/ Mine(t) \/ Drop(t)
  BY <1>3, <1>9 DEF BroadcastTransfer, Mine, Drop
<1>10. ASSUME NEW r \in Posts, Submit(r) \/ Requests(r) \/ SubmitThrows(r) \/ Poll(r)
       PROVE  RunningAreOpen'
  <2>1. CASE UNCHANGED <<rows, fin>>
    BY <1>3, <2>1
  <2>2. CASE Enter(r) /\ \E point \in {"wait", "done"} : fin' = Append(fin, point)
    BY <1>4, <2>2 DEF FinPoints
  <2>3. QED
    BY <1>10, <2>1, <2>2 DEF Submit, Requests, EnsureUniqueTxHash,
       ValidateSubmittedTransfer, CreatePendingTransaction, SubmitThrows, Poll
<1>11. ASSUME NEW i \in TxIds, Finalizes(i) PROVE RunningAreOpen'
  <2>1. CASE Receipt(i)
    BY <1>5, <2>1 DEF Receipt, Verdict, FinPoints
  <2>2. CASE Timeout(i)
    BY <1>5, <2>2 DEF Timeout, OnError, FinPoints
  <2>3. CASE MarkTransactionConfirmed(i)
    BY <1>5, <2>3 DEF MarkTransactionConfirmed, FinPoints, Statuses
  <2>4. CASE MarkTransactionFailed(i)
    BY <1>5, <2>4 DEF MarkTransactionFailed, FinPoints, Statuses
  <2>5. QED
    BY <1>11, <2>1, <2>2, <2>3, <2>4 DEF Finalizes
<1>12. ASSUME NEW i \in TxIds, FinalizeThrows(i) PROVE RunningAreOpen'
  <2>1. UNCHANGED rows \/ (fin[i] = "confirm" /\ SetStatus(i, "CONFIRMED"))
    BY <1>12 DEF FinalizeThrows
  <2>2. CASE fin[i] = "rescue"
    <3>1. FinGoto(i, "done") /\ UNCHANGED rows
      BY <1>12, <2>1, <2>2 DEF FinalizeThrows
    <3>2. QED
      BY <1>5, <3>1 DEF FinPoints
  <2>3. CASE fin[i] # "rescue"
    <3>1. FinGoto(i, "rescue") /\ fin[i] # "done"
      BY <1>12, <2>3 DEF FinalizeThrows, OnError
    <3>2. QED
      BY <1>5, <2>1, <2>3, <3>1 DEF FinPoints
  <2>4. QED
    BY <2>2, <2>3
<1>13. CASE UNCHANGED vars
  BY <1>3, <1>13 DEF vars
<1>14. QED
  BY <1>6, <1>7, <1>8, <1>9, <1>10, <1>11, <1>12, <1>13 DEF Next

\* A crash ends what runs, and only a backend that is up begins anything.
LEMMA NothingRunsDownStep ==
  ASSUME TransferInv, NothingRunsDown, [Next]_vars
  PROVE  NothingRunsDown'
<1>1. CASE Crash
  BY <1>1 DEF Crash, NothingRunsDown, TxIds
<1>2. CASE up' = TRUE
  BY <1>2 DEF NothingRunsDown
<1>3. CASE UNCHANGED <<post, fin, up>> /\ TxIds' = TxIds
  BY <1>3 DEF NothingRunsDown
<1>4. CASE up
  BY <1>1, <1>2, <1>4 DEF Next, vars, BroadcastTransfer, Mine, Drop, Submit, Requests,
     EnsureUniqueTxHash, ValidateSubmittedTransfer, CreatePendingTransaction, SubmitThrows,
     Poll, Finalizes, Receipt, Timeout, MarkTransactionConfirmed, MarkTransactionFailed,
     FinalizeThrows, GrowOld, Boot, TransferInv, TransferTypeOK
<1>5. CASE ~up
  <2>1. /\ \A i \in TxIds : fin[i] = "done"
        /\ \A r \in Posts : post[r] \in {"idle", "answered"}
    BY <1>5 DEF NothingRunsDown
  <2>2. CASE \E i \in TxIds : GrowOld(i)
    BY <1>3, <2>2 DEF GrowOld, TxIds, TransferInv, TransferTypeOK
  <2>3. CASE \E i \in TxIds : Finalizes(i) \/ FinalizeThrows(i)
    BY <2>1, <2>3 DEF Finalizes, Receipt, Timeout, MarkTransactionConfirmed,
       MarkTransactionFailed, FinalizeThrows
  <2>4. CASE \E r \in Posts : Submit(r) \/ Requests(r) \/ SubmitThrows(r) \/ Poll(r)
    BY <1>5, <2>1, <2>4 DEF Submit, Requests, EnsureUniqueTxHash,
       ValidateSubmittedTransfer, CreatePendingTransaction, SubmitThrows, Poll
  <2>5. CASE \/ \E t \in Transfers : BroadcastTransfer(t) \/ Mine(t) \/ Drop(t)
             \/ UNCHANGED vars
    BY <1>3, <2>5 DEF BroadcastTransfer, Mine, Drop, vars, TxIds
  <2>6. CASE Boot
    BY <1>2, <2>6 DEF Boot
  <2>7. QED
    BY <1>1, <2>2, <2>3, <2>4, <2>5, <2>6 DEF Next
<1>6. QED
  BY <1>4, <1>5

\* Each step of the table is a step of the promise, or none.
LEMMA PromiseStep ==
  ASSUME TransferInv, TransferInv', RunningAreOpen, NothingRunsDown, Next
  PROVE  Promise!Next \/ UNCHANGED <<{t \in Transfers : chain[t] = "mined"},
                                    [t \in Transfers |-> RecordOf(t)]>>
<1> DEFINE executed == {t \in Transfers : chain[t] = "mined"}
           record == [t \in Transfers |-> RecordOf(t)]
<1> USE DEF executed, record
<1>1. CASE UNCHANGED <<rows, fin>> /\ \E t \in Transfers : BroadcastTransfer(t) \/ Mine(t) \/ Drop(t)
  <2>1. PICK t \in Transfers : BroadcastTransfer(t) \/ Mine(t) \/ Drop(t)
    BY <1>1
  <2>2. record' = record
    BY <1>1 DEF RecordOf, Entry, Unsure, Unrecorded, TxIds
  <2>3. chain[t] # "mined" /\ \A u \in Transfers : u # t => chain'[u] = chain[u]
    BY <2>1 DEF BroadcastTransfer, Mine, Drop, TransferInv, TransferTypeOK
  <2>4. CASE chain'[t] = "mined"
    <3>1. t \notin executed /\ executed' = executed \cup {t}
      BY <2>3, <2>4
    <3>2. Promise!Execute(t)
      BY <2>2, <3>1 DEF Promise!Execute
    <3>3. QED
      BY <3>2 DEF Promise!Next
  <2>5. CASE chain'[t] # "mined"
    BY <2>2, <2>3, <2>5
  <2>6. QED
    BY <2>4, <2>5
<1>2. CASE UNCHANGED chain /\ TxIds' = TxIds /\ \A i \in TxIds :
                rows'[i].hash = rows[i].hash /\ Entry(i)' = Entry(i)
  <2>1. \A t \in Transfers \ {} : RecordOf(t)' = RecordOf(t)
    BY <1>2, RecordKept
  <2>2. QED
    BY <1>2, <2>1
<1>3. ASSUME NEW r \in Posts, Enter(r), UNCHANGED chain,
             NEW point \in {"wait", "done"}, fin' = Append(fin, point)
      PROVE  Promise!Enter(HashOf[r])
  <2> DEFINE h == HashOf[r]
  <2>1. h \in Transfers /\ Entered(h) /\ TxIds' = TxIds \cup {Len(rows) + 1}
    BY <1>3, EnterEnters, EnteredOnce, PostsAssumption DEF TransferInv
  <2>2. RecordOf(h) = "none"
    BY <2>1, RecordOfUnrecorded DEF Entered
  <2>3. RecordOf(h)' = "PENDING"
    <3>1. (Len(rows) + 1) \in TxIds' /\ rows'[Len(rows) + 1].hash = h
      BY <2>1 DEF Entered
    <3>2. PICK k \in TxIds' : rows'[k].hash = h /\ rows'[k].status = "PENDING"
      BY <2>1, <3>1 DEF Entered
    <3>3. RecordOf(h)' = Entry(k)'
      BY <3>2, RecordOfNewRow
    <3>4. QED
      BY <3>2, <3>3 DEF Entry, Unsure
  <2>4. ASSUME NEW t \in Transfers, t # h PROVE RecordOf(t)' = RecordOf(t)
    <3>1. CASE Unrecorded(t)
      <4>1. Unrecorded(t)'
        BY <2>1, <2>4, <3>1 DEF Unrecorded, Entered
      <4>2. QED
        BY <3>1, <4>1 DEF RecordOf
    <3>2. CASE ~Unrecorded(t)
      <4>1. PICK i \in TxIds : rows[i].hash = t
        BY <3>2 DEF Unrecorded
      <4>2. RecordOf(t) = Entry(i)
        BY <4>1, RecordOfRow
      <4>3. i \in TxIds' /\ rows'[i] = rows[i] /\ fin'[i] = fin[i]
        BY <1>3, <2>1, <4>1 DEF Entered, TransferInv, TransferTypeOK, TxIds, FinPoints
      <4>4. RecordOf(t)' = Entry(i)'
        BY <4>1, <4>3, RecordOfNewRow
      <4>5. QED
        BY <4>2, <4>3, <4>4 DEF Entry, Unsure
    <3>3. QED
      BY <3>1, <3>2
  <2>5. record[h] = "none" /\ record' = [record EXCEPT ![h] = "PENDING"]
    BY <2>1, <2>2, <2>3, <2>4
  <2>6. QED
    BY <1>3, <2>5 DEF Promise!Enter
<1>4. ASSUME NEW i \in TxIds, fin[i] # "done", UNCHANGED chain,
             NEW point \in FinPoints, FinGoto(i, point),
             \/ UNCHANGED rows
             \/ SetStatus(i, "FAILED")
             \/ SetStatus(i, "CONFIRMED") /\ chain[rows[i].hash] = "mined",
             ~(Entry(i)' = Entry(i))
      PROVE  Promise!Settle(rows[i].hash)
  <2>1. /\ TxIds' = TxIds
        /\ \A k \in TxIds : rows'[k].hash = rows[k].hash
        /\ \A k \in TxIds \ {i} : rows'[k] = rows[k] /\ fin'[k] = fin[k]
    BY <1>4, SetStatusKeeps, FinGotoKeeps
       DEF TransferInv, TransferTypeOK, Statuses, SameHashes, TxIds, Row
  <2>2. PICK t : t = rows[i].hash
    OBVIOUS
  <2>3. t \in Transfers /\ RecordOf(t) = Entry(i) /\ RecordOf(t)' = Entry(i)'
    BY <2>1, <2>2, RecordOfRow, RecordOfNewRow
  <2>4. \A k \in TxIds : rows[k].hash \notin {t} => Entry(k)' = Entry(k)
    BY <2>1, <2>2 DEF Entry, Unsure
  <2>5. \A u \in Transfers \ {t} : RecordOf(u)' = RecordOf(u)
    BY <2>1, <2>3, <2>4, RecordKept
  <2>6. record' = [record EXCEPT ![t] = Entry(i)']
    BY <2>3, <2>5
  <2>7. Entry(i) \in {"PENDING", "UNSURE"}
    BY <1>4 DEF RunningAreOpen, Entry
  <2>8. \/ Entry(i)' = "FAILED"
        \/ Entry(i)' \in {"CONFIRMED", "UNSURE"} /\ t \in executed
    <3>1. CASE UNCHANGED rows
      <4>1. rows[i].status = "CONFIRMED"
        BY <1>4, <3>1, <2>7 DEF Entry, Unsure
      <4>2. QED
        BY <2>2, <2>3, <3>1, <4>1 DEF Entry, Unsure, TransferInv, ConfirmedIsMined
    <3>2. CASE SetStatus(i, "FAILED")
      BY <3>2, SetStatusKeeps DEF TransferInv, Statuses, Entry, Unsure
    <3>3. CASE SetStatus(i, "CONFIRMED") /\ chain[rows[i].hash] = "mined"
      BY <2>2, <2>3, <3>3, SetStatusKeeps DEF TransferInv, Statuses, Entry, Unsure
    <3>4. QED
      BY <1>4, <3>1, <3>2, <3>3
  <2>9. record[t] \in {"PENDING", "UNSURE"} /\ executed' = executed
    BY <1>4, <2>3, <2>7
  <2>10. QED
    BY <2>2, <2>6, <2>8, <2>9 DEF Promise!Settle
<1>5. CASE Boot
  <2> DEFINE stale == {t \in Transfers : \E i \in TxIds : rows[i].hash = t /\ Stale(rows[i])}
  <2>1. /\ TxIds' = TxIds
        /\ \A i \in TxIds :
             /\ rows'[i].hash = rows[i].hash
             /\ Stale(rows[i]) => rows'[i].status = "FAILED"
             /\ ~Stale(rows[i]) => rows'[i] = rows[i]
    <3>1. rows' = [i \in 1..Len(rows) |->
                 IF Stale(rows[i]) THEN [rows[i] EXCEPT !.status = "FAILED"] ELSE rows[i]]
      BY <1>5 DEF Boot, TxIds
    <3>2. Len(rows) \in Nat /\ \A i \in TxIds : rows[i] \in Row
      BY TableLengths DEF TransferInv
    <3>3. TxIds' = TxIds
      BY <3>1, <3>2 DEF TxIds
    <3>4. \A row \in Row :
            /\ [row EXCEPT !.status = "FAILED"].hash = row.hash
            /\ [row EXCEPT !.status = "FAILED"].status = "FAILED"
      BY DEF Row, Statuses
    <3>5. QED
      BY <3>1, <3>2, <3>3, <3>4 DEF TxIds
  <2>2. \A i \in TxIds : rows[i].hash \notin stale => Entry(i)' = Entry(i)
    BY <1>5, <2>1, RecordOfRow DEF Boot, Entry, Unsure
  <2>3. \A t \in Transfers \ stale : RecordOf(t)' = RecordOf(t)
    BY <2>1, <2>2, RecordKept
  <2>4. ASSUME NEW t \in stale PROVE RecordOf(t) = "PENDING" /\ RecordOf(t)' = "FAILED"
    <3>1. PICK i \in TxIds : rows[i].hash = t /\ Stale(rows[i])
      OBVIOUS
    <3>2. rows[i].status = "PENDING" /\ rows'[i].status = "FAILED" /\ rows'[i].hash = t
      BY <2>1, <3>1 DEF Stale
    <3>3. RecordOf(t) = Entry(i) /\ RecordOf(t)' = Entry(i)'
      BY <2>1, <3>1, <3>2, RecordOfRow, RecordOfNewRow
    <3>4. QED
      BY <3>2, <3>3 DEF Entry, Unsure
  <2>5. record' = [t \in Transfers |-> IF t \in stale THEN "FAILED" ELSE record[t]]
    BY <2>3, <2>4
  <2>6. stale \in SUBSET {t \in Transfers : record[t] = "PENDING"}
    BY <2>4
  <2>7. executed' = executed
    BY <1>5 DEF Boot
  <2>8. Promise!GiveUp
    BY <2>5, <2>6, <2>7 DEF Promise!GiveUp
  <2>9. QED
    BY <2>8 DEF Promise!Next
<1>6. CASE \E i \in TxIds : GrowOld(i)
  <2>1. PICK i \in TxIds : GrowOld(i)
    BY <1>6
  <2>2. \A k \in TxIds : rows[k] \in Row
    BY TableLengths DEF TransferInv
  <2>3. /\ TxIds' = TxIds
        /\ \A k \in TxIds : rows'[k].hash = rows[k].hash /\ rows'[k].status = rows[k].status
    BY <2>1, <2>2 DEF GrowOld, TxIds, Row, TransferInv, TransferTypeOK
  <2>4. QED
    BY <1>2, <2>1, <2>3 DEF GrowOld, Entry, Unsure
<1>7. ASSUME NEW r \in Posts, Submit(r) \/ Requests(r) \/ SubmitThrows(r) \/ Poll(r)
      PROVE  /\ UNCHANGED chain
             /\ \/ UNCHANGED <<rows, fin>>
                \/ Enter(r) /\ \E point \in {"wait", "done"} : fin' = Append(fin, point)
  BY <1>7 DEF Submit, Requests, EnsureUniqueTxHash, ValidateSubmittedTransfer,
     CreatePendingTransaction, SubmitThrows, Poll
<1>8. ASSUME NEW i \in TxIds, Finalizes(i) \/ FinalizeThrows(i)
      PROVE  /\ fin[i] # "done" /\ UNCHANGED chain
             /\ \E point \in FinPoints : FinGoto(i, point)
             /\ \/ UNCHANGED rows
                \/ SetStatus(i, "FAILED")
                \/ SetStatus(i, "CONFIRMED") /\ chain[rows[i].hash] = "mined"
  <2>1. fin[i] = "confirm" => chain[rows[i].hash] = "mined"
    BY DEF TransferInv
  <2>2. CASE Finalizes(i)
    BY <2>1, <2>2 DEF Finalizes, Receipt, Timeout, MarkTransactionConfirmed,
       MarkTransactionFailed, Verdict, OnError, FinPoints
  <2>3. CASE FinalizeThrows(i)
    BY <2>1, <2>3 DEF FinalizeThrows, OnError, FinPoints
  <2>4. QED
    BY <1>8, <2>2, <2>3
<1>9. CASE UNCHANGED <<chain, rows, fin>>
  BY <1>2, <1>9 DEF TxIds, Entry, Unsure
<1>10. CASE \E r \in Posts : Submit(r) \/ Requests(r) \/ SubmitThrows(r) \/ Poll(r)
  <2>1. PICK r \in Posts : Submit(r) \/ Requests(r) \/ SubmitThrows(r) \/ Poll(r)
    BY <1>10
  <2>2. CASE UNCHANGED <<rows, fin>>
    BY <1>7, <1>9, <2>1, <2>2
  <2>3. CASE Enter(r) /\ \E point \in {"wait", "done"} : fin' = Append(fin, point)
    BY <1>3, <1>7, <2>1, <2>3, PostsAssumption DEF Promise!Next
  <2>4. QED
    BY <1>7, <2>1, <2>2, <2>3
<1>11. CASE \E i \in TxIds : Finalizes(i) \/ FinalizeThrows(i)
  <2>1. PICK i \in TxIds : Finalizes(i) \/ FinalizeThrows(i)
    BY <1>11
  <2>2. PICK point \in FinPoints : FinGoto(i, point)
    BY <1>8, <2>1
  <2>3. CASE Entry(i)' = Entry(i)
    <3>1. /\ TxIds' = TxIds
          /\ \A k \in TxIds : rows'[k].hash = rows[k].hash
          /\ \A k \in TxIds \ {i} : rows'[k] = rows[k] /\ fin'[k] = fin[k]
      BY <1>8, <2>1, <2>2, SetStatusKeeps, FinGotoKeeps
         DEF TransferInv, TransferTypeOK, Statuses, SameHashes, TxIds, Row
    <3>2. QED
      BY <1>2, <1>8, <2>1, <2>3, <3>1 DEF Entry, Unsure
  <2>4. CASE ~(Entry(i)' = Entry(i))
    <3>1. Promise!Settle(rows[i].hash)
      BY <1>4, <1>8, <2>1, <2>2, <2>4
    <3>2. rows[i].hash \in Transfers
      BY RecordOfRow
    <3>3. QED
      BY <3>1, <3>2 DEF Promise!Next
  <2>5. QED
    BY <2>3, <2>4
<1>12. CASE Crash
  <2>1. TxIds' = TxIds /\ UNCHANGED <<chain, rows>> /\ \A i \in TxIds : fin'[i] = "done"
    BY <1>12 DEF Crash, TxIds
  <2>2. ASSUME NEW t \in Transfers
        PROVE  RecordOf(t)' = IF RecordOf(t) = "UNSURE" THEN "CONFIRMED" ELSE RecordOf(t)
    <3>1. CASE Unrecorded(t)
      BY <2>1, <3>1 DEF RecordOf, Unrecorded, TxIds
    <3>2. CASE ~Unrecorded(t)
      <4>1. PICK i \in TxIds : rows[i].hash = t
        BY <3>2 DEF Unrecorded
      <4>2. RecordOf(t) = Entry(i) /\ RecordOf(t)' = Entry(i)'
        BY <2>1, <4>1, RecordOfRow, RecordOfNewRow
      <4>3. Entry(i)' = rows[i].status /\ rows[i].status \in Statuses
        BY <2>1, TableLengths DEF Entry, Unsure, TransferInv, Row
      <4>4. QED
        BY <4>2, <4>3 DEF Entry, Unsure, Statuses
    <3>3. QED
      BY <3>1, <3>2
  <2>3. Promise!LeaveBe
    BY <2>1, <2>2 DEF Promise!LeaveBe
  <2>4. QED
    BY <2>3 DEF Promise!Next
<1>13. CASE \E t \in Transfers : BroadcastTransfer(t) \/ Mine(t) \/ Drop(t)
  BY <1>1, <1>13 DEF BroadcastTransfer, Mine, Drop
<1>14. QED
  BY <1>5, <1>6, <1>10, <1>11, <1>12, <1>13 DEF Next

\* The history keeps TransferPromise, whatever fails: entered once, confirmed
\* only if executed, settled for good but for a confirmation that is unsure.
THEOREM RecordKeepsPromise == Spec => PromiseKept
<1>1. Init => Promise!Init
  BY DEF Init, Promise!Init, RecordOf, Unrecorded, TxIds
<1>2. Init => RunningAreOpen /\ NothingRunsDown
  <2> SUFFICES ASSUME Init PROVE RunningAreOpen /\ NothingRunsDown
    OBVIOUS
  <2>1. TxIds = {}
    BY DEF Init, TxIds
  <2>2. QED
    BY <2>1 DEF Init, RunningAreOpen, NothingRunsDown
<1>3. TransferInv /\ RunningAreOpen /\ NothingRunsDown /\ [Next]_vars
        => RunningAreOpen' /\ NothingRunsDown'
  BY RunningAreOpenStep, NothingRunsDownStep
<1>4. /\ TransferInv /\ TransferInv' /\ RunningAreOpen /\ NothingRunsDown /\ [Next]_vars
      => [Promise!Next]_<<{t \in Transfers : chain[t] = "mined"},
                          [t \in Transfers |-> RecordOf(t)]>>
  <2>1. UNCHANGED vars => UNCHANGED <<{t \in Transfers : chain[t] = "mined"},
                                      [t \in Transfers |-> RecordOf(t)]>>
    BY DEF vars, RecordOf, Entry, Unsure, Unrecorded, TxIds
  <2>2. QED
    BY <2>1, PromiseStep
<1>5. QED
  BY <1>1, <1>2, <1>3, <1>4, TransferInvariant, PTL DEF Spec, PromiseKept, Promise!Spec

-----------------------------------------------------------------------------
(* What a page shows when it stops polling stands.                         *)

\* A confirmation is unsure only after a failure.
UnsureCosts == \A i \in TxIds : Unsure(i) => faults > 0

\* A row keeps its hash, and its status unless it is pending, or unsure and failed.
RowMovesSo(i) ==
  /\ i \in TxIds' /\ rows'[i].hash = rows[i].hash
  /\ \/ rows'[i].status = rows[i].status
     \/ rows[i].status = "PENDING"
     \/ Unsure(i) /\ rows'[i].status = "FAILED"

\* A step of the k-th promise moves its own row so.
LEMMA FinalizeMovesSo ==
  ASSUME TransferInv, RunningAreOpen, NEW k \in TxIds, Finalizes(k) \/ FinalizeThrows(k)
  PROVE  /\ \A i \in TxIds : RowMovesSo(i)
         /\ \A i \in TxIds' : Unsure(i)' => Unsure(i) \/ faults' > faults
         /\ faults' \in Nat /\ faults' >= faults
<1>0. /\ TransferTypeOK /\ k \in DOMAIN fin /\ faults \in Nat
      /\ \A i \in TxIds : rows[i] \in Row
  BY TableLengths, TransferBounds DEF TransferInv, TransferTypeOK, TxIds
<1>1. /\ rows' = rows \/ \E status \in {"CONFIRMED", "FAILED"} : SetStatus(k, status)
      /\ \E point \in FinPoints : FinGoto(k, point)
      /\ SetStatus(k, "CONFIRMED") /\ rows' # rows => fin[k] = "confirm"
      /\ fin[k] # "done"
  <2>1. CASE Finalizes(k)
    <3>1. ASSUME SetStatus(k, "FAILED"), SetStatus(k, "CONFIRMED")
          PROVE  FALSE
      BY <1>0, <3>1, SetStatusKeeps DEF Statuses
    <3> QED
      BY <2>1, <3>1 DEF Finalizes, Receipt, Timeout, MarkTransactionConfirmed,
         MarkTransactionFailed, Verdict, OnError, FinPoints
  <2>2. CASE FinalizeThrows(k)
    BY <2>2 DEF FinalizeThrows, OnError, FinPoints
  <2> QED
    BY <2>1, <2>2
<1>2. /\ TxIds' = TxIds
      /\ \A i \in TxIds : rows'[i].hash = rows[i].hash
      /\ \A i \in TxIds \ {k} : rows'[i] = rows[i] /\ fin'[i] = fin[i]
  BY <1>0, <1>1, SetStatusKeeps, FinGotoKeeps DEF Statuses, SameHashes, TxIds
<1>3. RowMovesSo(k)
  <2>1. CASE rows' = rows
    BY <1>2, <2>1 DEF RowMovesSo
  <2>2. CASE SetStatus(k, "FAILED")
    <3>1. rows'[k].status = "FAILED"
      BY <1>0, <2>2, SetStatusKeeps DEF Statuses
    <3> QED
      BY <1>1, <1>2, <3>1 DEF RowMovesSo, RunningAreOpen
  <2>3. CASE SetStatus(k, "CONFIRMED") /\ rows' # rows
    BY <1>1, <1>2, <2>3 DEF RowMovesSo, RunningAreOpen, Unsure
  <2> QED
    BY <1>1, <2>1, <2>2, <2>3
<1>4. faults' \in Nat /\ faults' >= faults
  BY <1>0 DEF Finalizes, Receipt, Timeout, MarkTransactionConfirmed,
     MarkTransactionFailed, FinalizeThrows, Fail
<1>5. Unsure(k)' => Unsure(k) \/ faults' > faults
  <2>1. CASE Finalizes(k)
    <3>1. CASE Receipt(k) \/ Timeout(k)
      BY <3>1 DEF Receipt, Timeout, RunningAreOpen, Unsure
    <3>2. CASE MarkTransactionConfirmed(k) \/ MarkTransactionFailed(k)
      <4>1. fin'[k] = "done"
        BY <1>0, <3>2 DEF MarkTransactionConfirmed, MarkTransactionFailed, FinGoto
      <4> QED
        BY <4>1 DEF Unsure
    <3> QED
      BY <2>1, <3>1, <3>2 DEF Finalizes
  <2>2. CASE FinalizeThrows(k)
    BY <1>0, <2>2 DEF FinalizeThrows, Fail
  <2> QED
    BY <2>1, <2>2
<1> QED
  BY <1>2, <1>3, <1>4, <1>5 DEF RowMovesSo, Unsure

\* So does every step.
LEMMA RowsMoveSo ==
  ASSUME TransferInv, RunningAreOpen, NothingRunsDown, [Next]_vars
  PROVE  /\ \A i \in TxIds : RowMovesSo(i)
         /\ \A i \in TxIds' : Unsure(i)' => (i \in TxIds /\ Unsure(i)) \/ faults' > faults
         /\ faults' \in Nat /\ faults' >= faults
<1>0. /\ rows \in Seq(Row) /\ fin \in Seq(FinPoints) /\ Len(fin) = Len(rows)
      /\ Len(rows) \in Nat /\ faults \in Nat /\ \A i \in TxIds : rows[i] \in Row
  BY TableLengths, TransferBounds DEF TransferInv, TransferTypeOK, Row
<1>1. CASE UNCHANGED <<rows, fin>> /\ faults' \in Nat /\ faults' >= faults
  BY <1>1 DEF RowMovesSo, Unsure, TxIds
<1>2. ASSUME NEW r \in Posts, Enter(r), NEW point \in {"wait", "done"},
             fin' = Append(fin, point), faults' \in Nat, faults' >= faults
      PROVE  /\ \A i \in TxIds : RowMovesSo(i)
             /\ \A i \in TxIds' : Unsure(i)' => (i \in TxIds /\ Unsure(i)) \/ faults' > faults
  <2>1. Entered(HashOf[r]) /\ TxIds' = TxIds \cup {Len(rows) + 1}
    BY <1>2, EnterEnters, EnteredOnce, PostsAssumption DEF TransferInv
  <2>2. \A i \in TxIds : fin'[i] = fin[i] /\ rows'[i] = rows[i]
    BY <1>0, <1>2, <2>1 DEF Entered, TxIds
  <2>3. rows'[Len(rows) + 1].status = "PENDING"
    BY <2>1 DEF Entered
  <2> QED
    BY <2>1, <2>2, <2>3 DEF RowMovesSo, Unsure
<1>3. CASE \E r \in Posts : Submit(r) \/ Requests(r) \/ SubmitThrows(r) \/ Poll(r)
  <2>1. PICK r \in Posts : Submit(r) \/ Requests(r) \/ SubmitThrows(r) \/ Poll(r)
    BY <1>3
  <2>2. /\ faults' \in Nat /\ faults' >= faults
        /\ \/ UNCHANGED <<rows, fin>>
           \/ Enter(r) /\ \E point \in {"wait", "done"} : fin' = Append(fin, point)
    BY <1>0, <2>1 DEF Submit, Requests, EnsureUniqueTxHash, ValidateSubmittedTransfer,
       CreatePendingTransaction, SubmitThrows, Poll, Fail
  <2> QED
    BY <1>1, <1>2, <2>2
<1>4. CASE \E k \in TxIds : Finalizes(k) \/ FinalizeThrows(k)
  <2>1. PICK k \in TxIds : Finalizes(k) \/ FinalizeThrows(k)
    BY <1>4
  <2>2. TxIds' = TxIds
    <3>1. \E point \in FinPoints : FinGoto(k, point)
      BY <2>1 DEF Finalizes, Receipt, Timeout, MarkTransactionConfirmed,
         MarkTransactionFailed, FinalizeThrows, Verdict, OnError, FinPoints
    <3>2. rows' = rows \/ \E status \in Statuses : SetStatus(k, status)
      BY <2>1 DEF Finalizes, Receipt, Timeout, MarkTransactionConfirmed,
         MarkTransactionFailed, FinalizeThrows, Statuses
    <3> QED
      BY <3>2, SetStatusKeeps DEF SameHashes, TransferInv, TxIds
  <2> QED
    BY <2>1, <2>2, FinalizeMovesSo
<1>5. CASE Crash
  BY <1>0, <1>5 DEF Crash, RowMovesSo, Unsure, TxIds
<1>6. CASE Boot
  <2>1. rows' = [i \in 1..Len(rows) |->
                 IF Stale(rows[i]) THEN [rows[i] EXCEPT !.status = "FAILED"] ELSE rows[i]]
    BY <1>6 DEF Boot, TxIds
  <2>2. TxIds' = TxIds /\ UNCHANGED <<fin, faults>>
    BY <1>0, <1>6, <2>1 DEF Boot, TxIds
  <2>3. \A i \in TxIds : fin[i] = "done"
    BY <1>6 DEF Boot, NothingRunsDown
  <2>4. \A row \in Row : [row EXCEPT !.status = "FAILED"].hash = row.hash
    BY DEF Row
  <2>5. \A i \in TxIds : rows'[i] = rows[i] \/
          (rows[i].status = "PENDING" /\ rows'[i].hash = rows[i].hash)
    BY <1>0, <2>1, <2>4 DEF Stale, TxIds
  <2> QED
    BY <1>0, <2>2, <2>3, <2>5 DEF RowMovesSo, Unsure
<1>7. CASE \E k \in TxIds : GrowOld(k)
  <2>1. PICK k \in TxIds : GrowOld(k)
    BY <1>7
  <2>2. /\ TxIds' = TxIds /\ UNCHANGED <<fin, faults>>
        /\ \A i \in TxIds : rows'[i].hash = rows[i].hash /\ rows'[i].status = rows[i].status
    BY <1>0, <2>1 DEF GrowOld, TxIds, Row
  <2> QED
    BY <1>0, <2>2 DEF RowMovesSo, Unsure
<1>8. CASE UNCHANGED vars \/ \E t \in Transfers : BroadcastTransfer(t) \/ Mine(t) \/ Drop(t)
  BY <1>0, <1>1, <1>8 DEF vars, BroadcastTransfer, Mine, Drop
<1> QED
  BY <1>3, <1>4, <1>5, <1>6, <1>7, <1>8 DEF Next

\* A page that shows a settled status showed it before, or reads it from a row.
LEMMA PanelsRead ==
  ASSUME TransferInv, [Next]_vars, NEW r \in Posts, panel'[r] \in {"CONFIRMED", "FAILED"}
  PROVE  \/ panel'[r] = panel[r]
         \/ rows' = rows /\ \E i \in TxIds : rows[i].hash = HashOf[r] /\ rows[i].status = panel'[r]
<1>0. panel \in [Posts -> {"none", "error"} \cup Statuses]
  BY DEF TransferInv, TransferTypeOK
<1>1. ASSUME NEW s \in Posts, Submit(s) \/ Requests(s) \/ SubmitThrows(s)
      PROVE  panel'[r] = panel[r]
  <2>1. panel' = panel \/ \E shown \in {"error", "PENDING"} : panel' = [panel EXCEPT ![s] = shown]
    BY <1>1 DEF Submit, Requests, EnsureUniqueTxHash, ValidateSubmittedTransfer,
       CreatePendingTransaction, SubmitThrows, Goto, Answer
  <2> QED
    BY <1>0, <2>1
<1>2. ASSUME NEW s \in Posts, Poll(s)
      PROVE  \/ panel'[r] = panel[r]
             \/ rows' = rows /\ \E i \in TxIds : rows[i].hash = HashOf[r] /\ rows[i].status = panel'[r]
  BY <1>0, <1>2 DEF Poll
<1>3. CASE Crash
  BY <1>0, <1>3 DEF Crash
<1>4. CASE Boot \/ UNCHANGED vars \/ \E t \in Transfers : BroadcastTransfer(t) \/ Mine(t) \/ Drop(t)
  BY <1>4 DEF Boot, vars, BroadcastTransfer, Mine, Drop
<1>5. CASE \E i \in TxIds : Finalizes(i) \/ FinalizeThrows(i) \/ GrowOld(i)
  BY <1>5 DEF Finalizes, Receipt, Timeout, MarkTransactionConfirmed, MarkTransactionFailed,
     FinalizeThrows, GrowOld
<1> QED
  BY <1>1, <1>2, <1>3, <1>4, <1>5 DEF Next

LEMMA PanelStandsStep ==
  ASSUME TransferInv, RunningAreOpen, NothingRunsDown, UnsureCosts, PanelStands, [Next]_vars
  PROVE  UnsureCosts' /\ PanelStands'
<1>0. /\ \A i \in TxIds : RowMovesSo(i)
      /\ \A i \in TxIds' : Unsure(i)' => (i \in TxIds /\ Unsure(i)) \/ faults' > faults
      /\ faults \in Nat /\ faults' \in Nat /\ faults' >= faults
  BY RowsMoveSo, TransferBounds DEF TransferInv, TransferTypeOK
<1>1. UnsureCosts'
  BY <1>0 DEF UnsureCosts
<1>2. ASSUME NEW r \in Posts, panel'[r] \in {"CONFIRMED", "FAILED"}
      PROVE  \E i \in TxIds' :
               /\ rows'[i].hash = HashOf[r]
               /\ \/ rows'[i].status = panel'[r]
                  \/ panel'[r] = "CONFIRMED" /\ rows'[i].status = "FAILED" /\ faults' > 0
  <2>1. CASE panel'[r] = panel[r]
    <3>1. PICK i \in TxIds :
            /\ rows[i].hash = HashOf[r]
            /\ \/ rows[i].status = panel[r]
               \/ panel[r] = "CONFIRMED" /\ rows[i].status = "FAILED" /\ faults > 0
      BY <1>2, <2>1 DEF PanelStands
    <3>2. i \in TxIds' /\ rows'[i].hash = HashOf[r]
      BY <1>0, <3>1 DEF RowMovesSo
    <3>3. CASE rows'[i].status = rows[i].status
      BY <1>0, <2>1, <3>1, <3>2, <3>3
    <3>4. CASE Unsure(i) /\ rows'[i].status = "FAILED"
      <4>1. rows[i].status = "CONFIRMED" /\ faults > 0
        BY <3>4 DEF Unsure, UnsureCosts
      <4> QED
        BY <1>0, <2>1, <3>1, <3>2, <3>4, <4>1
    <3> QED
      BY <1>0, <1>2, <2>1, <3>1, <3>3, <3>4 DEF RowMovesSo
  <2>2. CASE rows' = rows /\ \E i \in TxIds : rows[i].hash = HashOf[r] /\ rows[i].status = panel'[r]
    BY <2>2 DEF TxIds
  <2> QED
    BY <1>2, <2>1, <2>2, PanelsRead
<1> QED
  BY <1>1, <1>2 DEF PanelStands

\* A page that stopped polling at CONFIRMED or FAILED shows what the history
\* holds, through every restart and boot; only the catch of
\* finalizeTransactionInBackground, after a failure, contradicts it.
THEOREM PanelsStand == Spec => []PanelStands
<1>1. Init => RunningAreOpen /\ NothingRunsDown /\ UnsureCosts /\ PanelStands
  <2> SUFFICES ASSUME Init PROVE RunningAreOpen /\ NothingRunsDown /\ UnsureCosts /\ PanelStands
    OBVIOUS
  <2>1. TxIds = {}
    BY DEF Init, TxIds
  <2> QED
    BY <2>1 DEF Init, RunningAreOpen, NothingRunsDown, UnsureCosts, PanelStands
<1>2. TransferInv /\ RunningAreOpen /\ NothingRunsDown /\ UnsureCosts /\ PanelStands /\ [Next]_vars
        => RunningAreOpen' /\ NothingRunsDown' /\ UnsureCosts' /\ PanelStands'
  BY RunningAreOpenStep, NothingRunsDownStep, PanelStandsStep
<1> QED
  BY <1>1, <1>2, TransferInvariant, PTL DEF Spec

-----------------------------------------------------------------------------
(* How a row loses its promise.                                            *)

LostSo(i) ==
  Lost(i)' /\ ~Lost(i) =>
    \/ ~up'
    \/ faults' > faults /\ (i \notin TxIds \/ fin[i] = "rescue")

\* A row that stays as it is, promise included, is not lost by the step.
LEMMA SameRowNotLost ==
  ASSUME NEW i \in TxIds, rows'[i].status = rows[i].status, fin'[i] = fin[i]
  PROVE  LostSo(i)
BY DEF LostSo, Lost

LEMMA EnterLosesSo ==
  ASSUME TransferInv, NEW r \in Posts, CreatePendingTransaction(r) \/ SubmitThrows(r),
         NEW i \in 1..Len(rows')
  PROVE  LostSo(i)
<1>1. CASE UNCHANGED <<rows, fin>>
  BY <1>1, SameRowNotLost DEF TxIds
<1>2. CASE Enter(r)
  <2>1. PICK point \in {"wait", "done"} :
          /\ fin' = Append(fin, point)
          /\ point = "done" => Fail("insertAck")
    BY <1>2 DEF CreatePendingTransaction, SubmitThrows, Enter, TransferInv, TransferTypeOK
  <2>2. /\ rows \in Seq(Row) /\ fin \in Seq(FinPoints) /\ Len(fin) = Len(rows)
        /\ rows' = Append(rows, [hash |-> HashOf[r], status |-> "PENDING", old |-> FALSE])
    BY <1>2 DEF Enter, TransferInv, TransferTypeOK, Row
  <2>3. CASE i \in TxIds
    <3>1. rows'[i] = rows[i] /\ fin'[i] = fin[i]
      BY <2>1, <2>2, <2>3 DEF TxIds
    <3>2. QED
      BY <2>3, <3>1, SameRowNotLost
  <2>4. CASE i \notin TxIds
    <3>1. fin'[i] = point
      BY <2>1, <2>2, <2>4 DEF TxIds
    <3>2. point = "done" => faults' > faults
      BY <2>1, TransferBounds DEF Fail, TransferInv, TransferTypeOK
    <3>3. QED
      BY <2>4, <3>1, <3>2 DEF LostSo, Lost
  <2>5. QED
    BY <2>3, <2>4
<1>3. QED
  BY <1>1, <1>2 DEF CreatePendingTransaction, SubmitThrows

\* Settling a row, or giving up its promise, loses it only when the catch fails.
LEMMA FinalizeLosesSo ==
  ASSUME TransferInv, NEW k \in TxIds, Finalizes(k) \/ FinalizeThrows(k),
         NEW i \in 1..Len(rows')
  PROVE  LostSo(i)
<1>1. /\ \E point \in FinPoints : FinGoto(k, point)
      /\ rows' = rows \/ \E status \in Statuses : SetStatus(k, status)
  BY DEF Finalizes, Receipt, Timeout, MarkTransactionConfirmed, MarkTransactionFailed,
     FinalizeThrows, Verdict, OnError, FinPoints, Statuses
<1>2. /\ Len(rows') = Len(rows)
      /\ \A j \in TxIds \ {k} : rows'[j].status = rows[j].status /\ fin'[j] = fin[j]
  BY <1>1, SetStatusKeeps, FinGotoKeeps DEF SameHashes, TransferInv
<1>3. CASE i # k
  BY <1>2, <1>3, SameRowNotLost DEF TxIds
<1>4. ASSUME i = k, Lost(k)', ~Lost(k)
      PROVE  faults' > faults /\ fin[k] = "rescue"
  <2>1. fin'[k] = "done" /\ rows'[k].status = "PENDING"
    BY <1>4 DEF Lost
  <2>2. k \in DOMAIN rows /\ k \in DOMAIN fin
    BY DEF TransferInv, TransferTypeOK, TxIds
  <2>3. \A status : SetStatus(k, status) => rows'[k].status = status
    BY <2>2, TableLengths DEF SetStatus, TransferInv, Row
  <2>4. \A point : FinGoto(k, point) => fin'[k] = point
    BY <2>2 DEF FinGoto
  <2>5. ~Finalizes(k)
    BY <2>1, <2>3, <2>4 DEF Finalizes, Receipt, Timeout, MarkTransactionConfirmed,
       MarkTransactionFailed, Verdict, OnError
  <2>6. FinalizeThrows(k) /\ fin[k] = "rescue"
    BY <2>1, <2>4, <2>5 DEF FinalizeThrows, OnError
  <2>7. QED
    BY <2>6, TransferBounds DEF FinalizeThrows, Fail, TransferInv, TransferTypeOK
<1>5. QED
  BY <1>3, <1>4 DEF LostSo

LEMMA StepLosesSo ==
  ASSUME TransferInv, Next, NEW i \in 1..Len(rows')
  PROVE  LostSo(i)
<1>1. CASE UNCHANGED <<rows, fin>>
  BY <1>1, SameRowNotLost DEF TxIds
<1>2. CASE \E r \in Posts : Submit(r) \/ Requests(r) \/ SubmitThrows(r) \/ Poll(r)
  BY <1>1, <1>2, EnterLosesSo
     DEF Submit, Requests, EnsureUniqueTxHash, ValidateSubmittedTransfer, Poll
<1>3. CASE \E k \in TxIds : Finalizes(k) \/ FinalizeThrows(k)
  BY <1>3, FinalizeLosesSo
<1>4. CASE Crash
  BY <1>4 DEF Crash, LostSo
<1>5. CASE Boot
  <2>1. Len(rows') = Len(rows) /\ fin' = fin
    BY <1>5, TableLengths DEF Boot, TransferInv, TransferTypeOK, TxIds
  <2>2. i \in TxIds /\ rows[i] \in Row
    BY <2>1, TableLengths DEF TxIds, TransferInv
  <2>3. rows'[i].status = "PENDING" => rows[i].status = "PENDING"
    BY <1>5, <2>2 DEF Boot, Stale, Row
  <2>4. QED
    BY <2>1, <2>2, <2>3 DEF LostSo, Lost
<1>6. CASE \E k \in TxIds : GrowOld(k)
  <2>1. PICK k \in TxIds : GrowOld(k)
    BY <1>6
  <2>2. /\ Len(rows') = Len(rows) /\ fin' = fin
        /\ i \in TxIds /\ rows[i] \in Row
    BY <2>1, TableLengths DEF GrowOld, TransferInv, TransferTypeOK, TxIds
  <2>3. rows'[i].status = rows[i].status
    BY <2>1, <2>2, TableLengths DEF GrowOld, TransferInv, TransferTypeOK, TxIds, Row
  <2>4. QED
    BY <2>2, <2>3, SameRowNotLost
<1>7. CASE \E t \in Transfers : BroadcastTransfer(t) \/ Mine(t) \/ Drop(t)
  BY <1>1, <1>7 DEF BroadcastTransfer, Mine, Drop
<1>8. QED
  BY <1>2, <1>3, <1>4, <1>5, <1>6, <1>7 DEF Next

\* A pending row loses its promise by a restart, by an insert whose answer is
\* lost, or by a failed write of the catch, and in no other way.
THEOREM RowsAreLostOnlySo == Spec => LostOnlySo
<1>1. TransferInv /\ [Next]_vars => [\A i \in 1..Len(rows') : LostSo(i)]_vars
  BY StepLosesSo
<1>2. [\A i \in 1..Len(rows') : LostSo(i)]_vars
        => [\A i \in 1..Len(rows') :
              Lost(i)' /\ ~Lost(i) =>
                \/ ~up'
                \/ faults' > faults /\ (i \notin TxIds \/ fin[i] = "rescue")]_vars
  BY DEF LostSo
<1>3. QED
  BY <1>1, <1>2, TransferInvariant, PTL DEF Spec, LostOnlySo

=============================================================================
