---------------------------- MODULE HistoryProofs ----------------------------
(***************************************************************************)
(* Proofs about HistoryPage, for any transfers and bounds.                 *)
(***************************************************************************)
EXTENDS HistoryPage, FiniteSetTheorems, SequenceTheorems, TLAPS

Answer == [kind : Kinds, rows : [Transfers -> Shown], late : BOOLEAN]

\* The place in a sequence of what is the i-th once the k-th is removed.
Place(i, k) == IF i < k THEN i ELSE i + 1

LEMMA Removed ==
  ASSUME NEW S, NEW s \in Seq(S), NEW k \in 1..Len(s)
  PROVE  /\ RemoveAt(s, k) \in Seq(S)
         /\ Len(RemoveAt(s, k)) = Len(s) - 1
         /\ \A i \in 1..(Len(s) - 1) :
              Place(i, k) \in 1..Len(s) /\ RemoveAt(s, k)[i] = s[Place(i, k)]
<1> DEFINE front == SubSeq(s, 1, k - 1)
           back == SubSeq(s, k + 1, Len(s))
<1>0. Len(s) \in Nat /\ k \in Nat /\ 1 <= k /\ k <= Len(s) /\ \A i \in 1..Len(s) : s[i] \in S
  OBVIOUS
<1>1. /\ front \in Seq(S) /\ Len(front) = k - 1
      /\ \A i \in 1..(k - 1) : front[i] = s[i]
  <2>1. /\ front \in Seq(S)
        /\ Len(front) = IF 1 <= k - 1 THEN (k - 1) - 1 + 1 ELSE 0
        /\ \A i \in 1..((k - 1) - 1 + 1) : front[i] = s[1 + i - 1]
    BY <1>0, SubSeqProperties
  <2> HIDE DEF front
  <2> QED
    BY <1>0, <2>1
<1>2. /\ back \in Seq(S) /\ Len(back) = Len(s) - k
      /\ \A i \in 1..(Len(s) - k) : back[i] = s[k + i]
  <2>1. /\ back \in Seq(S)
        /\ Len(back) = IF k + 1 <= Len(s) THEN Len(s) - (k + 1) + 1 ELSE 0
        /\ \A i \in 1..(Len(s) - (k + 1) + 1) : back[i] = s[(k + 1) + i - 1]
    BY <1>0, SubSeqProperties
  <2> HIDE DEF back
  <2> QED
    BY <1>0, <2>1
<1> HIDE DEF front, back
<1>3. /\ front \o back \in Seq(S) /\ Len(front \o back) = Len(front) + Len(back)
      /\ \A i \in 1..(Len(front) + Len(back)) :
           (front \o back)[i] = IF i <= Len(front) THEN front[i] ELSE back[i - Len(front)]
  BY <1>1, <1>2, ConcatProperties
<1>4. RemoveAt(s, k) = front \o back
  BY DEF RemoveAt, front, back
<1>5. ASSUME NEW i \in 1..(Len(s) - 1)
      PROVE  Place(i, k) \in 1..Len(s) /\ (front \o back)[i] = s[Place(i, k)]
  <2>1. CASE i < k
    BY <1>0, <1>1, <1>2, <1>3, <1>5, <2>1 DEF Place
  <2>2. CASE ~(i < k)
    <3>1. (front \o back)[i] = back[i - (k - 1)]
      BY <1>0, <1>1, <1>2, <1>3, <1>5, <2>2
    <3>2. i - (k - 1) \in 1..(Len(s) - k)
      BY <1>0, <1>5, <2>2
    <3>3. back[i - (k - 1)] = s[k + (i - (k - 1))] /\ k + (i - (k - 1)) = i + 1
      BY <1>0, <1>2, <3>2
    <3> QED
      BY <1>0, <1>5, <2>2, <3>1, <3>3 DEF Place
  <2> QED
    BY <2>1, <2>2
<1>6. Len(front \o back) = Len(s) - 1
  BY <1>0, <1>1, <1>2, <1>3
<1> QED
  BY <1>3, <1>4, <1>5, <1>6

\* What was not removed is there still.
LEMMA Stays ==
  ASSUME NEW S, NEW s \in Seq(S), NEW k \in 1..Len(s), NEW j \in 1..Len(s), j # k
  PROVE  \E i \in 1..Len(RemoveAt(s, k)) : RemoveAt(s, k)[i] = s[j]
<1> DEFINE i == IF j < k THEN j ELSE j - 1
<1>1. Len(s) \in Nat /\ i \in 1..(Len(s) - 1) /\ Place(i, k) = j
  BY DEF Place
<1>2. Len(RemoveAt(s, k)) = Len(s) - 1 /\ RemoveAt(s, k)[i] = s[Place(i, k)]
  BY <1>1, Removed
<1> QED
  BY <1>1, <1>2

\* Removing one that counts takes one off the count of what a sequence holds.
LEMMA CountRemoved ==
  ASSUME NEW S, NEW s \in Seq(S), NEW k \in 1..Len(s), NEW P, s[k] \in P
  PROVE  /\ Cardinality({i \in 1..Len(s) : s[i] \in P}) \in Nat
         /\ Cardinality({i \in 1..Len(RemoveAt(s, k)) : RemoveAt(s, k)[i] \in P}) \in Nat
         /\ Cardinality({i \in 1..Len(RemoveAt(s, k)) : RemoveAt(s, k)[i] \in P})
              < Cardinality({i \in 1..Len(s) : s[i] \in P})
<1> DEFINE r == RemoveAt(s, k)
           A == {i \in 1..Len(s) : s[i] \in P}
           B == {i \in 1..Len(r) : r[i] \in P}
           f == [i \in B |-> Place(i, k)]
<1>0. Len(s) \in Nat /\ k \in 1..Len(s)
  OBVIOUS
<1>1. /\ Len(r) = Len(s) - 1
      /\ \A i \in 1..(Len(s) - 1) :
           Place(i, k) \in 1..Len(s) /\ r[i] = s[Place(i, k)]
  BY Removed
<1> HIDE DEF r
<1>2. IsFiniteSet(1..Len(s)) /\ IsFiniteSet(1..Len(r))
  BY <1>0, <1>1, FS_Interval
<1>3. IsFiniteSet(A) /\ IsFiniteSet(B)
  BY <1>2, FS_Subset
<1>4. f \in Injection(B, A \ {k})
  <2>1. ASSUME NEW i \in B
        PROVE  Place(i, k) \in A \ {k}
    BY <1>0, <1>1 DEF Place
  <2>2. ASSUME NEW i \in B, NEW j \in B, Place(i, k) = Place(j, k)
        PROVE  i = j
    BY <1>0, <1>1, <2>2 DEF Place
  <2> QED
    BY <2>1, <2>2 DEF Injection, IsInjective
<1>5. k \in A /\ IsFiniteSet(A \ {k}) /\ Cardinality(A \ {k}) = Cardinality(A) - 1
  BY <1>3, FS_RemoveElement
<1> HIDE DEF A, B, f
<1>6. Cardinality(B) <= Cardinality(A \ {k})
  BY <1>4, <1>5, FS_Injection
<1>7. Cardinality(A) \in Nat /\ Cardinality(B) \in Nat
  BY <1>3, FS_CardinalityType
<1> QED
  BY <1>5, <1>6, <1>7 DEF r, A, B

-----------------------------------------------------------------------------
(* The parts of a state.                                                   *)

LEMMA Typed ==
  ASSUME HistoryTypeOK
  PROVE  /\ record \in [Transfers -> Shown \cup {"UNSURE"}] /\ list \in [Transfers -> Shown]
         /\ asked \in Seq(Kinds) /\ answers \in Seq(Answer)
         /\ Len(asked) \in Nat /\ Len(answers) \in Nat
         /\ \A k \in 1..Len(answers) : answers[k] \in Answer
<1>1. asked \in Seq(Kinds) /\ answers \in Seq(Answer)
  BY DEF HistoryTypeOK, Answer
<1>2. Len(asked) \in Nat /\ Len(answers) \in Nat
  BY <1>1
<1>3. ASSUME NEW k \in 1..Len(answers)
      PROVE  answers[k] \in Answer
  BY <1>1
<1> QED
  BY <1>1, <1>2, <1>3 DEF HistoryTypeOK

LEMMA Ranks ==
  /\ Rank("none") = 0 /\ Rank("PENDING") = 1
  /\ \A s : s # "none" /\ s # "PENDING" => Rank(s) = 2
  /\ \A s : Rank(s) \in 0..2
BY DEF Rank

LEMMA EmptyRows ==
  /\ Empty \in [Transfers -> Shown]
  /\ \A t \in Transfers : Empty[t] = "none"
BY DEF Empty, Shown

LEMMA AllTyped ==
  ASSUME HistoryTypeOK,
         executed' \subseteq Transfers,
         record' \in [Transfers -> Shown \cup {"UNSURE"}],
         open' \in BOOLEAN, view' \in {"loading", "loaded", "empty", "error"},
         list' \in [Transfers -> Shown],
         asked' \in Seq(Kinds), answers' \in Seq(Answer),
         Len(asked') + Len(answers') <= MaxInFlight,
         failures' \in 0..MaxFailures
  PROVE  HistoryTypeOK'
BY DEF HistoryTypeOK, Answer

\* The rows that stay on their way are those there were, in their order, and
\* perhaps one more: each is read from its place, and may have become late.
From(i, k) == IF k = 0 THEN i ELSE Place(i, k)

Keeps(k) ==
  /\ Len(answers') = (IF k = 0 THEN Len(answers) ELSE Len(answers) - 1)
  /\ \A i \in 1..Len(answers') :
       /\ From(i, k) \in 1..Len(answers)
       /\ answers'[i].rows = answers[From(i, k)].rows
       /\ answers'[i].late = FALSE => answers[From(i, k)].late = FALSE

\* They still tell what happened, and are in order.
LEMMA KeptTell ==
  ASSUME HistoryTypeOK, AnswersTellRecord, ReadInOrder,
         UNCHANGED <<executed, record>>,
         NEW k \in 0..Len(answers), Keeps(k),
         answers' \in Seq(Answer),
         \A t \in Transfers :
           /\ Rank(list'[t]) <= Rank(record[t])
           /\ \A i \in 1..Len(answers') :
                ~answers'[i].late => Rank(list'[t]) <= Rank(answers'[i].rows[t])
  PROVE  AnswersTellRecord' /\ ReadInOrder'
<1>0. /\ k \in Nat /\ Len(answers) \in Nat /\ Len(answers') \in Nat
      /\ \A i \in 1..Len(answers') : \A j \in 1..i :
           j \in 1..Len(answers') /\ From(j, k) \in 1..From(i, k)
  <2>1. k \in Nat /\ Len(answers) \in Nat /\ Len(answers') \in Nat
    BY Typed
  <2>2. ASSUME NEW i \in 1..Len(answers'), NEW j \in 1..i
        PROVE  j \in 1..Len(answers') /\ From(j, k) \in 1..From(i, k)
    BY <2>1 DEF From, Place
  <2> QED
    BY <2>1, <2>2
<1>1. AnswersTellRecord'
  BY DEF AnswersTellRecord, Keeps
<1>2. ASSUME NEW t \in Transfers, NEW i \in 1..Len(answers')
      PROVE  /\ Rank(answers'[i].rows[t]) <= Rank(record'[t])
             /\ \A j \in 1..i : Rank(answers'[j].rows[t]) <= Rank(answers'[i].rows[t])
  <2>1. /\ Rank(answers[From(i, k)].rows[t]) <= Rank(record[t])
        /\ \A j \in 1..From(i, k) :
             Rank(answers[j].rows[t]) <= Rank(answers[From(i, k)].rows[t])
    BY DEF ReadInOrder, Keeps
  <2>2. \A j \in 1..i : /\ From(j, k) \in 1..From(i, k)
                        /\ answers'[j].rows = answers[From(j, k)].rows
    BY <1>0 DEF Keeps
  <2> QED
    BY <2>1, <2>2 DEF Keeps
<1>3. ReadInOrder'
  BY <1>2 DEF ReadInOrder
<1> QED
  BY <1>1, <1>3

-----------------------------------------------------------------------------
(* The record moves on.                                                    *)

LEMMA RecordStep ==
  ASSUME HistoryTypeOK, AnswersTellRecord, Record!Next
  PROVE  /\ executed' \subseteq Transfers
         /\ record' \in [Transfers -> Shown \cup {"UNSURE"}]
         /\ \A t \in Transfers :
              /\ t \in executed => t \in executed'
              /\ record[t] = "FAILED" => record'[t] = "FAILED"
              /\ record'[t] \in {"CONFIRMED", "UNSURE"} => t \in executed'
              /\ Rank(record[t]) <= Rank(record'[t])
<1> USE Typed, Ranks DEF AnswersTellRecord, Shown
<1>0. executed \subseteq Transfers
  BY DEF HistoryTypeOK
<1>1. CASE Record!LeaveBe
  BY <1>0, <1>1 DEF Record!LeaveBe
<1>2. CASE Record!GiveUp
  BY <1>0, <1>2 DEF Record!GiveUp
<1>3. ASSUME NEW x \in Transfers, Record!Execute(x)
      PROVE  /\ executed' \subseteq Transfers /\ executed \subseteq executed'
             /\ record' = record
  BY <1>0, <1>3 DEF Record!Execute
<1>4. ASSUME NEW x \in Transfers, Record!Enter(x)
      PROVE  /\ record' = [record EXCEPT ![x] = "PENDING"] /\ record[x] = "none"
             /\ executed' = executed
  BY <1>4 DEF Record!Enter
<1>5. ASSUME NEW x \in Transfers, Record!Settle(x)
      PROVE  \E end \in {"CONFIRMED", "UNSURE", "FAILED"} :
               /\ record' = [record EXCEPT ![x] = end]
               /\ record[x] \in {"PENDING", "UNSURE"} /\ executed' = executed
               /\ end # "FAILED" => x \in executed
  BY <1>5 DEF Record!Settle
<1>6. CASE \E x \in Transfers : Record!Execute(x)
  BY <1>0, <1>3, <1>6
<1>7. CASE \E x \in Transfers : Record!Enter(x)
  BY <1>0, <1>4, <1>7
<1>8. CASE \E x \in Transfers : Record!Settle(x)
  BY <1>0, <1>5, <1>8
<1> QED
  BY <1>1, <1>2, <1>6, <1>7, <1>8 DEF Record!Next

LEMMA MovesInv ==
  ASSUME HistoryInv, RecordMoves
  PROVE  HistoryInv'
<1>0. HistoryTypeOK /\ PageTellsRecord /\ AnswersTellRecord /\ ReadInOrder
  BY DEF HistoryInv
<1>1. /\ executed' \subseteq Transfers
      /\ record' \in [Transfers -> Shown \cup {"UNSURE"}]
      /\ \A t \in Transfers :
           /\ t \in executed => t \in executed'
           /\ record[t] = "FAILED" => record'[t] = "FAILED"
           /\ record'[t] \in {"CONFIRMED", "UNSURE"} => t \in executed'
           /\ Rank(record[t]) <= Rank(record'[t])
  BY <1>0, RecordStep DEF RecordMoves
<1>2. UNCHANGED <<open, view, list, asked, answers, failures>>
  BY DEF RecordMoves, page
<1>3. HistoryTypeOK'
  BY <1>0, <1>1, <1>2 DEF HistoryTypeOK
<1>4. PageTellsRecord'
  BY <1>0, <1>1, <1>2 DEF PageTellsRecord, HasPending
<1>5. AnswersTellRecord'
  BY <1>0, <1>1, <1>2 DEF AnswersTellRecord
<1>6. ReadInOrder'
  <2>1. \A s : Rank(s) \in Int
    BY Ranks
  <2>2. \A s, t, u : Rank(s) <= Rank(t) /\ Rank(t) <= Rank(u) => Rank(s) <= Rank(u)
    BY <2>1
  <2> QED
    BY <1>0, <1>1, <1>2, <2>2 DEF ReadInOrder
<1> QED
  BY <1>3, <1>4, <1>5, <1>6 DEF HistoryInv

-----------------------------------------------------------------------------
(* Requests and answers.                                                   *)

LEMMA AskTyped ==
  ASSUME HistoryTypeOK, NEW kind \in Kinds, Ask(kind), UNCHANGED answers
  PROVE  asked' \in Seq(Kinds) /\ Len(asked') + Len(answers') <= MaxInFlight
BY Typed, HistoryBounds DEF Ask

LEMMA AsksInv ==
  ASSUME HistoryInv, Open \/ Refresh \/ Tick \/ Back
  PROVE  HistoryInv'
<1>0. HistoryTypeOK /\ PageTellsRecord /\ AnswersTellRecord /\ ReadInOrder
  BY DEF HistoryInv
<1>1. UNCHANGED <<executed, record, failures>> /\ (UNCHANGED list \/ list' = Empty)
  BY DEF Open, Refresh, Tick, Back, page
<1>2. HistoryTypeOK'
  <2>1. "explicit" \in Kinds /\ "silent" \in Kinds
    BY DEF Kinds
  <2>2. CASE Open \/ Refresh \/ Tick
    <3>1. /\ asked' \in Seq(Kinds) /\ Len(asked') + Len(answers') <= MaxInFlight
          /\ UNCHANGED answers
      BY <1>0, <2>1, <2>2, AskTyped DEF Open, Refresh, Tick
    <3>2. open' \in BOOLEAN /\ view' \in {"loading", "loaded", "empty", "error"}
          /\ list' \in [Transfers -> Shown]
      BY <1>0, <2>2, EmptyRows DEF Open, Refresh, Tick, page, HistoryTypeOK
    <3> QED
      BY <1>0, <1>1, <3>1, <3>2 DEF HistoryTypeOK
  <2>3. CASE Back
    <3>1. asked' = <<>> /\ answers' = <<>> /\ Len(asked') + Len(answers') <= MaxInFlight
      BY <2>3, HistoryBounds DEF Back
    <3>2. asked' \in Seq(Kinds) /\ answers' \in Seq(Answer)
      BY <3>1
    <3> QED
      BY <1>0, <1>1, <2>3, <3>1, <3>2, AllTyped DEF Back, HistoryTypeOK
  <2> QED
    BY <2>2, <2>3
<1>3. PageTellsRecord'
  <2>1. CASE Open
    BY <1>0, <2>1, EmptyRows DEF Open, PageTellsRecord
  <2>2. CASE Refresh
    BY <1>0, <2>2 DEF Refresh, PageTellsRecord
  <2>3. CASE Tick
    BY <1>0, <2>3 DEF Tick, PageTellsRecord, HasPending, page
  <2>4. CASE Back
    BY <1>0, <2>4 DEF Back, PageTellsRecord
  <2> QED
    BY <2>1, <2>2, <2>3, <2>4
<1>4. answers' = answers \/ answers' = <<>>
  BY DEF Open, Refresh, Tick, Back
<1>5. AnswersTellRecord'
  BY <1>0, <1>1, <1>4 DEF AnswersTellRecord
<1>6. ReadInOrder'
  <2>1. \A t \in Transfers : \A s : Rank(list'[t]) = Rank(list[t]) \/ Rank(list'[t]) <= Rank(s)
    BY <1>1, EmptyRows, Ranks
  <2> QED
    BY <1>0, <1>1, <1>4, <2>1 DEF ReadInOrder
<1> QED
  BY <1>2, <1>3, <1>5, <1>6 DEF HistoryInv

LEMMA ReadInv ==
  ASSUME HistoryInv, NEW k, ReadRows(k)
  PROVE  HistoryInv'
<1>0. HistoryTypeOK /\ PageTellsRecord /\ AnswersTellRecord /\ ReadInOrder
  BY DEF HistoryInv
<1>1. UNCHANGED <<executed, record, open, view, list, failures>>
  BY DEF ReadRows, page
<1> DEFINE new == [kind |-> asked[k], rows |-> Rows, late |-> FALSE]
<1>2. /\ Rows \in [Transfers -> Shown]
      /\ \A t \in Transfers :
           /\ Rank(Rows[t]) = Rank(record[t])
           /\ Rows[t] = "CONFIRMED" => record[t] \in {"CONFIRMED", "UNSURE"}
           /\ Rows[t] = "FAILED" => record[t] = "FAILED"
  <2>1. \A t \in Transfers : Rows[t] = IF record[t] = "UNSURE" THEN "CONFIRMED" ELSE record[t]
    BY DEF Rows
  <2> QED
    BY <1>0, <2>1, Typed, Ranks DEF Rows, Shown
<1>3. k \in 1..Len(asked) /\ new \in Answer
  BY <1>0, <1>2, Typed DEF ReadRows, Answer
<1>4. /\ asked' \in Seq(Kinds) /\ Len(asked') = Len(asked) - 1
  BY <1>0, <1>3, Typed, Removed DEF ReadRows
<1>5. /\ answers' \in Seq(Answer) /\ Len(answers') = Len(answers) + 1
      /\ answers'[Len(answers) + 1] = new
      /\ \A i \in 1..Len(answers) : answers'[i] = answers[i]
  <2>1. answers' = Append(answers, new)
    BY DEF ReadRows
  <2> HIDE DEF new
  <2> QED
    BY <1>0, <1>3, <2>1, Typed
<1> HIDE DEF new
<1>6. HistoryTypeOK'
  <2>1. Len(asked') + Len(answers') <= MaxInFlight
    BY <1>0, <1>4, <1>5, Typed DEF HistoryTypeOK
  <2> QED
    BY <1>0, <1>1, <1>4, <1>5, <2>1, AllTyped DEF HistoryTypeOK
<1>7. PageTellsRecord'
  BY <1>0, <1>1 DEF PageTellsRecord, HasPending
<1>8. ASSUME NEW i \in 1..Len(answers')
      PROVE  \/ i \in 1..Len(answers) /\ answers'[i] = answers[i]
             \/ i = Len(answers) + 1 /\ answers'[i].rows = Rows
  BY <1>0, <1>5, Typed DEF new
<1>9. AnswersTellRecord'
  <2>1. ASSUME NEW i \in 1..Len(answers'), NEW t \in Transfers
        PROVE  /\ answers'[i].rows[t] = "CONFIRMED" => t \in executed
               /\ answers'[i].rows[t] = "FAILED" => record[t] = "FAILED"
    BY <1>0, <1>2, <1>8 DEF AnswersTellRecord
  <2> QED
    BY <1>0, <1>1, <2>1 DEF AnswersTellRecord
<1>10. ReadInOrder'
  <2>1. ASSUME NEW t \in Transfers, NEW i \in 1..Len(answers')
        PROVE  /\ Rank(answers'[i].rows[t]) <= Rank(record[t])
               /\ \A j \in 1..i : Rank(answers'[j].rows[t]) <= Rank(answers'[i].rows[t])
               /\ ~answers'[i].late => Rank(list[t]) <= Rank(answers'[i].rows[t])
    <3>0. \A s : Rank(s) \in Int
      BY Ranks
    <3>1. CASE i \in 1..Len(answers)
      <4>1. \A j \in 1..i : j \in 1..Len(answers)
        BY <1>0, <3>1, Typed
      <4> QED
        BY <1>0, <1>5, <3>1, <4>1 DEF ReadInOrder
    <3>2. CASE i = Len(answers) + 1
      <4>1. Rank(answers'[i].rows[t]) = Rank(record[t])
        BY <1>2, <1>5, <3>2 DEF new
      <4>2. ASSUME NEW j \in 1..i
            PROVE  Rank(answers'[j].rows[t]) <= Rank(answers'[i].rows[t])
        <5>1. j \in 1..Len(answers) \/ j = i
          BY <1>0, <3>2, Typed
        <5> QED
          BY <1>0, <1>5, <3>0, <4>1, <5>1 DEF ReadInOrder
      <4> QED
        BY <1>0, <3>0, <4>1, <4>2 DEF ReadInOrder
    <3> QED
      BY <1>8, <3>1, <3>2
  <2>2. \A t \in Transfers : Rank(list[t]) <= Rank(record[t])
    BY <1>0 DEF ReadInOrder
  <2> QED
    BY <1>1, <2>1, <2>2 DEF ReadInOrder
<1> QED
  BY <1>6, <1>7, <1>9, <1>10 DEF HistoryInv

LEMMA ArrivesInv ==
  ASSUME HistoryInv, NEW k, Arrives(k)
  PROVE  /\ HistoryInv'
         /\ ~answers[k].late => \A t \in Transfers : Rank(list'[t]) >= Rank(list[t])
<1>0. HistoryTypeOK /\ PageTellsRecord /\ AnswersTellRecord /\ ReadInOrder
  BY DEF HistoryInv
<1> DEFINE marked == [j \in 1..Len(answers) |->
                        [answers[j] EXCEPT !.late = @ \/ j < k]]
<1>1. /\ k \in 1..Len(answers) /\ list' = answers[k].rows
      /\ view' = (IF list' = Empty THEN "empty" ELSE "loaded")
      /\ answers' = RemoveAt(marked, k)
      /\ UNCHANGED <<executed, record, open, asked, failures>>
  BY DEF Arrives, Show
<1>2. answers[k] \in Answer /\ answers[k].rows \in [Transfers -> Shown]
  BY <1>0, <1>1, Typed DEF Answer
<1>3. marked \in Seq(Answer) /\ Len(marked) = Len(answers)
  <2>1. ASSUME NEW j \in 1..Len(answers)
        PROVE  [answers[j] EXCEPT !.late = @ \/ j < k] \in Answer
    <3>1. answers[j] \in Answer
      BY <1>0, Typed
    <3>2. (answers[j].late \/ j < k) \in BOOLEAN
      OBVIOUS
    <3>3. PICK late \in BOOLEAN : late = (answers[j].late \/ j < k)
      BY <3>2
    <3>4. [answers[j] EXCEPT !.late = late] \in Answer
      BY <3>1 DEF Answer
    <3>5. [answers[j] EXCEPT !.late = @ \/ j < k] = [answers[j] EXCEPT !.late = late]
      BY <3>3
    <3> QED
      BY <3>4, <3>5
  <2>2. marked \in [1..Len(answers) -> Answer]
    BY <2>1
  <2> HIDE DEF marked
  <2> QED
    BY <1>0, <2>2, Typed
<1>4. ASSUME NEW j \in 1..Len(answers)
      PROVE  /\ marked[j].rows = answers[j].rows
             /\ marked[j].late = FALSE => answers[j].late = FALSE /\ ~(j < k)
  <2>1. answers[j] \in Answer
    BY <1>0, Typed
  <2>2. marked[j] = [answers[j] EXCEPT !.late = @ \/ j < k]
    OBVIOUS
  <2>3. marked[j].rows = answers[j].rows /\ marked[j].late = (answers[j].late \/ j < k)
    BY <2>1, <2>2 DEF Answer
  <2>4. answers[j].late \in BOOLEAN
    BY <2>1 DEF Answer
  <2> HIDE DEF marked
  <2> QED
    BY <2>3, <2>4
<1> HIDE DEF marked
<1>5. /\ answers' \in Seq(Answer) /\ Len(answers') = Len(answers) - 1
      /\ \A i \in 1..(Len(answers) - 1) :
           Place(i, k) \in 1..Len(answers) /\ answers'[i] = marked[Place(i, k)]
  BY <1>1, <1>3, Removed
<1>6. k \in Nat /\ k # 0 /\ k \in 0..Len(answers) /\ Len(answers) \in Nat
  BY <1>0, <1>1, Typed
<1>7. Keeps(k)
  BY <1>4, <1>5, <1>6 DEF Keeps, From
<1>8. ASSUME NEW t \in Transfers
      PROVE  /\ Rank(list'[t]) <= Rank(record[t])
             /\ \A i \in 1..Len(answers') :
                  ~answers'[i].late => Rank(list'[t]) <= Rank(answers'[i].rows[t])
  <2>1. Rank(list'[t]) <= Rank(record[t])
    BY <1>0, <1>1 DEF ReadInOrder
  <2>2. ASSUME NEW i \in 1..Len(answers'), ~answers'[i].late
        PROVE  Rank(list'[t]) <= Rank(answers'[i].rows[t])
    <3>1. /\ Place(i, k) \in 1..Len(answers) /\ answers'[i].rows = answers[Place(i, k)].rows
          /\ answers'[i] = marked[Place(i, k)]
      BY <1>4, <1>5
    <3>2. answers'[i].late \in BOOLEAN
      <4>1. answers'[i] \in Answer
        BY <1>5
      <4> QED
        BY <4>1 DEF Answer
    <3>3. ~(Place(i, k) < k)
      BY <1>4, <2>2, <3>1, <3>2
    <3>4. k \in 1..Place(i, k)
      BY <1>1, <1>6, <3>1, <3>3
    <3> QED
      BY <1>0, <1>1, <3>1, <3>4 DEF ReadInOrder
  <2> QED
    BY <2>1, <2>2
<1>9. AnswersTellRecord' /\ ReadInOrder'
  BY <1>0, <1>1, <1>5, <1>6, <1>7, <1>8, KeptTell
<1>10. HistoryTypeOK'
  <2>1. Len(asked') + Len(answers') <= MaxInFlight
    BY <1>0, <1>1, <1>5, Typed, HistoryBounds DEF HistoryTypeOK
  <2> QED
    BY <1>0, <1>1, <1>2, <1>5, <2>1, AllTyped, Typed DEF HistoryTypeOK
<1>11. PageTellsRecord'
  <2>1. \A t \in Transfers : /\ list'[t] = "CONFIRMED" => t \in executed
                             /\ list'[t] = "FAILED" => record[t] = "FAILED"
    BY <1>0, <1>1 DEF AnswersTellRecord
  <2>2. view' \in {"empty", "error"} => \A t \in Transfers : list'[t] # "PENDING"
    BY <1>1, EmptyRows
  <2> QED
    <3>1. view' \in {"empty", "error"} => ~HasPending'
      BY <2>2 DEF HasPending
    <3>2. executed' = executed /\ record' = record
      BY <1>1
    <3> QED
      BY <2>1, <3>1, <3>2 DEF PageTellsRecord
<1>12. ~answers[k].late => \A t \in Transfers : Rank(list'[t]) >= Rank(list[t])
  <2>1. \A s : Rank(s) \in Int
    BY Ranks
  <2> QED
    BY <1>0, <1>1, <2>1 DEF ReadInOrder
<1> QED
  BY <1>9, <1>10, <1>11, <1>12 DEF HistoryInv

LEMMA FailsInv ==
  ASSUME HistoryInv, Fails
  PROVE  /\ HistoryInv'
         /\ UNCHANGED list \/ (view' = "error" /\ Loads' < Loads)
<1>0. HistoryTypeOK /\ PageTellsRecord /\ AnswersTellRecord /\ ReadInOrder
  BY DEF HistoryInv
<1>1. /\ failures < MaxFailures /\ failures' = failures + 1
      /\ UNCHANGED <<executed, record, open>>
  BY DEF Fails
<1>2. (list' = Empty /\ view' = "error") \/ UNCHANGED <<list, view>>
  BY DEF Fails, Fail
<1>3. failures' \in 0..MaxFailures /\ list' \in [Transfers -> Shown]
      /\ view' \in {"loading", "loaded", "empty", "error"}
  BY <1>0, <1>1, <1>2, EmptyRows, HistoryBounds DEF HistoryTypeOK
<1>4. PageTellsRecord'
  BY <1>0, <1>1, <1>2, EmptyRows DEF PageTellsRecord, HasPending
<1>5. \A t \in Transfers : \A s : Rank(list[t]) <= Rank(s) => Rank(list'[t]) <= Rank(s)
  BY <1>2, EmptyRows, Ranks
<1>6. ASSUME NEW k \in 1..Len(asked), Fail(asked[k]), asked' = RemoveAt(asked, k),
             UNCHANGED answers
      PROVE  /\ HistoryInv'
             /\ UNCHANGED list \/ (view' = "error" /\ Loads' < Loads)
  <2>1. asked' \in Seq(Kinds) /\ Len(asked') = Len(asked) - 1
    BY <1>0, <1>6, Removed, Typed
  <2>2. HistoryTypeOK'
    <3>1. Len(asked') + Len(answers') <= MaxInFlight
      BY <1>0, <1>6, <2>1, Typed, HistoryBounds DEF HistoryTypeOK
    <3>2. open' \in BOOLEAN /\ executed' \subseteq Transfers
          /\ record' \in [Transfers -> Shown \cup {"UNSURE"}] /\ answers' \in Seq(Answer)
      BY <1>0, <1>1, <1>6, Typed DEF HistoryTypeOK
    <3> QED
      BY <1>0, <1>3, <2>1, <3>1, <3>2, AllTyped
  <2>3. AnswersTellRecord' /\ ReadInOrder'
    BY <1>0, <1>1, <1>5, <1>6 DEF AnswersTellRecord, ReadInOrder
  <2>4. ASSUME asked[k] = "explicit"
        PROVE  Loads' < Loads
    <3> DEFINE P == {"explicit"}
               A == {i \in 1..Len(asked) : asked[i] = "explicit"}
               B == {i \in 1..Len(RemoveAt(asked, k)) : RemoveAt(asked, k)[i] = "explicit"}
               C == {i \in 1..Len(answers) : answers[i].kind = "explicit"}
    <3>1. Cardinality(A) \in Nat /\ Cardinality(B) \in Nat /\ Cardinality(B) < Cardinality(A)
      <4>1. asked \in Seq(Kinds) /\ asked[k] \in P
        BY <1>0, <2>4, Typed
      <4>2. A = {i \in 1..Len(asked) : asked[i] \in P}
            /\ B = {i \in 1..Len(RemoveAt(asked, k)) : RemoveAt(asked, k)[i] \in P}
        OBVIOUS
      <4> HIDE DEF A, B, P
      <4> QED
        BY <4>1, <4>2, CountRemoved
    <3>2. Cardinality(C) \in Nat
      <4>1. IsFiniteSet(1..Len(answers)) /\ C \subseteq 1..Len(answers)
        BY <1>0, Typed, FS_Interval
      <4> QED
        BY <4>1, FS_Subset, FS_CardinalityType
    <3>3. Loads = Cardinality(A) + Cardinality(C) /\ Loads' = Cardinality(B) + Cardinality(C)
      BY <1>6 DEF Loads
    <3> HIDE DEF A, B, C
    <3> QED
      BY <3>1, <3>2, <3>3
  <2>5. asked[k] # "explicit" => UNCHANGED list
    BY <1>6 DEF Fail
  <2>6. asked[k] = "explicit" => view' = "error"
    BY <1>6 DEF Fail
  <2> QED
    BY <1>4, <2>2, <2>3, <2>4, <2>5, <2>6 DEF HistoryInv
<1>7. ASSUME NEW k \in 1..Len(answers), Fail(answers[k].kind),
             answers' = RemoveAt(answers, k), UNCHANGED asked
      PROVE  /\ HistoryInv'
             /\ UNCHANGED list \/ (view' = "error" /\ Loads' < Loads)
  <2>1. /\ answers' \in Seq(Answer) /\ Len(answers') = Len(answers) - 1
        /\ \A i \in 1..(Len(answers) - 1) :
             Place(i, k) \in 1..Len(answers) /\ answers'[i] = answers[Place(i, k)]
    BY <1>0, <1>7, Removed, Typed
  <2>2. HistoryTypeOK'
    <3>1. Len(asked') + Len(answers') <= MaxInFlight
      BY <1>0, <1>7, <2>1, Typed, HistoryBounds DEF HistoryTypeOK
    <3>2. open' \in BOOLEAN /\ executed' \subseteq Transfers
          /\ record' \in [Transfers -> Shown \cup {"UNSURE"}] /\ asked' \in Seq(Kinds)
      BY <1>0, <1>1, <1>7, Typed DEF HistoryTypeOK
    <3> QED
      BY <1>0, <1>3, <2>1, <3>1, <3>2, AllTyped
  <2>3. AnswersTellRecord' /\ ReadInOrder'
    <3>1. k \in 0..Len(answers) /\ k # 0 /\ Len(answers) \in Nat
      BY <1>0, Typed
    <3>2. Keeps(k)
      BY <2>1, <3>1 DEF Keeps, From
    <3>3. ASSUME NEW t \in Transfers
          PROVE  /\ Rank(list'[t]) <= Rank(record[t])
                 /\ \A i \in 1..Len(answers') :
                      ~answers'[i].late => Rank(list'[t]) <= Rank(answers'[i].rows[t])
      BY <1>0, <1>5, <2>1 DEF ReadInOrder
    <3> QED
      BY <1>0, <1>1, <2>1, <3>1, <3>2, <3>3, KeptTell
  <2>4. ASSUME answers[k].kind = "explicit"
        PROVE  Loads' < Loads
    <3> DEFINE P == {a \in Answer : a.kind = "explicit"}
               r == RemoveAt(answers, k)
               A == {i \in 1..Len(answers) : answers[i].kind = "explicit"}
               B == {i \in 1..Len(r) : r[i].kind = "explicit"}
               C == {i \in 1..Len(asked) : asked[i] = "explicit"}
    <3>1. Cardinality(A) \in Nat /\ Cardinality(B) \in Nat /\ Cardinality(B) < Cardinality(A)
      <4>1. answers \in Seq(Answer) /\ answers[k] \in P
        BY <1>0, <2>4, Typed
      <4>2. \A i \in 1..Len(answers) : answers[i] \in Answer
        BY <1>0, Typed
      <4>3. \A i \in 1..Len(r) : r[i] \in Answer
        BY <1>7, <2>1
      <4>4. A = {i \in 1..Len(answers) : answers[i] \in P}
            /\ B = {i \in 1..Len(r) : r[i] \in P}
        BY <4>2, <4>3
      <4> HIDE DEF A, B, P
      <4> QED
        BY <4>1, <4>4, CountRemoved
    <3>2. Cardinality(C) \in Nat
      <4>1. IsFiniteSet(1..Len(asked)) /\ C \subseteq 1..Len(asked)
        BY <1>0, Typed, FS_Interval
      <4> QED
        BY <4>1, FS_Subset, FS_CardinalityType
    <3>3. Loads = Cardinality(C) + Cardinality(A) /\ Loads' = Cardinality(C) + Cardinality(B)
      BY <1>7 DEF Loads
    <3> HIDE DEF A, B, C
    <3> QED
      BY <3>1, <3>2, <3>3
  <2>5. answers[k].kind # "explicit" => UNCHANGED list
    BY <1>7 DEF Fail
  <2>6. answers[k].kind = "explicit" => view' = "error"
    BY <1>7 DEF Fail
  <2> QED
    BY <1>4, <2>2, <2>3, <2>4, <2>5, <2>6 DEF HistoryInv
<1> QED
  BY <1>6, <1>7 DEF Fails

-----------------------------------------------------------------------------
LEMMA InvInit == Init => HistoryInv
<1> SUFFICES ASSUME Init PROVE HistoryInv
  OBVIOUS
<1>1. /\ executed = {} /\ \A t \in Transfers : record[t] = "none"
      /\ record \in [Transfers -> Shown \cup {"UNSURE"}]
  BY DEF Init, Record!Init, Shown
<1>2. /\ list = Empty /\ answers = <<>> /\ asked = <<>> /\ open = FALSE /\ view = "loading"
      /\ failures = 0
  BY DEF Init
<1>3. HistoryTypeOK
  <2>1. Len(asked) + Len(answers) <= MaxInFlight /\ asked \in Seq(Kinds)
        /\ answers \in Seq([kind : Kinds, rows : [Transfers -> Shown], late : BOOLEAN])
    BY <1>2, HistoryBounds
  <2>2. open \in BOOLEAN /\ view \in {"loading", "loaded", "empty", "error"}
        /\ failures \in 0..MaxFailures /\ list \in [Transfers -> Shown]
    <3>1. 0 \in 0..MaxFailures
      BY HistoryBounds
    <3> QED
      BY <1>2, <3>1, EmptyRows
  <2> QED
    BY <1>1, <2>1, <2>2 DEF HistoryTypeOK
<1>4. PageTellsRecord /\ AnswersTellRecord
  BY <1>1, <1>2 DEF PageTellsRecord, AnswersTellRecord
<1>5. ReadInOrder
  BY <1>1, <1>2, EmptyRows, Ranks DEF ReadInOrder
<1> QED
  BY <1>3, <1>4, <1>5 DEF HistoryInv

LEMMA InvNext == HistoryInv /\ [Next]_vars => HistoryInv'
<1> SUFFICES ASSUME HistoryInv, [Next]_vars PROVE HistoryInv'
  OBVIOUS
<1>1. CASE UNCHANGED vars
  <2>1. UNCHANGED <<executed, record, open, view, list, asked, answers, failures>>
    BY <1>1 DEF vars, page
  <2> QED
    BY <2>1 DEF HistoryInv, HistoryTypeOK, PageTellsRecord, AnswersTellRecord, ReadInOrder,
       HasPending
<1> QED
  BY <1>1, MovesInv, AsksInv, ReadInv, ArrivesInv, FailsInv DEF Next

\* What the page holds tells what happened, whatever fails and in whatever
\* order the requests are served and answered.
THEOREM HistorySafe == Spec => []HistoryInv
BY InvInit, InvNext, PTL DEF Spec

\* A transfer on an open page does not vanish or become pending again, but by
\* a late answer or a load that fails.
THEOREM HistoryMovesOn == Spec => ShownMovesOn
<1> DEFINE Moves ==
             open /\ open' =>
               \/ \A t \in Transfers : Rank(list'[t]) >= Rank(list[t])
               \/ view' = "error" /\ Loads' < Loads
               \/ \E k \in 1..Len(answers) : answers[k].late /\ Arrives(k)
<1>1. HistoryInv /\ [Next]_vars => [Moves]_vars
  <2> SUFFICES ASSUME HistoryInv, Next, open, open'
               PROVE  \/ \A t \in Transfers : Rank(list'[t]) >= Rank(list[t])
                      \/ view' = "error" /\ Loads' < Loads
                      \/ \E k \in 1..Len(answers) : answers[k].late /\ Arrives(k)
    OBVIOUS
  <2>0. \A s : Rank(s) >= Rank(s)
    BY Ranks
  <2>1. CASE RecordMoves \/ Open \/ Refresh \/ Tick \/ Back
    <3>1. UNCHANGED list
      BY <2>1 DEF RecordMoves, Open, Refresh, Tick, Back, page
    <3> QED
      BY <2>0, <3>1
  <2>2. CASE Fails
    BY <2>0, <2>2, FailsInv
  <2>3. ASSUME NEW k, ReadRows(k)
        PROVE  UNCHANGED list
    BY <2>3 DEF ReadRows, page
  <2>4. ASSUME NEW k, Arrives(k)
        PROVE  \/ \A t \in Transfers : Rank(list'[t]) >= Rank(list[t])
               \/ \E i \in 1..Len(answers) : answers[i].late /\ Arrives(i)
    <3>1. k \in 1..Len(answers)
      BY <2>4 DEF Arrives
    <3> QED
      BY <2>4, <3>1, ArrivesInv
  <2> QED
    BY <2>0, <2>1, <2>2, <2>3, <2>4 DEF Next
<1> QED
  BY <1>1, HistorySafe, PTL DEF Spec, ShownMovesOn

\* A page that is loading waits for a request of its own.
LoadIsUnderWay ==
  open /\ view = "loading" =>
    \/ \E k \in 1..Len(asked) : asked[k] = "explicit"
    \/ \E k \in 1..Len(answers) : answers[k].kind = "explicit"

LEMMA UnderWayStep == HistoryTypeOK /\ LoadIsUnderWay /\ [Next]_vars => LoadIsUnderWay'
<1> SUFFICES ASSUME HistoryTypeOK, LoadIsUnderWay, [Next]_vars, open', view' = "loading"
             PROVE  \/ \E k \in 1..Len(asked') : asked'[k] = "explicit"
                    \/ \E k \in 1..Len(answers') : answers'[k].kind = "explicit"
  BY DEF LoadIsUnderWay
<1>0. /\ asked \in Seq(Kinds) /\ answers \in Seq(Answer)
      /\ Len(asked) \in Nat /\ Len(answers) \in Nat
  BY Typed
<1>1. CASE UNCHANGED vars \/ RecordMoves
  BY <1>1 DEF vars, page, RecordMoves, LoadIsUnderWay
<1>2. CASE Open \/ Refresh
  <2>1. asked' = Append(asked, "explicit")
    BY <1>2 DEF Open, Refresh, Ask
  <2>2. Len(asked) + 1 \in 1..Len(asked') /\ asked'[Len(asked) + 1] = "explicit"
    BY <1>0, <2>1
  <2> QED
    BY <2>2
<1>3. CASE Tick
  <2>1. asked' = Append(asked, "silent") /\ UNCHANGED answers /\ open /\ view = "loading"
    BY <1>3 DEF Tick, Ask, page
  <2>2. \A k \in 1..Len(asked) : k \in 1..Len(asked') /\ asked'[k] = asked[k]
    BY <1>0, <2>1
  <2> QED
    BY <2>1, <2>2 DEF LoadIsUnderWay
<1>4. ASSUME NEW k, ReadRows(k)
      PROVE  \/ \E i \in 1..Len(asked') : asked'[i] = "explicit"
             \/ \E i \in 1..Len(answers') : answers'[i].kind = "explicit"
  <2> DEFINE new == [kind |-> asked[k], rows |-> Rows, late |-> FALSE]
  <2>1. /\ k \in 1..Len(asked) /\ asked' = RemoveAt(asked, k)
        /\ answers' = Append(answers, new) /\ open /\ view = "loading"
    BY <1>4 DEF ReadRows, page
  <2>2. /\ Len(answers) + 1 \in 1..Len(answers') /\ answers'[Len(answers) + 1] = new
        /\ \A j \in 1..Len(answers) : j \in 1..Len(answers') /\ answers'[j] = answers[j]
    <3> HIDE DEF new
    <3> QED
      BY <1>0, <2>1
  <2>3. CASE asked[k] = "explicit"
    BY <2>2, <2>3
  <2>4. ASSUME NEW j \in 1..Len(asked), asked[j] = "explicit", j # k
        PROVE  \E i \in 1..Len(asked') : asked'[i] = "explicit"
    BY <1>0, <2>1, <2>4, Stays
  <2> QED
    BY <2>1, <2>2, <2>3, <2>4 DEF LoadIsUnderWay
<1>5. ASSUME NEW k, Arrives(k)
      PROVE  FALSE
  BY <1>5 DEF Arrives
<1>6. CASE Fails
  <2>1. ASSUME NEW k \in 1..Len(asked), Fail(asked[k]), asked' = RemoveAt(asked, k),
               UNCHANGED answers, UNCHANGED open
        PROVE  \/ \E i \in 1..Len(asked') : asked'[i] = "explicit"
               \/ \E i \in 1..Len(answers') : answers'[i].kind = "explicit"
    <3>1. asked[k] # "explicit" /\ open /\ view = "loading"
      BY <2>1 DEF Fail
    <3>2. ASSUME NEW j \in 1..Len(asked), asked[j] = "explicit"
          PROVE  \E i \in 1..Len(asked') : asked'[i] = "explicit"
      BY <1>0, <2>1, <3>1, <3>2, Stays
    <3> QED
      BY <2>1, <3>1, <3>2 DEF LoadIsUnderWay
  <2>2. ASSUME NEW k \in 1..Len(answers), Fail(answers[k].kind), UNCHANGED asked,
               answers' = RemoveAt(answers, k), UNCHANGED open
        PROVE  \/ \E i \in 1..Len(asked') : asked'[i] = "explicit"
               \/ \E i \in 1..Len(answers') : answers'[i].kind = "explicit"
    <3>1. answers[k].kind # "explicit" /\ open /\ view = "loading"
      BY <2>2 DEF Fail
    <3>2. ASSUME NEW j \in 1..Len(answers), answers[j].kind = "explicit"
          PROVE  \E i \in 1..Len(answers') : answers'[i].kind = "explicit"
      BY <1>0, <2>2, <3>1, <3>2, Stays
    <3> QED
      BY <2>2, <3>1, <3>2 DEF LoadIsUnderWay
  <2> QED
    BY <1>6, <2>1, <2>2 DEF Fails
<1>7. CASE Back
  BY <1>7 DEF Back
<1> QED
  BY <1>1, <1>2, <1>3, <1>4, <1>5, <1>6, <1>7 DEF Next

\* A page that shows that it loads, and with it has disabled its buttons, is
\* waiting for an answer: no poll that fails or overtakes its load leaves it
\* without one (what LoadingEnds needs, beside fairness).
THEOREM LoadingIsAsked == Spec => []LoadIsUnderWay
<1>1. Init => LoadIsUnderWay
  BY DEF Init, LoadIsUnderWay
<1>2. HistoryInv => HistoryTypeOK
  BY DEF HistoryInv
<1> QED
  BY <1>1, <1>2, UnderWayStep, HistorySafe, PTL DEF Spec
=============================================================================
