--------------------------- MODULE AdminPageProofs ---------------------------
(***************************************************************************)
(* Proofs about AdminPage, for any users and bounds.                       *)
(***************************************************************************)
EXTENDS AdminPage, SequenceTheorems, TLAPS

Request ==
  [op : Changes \cup {"load"}, user : Users, overtaken : BOOLEAN, left : BOOLEAN,
   at : {"asked", "ok", "400", "401", "403"}, rows : Lists]

\* The place in a sequence of what is the i-th once the k-th is removed.
Place(i, k) == IF i < k THEN i ELSE i + 1

LEMMA Removed ==
  ASSUME NEW S, NEW s \in Seq(S), NEW k \in 1..Len(s)
  PROVE  /\ RemoveAt(s, k) \in Seq(S)
         /\ Len(RemoveAt(s, k)) = Len(s) - 1
         /\ \A i \in 1..(Len(s) - 1) :
              Place(i, k) \in 1..Len(s) /\ RemoveAt(s, k)[i] = s[Place(i, k)]
<1> DEFINE front == SubSeq(s, 1, k - 1)
           back == SubSeq(s, k + 1, Len(s))
<1>0. Len(s) \in Nat /\ k \in Nat /\ 1 <= k /\ k <= Len(s) /\ \A i \in 1..Len(s) : s[i] \in S
  OBVIOUS
<1>1. /\ front \in Seq(S) /\ Len(front) = k - 1
      /\ \A i \in 1..(k - 1) : front[i] = s[i]
  <2>1. /\ front \in Seq(S)
        /\ Len(front) = IF 1 <= k - 1 THEN (k - 1) - 1 + 1 ELSE 0
        /\ \A i \in 1..((k - 1) - 1 + 1) : front[i] = s[1 + i - 1]
    BY <1>0, SubSeqProperties
  <2> HIDE DEF front
  <2> QED
    BY <1>0, <2>1
<1>2. /\ back \in Seq(S) /\ Len(back) = Len(s) - k
      /\ \A i \in 1..(Len(s) - k) : back[i] = s[k + i]
  <2>1. /\ back \in Seq(S)
        /\ Len(back) = IF k + 1 <= Len(s) THEN Len(s) - (k + 1) + 1 ELSE 0
        /\ \A i \in 1..(Len(s) - (k + 1) + 1) : back[i] = s[(k + 1) + i - 1]
    BY <1>0, SubSeqProperties
  <2> HIDE DEF back
  <2> QED
    BY <1>0, <2>1
<1> HIDE DEF front, back
<1>3. /\ front \o back \in Seq(S) /\ Len(front \o back) = Len(front) + Len(back)
      /\ \A i \in 1..(Len(front) + Len(back)) :
           (front \o back)[i] = IF i <= Len(front) THEN front[i] ELSE back[i - Len(front)]
  BY <1>1, <1>2, ConcatProperties
<1>4. RemoveAt(s, k) = front \o back
  BY DEF RemoveAt, front, back
<1>5. ASSUME NEW i \in 1..(Len(s) - 1)
      PROVE  Place(i, k) \in 1..Len(s) /\ (front \o back)[i] = s[Place(i, k)]
  <2>1. CASE i < k
    BY <1>0, <1>1, <1>2, <1>3, <1>5, <2>1 DEF Place
  <2>2. CASE ~(i < k)
    <3>1. (front \o back)[i] = back[i - (k - 1)]
      BY <1>0, <1>1, <1>2, <1>3, <1>5, <2>2
    <3>2. i - (k - 1) \in 1..(Len(s) - k)
      BY <1>0, <1>5, <2>2
    <3>3. back[i - (k - 1)] = s[k + (i - (k - 1))] /\ k + (i - (k - 1)) = i + 1
      BY <1>0, <1>2, <3>2
    <3> QED
      BY <1>0, <1>5, <2>2, <3>1, <3>3 DEF Place
  <2> QED
    BY <2>1, <2>2
<1>6. Len(front \o back) = Len(s) - 1
  BY <1>0, <1>1, <1>2, <1>3
<1> QED
  BY <1>3, <1>4, <1>5, <1>6

\* And the other way round.
Spot(j, k) == IF j < k THEN j ELSE j - 1

-----------------------------------------------------------------------------
(* The parts of a state.                                                   *)

LEMMA Typed ==
  ASSUME AdminTypeOK
  PROVE  /\ rows \in [Users -> Row] /\ expired \in BOOLEAN /\ open \in BOOLEAN
         /\ warned \in BOOLEAN /\ elsewhere \in BOOLEAN /\ late \in BOOLEAN
         /\ requests \in Seq(Request) /\ Len(requests) \in Nat
         /\ \A k \in 1..Len(requests) : requests[k] \in Request
<1>1. requests \in Seq(Request)
  BY DEF AdminTypeOK, Request
<1>2. Len(requests) \in Nat /\ \A k \in 1..Len(requests) : requests[k] \in Request
  BY <1>1
<1> QED
  BY <1>1, <1>2 DEF AdminTypeOK

LEMMA AllTyped ==
  ASSUME AdminTypeOK,
         rows' \in [Users -> Row],
         expired' \in BOOLEAN, open' \in BOOLEAN, warned' \in BOOLEAN,
         elsewhere' \in BOOLEAN, late' \in BOOLEAN,
         view' \in {"loading", "loaded", "forbidden", "error"}, list' \in Lists,
         acting' \in Users \cup {Nobody},
         requests' \in Seq(Request), Len(requests') <= MaxInFlight,
         failures' \in 0..MaxFailures,
         open' /\ view' = "loaded" => list' # Unloaded
  PROVE  AdminTypeOK'
BY DEF AdminTypeOK, Request

\* The rows of a table are not what a page shows when nothing is loaded.
LEMMA TableLoaded ==
  ASSUME NEW table \in [Users -> Row]
  PROVE  table # Unloaded /\ table \in Lists
<1>1. Me \in DOMAIN table
  BY AdminPageAssumption
<1>2. DOMAIN Unloaded = {}
  BY DEF Unloaded
<1> QED
  BY <1>1, <1>2 DEF Lists

LEMMA DoTyped ==
  ASSUME NEW row \in Row, NEW op \in Changes
  PROVE  Do(row, op) \in Row
BY DEF Do, Row, Changes, Roles

LEMMA AskTyped ==
  ASSUME NEW op \in Changes \cup {"load"}, NEW user \in Users
  PROVE  /\ Ask(op, user) \in Request
         /\ Ask(op, user).op = op /\ Ask(op, user).user = user
         /\ Ask(op, user).at = "asked" /\ Ask(op, user).left = FALSE
BY DEF Ask, Request, Lists, Unloaded

\* The load that a page asks for once it was left.
LEMMA AskUnseenTyped ==
  ASSUME NEW at \in {"asked", "401"}
  PROVE  /\ AskUnseen(at) \in Request
         /\ AskUnseen(at).op = "load" /\ AskUnseen(at).left /\ AskUnseen(at).at = at
BY AdminPageAssumption DEF AskUnseen, Ask, Request, Lists, Unloaded

LEMMA Appended ==
  ASSUME NEW s \in Seq(Request), NEW r \in Request
  PROVE  /\ Append(s, r) \in Seq(Request) /\ Len(Append(s, r)) = Len(s) + 1
         /\ Append(s, r)[Len(s) + 1] = r
         /\ \A i \in 1..Len(s) : Append(s, r)[i] = s[i]
OBVIOUS

LEMMA OneMore ==
  ASSUME NEW n \in Nat
  PROVE  /\ n + 1 \in 1..(n + 1)
         /\ \A i \in 1..(n + 1) : i \in 1..n \/ i = n + 1
         /\ \A i \in 1..n : i \in 1..(n + 1) /\ n + 1 > i
OBVIOUS

\* What the k-th request leaves behind when it ends.
LEMMA WithoutTells ==
  ASSUME AdminTypeOK, NEW k \in 1..Len(requests)
  PROVE  /\ Without(k) \in Seq(Request) /\ Len(Without(k)) = Len(requests) - 1
         /\ \A i \in 1..(Len(requests) - 1) :
              /\ Place(i, k) \in 1..Len(requests) /\ Place(i, k) # k
              /\ Without(k)[i].op = requests[Place(i, k)].op
              /\ Without(k)[i].user = requests[Place(i, k)].user
              /\ Without(k)[i].at = requests[Place(i, k)].at
              /\ Without(k)[i].left = requests[Place(i, k)].left
              /\ Without(k)[i].rows = requests[Place(i, k)].rows
              /\ ~Without(k)[i].overtaken =>
                    /\ ~requests[Place(i, k)].overtaken
                    /\ ~(Place(i, k) < k /\ Overtakes(k))
         /\ \A j \in 1..Len(requests) :
              j # k => /\ Spot(j, k) \in 1..(Len(requests) - 1)
                       /\ Place(Spot(j, k), k) = j
                       /\ \A i \in 1..(Len(requests) - 1) :
                            j > Place(i, k) => Spot(j, k) > i
<1> DEFINE marked == [j \in 1..Len(requests) |->
                        [requests[j] EXCEPT !.overtaken = @ \/ (j < k /\ Overtakes(k))]]
<1>1. /\ Len(requests) \in Nat /\ k \in 1..Len(requests)
      /\ \A j \in 1..Len(requests) : requests[j] \in Request
  BY Typed
<1>2. /\ marked \in Seq(Request) /\ Len(marked) = Len(requests)
      /\ \A j \in 1..Len(requests) :
           marked[j] = [requests[j] EXCEPT !.overtaken = @ \/ (j < k /\ Overtakes(k))]
  <2>1. ASSUME NEW j \in 1..Len(requests)
        PROVE  [requests[j] EXCEPT !.overtaken = @ \/ (j < k /\ Overtakes(k))] \in Request
    <3>1. requests[j] \in Request
      BY <1>1
    <3> QED
      BY <3>1 DEF Request
  <2> QED
    BY <1>1, <2>1
<1>3. Without(k) = RemoveAt(marked, k)
  BY DEF Without
<1> HIDE DEF marked
<1>4. /\ RemoveAt(marked, k) \in Seq(Request) /\ Len(RemoveAt(marked, k)) = Len(requests) - 1
      /\ \A i \in 1..(Len(requests) - 1) :
           Place(i, k) \in 1..Len(requests) /\ RemoveAt(marked, k)[i] = marked[Place(i, k)]
  BY <1>1, <1>2, Removed
<1>5. ASSUME NEW i \in 1..(Len(requests) - 1)
      PROVE  Place(i, k) # k
  BY <1>1 DEF Place
<1>6. ASSUME NEW i \in 1..(Len(requests) - 1)
      PROVE  /\ Without(k)[i].op = requests[Place(i, k)].op
             /\ Without(k)[i].user = requests[Place(i, k)].user
             /\ Without(k)[i].at = requests[Place(i, k)].at
             /\ Without(k)[i].left = requests[Place(i, k)].left
             /\ Without(k)[i].rows = requests[Place(i, k)].rows
             /\ ~Without(k)[i].overtaken =>
                   /\ ~requests[Place(i, k)].overtaken
                   /\ ~(Place(i, k) < k /\ Overtakes(k))
  <2>1. PICK p \in 1..Len(requests) : p = Place(i, k)
    BY <1>4
  <2>2. Without(k)[i] = [requests[p] EXCEPT !.overtaken = @ \/ (p < k /\ Overtakes(k))]
    BY <1>2, <1>3, <1>4, <2>1
  <2>3. requests[p] \in Request
    BY <1>1
  <2> QED
    BY <2>1, <2>2, <2>3 DEF Request
<1>7. ASSUME NEW j \in 1..Len(requests), j # k
      PROVE  /\ Spot(j, k) \in 1..(Len(requests) - 1) /\ Place(Spot(j, k), k) = j
             /\ \A i \in 1..(Len(requests) - 1) : j > Place(i, k) => Spot(j, k) > i
  BY <1>1, <1>7 DEF Spot, Place
<1> QED
  BY <1>3, <1>4, <1>5, <1>6, <1>7

LEMMA RemovedTells ==
  ASSUME AdminTypeOK, NEW k \in 1..Len(requests)
  PROVE  /\ RemoveAt(requests, k) \in Seq(Request)
         /\ Len(RemoveAt(requests, k)) = Len(requests) - 1
         /\ \A i \in 1..(Len(requests) - 1) :
              /\ Place(i, k) \in 1..Len(requests)
              /\ RemoveAt(requests, k)[i] = requests[Place(i, k)]
         /\ \A j \in 1..Len(requests) :
              j # k => /\ Spot(j, k) \in 1..(Len(requests) - 1)
                       /\ Place(Spot(j, k), k) = j
                       /\ \A i \in 1..(Len(requests) - 1) :
                            j > Place(i, k) => Spot(j, k) > i
<1>1. Len(requests) \in Nat /\ requests \in Seq(Request)
  BY Typed
<1>2. ASSUME NEW j \in 1..Len(requests), j # k
      PROVE  /\ Spot(j, k) \in 1..(Len(requests) - 1) /\ Place(Spot(j, k), k) = j
             /\ \A i \in 1..(Len(requests) - 1) : j > Place(i, k) => Spot(j, k) > i
  BY <1>1, <1>2 DEF Spot, Place
<1> QED
  BY <1>1, <1>2, Removed

-----------------------------------------------------------------------------
(* Steps of the backend and of others.                                     *)

LEMMA Parts ==
  /\ AdminInv => AdminTypeOK /\ LockedMeanwhile /\ LeftBehind /\ AnswersTrue /\ ListTrue
  /\ AdminTypeOK' /\ LockedMeanwhile' /\ LeftBehind' /\ AnswersTrue' /\ ListTrue' => AdminInv'
BY DEF AdminInv

LEMMA InitInv == Init => AdminInv
<1> SUFFICES ASSUME Init PROVE AdminInv
  OBVIOUS
<1>1. requests = <<>> /\ requests \in Seq(Request) /\ Len(requests) = 0 /\ ~open
  BY DEF Init
<1>2. AdminTypeOK
  <2>1. rows \in [Users -> Row]
    BY DEF Init, Row, Roles
  <2>2. list \in Lists /\ 0 \in 0..MaxFailures /\ 0 <= MaxInFlight
    BY AdminPageBounds DEF Init, Lists
  <2> QED
    BY <1>1, <2>1, <2>2 DEF Init, AdminTypeOK, Request
<1> QED
  BY <1>1, <1>2 DEF AdminInv, LockedMeanwhile, LeftBehind, AnswersTrue, ListTrue

\* A change that is served is of a page that is open, and will be shown or warned
\* of; or it is counted as one from elsewhere.
LEMMA ServeInv ==
  ASSUME AdminInv, NEW k, Serve(k)
  PROVE  AdminInv'
<1>0. AdminTypeOK /\ LockedMeanwhile /\ LeftBehind /\ AnswersTrue /\ ListTrue
  BY Parts
<1>1. /\ UNCHANGED <<expired, open, view, list, acting, warned, late, failures>>
      /\ k \in 1..Len(requests) /\ requests[k].at = "asked"
      /\ elsewhere' = (elsewhere \/ (~open /\ rows' # rows))
  BY DEF Serve, page
<1>2. /\ requests \in Seq(Request) /\ Len(requests) \in Nat
      /\ \A i \in 1..Len(requests) : requests[i] \in Request
      /\ rows \in [Users -> Row] /\ elsewhere \in BOOLEAN
  BY <1>0, Typed
<1> DEFINE r == requests[k]
           answer == Refusal(r.op, r.user)
           read == IF r.op = "load" /\ answer = "ok" THEN rows ELSE <<>>
           served == [r EXCEPT !.at = answer, !.rows = read]
<1>3. /\ rows' = IF r.op \in Changes /\ answer = "ok"
                 THEN [rows EXCEPT ![r.user] = Do(@, r.op)] ELSE rows
      /\ requests' = [requests EXCEPT ![k] = served]
  BY DEF Serve
<1>4. answer \in {"ok", "400", "401", "403"}
  BY DEF Refusal
<1>5. read \in Lists /\ rows # Unloaded
  BY <1>2, TableLoaded DEF Lists, Unloaded
<1>6. /\ r \in Request /\ served \in Request
      /\ served.op = r.op /\ served.left = r.left /\ served.overtaken = r.overtaken
      /\ served.at = answer /\ served.rows = read
  <2>1. r \in Request
    BY <1>1, <1>2
  <2> HIDE DEF r, answer, read
  <2> QED
    BY <1>4, <1>5, <2>1 DEF Request
<1> HIDE DEF served
<1>7. /\ requests' \in Seq(Request) /\ Len(requests') = Len(requests)
      /\ requests'[k] = served
      /\ \A i \in 1..Len(requests) : i # k => requests'[i] = requests[i]
  BY <1>1, <1>2, <1>3, <1>6
<1>8. rows' \in [Users -> Row]
  <2>1. CASE r.op \in Changes
    <3>1. r.user \in Users /\ rows[r.user] \in Row
      BY <1>2, <1>6 DEF Request
    <3>2. Do(rows[r.user], r.op) \in Row
      BY <2>1, <3>1, DoTyped
    <3> HIDE DEF answer
    <3> QED
      BY <1>2, <1>3, <3>1, <3>2
  <2>2. CASE r.op \notin Changes
    BY <1>2, <1>3, <2>2
  <2> QED
    BY <2>1, <2>2
<1>9. AdminTypeOK'
  <2>1. elsewhere' \in BOOLEAN
    BY <1>1, <1>2
  <2> QED
    BY <1>0, <1>1, <1>7, <1>8, <2>1, AllTyped DEF AdminTypeOK
<1>10. \A i \in 1..Len(requests) :
         /\ requests'[i].op = requests[i].op /\ requests'[i].left = requests[i].left
         /\ requests'[i].overtaken = requests[i].overtaken
         /\ requests[i].at # "asked" => requests'[i] = requests[i]
         /\ requests'[i].at = "asked" => requests[i].at = "asked"
  BY <1>1, <1>4, <1>6, <1>7
<1>11. LockedMeanwhile'
  BY <1>0, <1>1, <1>7, <1>10 DEF LockedMeanwhile
<1>12. LeftBehind'
  BY <1>0, <1>1, <1>7, <1>10 DEF LeftBehind
\* If the users are changed, by a page that is open, the change is on its way.
<1>13. rows' = rows \/ elsewhere' \/ (r.op \in Changes /\ served.at = "ok" /\ ~r.left)
  <2> SUFFICES ASSUME rows' # rows, ~elsewhere'
               PROVE  r.op \in Changes /\ served.at = "ok" /\ ~r.left
    OBVIOUS
  <2>1. r.op \in Changes /\ answer = "ok"
    BY <1>3
  <2>2. open /\ ~elsewhere
    BY <1>1
  <2> QED
    BY <1>0, <1>1, <1>6, <2>1, <2>2 DEF LeftBehind
<1>14. AnswersTrue'
  <2> SUFFICES ASSUME NEW i \in 1..Len(requests'),
                      requests'[i].op = "load", requests'[i].at = "ok"
               PROVE  /\ requests'[i].rows # Unloaded
                      /\ ~requests'[i].left /\ ~elsewhere' /\ ~requests'[i].overtaken
                           => requests'[i].rows = rows' \/ Superseded(i)'
    BY DEF AnswersTrue
  <2>1. CASE i = k
    <3>1. requests'[i].rows = rows /\ r.op \notin Changes
      BY <1>6, <1>7, <2>1 DEF Changes, Roles
    <3> QED
      BY <1>3, <1>5, <3>1
  <2>2. CASE i # k
    <3>1. i \in 1..Len(requests) /\ requests'[i] = requests[i]
      BY <1>7, <2>2
    <3>2. requests[i].rows # Unloaded
      BY <1>0, <3>1 DEF AnswersTrue
    <3>3. ASSUME ~requests'[i].left, ~elsewhere', ~requests'[i].overtaken
          PROVE  requests'[i].rows = rows' \/ Superseded(i)'
      <4>1. requests[i].rows = rows \/ Superseded(i)
        BY <1>0, <1>1, <3>1, <3>3 DEF AnswersTrue
      <4>2. CASE rows' = rows
        <5>1. Superseded(i) => Superseded(i)'
          BY <1>1, <1>7, <1>10 DEF Superseded
        <5> QED
          BY <3>1, <4>1, <4>2, <5>1
      <4>3. CASE rows' # rows
        <5>1. Superseded(i)'
          BY <1>1, <1>6, <1>7, <1>13, <3>3, <4>3 DEF Superseded
        <5> QED
          BY <5>1
      <4> QED
        BY <4>2, <4>3
    <3> QED
      BY <3>1, <3>2, <3>3
  <2> QED
    BY <2>1, <2>2
<1>15. ListTrue'
  <2> SUFFICES ASSUME open', view' = "loaded", ~elsewhere', ~late'
               PROVE  list' = rows' \/ warned' \/ \E j \in 1..Len(requests') : ~requests'[j].left
    BY DEF ListTrue
  <2>1. list = rows \/ warned \/ \E j \in 1..Len(requests) : ~requests[j].left
    BY <1>0, <1>1 DEF ListTrue
  <2> QED
    BY <1>1, <1>6, <1>7, <1>10, <1>13, <2>1
<1> QED
  BY <1>9, <1>11, <1>12, <1>14, <1>15, Parts

LEMMA OthersInv ==
  ASSUME AdminInv, ChangeElsewhere \/ ExpireToken
  PROVE  AdminInv'
<1>0. AdminTypeOK /\ LockedMeanwhile /\ LeftBehind /\ AnswersTrue /\ ListTrue
  BY Parts
<1>1. /\ UNCHANGED <<open, view, list, acting, warned, requests, late, failures>>
      /\ expired' \in BOOLEAN /\ elsewhere' \in BOOLEAN
      /\ (rows' = rows /\ elsewhere' = elsewhere) \/ elsewhere'
  BY <1>0, Typed DEF ChangeElsewhere, ExpireToken, page
<1>2. rows' \in [Users -> Row]
  <2>1. CASE ExpireToken
    BY <1>0, <2>1, Typed DEF ExpireToken
  <2>2. CASE ChangeElsewhere
    <3>1. PICK u \in Users, op \in Changes : rows' = [rows EXCEPT ![u] = Do(@, op)]
      BY <2>2 DEF ChangeElsewhere
    <3>2. rows \in [Users -> Row] /\ rows[u] \in Row
      BY <1>0, Typed
    <3>3. Do(rows[u], op) \in Row
      BY <3>2, DoTyped
    <3> QED
      BY <3>1, <3>2, <3>3
  <2> QED
    BY <2>1, <2>2
<1>3. AdminTypeOK'
  BY <1>0, <1>1, <1>2 DEF AdminTypeOK
<1>4. LockedMeanwhile' /\ LeftBehind'
  BY <1>0, <1>1 DEF LockedMeanwhile, LeftBehind
<1>5. AnswersTrue' /\ ListTrue'
  BY <1>0, <1>1 DEF AnswersTrue, ListTrue, Superseded
<1> QED
  BY <1>3, <1>4, <1>5, Parts

-----------------------------------------------------------------------------
(* Steps of the page.                                                      *)

\* A page that is left: its requests become those of an earlier visit.
LEMMA LeaveInv ==
  ASSUME AdminInv, NEW pending, Leave(pending), UNCHANGED <<rows, expired>>,
         pending \in Seq(Request), Len(pending) <= MaxInFlight,
         \A i \in 1..Len(pending) :
           pending[i].op = "load" /\ pending[i].at = "ok" => pending[i].rows # Unloaded,
         failures' \in 0..MaxFailures
  PROVE  AdminInv'
<1>0. AdminTypeOK
  BY Parts
<1>1. /\ UNCHANGED <<rows, expired, view, list, acting, warned, elsewhere, late>> /\ open' = FALSE
      /\ requests' = [j \in 1..Len(pending) |-> [pending[j] EXCEPT !.left = TRUE]]
  BY DEF Leave
<1> DEFINE Abandoned(r) == [r EXCEPT !.left = TRUE]
<1>2. ASSUME NEW j \in 1..Len(pending)
      PROVE  /\ Abandoned(pending[j]) \in Request /\ Abandoned(pending[j]).left
             /\ Abandoned(pending[j]).rows = pending[j].rows
             /\ Abandoned(pending[j]).op = pending[j].op
             /\ Abandoned(pending[j]).at = pending[j].at
  <2>1. pending[j] \in Request
    OBVIOUS
  <2> QED
    BY <2>1 DEF Request
<1>3. requests' = [j \in 1..Len(pending) |-> Abandoned(pending[j])]
  BY <1>1
<1> HIDE DEF Abandoned
<1>4. /\ requests' \in Seq(Request) /\ Len(requests') = Len(pending) /\ Len(pending) \in Nat
      /\ \A j \in 1..Len(pending) :
           /\ requests'[j].left /\ requests'[j].rows = pending[j].rows
           /\ requests'[j].op = pending[j].op /\ requests'[j].at = pending[j].at
  BY <1>2, <1>3
<1>5. AdminTypeOK'
  BY <1>0, <1>1, <1>4, Typed, AllTyped DEF AdminTypeOK
<1>6. LockedMeanwhile' /\ LeftBehind' /\ AnswersTrue' /\ ListTrue'
  BY <1>1, <1>4 DEF LockedMeanwhile, LeftBehind, AnswersTrue, ListTrue
<1> QED
  BY <1>5, <1>6, Parts

LEMMA RoomToAsk ==
  ASSUME AdminTypeOK, Len(requests) < MaxInFlight
  PROVE  Len(requests) + 1 <= MaxInFlight
BY Typed, AdminPageBounds

\* A click, or a load: what is under way will be followed by what is asked.
LEMMA AskInv ==
  ASSUME AdminInv, Refresh \/ \E u \in Users, op \in Changes : Click(u, op)
  PROVE  AdminInv'
<1>0. AdminTypeOK /\ LockedMeanwhile /\ LeftBehind /\ AnswersTrue /\ ListTrue
  BY Parts
<1>1. PICK op \in Changes \cup {"load"}, u \in Users :
        /\ requests' = Append(requests, Ask(op, u))
        /\ acting' # acting => op \in Changes
        /\ acting' \in Users \cup {Nobody}
  <2>1. CASE Refresh
    BY <1>0, <2>1, AdminPageAssumption DEF Refresh, Reload, AdminTypeOK
  <2>2. CASE \E u \in Users, op \in Changes : Click(u, op)
    BY <1>0, <2>2 DEF Click, AdminTypeOK
  <2> QED
    BY <2>1, <2>2
<1>2. /\ UNCHANGED <<rows, expired, open, list, elsewhere, late, failures>>
      /\ open /\ warned' = FALSE /\ view' \in {view, "loading"} /\ Len(requests) < MaxInFlight
  BY DEF Refresh, Reload, Click
<1>3. /\ Len(requests) \in Nat /\ requests' \in Seq(Request)
      /\ Len(requests') = Len(requests) + 1
      /\ requests'[Len(requests) + 1] = Ask(op, u)
      /\ \A i \in 1..Len(requests) : requests'[i] = requests[i]
  <2>1. Ask(op, u) \in Request
    BY AskTyped
  <2> QED
    BY <1>0, <1>1, <2>1, Typed, Appended
<1>4. /\ Ask(op, u).op = op /\ Ask(op, u).at = "asked" /\ Ask(op, u).left = FALSE
      /\ Len(requests) + 1 \in 1..Len(requests')
      /\ \A i \in 1..Len(requests') : i \in 1..Len(requests) \/ i = Len(requests) + 1
      /\ \A i \in 1..Len(requests) : i \in 1..Len(requests') /\ Len(requests) + 1 > i
  <2>1. Ask(op, u).op = op /\ Ask(op, u).at = "asked" /\ Ask(op, u).left = FALSE
    BY AskTyped
  <2> QED
    BY <1>3, <2>1, OneMore
<1>5. AdminTypeOK'
  <2>1. view' \in {"loading", "loaded", "forbidden", "error"}
    BY <1>0, <1>2 DEF AdminTypeOK
  <2>2. Len(requests') <= MaxInFlight
    BY <1>0, <1>2, <1>3, RoomToAsk
  <2>3. open' /\ view' = "loaded" => list' # Unloaded
    BY <1>0, <1>2 DEF AdminTypeOK
  <2> QED
    BY <1>0, <1>1, <1>2, <1>3, <2>1, <2>2, <2>3, Typed, AllTyped DEF AdminTypeOK
<1>6. LockedMeanwhile'
  BY <1>0, <1>1, <1>2, <1>3, <1>4 DEF LockedMeanwhile
<1>7. LeftBehind'
  BY <1>0, <1>2, <1>3, <1>4 DEF LeftBehind
<1>8. \A i \in 1..Len(requests) : Superseded(i)'
  BY <1>3, <1>4 DEF Superseded
<1>9. AnswersTrue'
  BY <1>0, <1>2, <1>3, <1>4, <1>8 DEF AnswersTrue
<1>10. ListTrue'
  BY <1>3, <1>4 DEF ListTrue
<1> QED
  BY <1>5, <1>6, <1>7, <1>9, <1>10, Parts

\* All that is under way when a page is opened is of an earlier visit.
LEMMA OpenInv ==
  ASSUME AdminInv, Open
  PROVE  AdminInv'
<1>0. AdminTypeOK /\ LeftBehind /\ AnswersTrue
  BY Parts
<1> DEFINE Refused(r) == IF expired /\ r.at = "asked" THEN [r EXCEPT !.at = "401"] ELSE r
           earlier == [j \in 1..Len(requests) |-> Refused(requests[j])]
           ask == Ask("load", Me)
<1>1. /\ UNCHANGED <<rows, failures>> /\ ~open /\ open' = TRUE /\ expired' = FALSE
      /\ list' = Unloaded /\ acting' = Nobody /\ warned' = FALSE /\ view' = "loading"
      /\ late' = FALSE /\ Len(requests) < MaxInFlight
      /\ requests' = Append(earlier, ask)
      /\ elsewhere' = (~expired /\ \E j \in 1..Len(requests) :
                         requests[j].op \in Changes /\ requests[j].at = "asked")
  BY DEF Open, Reload
<1>2. /\ Len(requests) \in Nat /\ ask \in Request /\ ask.left = FALSE /\ ask.at = "asked"
      /\ \A j \in 1..Len(requests) : requests[j] \in Request
  BY <1>0, Typed, AskTyped, AdminPageAssumption
<1> HIDE DEF ask
<1>3. ASSUME NEW j \in 1..Len(requests)
      PROVE  LET r == Refused(requests[j]) IN
             /\ r \in Request
             /\ r.op = requests[j].op /\ r.left = requests[j].left /\ r.rows = requests[j].rows
             /\ r.at = "asked" => ~expired /\ requests[j].at = "asked"
             /\ r.at = "ok" => requests[j].at = "ok"
  <2>1. requests[j] \in Request
    BY <1>2
  <2> QED
    BY <2>1 DEF Request
<1>4. /\ earlier \in Seq(Request) /\ Len(earlier) = Len(requests)
      /\ \A j \in 1..Len(requests) : earlier[j] = Refused(requests[j])
  BY <1>2, <1>3
<1> HIDE DEF Refused, earlier
<1>5. /\ requests' \in Seq(Request) /\ Len(requests') = Len(requests) + 1
      /\ requests'[Len(requests) + 1] = ask
      /\ \A i \in 1..Len(requests') :
           \/ i = Len(requests) + 1
           \/ i \in 1..Len(requests) /\ requests'[i] = Refused(requests[i])
  BY <1>1, <1>2, <1>4, Appended
<1>6. AdminTypeOK'
  <2>1. Len(requests') <= MaxInFlight
    BY <1>0, <1>1, <1>5, RoomToAsk
  <2>2. Unloaded \in Lists
    BY DEF Lists
  <2> QED
    BY <1>0, <1>1, <1>5, <2>1, <2>2, Typed, AllTyped DEF AdminTypeOK
<1>7. LockedMeanwhile' /\ ListTrue'
  BY <1>1 DEF LockedMeanwhile, ListTrue
<1>8. LeftBehind'
  BY <1>1, <1>2, <1>3, <1>5 DEF LeftBehind
<1>9. AnswersTrue'
  <2>1. \A i \in 1..Len(requests) : requests[i].left
    BY <1>0, <1>1 DEF LeftBehind
  <2> QED
    BY <1>0, <1>1, <1>2, <1>3, <1>5, <2>1 DEF AnswersTrue
<1> QED
  BY <1>6, <1>7, <1>8, <1>9, Parts

\* A page that was left heeds no answer: what others it waits for it still does.
LEMMA UnheededInv ==
  ASSUME AdminInv, NEW k \in 1..Len(requests), requests[k].left, Unheeded(k),
         UNCHANGED <<rows, expired, failures>>
  PROVE  AdminInv'
<1>0. AdminTypeOK /\ LockedMeanwhile /\ LeftBehind /\ AnswersTrue /\ ListTrue
  BY Parts
<1> DEFINE n == Len(requests) - 1
           w == RemoveAt(requests, k)
<1>1. /\ UNCHANGED <<rows, expired, open, view, list, acting, warned, elsewhere, late, failures>>
      /\ \/ requests' = w
         \/ \E at \in {"asked", "401"} : requests' = Append(w, AskUnseen(at))
  BY DEF Unheeded, page
<1>2. /\ Len(requests) \in Nat /\ n \in Nat
      /\ w \in Seq(Request) /\ Len(w) = n
      /\ \A i \in 1..n : Place(i, k) \in 1..Len(requests) /\ w[i] = requests[Place(i, k)]
      /\ \A j \in 1..Len(requests) :
           j # k => /\ Spot(j, k) \in 1..n /\ Place(Spot(j, k), k) = j
                    /\ \A i \in 1..n : j > Place(i, k) => Spot(j, k) > i
  <2>1. Len(requests) \in Nat /\ Len(requests) >= 1
    BY <1>0, Typed
  <2>2. n \in Nat
    BY <2>1
  <2> QED
    BY <1>0, <2>1, <2>2, RemovedTells
<1> HIDE DEF n, w
\* What is asked for comes after all that stay.
<1>3. /\ requests' \in Seq(Request) /\ Len(requests') \in {n, n + 1}
      /\ \A i \in 1..n : i \in 1..Len(requests') /\ requests'[i] = w[i]
      /\ \A i \in 1..Len(requests') :
           \/ i \in 1..n
           \/ requests'[i].left /\ requests'[i].op = "load" /\ requests'[i].at # "ok"
  <2>1. CASE requests' = w
    BY <1>2, <2>1
  <2>2. ASSUME NEW at \in {"asked", "401"}, requests' = Append(w, AskUnseen(at))
        PROVE  /\ requests' \in Seq(Request) /\ Len(requests') = n + 1
               /\ \A i \in 1..n : i \in 1..Len(requests') /\ requests'[i] = w[i]
               /\ \A i \in 1..Len(requests') :
                    \/ i \in 1..n
                    \/ requests'[i].left /\ requests'[i].op = "load" /\ requests'[i].at # "ok"
    <3>1. /\ AskUnseen(at) \in Request /\ AskUnseen(at).left
          /\ AskUnseen(at).op = "load" /\ AskUnseen(at).at = at
      BY AskUnseenTyped
    <3>2. /\ requests' \in Seq(Request) /\ Len(requests') = n + 1
          /\ requests'[n + 1] = AskUnseen(at) /\ \A i \in 1..n : requests'[i] = w[i]
      BY <1>2, <2>2, <3>1, Appended
    <3> QED
      BY <1>2, <3>1, <3>2, OneMore
  <2> QED
    BY <1>1, <2>1, <2>2
<1>4. ASSUME NEW j \in 1..Len(requests), j # k
      PROVE  Spot(j, k) \in 1..Len(requests') /\ requests'[Spot(j, k)] = requests[j]
  BY <1>2, <1>3, <1>4
<1>5. AdminTypeOK'
  <2>1. Len(requests') <= MaxInFlight
    BY <1>0, <1>2, <1>3, AdminPageBounds DEF AdminTypeOK, n
  <2> QED
    BY <1>0, <1>1, <1>3, <2>1, Typed, AllTyped DEF AdminTypeOK
<1>6. LockedMeanwhile'
  BY <1>0, <1>1, <1>4 DEF LockedMeanwhile
<1>7. LeftBehind'
  <2>1. ASSUME NEW i \in 1..Len(requests')
        PROVE  /\ ~requests'[i].left => open'
               /\ requests'[i].left /\ requests'[i].op \in Changes /\ requests'[i].at = "asked"
                    => ~open' \/ elsewhere'
    <3>1. CASE i \in 1..n
      BY <1>0, <1>1, <1>2, <1>3, <3>1 DEF LeftBehind
    <3>2. CASE requests'[i].left /\ requests'[i].op = "load"
      BY <3>2 DEF Changes, Roles
    <3> QED
      BY <1>3, <3>1, <3>2
  <2> QED
    BY <2>1 DEF LeftBehind
<1>8. ASSUME NEW i \in 1..n, Superseded(Place(i, k))
      PROVE  Superseded(i)'
  <2>1. CASE warned
    BY <1>1, <2>1 DEF Superseded
  <2>2. CASE ~warned
    <3>1. PICK j \in 1..Len(requests) :
            /\ ~requests[j].left
            /\ j > Place(i, k) \/ (requests[j].op \in Changes /\ requests[j].at = "ok")
      BY <1>8, <2>2 DEF Superseded
    <3>2. /\ Spot(j, k) \in 1..Len(requests') /\ requests'[Spot(j, k)] = requests[j]
          /\ j > Place(i, k) => Spot(j, k) > i
      BY <1>2, <1>4, <3>1
    <3> QED
      BY <3>1, <3>2 DEF Superseded
  <2> QED
    BY <2>1, <2>2
<1>9. AnswersTrue'
  <2>1. ASSUME NEW i \in 1..Len(requests'),
               requests'[i].op = "load", requests'[i].at = "ok"
        PROVE  /\ requests'[i].rows # Unloaded
               /\ ~requests'[i].left /\ ~elsewhere' /\ ~requests'[i].overtaken
                    => requests'[i].rows = rows' \/ Superseded(i)'
    <3>1. i \in 1..n /\ Place(i, k) \in 1..Len(requests) /\ requests'[i] = requests[Place(i, k)]
      BY <1>2, <1>3, <2>1
    <3>2. /\ requests'[i].rows # Unloaded
          /\ ~requests'[i].left /\ ~elsewhere /\ ~requests'[i].overtaken
               => requests'[i].rows = rows \/ Superseded(Place(i, k))
      BY <1>0, <2>1, <3>1 DEF AnswersTrue
    <3> QED
      BY <1>1, <1>8, <3>1, <3>2
  <2> QED
    BY <2>1 DEF AnswersTrue
<1>10. ListTrue'
  BY <1>0, <1>1, <1>4 DEF ListTrue
<1> QED
  BY <1>5, <1>6, <1>7, <1>9, <1>10, Parts

\* What follows from the parts of a state when the k-th request has ended, and a
\* load was perhaps asked for: an answer that was to be replaced still is.
LEMMA EndInv ==
  ASSUME AdminInv, NEW k \in 1..Len(requests), ~requests[k].left,
         requests' = Without(k) \/ requests' = Append(Without(k), Ask("load", Me)),
         UNCHANGED <<rows, expired, open, elsewhere>>,
         failures' \in 0..MaxFailures,
         warned' \in BOOLEAN, late' \in BOOLEAN,
         view' \in {"loading", "loaded", "forbidden", "error"}, list' \in Lists,
         acting' \in {acting, Nobody},
         open /\ view' = "loaded" => list' # Unloaded,
         requests[k].op \in Changes => acting' = Nobody,
         \/ warned' = warned /\ Overtakes(k)
         \/ requests' = Append(Without(k), Ask("load", Me))
         \/ warned' = TRUE,
         \/ view' \in {"loading", "forbidden", "error"} \/ warned'
         \/ /\ list' = requests[k].rows /\ late' = requests[k].overtaken /\ UNCHANGED warned
            /\ requests[k].op = "load" /\ requests[k].at = "ok"
  PROVE  AdminInv'
<1>0. AdminTypeOK /\ LockedMeanwhile /\ LeftBehind /\ AnswersTrue /\ ListTrue /\ open
  BY Parts DEF LeftBehind
<1> DEFINE n == Len(requests) - 1
           w == Without(k)
<1>1. /\ Len(requests) \in Nat /\ n \in Nat
      /\ rows \in [Users -> Row] /\ expired \in BOOLEAN /\ elsewhere \in BOOLEAN
  BY <1>0, Typed
<1>2. /\ Ask("load", Me) \in Request /\ Ask("load", Me).left = FALSE
      /\ Ask("load", Me).at = "asked"
  BY AskTyped, AdminPageAssumption
<1>3. w \in Seq(Request) /\ Len(w) = n
  BY <1>0, WithoutTells
<1>4. /\ requests' \in Seq(Request) /\ Len(requests') \in {n, n + 1}
      /\ \A i \in 1..n : i \in 1..Len(requests') /\ requests'[i] = w[i]
      /\ \A i \in 1..Len(requests') :
           \/ i \in 1..n
           \/ i = n + 1 /\ requests'[i] = Ask("load", Me)
      /\ requests' = Append(w, Ask("load", Me)) =>
           /\ n + 1 \in 1..Len(requests') /\ ~requests'[n + 1].left
           /\ \A i \in 1..n : n + 1 > i
  <2> HIDE DEF w, n
  <2>1. CASE requests' = Append(w, Ask("load", Me))
    <3>1. /\ requests' \in Seq(Request) /\ Len(requests') = n + 1
          /\ requests'[n + 1] = Ask("load", Me) /\ \A i \in 1..n : requests'[i] = w[i]
      BY <1>2, <1>3, <2>1, Appended
    <3> QED
      BY <1>1, <1>2, <3>1, OneMore
  <2>2. CASE requests' = w /\ requests' # Append(w, Ask("load", Me))
    BY <1>1, <1>3, <2>2
  <2> QED
    BY <2>1, <2>2 DEF w
\* Where those that stay were, and where they are.
<1>5. ASSUME NEW i \in 1..n
      PROVE  /\ i \in 1..Len(requests') /\ Place(i, k) \in 1..Len(requests)
             /\ requests'[i].op = requests[Place(i, k)].op
             /\ requests'[i].at = requests[Place(i, k)].at
             /\ requests'[i].left = requests[Place(i, k)].left
             /\ requests'[i].rows = requests[Place(i, k)].rows
             /\ ~requests'[i].overtaken =>
                   ~requests[Place(i, k)].overtaken /\ ~(Place(i, k) < k /\ Overtakes(k))
  <2>1. i \in 1..Len(requests') /\ requests'[i] = w[i]
    BY <1>4
  <2>2. /\ Place(i, k) \in 1..Len(requests)
        /\ w[i].op = requests[Place(i, k)].op /\ w[i].at = requests[Place(i, k)].at
        /\ w[i].left = requests[Place(i, k)].left /\ w[i].rows = requests[Place(i, k)].rows
        /\ ~w[i].overtaken =>
              ~requests[Place(i, k)].overtaken /\ ~(Place(i, k) < k /\ Overtakes(k))
    BY <1>0, WithoutTells
  <2> HIDE DEF w
  <2> QED
    BY <2>1, <2>2
<1>6. ASSUME NEW j \in 1..Len(requests), j # k
      PROVE  /\ Spot(j, k) \in 1..Len(requests')
             /\ requests'[Spot(j, k)].op = requests[j].op
             /\ requests'[Spot(j, k)].at = requests[j].at
             /\ requests'[Spot(j, k)].left = requests[j].left
             /\ \A i \in 1..n : j > Place(i, k) => Spot(j, k) > i
  <2>1. /\ Spot(j, k) \in 1..n /\ Place(Spot(j, k), k) = j
        /\ \A i \in 1..n : j > Place(i, k) => Spot(j, k) > i
    BY <1>0, <1>6, WithoutTells
  <2> QED
    BY <1>5, <2>1
<1>7. AdminTypeOK'
  <2>1. Len(requests') <= MaxInFlight
    BY <1>0, <1>1, <1>4, AdminPageBounds DEF AdminTypeOK
  <2>2. acting' \in Users \cup {Nobody}
    BY <1>0 DEF AdminTypeOK
  <2> QED
    BY <1>0, <1>1, <1>4, <2>1, <2>2, AllTyped
<1> HIDE DEF w, n
<1>8. LockedMeanwhile'
  <2> SUFFICES ASSUME acting' # Nobody
               PROVE  \E j \in 1..Len(requests') : requests'[j].op \in Changes /\ ~requests'[j].left
    BY DEF LockedMeanwhile
  <2>1. PICK j \in 1..Len(requests) : requests[j].op \in Changes /\ ~requests[j].left
    BY <1>0 DEF LockedMeanwhile
  <2>2. j # k
    BY <2>1
  <2> QED
    BY <1>6, <2>1, <2>2
<1>9. LeftBehind'
  <2>1. ASSUME NEW i \in 1..Len(requests')
        PROVE  /\ ~requests'[i].left => open'
               /\ requests'[i].left /\ requests'[i].op \in Changes /\ requests'[i].at = "asked"
                    => ~open' \/ elsewhere'
    <3>1. CASE i \in 1..n
      BY <1>0, <1>5, <3>1 DEF LeftBehind
    <3>2. CASE i = n + 1 /\ requests'[i] = Ask("load", Me)
      BY <1>0, <1>2, <3>2
    <3> QED
      BY <1>4, <3>1, <3>2
  <2> QED
    BY <2>1 DEF LeftBehind
<1>10. AnswersTrue'
  <2> SUFFICES ASSUME NEW i \in 1..Len(requests'),
                      requests'[i].op = "load", requests'[i].at = "ok"
               PROVE  /\ requests'[i].rows # Unloaded
                      /\ ~requests'[i].left /\ ~elsewhere' /\ ~requests'[i].overtaken
                           => requests'[i].rows = rows' \/ Superseded(i)'
    BY DEF AnswersTrue
  <2>1. i \in 1..n
    BY <1>2, <1>4
  <2> DEFINE p == Place(i, k)
  <2>2. /\ p \in 1..Len(requests) /\ requests[p].op = "load" /\ requests[p].at = "ok"
        /\ requests'[i].left = requests[p].left /\ requests'[i].rows = requests[p].rows
        /\ ~requests'[i].overtaken => ~requests[p].overtaken /\ ~(p < k /\ Overtakes(k))
    BY <1>5, <2>1
  <2>3. /\ requests[p].rows # Unloaded
        /\ ~requests[p].left /\ ~elsewhere /\ ~requests[p].overtaken
             => requests[p].rows = rows \/ Superseded(p)
    BY <1>0, <2>2 DEF AnswersTrue
  <2>4. ASSUME ~requests'[i].left, ~elsewhere', ~requests'[i].overtaken,
               requests'[i].rows # rows'
        PROVE  Superseded(i)'
    <3>1. CASE warned'
      BY <3>1 DEF Superseded
    <3>2. CASE requests' = Append(w, Ask("load", Me))
      BY <1>4, <2>1, <3>2 DEF Superseded
    <3>3. CASE warned' = warned /\ ~warned' /\ Overtakes(k)
      <4>1. ~(p < k) /\ Superseded(p)
        BY <2>2, <2>3, <2>4, <3>3
      <4>2. PICK j \in 1..Len(requests) :
              /\ ~requests[j].left
              /\ j > p \/ (requests[j].op \in Changes /\ requests[j].at = "ok")
        BY <3>3, <4>1 DEF Superseded
      <4>3. j # k
        <5>1. requests[k].op \in Changes /\ requests[k].at = "ok" => ~Overtakes(k)
          BY DEF Overtakes, Changes, Roles
        <5>2. p \in Nat /\ k \in Nat /\ (k > p => p < k)
          BY <2>2
        <5> QED
          BY <3>3, <4>1, <4>2, <5>1, <5>2
      <4> QED
        BY <1>6, <2>1, <4>2, <4>3 DEF Superseded
    <3> QED
      BY <3>1, <3>2, <3>3 DEF w
  <2> QED
    BY <2>2, <2>3, <2>4
<1>11. ListTrue'
  <2> SUFFICES ASSUME view' = "loaded", ~elsewhere', ~late', list' # rows', ~warned'
               PROVE  \E j \in 1..Len(requests') : ~requests'[j].left
    BY DEF ListTrue
  <2>1. /\ list' = requests[k].rows /\ late' = requests[k].overtaken /\ ~warned
        /\ requests[k].op = "load" /\ requests[k].at = "ok"
    OBVIOUS
  <2>2. Superseded(k)
    BY <1>0, <2>1 DEF AnswersTrue
  <2>3. PICK j \in 1..Len(requests) :
          /\ ~requests[j].left
          /\ j > k \/ (requests[j].op \in Changes /\ requests[j].at = "ok")
    BY <2>1, <2>2 DEF Superseded
  <2>4. j # k
    BY <1>1, <2>1, <2>3 DEF Changes, Roles
  <2> QED
    BY <1>6, <2>3, <2>4
<1> QED
  BY <1>7, <1>8, <1>9, <1>10, <1>11, Parts

\* Each way a request of the page ends: loaded, changed, forbidden, failed.
LEMMA EndedInv ==
  ASSUME AdminInv, NEW k \in 1..Len(requests), ~requests[k].left,
         \/ Loaded(k) /\ requests[k].op = "load" /\ requests[k].at = "ok"
         \/ Changed(k) /\ requests[k].op # "load"
         \/ Forbidden(k) /\ requests[k].at = "403"
         \/ Failed(k),
         UNCHANGED <<rows, expired>>,
         failures' \in 0..MaxFailures
  PROVE  AdminInv'
<1>0. AdminTypeOK /\ AnswersTrue
  BY Parts
<1>1. /\ requests[k] \in Request /\ requests[k].op \in Changes \cup {"load"}
      /\ requests[k].op = "load" <=> requests[k].op \notin Changes
      /\ requests[k].user \in Users /\ requests[k].rows \in Lists
      /\ warned \in BOOLEAN /\ late \in BOOLEAN /\ requests[k].overtaken \in BOOLEAN
      /\ view \in {"loading", "loaded", "forbidden", "error"} /\ list \in Lists
      /\ open /\ view = "loaded" => list # Unloaded
  <2>1. requests[k] \in Request
    BY <1>0, Typed
  <2> QED
    BY <1>0, <2>1, Typed DEF AdminTypeOK, Request, Changes, Roles
<1>2. Unloaded \in Lists
  BY DEF Lists
<1>3. CASE Loaded(k) /\ requests[k].op = "load" /\ requests[k].at = "ok"
  <2>1. requests[k].rows # Unloaded
    BY <1>0, <1>3 DEF AnswersTrue
  <2> QED
    BY <1>1, <1>3, <2>1, EndInv DEF Loaded, Overtakes
<1>4. CASE Changed(k) /\ requests[k].op # "load"
  <2>1. list' \in Lists
    <3>1. CASE list = Unloaded
      BY <1>2, <1>4, <3>1 DEF Changed, MergeUserUpdate
    <3>2. CASE list # Unloaded
      <4>1. list \in [Users -> Row] /\ list[requests[k].user] \in Row
        BY <1>1, <3>2 DEF Lists
      <4>2. Do(list[requests[k].user], requests[k].op) \in Row
        BY <1>1, <1>4, <4>1, DoTyped
      <4>3. list' = [list EXCEPT ![requests[k].user] = Do(@, requests[k].op)]
        BY <1>4, <3>2 DEF Changed, MergeUserUpdate
      <4> QED
        BY <1>1, <4>1, <4>2, <4>3 DEF Lists
    <3> QED
      BY <3>1, <3>2
  <2> QED
    BY <1>1, <1>4, <2>1, EndInv DEF Changed, Reload
<1>5. CASE Forbidden(k) /\ requests[k].at = "403"
  BY <1>1, <1>2, <1>5, EndInv DEF Forbidden, Overtakes
<1>6. CASE Failed(k)
  <2>1. CASE requests[k].op = "load"
    BY <1>1, <1>2, <1>6, <2>1, EndInv DEF Failed, Overtakes
  <2>2. CASE requests[k].op # "load"
    BY <1>1, <1>6, <2>2, EndInv DEF Failed
  <2> QED
    BY <2>1, <2>2
<1> QED
  BY <1>3, <1>4, <1>5, <1>6

LEMMA DeniedInv ==
  ASSUME AdminInv, NEW k \in 1..Len(requests), Denied(k), UNCHANGED <<rows, expired>>,
         failures' \in 0..MaxFailures
  PROVE  AdminInv'
<1>0. AdminTypeOK /\ AnswersTrue /\ Len(requests) \in Nat /\ Len(requests) <= MaxInFlight
  BY Parts, Typed DEF AdminTypeOK
<1>1. /\ RemoveAt(requests, k) \in Seq(Request)
      /\ Len(RemoveAt(requests, k)) = Len(requests) - 1
      /\ \A i \in 1..(Len(requests) - 1) :
           /\ Place(i, k) \in 1..Len(requests)
           /\ RemoveAt(requests, k)[i] = requests[Place(i, k)]
  BY <1>0, RemovedTells
<1>2. /\ Leave(RemoveAt(requests, k))
      /\ \A i \in 1..Len(RemoveAt(requests, k)) :
           RemoveAt(requests, k)[i].op = "load" /\ RemoveAt(requests, k)[i].at = "ok"
             => RemoveAt(requests, k)[i].rows # Unloaded
  BY <1>0, <1>1 DEF Denied, AnswersTrue
<1>3. Len(RemoveAt(requests, k)) <= MaxInFlight
  BY <1>0, <1>1, AdminPageBounds
<1> QED
  BY <1>1, <1>2, <1>3, LeaveInv

LEMMA BackInv ==
  ASSUME AdminInv, Back
  PROVE  AdminInv'
<1>0. AdminTypeOK /\ AnswersTrue
  BY Parts
<1>1. requests \in Seq(Request) /\ Len(requests) <= MaxInFlight /\ failures \in 0..MaxFailures
  BY <1>0, Typed DEF AdminTypeOK
<1> QED
  BY <1>0, <1>1, LeaveInv DEF Back, AnswersTrue

-----------------------------------------------------------------------------
(* The theorems.                                                           *)

LEMMA StepInv == AdminInv /\ [Next]_vars => AdminInv'
<1> SUFFICES ASSUME AdminInv, [Next]_vars PROVE AdminInv'
  OBVIOUS
<1>0. failures \in 0..MaxFailures /\ (failures < MaxFailures => failures + 1 \in 0..MaxFailures)
  BY Parts, AdminPageBounds DEF AdminTypeOK
<1>1. ASSUME NEW k, Answered(k)
      PROVE  AdminInv'
  <2>1. /\ k \in 1..Len(requests) /\ UNCHANGED <<rows, expired, failures>>
        /\ failures' \in 0..MaxFailures
    BY <1>0, <1>1 DEF Answered
  <2>2. \/ /\ ~requests[k].left
           /\ \/ Loaded(k) /\ requests[k].op = "load" /\ requests[k].at = "ok"
              \/ Changed(k) /\ requests[k].op # "load"
              \/ Forbidden(k) /\ requests[k].at = "403"
              \/ Failed(k)
        \/ requests[k].left /\ Unheeded(k)
        \/ Denied(k)
    BY <1>1 DEF Answered
  <2> QED
    BY <2>1, <2>2, EndedInv, UnheededInv, DeniedInv
<1>2. ASSUME NEW k, NotAnswered(k)
      PROVE  AdminInv'
  <2>1. /\ k \in 1..Len(requests) /\ UNCHANGED <<rows, expired>>
        /\ failures' \in 0..MaxFailures
        /\ (~requests[k].left /\ Failed(k)) \/ Denied(k)
    BY <1>0, <1>2 DEF NotAnswered
  <2> QED
    BY <2>1, EndedInv, DeniedInv
<1>3. CASE UNCHANGED vars
  BY <1>3 DEF vars, page, AdminInv, AdminTypeOK, LockedMeanwhile, LeftBehind, AnswersTrue,
              Superseded, ListTrue
<1> QED
  BY <1>1, <1>2, <1>3, ServeInv, OthersInv, OpenInv, AskInv, BackInv DEF Next

\* AdminInv: no row of an open page stays locked without a change under way, of
\* what a page left behind nothing takes effect on a later visit uncounted, and
\* an old answer is only on its way where something newer will follow it, in
\* whatever order the handlers of adminService.js serve and answer.
THEOREM AdminSafe == Spec => []AdminInv
<1>1. Init => AdminInv
  BY InitInv
<1>2. AdminInv /\ [Next]_vars => AdminInv'
  BY StepInv
<1> QED
  BY <1>1, <1>2, PTL DEF Spec

\* ShowsWhatItDid: Admin.jsx reloads after each change, and so shows the users as
\* they are once nothing is under way, unless it warns, was overtaken, or others
\* changed them.
THEOREM AdminShowsWhatItDid == Spec => []ShowsWhatItDid
<1>1. AdminInv => ShowsWhatItDid
  <2> SUFFICES ASSUME AdminInv, AtRest, ~warned, ~elsewhere, ~late
               PROVE  list = rows
    BY DEF ShowsWhatItDid
  <2>1. Len(requests) = 0
    BY DEF AtRest
  <2> QED
    BY <2>1, Parts DEF AtRest, ListTrue
<1> QED
  BY <1>1, AdminSafe, PTL

\* A page that is loading waits for a load of its own.
LoadIsUnderWay ==
  open /\ view = "loading" =>
    \E k \in 1..Len(requests) : requests[k].op = "load" /\ ~requests[k].left

\* The load that Reload asks for.
LEMMA Reloaded ==
  ASSUME NEW s \in Seq(Request), Reload(s)
  PROVE  \E i \in 1..Len(requests') : requests'[i].op = "load" /\ ~requests'[i].left
<1>1. /\ Ask("load", Me) \in Request /\ Ask("load", Me).op = "load"
      /\ Ask("load", Me).left = FALSE
  BY AskTyped, AdminPageAssumption
<1>2. requests' = Append(s, Ask("load", Me))
  BY DEF Reload
<1>3. /\ Len(requests') = Len(s) + 1 /\ Len(s) \in Nat
      /\ requests'[Len(s) + 1] = Ask("load", Me)
  BY <1>1, <1>2, Appended
<1> QED
  BY <1>1, <1>3

LEMMA UnderWayStep == AdminTypeOK /\ LoadIsUnderWay /\ [Next]_vars => LoadIsUnderWay'
<1> SUFFICES ASSUME AdminTypeOK, LoadIsUnderWay, [Next]_vars, open', view' = "loading"
             PROVE  \E k \in 1..Len(requests') : requests'[k].op = "load" /\ ~requests'[k].left
  BY DEF LoadIsUnderWay
<1>0. requests \in Seq(Request) /\ Len(requests) \in Nat
      /\ \A k \in 1..Len(requests) : requests[k] \in Request
  BY Typed
<1>1. CASE UNCHANGED vars \/ ChangeElsewhere \/ ExpireToken
  BY <1>1 DEF vars, page, ChangeElsewhere, ExpireToken, LoadIsUnderWay
<1>2. CASE Open
  <2> DEFINE s == [j \in 1..Len(requests) |->
                     IF expired /\ requests[j].at = "asked"
                     THEN [requests[j] EXCEPT !.at = "401"] ELSE requests[j]]
  <2>1. s \in Seq(Request)
    <3>1. \A r \in Request : [r EXCEPT !.at = "401"] \in Request
      BY DEF Request
    <3> QED
      BY <1>0, <3>1
  <2>2. Reload(s)
    BY <1>2 DEF Open
  <2> HIDE DEF s
  <2> QED
    BY <2>1, <2>2, Reloaded
<1>3. CASE Refresh
  BY <1>0, <1>3, Reloaded DEF Refresh
<1>4. CASE Back
  BY <1>4 DEF Back, Leave
<1>5. ASSUME NEW u \in Users, NEW op \in Changes, Click(u, op)
      PROVE  FALSE
  BY <1>5 DEF Click
<1>6. ASSUME NEW k, Serve(k)
      PROVE  \E i \in 1..Len(requests') : requests'[i].op = "load" /\ ~requests'[i].left
  <2>1. open /\ view = "loading" /\ Len(requests') = Len(requests)
    BY <1>0, <1>6 DEF Serve, page
  <2>2. ASSUME NEW i \in 1..Len(requests)
        PROVE  requests'[i].op = requests[i].op /\ requests'[i].left = requests[i].left
    BY <1>0, <1>6, <2>2 DEF Serve, Request
  <2> QED
    BY <2>1, <2>2 DEF LoadIsUnderWay
\* The load that the page waits for stays, if what ended is another request.
<1>7. ASSUME NEW k \in 1..Len(requests), requests' = Without(k) \/ requests' = RemoveAt(requests, k),
             requests[k].op # "load" \/ requests[k].left, open, view = "loading"
      PROVE  \E i \in 1..Len(requests') : requests'[i].op = "load" /\ ~requests'[i].left
  <2>1. PICK j \in 1..Len(requests) : requests[j].op = "load" /\ ~requests[j].left
    BY <1>7 DEF LoadIsUnderWay
  <2>2. j # k
    BY <1>7, <2>1
  <2>3. CASE requests' = Without(k)
    <3>1. PICK i \in 1..(Len(requests) - 1) : Place(i, k) = j
      BY <2>2, WithoutTells
    <3>2. /\ i \in 1..Len(Without(k)) /\ Without(k)[i].op = requests[Place(i, k)].op
          /\ Without(k)[i].left = requests[Place(i, k)].left
      BY WithoutTells
    <3> QED
      BY <2>1, <2>3, <3>1, <3>2
  <2>4. CASE requests' = RemoveAt(requests, k)
    <3>1. /\ Spot(j, k) \in 1..Len(RemoveAt(requests, k))
          /\ RemoveAt(requests, k)[Spot(j, k)] = requests[j]
      BY <2>2, RemovedTells
    <3> QED
      BY <2>1, <2>4, <3>1
  <2> QED
    BY <1>7, <2>3, <2>4
<1>8. ASSUME NEW k \in 1..Len(requests), Loaded(k) \/ Forbidden(k) \/ Denied(k)
      PROVE  FALSE
  BY <1>8 DEF Loaded, Forbidden, Denied, Leave
<1>9. ASSUME NEW k \in 1..Len(requests), Changed(k)
      PROVE  \E i \in 1..Len(requests') : requests'[i].op = "load" /\ ~requests'[i].left
  <2>1. Without(k) \in Seq(Request)
    BY WithoutTells
  <2> QED
    BY <1>9, <2>1, Reloaded DEF Changed
<1>10. ASSUME NEW k \in 1..Len(requests), Failed(k)
       PROVE  \E i \in 1..Len(requests') : requests'[i].op = "load" /\ ~requests'[i].left
  <2>1. /\ requests[k].op # "load" /\ open /\ view = "loading" /\ requests' = Without(k)
    BY <1>10 DEF Failed
  <2> QED
    BY <1>7, <2>1
<1>11. ASSUME NEW k \in 1..Len(requests), requests[k].left, Unheeded(k)
       PROVE  \E i \in 1..Len(requests') : requests'[i].op = "load" /\ ~requests'[i].left
  <2>1. open /\ view = "loading"
    BY <1>11 DEF Unheeded, page
  <2>2. CASE requests' = RemoveAt(requests, k)
    BY <1>7, <1>11, <2>1, <2>2
  <2>3. ASSUME NEW at \in {"asked", "401"},
               requests' = Append(RemoveAt(requests, k), AskUnseen(at))
        PROVE  \E i \in 1..Len(requests') : requests'[i].op = "load" /\ ~requests'[i].left
    <3>1. PICK j \in 1..Len(requests) : requests[j].op = "load" /\ ~requests[j].left
      BY <2>1 DEF LoadIsUnderWay
    <3>2. /\ Spot(j, k) \in 1..Len(RemoveAt(requests, k))
          /\ RemoveAt(requests, k)[Spot(j, k)] = requests[j]
          /\ RemoveAt(requests, k) \in Seq(Request)
      BY <1>11, <3>1, RemovedTells
    <3>3. /\ Len(requests') = Len(RemoveAt(requests, k)) + 1
          /\ requests'[Spot(j, k)] = RemoveAt(requests, k)[Spot(j, k)]
      BY <2>3, <3>2, AskUnseenTyped, Appended
    <3>4. Spot(j, k) \in 1..Len(requests')
      BY <3>2, <3>3
    <3> QED
      BY <3>1, <3>2, <3>3, <3>4
  <2> QED
    BY <1>11, <2>2, <2>3 DEF Unheeded
<1>12. ASSUME NEW k, Answered(k)
       PROVE  \E i \in 1..Len(requests') : requests'[i].op = "load" /\ ~requests'[i].left
  <2>1. k \in 1..Len(requests)
        /\ \/ Loaded(k) \/ Changed(k) \/ Forbidden(k) \/ Failed(k) \/ Denied(k)
           \/ requests[k].left /\ Unheeded(k)
    BY <1>12 DEF Answered
  <2> QED
    BY <1>8, <1>9, <1>10, <1>11, <2>1
<1>13. ASSUME NEW k, NotAnswered(k)
       PROVE  \E i \in 1..Len(requests') : requests'[i].op = "load" /\ ~requests'[i].left
  BY <1>8, <1>10, <1>13 DEF NotAnswered
<1> QED
  BY <1>1, <1>2, <1>3, <1>4, <1>5, <1>6, <1>12, <1>13 DEF Next

\* A page that shows that it loads is waiting for a load of its own visit,
\* whatever changes are made, refused or lost meanwhile, and whatever an earlier
\* visit left behind (what LoadingEnds needs, beside fairness).
THEOREM LoadingIsAsked == Spec => []LoadIsUnderWay
<1>1. Init => LoadIsUnderWay
  BY DEF Init, LoadIsUnderWay
<1>2. AdminInv => AdminTypeOK
  BY Parts
<1> QED
  BY <1>1, <1>2, UnderWayStep, AdminSafe, PTL DEF Spec
=============================================================================
