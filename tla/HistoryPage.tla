----------------------------- MODULE HistoryPage -----------------------------
(***************************************************************************)
(* The page of a user's transfers (frontend/src/pages/                     *)
(* TransactionHistory.jsx) over the record that TransferPromise describes. *)
(*                                                                         *)
(* The page loads the rows when it is opened and when the user asks, and   *)
(* every three seconds while a row it holds is pending.  Requests are not  *)
(* numbered or cancelled: an answer is shown when it arrives, whatever     *)
(* was shown before.  Answers to a page that was left are not shown.       *)
(***************************************************************************)
EXTENDS Naturals, Sequences, SequencesExt

CONSTANTS
  Transfers,     \* those of the page's user
  MaxInFlight,   \* bound: requests that are not answered yet
  MaxFailures    \* bound: requests that fail

ASSUME HistoryBounds == MaxInFlight \in Nat \ {0} /\ MaxFailures \in Nat

VARIABLES
  executed, record,   \* the chain and the record
  open,      \* is the page mounted?
  view,      \* viewState
  list,      \* the status of each transfer in transactions
  asked,     \* the requests the backend has not read the rows for
  answers,   \* those it has, in the order it read them
  failures   \* how much of the bound is used

page == <<open, view, list>>
vars == <<executed, record, page, asked, answers, failures>>

Record == INSTANCE TransferPromise

Kinds == {"explicit", "silent"}
Empty == [t \in Transfers |-> "none"]

Init ==
  /\ Record!Init
  /\ open = FALSE /\ view = "loading" /\ list = Empty
  /\ asked = <<>> /\ answers = <<>>
  /\ failures = 0

-----------------------------------------------------------------------------
(* The record moves on, whoever looks.                                     *)

RecordMoves ==
  /\ Record!Next
  /\ UNCHANGED <<page, asked, answers, failures>>

\* getTransactionsByUserId: the rows as they are now.  An unsure confirmation
\* shows like another.
Rows == [t \in Transfers |-> IF record[t] = "UNSURE" THEN "CONFIRMED" ELSE record[t]]

\* The requests are served in any order.
ReadRows(k) ==
  /\ k \in 1..Len(asked)
  /\ answers' = Append(answers, [kind |-> asked[k], rows |-> Rows, late |-> FALSE])
  /\ asked' = RemoveAt(asked, k)
  /\ UNCHANGED <<executed, record, page, failures>>

-----------------------------------------------------------------------------
(* loadTransactions.                                                       *)

Ask(kind) ==
  /\ Len(asked) + Len(answers) < MaxInFlight
  /\ asked' = Append(asked, kind)

\* The page is mounted anew.
Open ==
  /\ ~open
  /\ open' = TRUE /\ view' = "loading" /\ list' = Empty
  /\ Ask("explicit")
  /\ UNCHANGED <<executed, record, answers, failures>>

Refresh ==
  /\ open /\ view # "loading"
  /\ view' = "loading"
  /\ Ask("explicit")
  /\ UNCHANGED <<executed, record, open, list, answers, failures>>

HasPendingOnly == \A t \in Transfers : list[t] = "PENDING"

HasPending == \E t \in Transfers : list[t] = "PENDING"

\* Three seconds have passed; the rows held may be hidden by a load.
Tick ==
  /\ open /\ HasPending
  /\ Ask("silent")
  /\ UNCHANGED <<executed, record, page, answers, failures>>

Show(rows) == list' = rows

\* A successful answer is shown, silent or not.  Those that were read earlier
\* are late from now on.
Arrives(k) ==
  /\ k \in 1..Len(answers)
  /\ Show(answers[k].rows)
  /\ view' = IF list' = Empty THEN "empty" ELSE "loaded"
  /\ answers' = RemoveAt([j \in 1..Len(answers) |->
                            [answers[j] EXCEPT !.late = @ \/ j < k]], k)
  /\ UNCHANGED <<executed, record, open, asked, failures>>

FailWipes(kind) == list' = Empty /\ view' = "error"

FailKeeps(kind) ==
  \/ kind = "explicit" /\ view' = "error" /\ UNCHANGED list
  \/ kind = "silent" /\ UNCHANGED <<list, view>>

FailQuietly(kind) == UNCHANGED <<list, view>>

\* A failed explicit load empties the page; a silent one leaves it.
Fail(kind) ==
  \/ kind = "explicit" /\ list' = Empty /\ view' = "error"
  \/ kind = "silent" /\ UNCHANGED <<list, view>>

Fails ==
  /\ failures < MaxFailures
  /\ failures' = failures + 1
  /\ \/ \E k \in 1..Len(asked) :
          /\ Fail(asked[k])
          /\ asked' = RemoveAt(asked, k)
          /\ UNCHANGED answers
     \/ \E k \in 1..Len(answers) :
          /\ Fail(answers[k].kind)
          /\ answers' = RemoveAt(answers, k)
          /\ UNCHANGED asked
  /\ UNCHANGED <<executed, record, open>>

\* The page is left, when it is not loading: nothing that arrives is shown.
Back ==
  /\ open /\ view # "loading"
  /\ open' = FALSE /\ asked' = <<>> /\ answers' = <<>>
  /\ UNCHANGED <<executed, record, view, list, failures>>

-----------------------------------------------------------------------------
Next ==
  \/ RecordMoves
  \/ Open \/ Refresh \/ Tick \/ Back
  \/ Fails \/ \E k \in 1..MaxInFlight : ReadRows(k) \/ Arrives(k)

Spec == Init /\ [][Next]_vars

\* The interval fires, and each request is answered or fails.
FairSpec == Spec /\ WF_vars(Tick) /\ WF_vars(ReadRows(1)) /\ WF_vars(Arrives(1))

-----------------------------------------------------------------------------
(* Properties.                                                             *)

Shown == {"none", "PENDING", "CONFIRMED", "FAILED"}

HistoryTypeOK ==
  /\ executed \subseteq Transfers
  /\ record \in [Transfers -> Shown \cup {"UNSURE"}]
  /\ open \in BOOLEAN /\ view \in {"loading", "loaded", "empty", "error"}
  /\ list \in [Transfers -> Shown]
  /\ asked \in Seq(Kinds)
  /\ answers \in Seq([kind : Kinds, rows : [Transfers -> Shown], late : BOOLEAN])
  /\ Len(asked) + Len(answers) <= MaxInFlight
  /\ failures \in 0..MaxFailures

\* What the page shows is neither better nor worse than what happened: a
\* confirmed transfer was executed, a failed one failed.  A page that says it
\* has no rows, or could not load them, holds none to poll for.
PageTellsRecord ==
  open =>
    /\ \A t \in Transfers : /\ list[t] = "CONFIRMED" => t \in executed
                            /\ list[t] = "FAILED" => record[t] = "FAILED"
    /\ view \in {"empty", "error"} => ~HasPending

Rank(status) == CASE status = "none" -> 0 [] status = "PENDING" -> 1 [] OTHER -> 2

\* The rows that are on their way tell what happened, too.
AnswersTellRecord ==
  /\ \A t \in Transfers : record[t] \in {"CONFIRMED", "UNSURE"} => t \in executed
  /\ \A k \in 1..Len(answers), t \in Transfers :
       /\ answers[k].rows[t] = "CONFIRMED" => t \in executed
       /\ answers[k].rows[t] = "FAILED" => record[t] = "FAILED"

\* What was read later is further on; only a late answer is behind the page.
ReadInOrder ==
  \A t \in Transfers :
    /\ Rank(list[t]) <= Rank(record[t])
    /\ \A k \in 1..Len(answers) :
         /\ Rank(answers[k].rows[t]) <= Rank(record[t])
         /\ \A j \in 1..k : Rank(answers[j].rows[t]) <= Rank(answers[k].rows[t])
         /\ ~answers[k].late => Rank(list[t]) <= Rank(answers[k].rows[t])

\* The page is well formed and shows what happened; and what that rests on.
HistoryInv == HistoryTypeOK /\ PageTellsRecord /\ AnswersTellRecord /\ ReadInOrder

Loads ==
  Cardinality({k \in 1..Len(asked) : asked[k] = "explicit"})
    + Cardinality({k \in 1..Len(answers) : answers[k].kind = "explicit"})

\* On an open page a transfer does not vanish or become pending again, whatever
\* poll fails, but by a late answer or when a load that was asked for fails.
ShownMovesOn ==
  [][open /\ open' =>
       \/ \A t \in Transfers : Rank(list'[t]) >= Rank(list[t])
       \/ view' = "error" /\ Loads' < Loads
       \/ \E k \in 1..Len(answers) : answers[k].late /\ Arrives(k)]_vars

\* A transfer that is settled in the end is so on the page, although polls
\* fail, overtake each other, or run into a refresh.
PendingIsFollowed ==
  \A t \in Transfers :
    <>[](open /\ record[t] # "PENDING") => <>[](list[t] # "PENDING")

LoadingEnds == open /\ view = "loading" ~> view # "loading"
=============================================================================
