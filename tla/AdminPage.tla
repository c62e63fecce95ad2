------------------------------ MODULE AdminPage ------------------------------
(***************************************************************************)
(* The page of an administrator (frontend/src/pages/Admin.jsx) and what    *)
(* the backend's handlers do for it (adminService.js, requireAdmin.js).    *)
(*                                                                         *)
(* The page loads the users when it is opened, when it is asked to, and    *)
(* after each of its changes; a change is shown when it is answered, by    *)
(* merging it into the list.  Requests are answered in any order.  Only    *)
(* the row of the latest change is locked.  A page that was left shows no  *)
(* answer, but asks for a load after its changes, and ends the session at  *)
(* a 401, all the same.  The three requests of a load are one here, that   *)
(* of the users; a handler is one step.                                    *)
(***************************************************************************)
EXTENDS Naturals, Sequences, SequencesExt

CONSTANTS
  Users,
  Me,            \* the page's user, an administrator at first
  Nobody,
  MaxInFlight,   \* bound: requests at once
  MaxFailures    \* bound: requests that fail

ASSUME AdminPageAssumption == Me \in Users /\ Nobody \notin Users
ASSUME AdminPageBounds == MaxInFlight \in Nat /\ MaxFailures \in Nat

VARIABLES
  rows,        \* the users' roles and freezes
  expired,     \* is the page's token no longer good?
  open,        \* is the page mounted?
  view,        \* viewState
  list,        \* users: what the page shows of them, when it is loaded
  acting,      \* actionUserId
  warned,      \* is actionError shown?
  requests,    \* those that were not answered, in the order they were sent
  elsewhere,   \* history: did others change a user since the page was opened?
  late,        \* history: was the list shown overtaken by a later answer?
  failures     \* how much of the bound is used

page == <<open, view, list, acting, warned>>
vars == <<rows, expired, page, requests, elsewhere, late, failures>>

Roles == {"USER", "ADMIN"}
Changes == {"freeze", "unfreeze"} \cup Roles
Row == [role : Roles, frozen : BOOLEAN]

\* What a change does to a row: freezeAdminUser, changeAdminUserRole.
Do(row, op) ==
  IF op \in Roles THEN [row EXCEPT !.role = op] ELSE [row EXCEPT !.frozen = (op = "freeze")]

\* "asked": the backend has not served it; then its answer is on the way.
Ask(op, user) ==
  [op |-> op, user |-> user, at |-> "asked", rows |-> <<>>, overtaken |-> FALSE,
   left |-> FALSE]

Unloaded == <<>>

Init ==
  /\ rows = [u \in Users |-> [role |-> IF u = Me THEN "ADMIN" ELSE "USER", frozen |-> FALSE]]
  /\ expired = FALSE
  /\ open = FALSE /\ view = "loading" /\ list = Unloaded
  /\ acting = Nobody /\ warned = FALSE
  /\ requests = <<>>
  /\ elsewhere = FALSE /\ late = FALSE
  /\ failures = 0

-----------------------------------------------------------------------------
(* The backend.                                                            *)

\* requireAuth, requireAdmin, and setUserFrozen's own check.
Refusal(op, user) ==
  IF expired THEN "401"
  ELSE IF rows[Me].frozen \/ rows[Me].role # "ADMIN" THEN "403"
  ELSE IF op = "freeze" /\ user = Me THEN "400"
  ELSE "ok"

Serve(k) ==
  /\ k \in 1..Len(requests) /\ requests[k].at = "asked"
  /\ LET r == requests[k]
         answer == Refusal(r.op, r.user)
     IN
     /\ rows' = IF r.op \in Changes /\ answer = "ok"
                THEN [rows EXCEPT ![r.user] = Do(@, r.op)] ELSE rows
     /\ requests' = [requests EXCEPT ![k].at = answer,
                       ![k].rows = IF r.op = "load" /\ answer = "ok" THEN rows ELSE <<>>]
  /\ elsewhere' = (elsewhere \/ (~open /\ rows' # rows))
  /\ UNCHANGED <<expired, page, late, failures>>

\* Another administrator changes a user: once in a visit, at most.
ChangeElsewhere ==
  /\ ~elsewhere
  /\ \E u \in Users, op \in Changes : rows' = [rows EXCEPT ![u] = Do(@, op)]
  /\ elsewhere' = TRUE
  /\ UNCHANGED <<expired, page, requests, late, failures>>

ExpireToken ==
  /\ ~expired /\ expired' = TRUE
  /\ UNCHANGED <<rows, page, requests, elsewhere, late, failures>>

-----------------------------------------------------------------------------
(* The page.                                                               *)

\* loadAdminData, up to its await.
Reload(pending) ==
  /\ view' = "loading" /\ warned' = FALSE
  /\ requests' = Append(pending, Ask("load", Me))

\* A login gives a good token.  Requests from an earlier visit may be under way,
\* and are refused if their token has expired.
Open ==
  /\ ~open /\ Len(requests) < MaxInFlight
  /\ open' = TRUE /\ expired' = FALSE
  /\ Reload([j \in 1..Len(requests) |->
               IF expired /\ requests[j].at = "asked"
               THEN [requests[j] EXCEPT !.at = "401"] ELSE requests[j]])
  /\ list' = Unloaded /\ acting' = Nobody
  /\ elsewhere' = (~expired /\ \E j \in 1..Len(requests) :
                    requests[j].op \in Changes /\ requests[j].at = "asked")
  /\ late' = FALSE
  /\ UNCHANGED <<rows, failures>>

Refresh ==
  /\ open /\ view \notin {"loading", "forbidden"} /\ Len(requests) < MaxInFlight
  /\ Reload(requests)
  /\ UNCHANGED <<rows, expired, open, list, acting, elsewhere, late, failures>>

\* The changes that the row of a user offers.
Offered(u) ==
  {IF list[u].frozen THEN "unfreeze" ELSE "freeze"} \cup (Roles \ {list[u].role})

\* handleFreezeToggle and handleRoleChange, up to their await.
Click(u, op) ==
  /\ open /\ view = "loaded" /\ acting # u /\ Len(requests) < MaxInFlight
  /\ op \in Offered(u)
  /\ acting' = u /\ warned' = FALSE
  /\ requests' = Append(requests, Ask(op, u))
  /\ UNCHANGED <<rows, expired, open, view, list, elsewhere, late, failures>>

\* The page is left.  What the backend has not served it still will.
Leave(pending) ==
  /\ open' = FALSE
  /\ requests' = [j \in 1..Len(pending) |-> [pending[j] EXCEPT !.left = TRUE]]
  /\ UNCHANGED <<view, list, acting, warned, elsewhere, late>>

Back ==
  /\ open /\ Leave(requests)
  /\ UNCHANGED <<rows, expired, failures>>

\* What ends without another load: a load, and a request that is forbidden.
Overtakes(k) == requests[k].op = "load" \/ requests[k].at = "403"

\* The requests without the k-th, which overtook the earlier ones.
Without(k) ==
  RemoveAt([j \in 1..Len(requests) |->
              [requests[j] EXCEPT !.overtaken = @ \/ (j < k /\ Overtakes(k))]], k)

MergeUserUpdate(u, op) ==
  list' = IF list = Unloaded THEN list ELSE [list EXCEPT ![u] = Do(@, op)]

Loaded(k) ==
  /\ list' = requests[k].rows /\ view' = "loaded"
  /\ late' = requests[k].overtaken
  /\ requests' = Without(k)
  /\ UNCHANGED <<open, acting, warned, elsewhere>>

ChangedNoReload(k) ==
  /\ MergeUserUpdate(requests[k].user, requests[k].op)
  /\ acting' = Nobody
  /\ requests' = Without(k)
  /\ UNCHANGED <<open, view, warned, elsewhere, late>>

Changed(k) ==
  /\ MergeUserUpdate(requests[k].user, requests[k].op)
  /\ acting' = Nobody
  /\ Reload(Without(k))
  /\ UNCHANGED <<open, elsewhere, late>>

\* 403, for a load or a change: only the load empties the list.
Forbidden(k) ==
  /\ view' = "forbidden"
  /\ IF requests[k].op = "load" THEN list' = Unloaded /\ UNCHANGED acting
     ELSE acting' = Nobody /\ UNCHANGED list
  /\ requests' = Without(k)
  /\ UNCHANGED <<open, warned, elsewhere, late>>

FailedLocked(k) ==
  /\ IF requests[k].op = "load"
     THEN list' = Unloaded /\ view' = "error" /\ UNCHANGED <<acting, warned>>
     ELSE warned' = TRUE /\ UNCHANGED <<list, view, acting>>
  /\ requests' = Without(k)
  /\ UNCHANGED <<open, elsewhere, late>>

FailedQuietly(k) ==
  /\ IF requests[k].op = "load" THEN UNCHANGED <<list, view, acting, warned>>
     ELSE acting' = Nobody /\ warned' = TRUE /\ UNCHANGED <<list, view>>
  /\ requests' = Without(k)
  /\ UNCHANGED <<open, elsewhere, late>>

Failed(k) ==
  /\ IF requests[k].op = "load"
     THEN list' = Unloaded /\ view' = "error" /\ UNCHANGED <<acting, warned>>
     ELSE acting' = Nobody /\ warned' = TRUE /\ UNCHANGED <<list, view>>
  /\ requests' = Without(k)
  /\ UNCHANGED <<open, elsewhere, late>>

\* 401: the token is cleared, though it may be a newer one, and the login page
\* is shown, whatever page was.
Denied(k) == Leave(RemoveAt(requests, k))

\* A load whose answer nobody sees, sent when the page was left: by then the
\* token may be gone, unless the page was opened again.
AskUnseen(at) == [Ask("load", Me) EXCEPT !.left = TRUE, !.at = at]

\* A page that was left shows no answer.  A change that was made asks for its
\* load all the same.
Unheeded(k) ==
  /\ IF requests[k].op \in Changes /\ requests[k].at = "ok"
     THEN \E at \in {"asked", IF open THEN "asked" ELSE "401"} :
            requests' = Append(RemoveAt(requests, k), AskUnseen(at))
     ELSE requests' = RemoveAt(requests, k)
  /\ UNCHANGED <<page, elsewhere, late>>

\* The k-th request is answered.
Answered(k) ==
  /\ k \in 1..Len(requests)
  /\ LET r == requests[k] IN
     \/ /\ ~r.left
        /\ \/ r.at = "ok" /\ r.op = "load" /\ Loaded(k)
           \/ r.at = "ok" /\ r.op # "load" /\ Changed(k)
           \/ r.at = "403" /\ Forbidden(k)
           \/ r.at = "400" /\ Failed(k)
     \/ r.left /\ r.at \in {"ok", "400", "403"} /\ Unheeded(k)
     \/ r.at = "401" /\ Denied(k)
  /\ UNCHANGED <<rows, expired, failures>>

\* It is not, or with 500, whether it was served or not; or requireAuth could
\* not read the account, which it takes for a bad token.
NotAnswered(k) ==
  /\ k \in 1..Len(requests) /\ failures < MaxFailures
  /\ failures' = failures + 1
  /\ \/ ~requests[k].left /\ Failed(k)
     \/ requests[k].at = "asked" /\ Denied(k)
  /\ UNCHANGED <<rows, expired>>

-----------------------------------------------------------------------------
Next ==
  \/ ChangeElsewhere \/ ExpireToken
  \/ Open \/ Refresh \/ Back
  \/ \E u \in Users, op \in Changes : Click(u, op)
  \/ \E k \in 1..MaxInFlight : Serve(k) \/ Answered(k) \/ NotAnswered(k)

Spec == Init /\ [][Next]_vars

\* Requests are served, and answered or fail.
FairSpec == Spec /\ WF_vars(Serve(1)) /\ WF_vars(Answered(1))

-----------------------------------------------------------------------------
(* Properties.                                                             *)

Lists == {Unloaded} \cup [Users -> Row]

AdminTypeOK ==
  /\ rows \in [Users -> Row]
  /\ {expired, open, warned, elsewhere, late} \subseteq BOOLEAN
  /\ view \in {"loading", "loaded", "forbidden", "error"} /\ list \in Lists
  /\ acting \in Users \cup {Nobody}
  /\ requests \in Seq([op : Changes \cup {"load"}, user : Users, overtaken : BOOLEAN, left : BOOLEAN,
                       at : {"asked", "ok", "400", "401", "403"}, rows : Lists])
  /\ Len(requests) <= MaxInFlight
  /\ failures \in 0..MaxFailures
  /\ open /\ view = "loaded" => list # Unloaded

AtRest == open /\ view = "loaded" /\ requests = <<>>

\* A page at rest shows the users as they are, with all it did to them, if it
\* shows no error, nobody else administered them, and it was not overtaken.
ShowsWhatItDid == AtRest /\ ~warned /\ ~elsewhere /\ ~late => list = rows

\* A row is locked only while a change is under way, however it ends, and
\* whatever else is clicked or loaded meanwhile.
LockedMeanwhile ==
  open /\ acting # Nobody =>
    \E k \in 1..Len(requests) : requests[k].op \in Changes /\ ~requests[k].left

\* Of the changes that a page left behind none takes effect when it is open
\* again, or it counts as one from elsewhere.
LeftBehind ==
  \A k \in 1..Len(requests) :
    /\ ~requests[k].left => open
    /\ requests[k].left /\ requests[k].op \in Changes /\ requests[k].at = "asked"
         => ~open \/ elsewhere

\* What the k-th request read will not be shown last: a change was made, or
\* will end in a load or an error, or a later load overtakes it; or an error
\* is shown already.
Superseded(k) ==
  warned \/ \E j \in 1..Len(requests) :
              /\ ~requests[j].left
              /\ j > k \/ (requests[j].op \in Changes /\ requests[j].at = "ok")

AnswersTrue ==
  \A k \in 1..Len(requests) :
    requests[k].op = "load" /\ requests[k].at = "ok" =>
      /\ requests[k].rows # Unloaded
      /\ ~requests[k].left /\ ~elsewhere /\ ~requests[k].overtaken
           => requests[k].rows = rows \/ Superseded(k)

ListTrue ==
  open /\ view = "loaded" /\ ~elsewhere /\ ~late =>
    list = rows \/ warned \/ \E j \in 1..Len(requests) : ~requests[j].left

\* The page is well formed and locks no row for nothing; and what it shows is
\* so, or about to be replaced.
AdminInv == AdminTypeOK /\ LockedMeanwhile /\ LeftBehind /\ AnswersTrue /\ ListTrue

\* Every load ends, also when changes are made and answered meanwhile.
LoadingEnds == open /\ view = "loading" ~> ~open \/ view # "loading"
=============================================================================
