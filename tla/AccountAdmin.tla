---------------------------- MODULE AccountAdmin ----------------------------
(***************************************************************************)
(* Accounts and their administration (backend/src/services/authService.js, *)
(* adminService.js; middleware/requireAuth.js, requireAdmin.js).           *)
(*                                                                         *)
(* Registering looks an email up and inserts it after the password is      *)
(* hashed; a login reads the account and compares the password afterwards; *)
(* every other request is let through by one read of the account, and then *)
(* does its work.  Between the two steps of each, others go on.            *)
(*                                                                         *)
(* A user is named by the email, a password is a secret.  What is malformed *)
(* is refused before the first step and left out, as are reads.            *)
(***************************************************************************)
EXTENDS Naturals

CONSTANTS
  Emails, Secrets, NoSecret,
  Seeded,        \* the administrators there are at first
  Calls,         \* bound: the requests handled at once
  FaultPoints,   \* the awaits that may fail; with "Ack", after they took effect
  MaxFaults      \* bound: failures in a behaviour

ASSUME AccountAssumption == Emails # {} /\ NoSecret \notin Secrets /\ Seeded \subseteq Emails
ASSUME AccountBounds == MaxFaults \in Nat

VARIABLES
  secret, role, frozen,   \* the rows of users; an email without one has NoSecret
  tokens,                 \* the tokens given out, with the secret that was presented
  call,                   \* the requests being handled
  trusted,                \* history: who is or has been an administrator
  faults                  \* how much of the bound is used

users == <<secret, role, frozen, trusted>>
vars == <<users, tokens, call, faults>>

Roles == {"USER", "ADMIN"}
Freezes == {"freeze", "unfreeze"}
AdminOps == Freezes \cup Roles
\* "use" stands for any request of a user that is not an administrator's.
Ops == {"use"} \cup AdminOps
Tokens == [user : Emails, secret : Secrets]

Idle(e) == [at |-> "idle", op |-> "use", user |-> e, target |-> e,
            secret |-> NoSecret, wasFrozen |-> FALSE]

\* Between requests the email is of no meaning.
NoCall == Idle(CHOOSE e \in Emails : TRUE)

Exists(e) == secret[e] # NoSecret

Init ==
  /\ secret \in [Emails -> Secrets \cup {NoSecret}]
  /\ \A e \in Emails : Exists(e) <=> e \in Seeded
  /\ role = [e \in Emails |-> IF e \in Seeded THEN "ADMIN" ELSE "USER"]
  /\ frozen = [e \in Emails |-> FALSE]
  /\ tokens = {}
  /\ call = [c \in Calls |-> NoCall]
  /\ trusted = Seeded
  /\ faults = 0

Answer(c) == call' = [call EXCEPT ![c] = NoCall]

CreateToken(e, s) == tokens' = tokens \cup {[user |-> e, secret |-> s]}

-----------------------------------------------------------------------------
(* authService.                                                            *)

\* The email is free; otherwise the answer is 409.
Register(c, e, s) ==
  /\ call[c].at = "idle" /\ ~Exists(e)
  /\ call' = [call EXCEPT ![c] = [Idle(e) EXCEPT !.at = "insert", !.secret = s]]
  /\ UNCHANGED <<users, tokens, faults>>

\* UNIQUE(email).
InsertableAlways(e) == TRUE

Insertable(e) == ~Exists(e)

Insert(c) ==
  LET e == call[c].user IN
  secret' = IF Insertable(e) THEN [secret EXCEPT ![e] = call[c].secret] ELSE secret

InsertUser(c) ==
  /\ call[c].at = "insert"
  /\ Insert(c)
  /\ IF Insertable(call[c].user) THEN CreateToken(call[c].user, call[c].secret)
     ELSE UNCHANGED tokens
  /\ Answer(c)
  /\ UNCHANGED <<role, frozen, trusted, faults>>

\* The row is read; the comparison of the password takes its time.
Login(c, e, s) ==
  /\ call[c].at = "idle" /\ Exists(e)
  /\ call' = [call EXCEPT ![c] = [Idle(e) EXCEPT !.at = "compare", !.secret = s,
                                                 !.wasFrozen = frozen[e]]]
  /\ UNCHANGED <<users, tokens, faults>>

Verifies(c) == call[c].secret = secret[call[c].user] /\ ~call[c].wasFrozen

ComparePassword(c) ==
  /\ call[c].at = "compare"
  /\ IF Verifies(c) THEN CreateToken(call[c].user, call[c].secret) ELSE UNCHANGED tokens
  /\ Answer(c)
  /\ UNCHANGED <<users, faults>>

ExpireToken(k) ==
  /\ tokens' = tokens \ {k}
  /\ UNCHANGED <<users, call, faults>>

-----------------------------------------------------------------------------
(* requireAuth, requireAdmin and the handlers behind them.                 *)

\* The token is good; the user is not read yet.
Request(c, k, op, e) ==
  /\ call[c].at = "idle"
  /\ op = "use" => e = k.user
  /\ call' = [call EXCEPT ![c] = [Idle(k.user) EXCEPT !.at = "auth", !.op = op, !.target = e]]
  /\ UNCHANGED <<users, tokens, faults>>

BarsNobody(u) == FALSE

Bars(u) == frozen[u]

MayAnyone(u, op) == TRUE

May(u, op) == op \in AdminOps => role[u] = "ADMIN"

RequireAuth(c) ==
  LET u == call[c].user IN
  /\ call[c].at = "auth"
  /\ IF ~Bars(u) /\ May(u, call[c].op)
     THEN call' = [call EXCEPT ![c].at = "handle"] ELSE Answer(c)
  /\ UNCHANGED <<users, tokens, faults>>

SetUserFrozen(c) ==
  LET e == call[c].target IN
  /\ call[c].op \in Freezes /\ Exists(e)
  /\ call[c].op = "freeze" => e # call[c].user
  /\ frozen' = [frozen EXCEPT ![e] = (call[c].op = "freeze")]
  /\ UNCHANGED <<secret, role, trusted>>

SetUserRole(c) ==
  LET e == call[c].target IN
  /\ call[c].op \in Roles /\ Exists(e)
  /\ role' = [role EXCEPT ![e] = call[c].op]
  /\ trusted' = IF call[c].op = "ADMIN" THEN trusted \cup {e} ELSE trusted
  /\ UNCHANGED <<secret, frozen>>

\* 400 for who would freeze themselves, 404 for who is not there.
Refuses(c) ==
  \/ call[c].op \in AdminOps /\ ~Exists(call[c].target)
  \/ call[c].op = "freeze" /\ call[c].target = call[c].user

Handle(c) ==
  /\ call[c].at = "handle"
  /\ \/ SetUserFrozen(c) \/ SetUserRole(c)
     \/ (Refuses(c) \/ call[c].op = "use") /\ UNCHANGED users
  /\ Answer(c)
  /\ UNCHANGED <<tokens, faults>>

\* A statement throws.  The INSERT and the UPDATE may have taken effect.
Throws(c) ==
  /\ call[c].at # "idle" /\ faults < MaxFaults
  /\ faults' = faults + 1
  /\ \/ call[c].at \in FaultPoints /\ UNCHANGED users
     \/ /\ call[c].at = "insert" /\ "insertAck" \in FaultPoints
        /\ Insert(c) /\ UNCHANGED <<role, frozen, trusted>>
     \/ /\ call[c].at = "handle" /\ "handleAck" \in FaultPoints
        /\ SetUserFrozen(c) \/ SetUserRole(c)
  /\ Answer(c)
  /\ UNCHANGED tokens

-----------------------------------------------------------------------------
Goes(c) == InsertUser(c) \/ ComparePassword(c) \/ RequireAuth(c) \/ Handle(c)

Next ==
  \/ \E c \in Calls :
       \/ Goes(c) \/ Throws(c)
       \/ \E e \in Emails :
            \/ \E s \in Secrets : Register(c, e, s) \/ Login(c, e, s)
            \/ \E k \in tokens, op \in Ops : Request(c, k, op, e)
  \/ \E k \in tokens : ExpireToken(k)

Spec == Init /\ [][Next]_vars

\* A request that is being handled goes on.
FairSpec == Spec /\ \A c \in Calls : WF_vars(Goes(c))

-----------------------------------------------------------------------------
(* Properties.                                                             *)

AccountTypeOK ==
  /\ secret \in [Emails -> Secrets \cup {NoSecret}]
  /\ role \in [Emails -> Roles] /\ frozen \in [Emails -> BOOLEAN]
  /\ tokens \subseteq Tokens
  /\ call \in [Calls -> [at : {"idle", "insert", "compare", "auth", "handle"}, op : Ops,
                         user : Emails, target : Emails,
                         secret : Secrets \cup {NoSecret}, wasFrozen : BOOLEAN]]
  /\ Seeded \subseteq trusted /\ trusted \subseteq Emails
  /\ faults \in 0..MaxFaults

\* A token speaks for an account only if the account's own secret was given for
\* it, also when two register one email, or a login is overtaken.
TokenIsEarned == \A k \in tokens : k.secret = secret[k.user]

\* Why: a request that opens an account or logs in carries a secret, ...
SecretGiven == \A c \in Calls : call[c].at \in {"insert", "compare"} => call[c].secret \in Secrets

\* ... nothing is done to an account before it is opened, ...
NewIsOrdinary == \A e \in Emails : ~Exists(e) => role[e] = "USER" /\ ~frozen[e]

\* ... and what an administrator's request does, was let through for one.
AdminsAreTrusted == \A e \in Emails : role[e] = "ADMIN" => e \in trusted

HandledByTrusted ==
  \A c \in Calls : call[c].at = "handle" /\ call[c].op \in AdminOps => call[c].user \in trusted

\* The inductive invariant: accounts are well formed, tokens earned, and whose
\* request changes an account is, or was, an administrator.
AccountInv ==
  /\ AccountTypeOK /\ TokenIsEarned
  /\ SecretGiven /\ NewIsOrdinary /\ AdminsAreTrusted /\ HandledByTrusted

\* Accounts keep their promise, whatever was allowed before it was revoked.
Promise == INSTANCE AccountPromise
AccountPromiseKept == Promise!Spec

\* Who is frozen for good ceases to act, whatever tokens there are and were.
FreezeTakesHold ==
  \A e \in Emails :
    <>[]frozen[e] => <>[](\A c \in Calls : call[c].user = e => call[c].at # "handle")
=============================================================================
