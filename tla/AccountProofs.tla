--------------------------- MODULE AccountProofs ---------------------------
(***************************************************************************)
(* Theorems of AccountAdmin: its inductive invariant, that tokens are      *)
(* earned, and that it implements AccountPromise.                          *)
(***************************************************************************)
EXTENDS AccountAdmin, TLAPS

CallType ==
  [at : {"idle", "insert", "compare", "auth", "handle"}, op : Ops,
   user : Emails, target : Emails, secret : Secrets \cup {NoSecret}, wasFrozen : BOOLEAN]

\* A request of some user, before it has a position, is a request.
LEMMA IdleType == ASSUME NEW e \in Emails PROVE Idle(e) \in CallType
BY DEF Idle, CallType, Ops, AdminOps, Freezes, Roles

LEMMA NoCallType == NoCall \in CallType /\ NoCall.at = "idle"
<1>1. (CHOOSE e \in Emails : TRUE) \in Emails
  BY AccountAssumption
<1> QED
  BY <1>1, IdleType DEF NoCall, Idle

\* The conjuncts that speak of requests, of one request.
CallInv(r) ==
  /\ r \in CallType
  /\ r.at \in {"insert", "compare"} => r.secret \in Secrets
  /\ r.at = "handle" /\ r.op \in AdminOps => r.user \in trusted

\* Those that speak of the accounts and tokens.
RowsInv ==
  /\ secret \in [Emails -> Secrets \cup {NoSecret}]
  /\ role \in [Emails -> Roles] /\ frozen \in [Emails -> BOOLEAN]
  /\ Seeded \subseteq trusted /\ trusted \subseteq Emails
  /\ NewIsOrdinary /\ AdminsAreTrusted

TokensInv == tokens \subseteq Tokens /\ TokenIsEarned

\* The invariant in three parts.
LEMMA Split ==
  AccountInv <=> /\ RowsInv /\ TokensInv /\ faults \in 0..MaxFaults
                 /\ call \in [Calls -> CallType] /\ \A c \in Calls : CallInv(call[c])
BY DEF AccountInv, AccountTypeOK, RowsInv, TokensInv, CallInv, CallType,
       SecretGiven, HandledByTrusted

\* And after a step.
LEMMA Joined ==
  ASSUME RowsInv', TokensInv', faults' \in 0..MaxFaults,
         call' \in [Calls -> CallType], \A c \in Calls : CallInv(call[c])'
  PROVE  AccountInv'
BY DEF AccountInv, AccountTypeOK, RowsInv, TokensInv, CallInv, CallType,
       SecretGiven, HandledByTrusted

\* A step that moves one request on keeps what is said of requests, if it
\* does so for this one, and no one ceases to be trusted.
LEMMA CallsKept ==
  ASSUME AccountInv, trusted \subseteq trusted',
         NEW c \in Calls, NEW r, CallInv(r)',
         call' = [call EXCEPT ![c] = r]
  PROVE  call' \in [Calls -> CallType] /\ \A d \in Calls : CallInv(call[d])'
BY Split DEF CallInv, CallType

LEMMA Answered ==
  ASSUME AccountInv, trusted \subseteq trusted', NEW c \in Calls, Answer(c)
  PROVE  call' \in [Calls -> CallType] /\ \A d \in Calls : CallInv(call[d])'
<1>1. CallInv(NoCall)'
  BY NoCallType DEF CallInv, CallType, NoCall, Idle
<1> QED
  BY <1>1, CallsKept DEF Answer

-----------------------------------------------------------------------------
(* The steps.                                                              *)

LEMMA InitInv == Init => AccountInv
<1> SUFFICES ASSUME Init PROVE AccountInv
  OBVIOUS
<1>1. RowsInv
  BY AccountAssumption DEF Init, RowsInv, NewIsOrdinary, AdminsAreTrusted, Exists, Roles
<1>2. TokensInv /\ faults \in 0..MaxFaults
  BY AccountBounds DEF Init, TokensInv, TokenIsEarned
<1>3. call \in [Calls -> CallType] /\ \A c \in Calls : CallInv(call[c])
  BY NoCallType DEF Init, CallInv
<1> QED
  BY <1>1, <1>2, <1>3, Split

\* What an insert does to the accounts, whether it is answered or not.
LEMMA InsertKeeps ==
  ASSUME AccountInv, NEW c \in Calls, call[c].at = "insert", Insert(c),
         UNCHANGED <<role, frozen, trusted>>
  PROVE  /\ RowsInv'
         /\ \A k \in Tokens : k.secret = secret[k.user] => k.secret = secret'[k.user]
         /\ Insertable(call[c].user) => secret'[call[c].user] = call[c].secret
<1>1. call[c].user \in Emails /\ call[c].secret \in Secrets
  BY Split DEF CallInv, CallType
<1>2. RowsInv'
  BY <1>1, Split DEF RowsInv, Insert, Insertable, NewIsOrdinary, AdminsAreTrusted, Exists
<1>3. \A k \in Tokens : k.secret = secret[k.user] => k.secret = secret'[k.user]
  BY <1>1, Split, AccountAssumption DEF RowsInv, Insert, Insertable, Exists, Tokens
<1>4. Insertable(call[c].user) => secret'[call[c].user] = call[c].secret
  BY <1>1, Split DEF RowsInv, Insert
<1> QED
  BY <1>2, <1>3, <1>4

\* And what the handlers of an administrator do.
LEMMA HandleKeeps ==
  ASSUME AccountInv, NEW c \in Calls, SetUserFrozen(c) \/ SetUserRole(c)
  PROVE  RowsInv' /\ secret' = secret /\ trusted \subseteq trusted'
<1>1. call[c].target \in Emails
  BY Split DEF CallInv, CallType
<1>2. CASE SetUserFrozen(c)
  BY <1>1, <1>2, Split DEF RowsInv, SetUserFrozen, NewIsOrdinary, AdminsAreTrusted, Exists
<1>3. CASE SetUserRole(c)
  BY <1>1, <1>3, Split DEF RowsInv, SetUserRole, NewIsOrdinary, AdminsAreTrusted, Exists
<1> QED
  BY <1>2, <1>3

LEMMA BeginKeepsInv ==
  ASSUME AccountInv, NEW c \in Calls, NEW e \in Emails,
         \/ \E s \in Secrets : Register(c, e, s) \/ Login(c, e, s)
         \/ \E k \in tokens, op \in Ops : Request(c, k, op, e)
  PROVE  AccountInv'
<1>1. RowsInv' /\ TokensInv' /\ faults' \in 0..MaxFaults /\ trusted' = trusted
  BY Split DEF Register, Login, Request, RowsInv, TokensInv, TokenIsEarned,
     NewIsOrdinary, AdminsAreTrusted, Exists, users
<1>2. ASSUME NEW s \in Secrets, Register(c, e, s) \/ Login(c, e, s) PROVE AccountInv'
  <2>1. CASE Register(c, e, s)
    <3> DEFINE r == [Idle(e) EXCEPT !.at = "insert", !.secret = s]
    <3>1. CallInv(r)'
      BY DEF Idle, CallInv, CallType, Ops, AdminOps, Freezes, Roles
    <3>2. call' = [call EXCEPT ![c] = r]
      BY <2>1 DEF Register
    <3> QED
      BY <1>1, <3>1, <3>2, CallsKept, Joined
  <2>2. CASE Login(c, e, s)
    <3>1. PICK b \in BOOLEAN : b = frozen[e]
      BY Split DEF RowsInv
    <3> DEFINE r == [Idle(e) EXCEPT !.at = "compare", !.secret = s, !.wasFrozen = b]
    <3>2. CallInv(r)'
      BY DEF Idle, CallInv, CallType, Ops, AdminOps, Freezes, Roles
    <3>3. call' = [call EXCEPT ![c] = r]
      BY <2>2, <3>1 DEF Login
    <3> QED
      BY <1>1, <3>2, <3>3, CallsKept, Joined
  <2> QED
    BY <1>2, <2>1, <2>2
<1>3. ASSUME NEW k \in tokens, NEW op \in Ops, Request(c, k, op, e) PROVE AccountInv'
  <2> DEFINE r == [Idle(k.user) EXCEPT !.at = "auth", !.op = op, !.target = e]
  <2>1. k.user \in Emails
    BY Split DEF TokensInv, Tokens
  <2>2. CallInv(r)'
    BY <2>1 DEF Idle, CallInv, CallType
  <2>3. call' = [call EXCEPT ![c] = r]
    BY <1>3 DEF Request
  <2> QED
    BY <1>1, <2>2, <2>3, CallsKept, Joined
<1> QED
  BY <1>2, <1>3

LEMMA InsertUserKeepsInv ==
  ASSUME AccountInv, NEW c \in Calls, InsertUser(c)
  PROVE  AccountInv'
<1>1. RowsInv' /\ faults' \in 0..MaxFaults
  BY InsertKeeps, Split DEF InsertUser
<1>2. TokensInv'
  <2>1. call[c].user \in Emails /\ call[c].secret \in Secrets
    BY Split DEF CallInv, CallType, InsertUser
  <2> QED
    BY <2>1, InsertKeeps, Split DEF InsertUser, CreateToken, TokensInv, TokenIsEarned, Tokens
<1> QED
  BY <1>1, <1>2, Answered, Joined DEF InsertUser

LEMMA ComparePasswordKeepsInv ==
  ASSUME AccountInv, NEW c \in Calls, ComparePassword(c)
  PROVE  AccountInv'
<1>1. RowsInv' /\ faults' \in 0..MaxFaults
  BY Split DEF ComparePassword, users, RowsInv, NewIsOrdinary, AdminsAreTrusted, Exists
<1>2. TokensInv'
  <2>1. call[c].user \in Emails /\ call[c].secret \in Secrets
    BY Split DEF CallInv, CallType, ComparePassword
  <2> QED
    BY <2>1, Split DEF ComparePassword, Verifies, CreateToken, TokensInv, TokenIsEarned,
       Tokens, users
<1> QED
  BY <1>1, <1>2, Answered, Joined DEF ComparePassword, users

LEMMA RequireAuthKeepsInv ==
  ASSUME AccountInv, NEW c \in Calls, RequireAuth(c)
  PROVE  AccountInv'
<1>1. RowsInv' /\ TokensInv' /\ faults' \in 0..MaxFaults /\ trusted' = trusted
  BY Split DEF RequireAuth, users, RowsInv, TokensInv, TokenIsEarned,
     NewIsOrdinary, AdminsAreTrusted, Exists
<1>2. CASE Answer(c)
  BY <1>1, <1>2, Answered, Joined
<1>3. CASE May(call[c].user, call[c].op) /\ call' = [call EXCEPT ![c].at = "handle"]
  <2>1. CallInv([call[c] EXCEPT !.at = "handle"])'
    BY <1>1, <1>3, Split DEF CallInv, CallType, May, RowsInv, AdminsAreTrusted
  <2>2. call' = [call EXCEPT ![c] = [call[c] EXCEPT !.at = "handle"]]
    BY <1>3
  <2> QED
    BY <1>1, <2>1, <2>2, CallsKept, Joined
<1> QED
  BY <1>2, <1>3 DEF RequireAuth

LEMMA HandleKeepsInv ==
  ASSUME AccountInv, NEW c \in Calls, Handle(c)
  PROVE  AccountInv'
<1>1. RowsInv' /\ secret' = secret /\ trusted \subseteq trusted'
  BY HandleKeeps, Split DEF Handle, users, RowsInv, NewIsOrdinary, AdminsAreTrusted, Exists
<1>2. TokensInv' /\ faults' \in 0..MaxFaults
  BY <1>1, Split DEF Handle, TokensInv, TokenIsEarned
<1> QED
  BY <1>1, <1>2, Answered, Joined DEF Handle

LEMMA ThrowsKeepsInv ==
  ASSUME AccountInv, NEW c \in Calls, Throws(c)
  PROVE  AccountInv'
<1>1. RowsInv' /\ trusted \subseteq trusted'
      /\ \A k \in Tokens : k.secret = secret[k.user] => k.secret = secret'[k.user]
  <2>1. CASE UNCHANGED users
    BY <2>1, Split DEF users, RowsInv, NewIsOrdinary, AdminsAreTrusted, Exists
  <2>2. CASE call[c].at = "insert" /\ Insert(c) /\ UNCHANGED <<role, frozen, trusted>>
    BY <2>2, InsertKeeps
  <2>3. CASE SetUserFrozen(c) \/ SetUserRole(c)
    BY <2>3, HandleKeeps
  <2> QED
    BY <2>1, <2>2, <2>3 DEF Throws
<1>2. TokensInv'
  BY <1>1, Split DEF Throws, TokensInv, TokenIsEarned
<1>3. faults' \in 0..MaxFaults
  BY Split, AccountBounds DEF Throws
<1> QED
  BY <1>1, <1>2, <1>3, Answered, Joined DEF Throws

\* A step is one of a request, or a token's expiry.
LEMMA NextKeepsInv == AccountInv /\ [Next]_vars => AccountInv'
<1> SUFFICES ASSUME AccountInv, [Next]_vars PROVE AccountInv'
  OBVIOUS
<1>1. ASSUME NEW c \in Calls, Goes(c) PROVE AccountInv'
  BY <1>1, InsertUserKeepsInv, ComparePasswordKeepsInv, RequireAuthKeepsInv, HandleKeepsInv
  DEF Goes
<1>2. ASSUME NEW c \in Calls, Throws(c) PROVE AccountInv'
  BY <1>2, ThrowsKeepsInv
<1>3. ASSUME NEW c \in Calls, NEW e \in Emails,
             \/ \E s \in Secrets : Register(c, e, s) \/ Login(c, e, s)
             \/ \E k \in tokens, op \in Ops : Request(c, k, op, e)
      PROVE  AccountInv'
  BY <1>3, BeginKeepsInv
<1>4. CASE (\E k \in tokens : ExpireToken(k)) \/ UNCHANGED vars
  <2>1. RowsInv' /\ TokensInv' /\ faults' \in 0..MaxFaults
    BY <1>4, Split DEF ExpireToken, vars, users, RowsInv, TokensInv, TokenIsEarned,
       NewIsOrdinary, AdminsAreTrusted, Exists
  <2>2. call' \in [Calls -> CallType] /\ \A c \in Calls : CallInv(call[c])'
    BY <1>4, Split DEF ExpireToken, vars, users, CallInv
  <2> QED
    BY <2>1, <2>2, Joined
<1> QED
  BY <1>1, <1>2, <1>3, <1>4 DEF Next

\* Accounts, tokens and requests keep the invariant, whatever fails.
THEOREM AccountInvariant == Spec => []AccountInv
BY InitInv, NextKeepsInv, PTL DEF Spec

\* No token is given out but for the secret of its account.
THEOREM TokensAreEarned == Spec => []TokenIsEarned
<1>1. AccountInv => TokenIsEarned
  BY DEF AccountInv
<1> QED
  BY <1>1, AccountInvariant, PTL

-----------------------------------------------------------------------------
(* The refinement.                                                         *)

LEMMA PromiseInit == Init => Promise!Init
BY AccountAssumption DEF Init, Promise!Init, Roles, Exists

LEMMA InsertJoins ==
  ASSUME AccountInv, NEW c \in Calls, call[c].at = "insert", Insert(c),
         UNCHANGED <<role, frozen, trusted>>
  PROVE  [Promise!Next]_users
<1>1. call[c].user \in Emails /\ call[c].secret \in Secrets
  BY Split DEF CallInv, CallType
<1>2. CASE Insertable(call[c].user)
  <2>1. Promise!Join(call[c].user)
    BY <1>1, <1>2, Split DEF Promise!Join, Insert, Insertable, Exists, RowsInv, NewIsOrdinary
  <2> QED
    BY <1>1, <2>1 DEF Promise!Next
<1>3. CASE ~Insertable(call[c].user)
  BY <1>3 DEF Insert, users
<1> QED
  BY <1>2, <1>3

LEMMA HandlerKeepsPromise ==
  ASSUME AccountInv, NEW c \in Calls, call[c].at = "handle",
         SetUserFrozen(c) \/ SetUserRole(c)
  PROVE  [Promise!Next]_users
<1> DEFINE e == call[c].target
           by == call[c].user
<1>1. e \in Emails /\ Exists(e) /\ by \in trusted
  BY Split DEF CallInv, CallType, SetUserFrozen, SetUserRole, AdminOps
<1>2. CASE SetUserFrozen(c)
  <2>1. Promise!Freeze(by, e)
    BY <1>2 DEF SetUserFrozen, Promise!Freeze
  <2> QED
    BY <1>1, <2>1 DEF Promise!Next, Exists
<1>3. CASE SetUserRole(c)
  <2>1. Promise!Appoint(e)
    BY <1>3 DEF SetUserRole, Promise!Appoint
  <2> QED
    BY <1>1, <2>1 DEF Promise!Next, Exists
<1> QED
  BY <1>2, <1>3

LEMMA PromiseStep == AccountInv /\ [Next]_vars => [Promise!Next]_users
<1> SUFFICES ASSUME AccountInv, [Next]_vars PROVE [Promise!Next]_users
  OBVIOUS
<1>1. ASSUME NEW c \in Calls, InsertUser(c) PROVE [Promise!Next]_users
  BY <1>1, InsertJoins DEF InsertUser
<1>2. ASSUME NEW c \in Calls, Handle(c) PROVE [Promise!Next]_users
  BY <1>2, HandlerKeepsPromise DEF Handle
<1>3. ASSUME NEW c \in Calls, Throws(c) PROVE [Promise!Next]_users
  BY <1>3, InsertJoins, HandlerKeepsPromise DEF Throws
<1>4. ASSUME NEW c \in Calls, ComparePassword(c) \/ RequireAuth(c) PROVE [Promise!Next]_users
  BY <1>4 DEF ComparePassword, RequireAuth
<1>5. ASSUME NEW c \in Calls, NEW e \in Emails,
             \/ \E s \in Secrets : Register(c, e, s) \/ Login(c, e, s)
             \/ \E k \in tokens, op \in Ops : Request(c, k, op, e)
      PROVE  [Promise!Next]_users
  BY <1>5 DEF Register, Login, Request
<1>6. CASE (\E k \in tokens : ExpireToken(k)) \/ UNCHANGED vars
  BY <1>6 DEF ExpireToken, vars
<1> QED
  BY <1>1, <1>2, <1>3, <1>4, <1>5, <1>6 DEF Next, Goes

\* Accounts keep their promise: one opening, one secret, and changes only by
\* those who are or were administrators, whatever fails or is overtaken.
THEOREM AccountsKeepPromise == Spec => AccountPromiseKept
BY PromiseInit, PromiseStep, AccountInvariant, PTL
DEF Spec, AccountPromiseKept, Promise!Spec, users
=============================================================================
