--------------------------- MODULE AccountPromise ---------------------------
(***************************************************************************)
(* What accounts promise: an email gets an account once, as an ordinary    *)
(* user, with the secret it was opened with and keeps; and only one who    *)
(* has been made an administrator changes what an account may do, never to *)
(* freeze its own.                                                         *)
(***************************************************************************)
CONSTANTS Emails, Secrets, NoSecret, Roles

VARIABLES
  secret, role, frozen,   \* the accounts
  trusted                 \* those who are or have been administrators

Init ==
  /\ secret \in [Emails -> Secrets \cup {NoSecret}]
  /\ role \in [Emails -> Roles]
  /\ frozen = [e \in Emails |-> FALSE]
  /\ trusted = {e \in Emails : role[e] = "ADMIN"}

Join(e) ==
  /\ secret[e] = NoSecret
  /\ \E s \in Secrets : secret' = [secret EXCEPT ![e] = s]
  /\ role[e] = "USER" /\ ~frozen[e]
  /\ UNCHANGED <<role, frozen, trusted>>

Freeze(by, e) ==
  /\ \E b \in BOOLEAN :
       /\ b => by # e
       /\ frozen' = [frozen EXCEPT ![e] = b]
  /\ UNCHANGED <<secret, role, trusted>>

Appoint(e) ==
  /\ \E r \in Roles :
       /\ role' = [role EXCEPT ![e] = r]
       /\ trusted' = IF r = "ADMIN" THEN trusted \cup {e} ELSE trusted
  /\ UNCHANGED <<secret, frozen>>

Next ==
  \E e \in Emails :
    \/ Join(e)
    \/ /\ secret[e] # NoSecret
       /\ \E by \in trusted : Freeze(by, e) \/ Appoint(e)

Spec == Init /\ [][Next]_<<secret, role, frozen, trusted>>
=============================================================================
