-------------------------- MODULE TransferPromise --------------------------
(***************************************************************************)
(* What the record of transfers promises: each transfer is entered at most *)
(* once, as pending; it is confirmed only if the chain executed it; and    *)
(* what it ends as, it stays.  A confirmation that was not acknowledged    *)
(* shows like another, but is unsure: it may yet be taken back.            *)
(***************************************************************************)
CONSTANT Transfers

VARIABLES
  executed,   \* the transfers the chain executed
  record      \* what the history shows of each

Init == executed = {} /\ record = [t \in Transfers |-> "none"]

Execute(t) ==
  /\ t \notin executed
  /\ executed' = executed \cup {t}
  /\ UNCHANGED record

Enter(t) ==
  /\ record[t] = "none"
  /\ record' = [record EXCEPT ![t] = "PENDING"]
  /\ UNCHANGED executed

Settle(t) ==
  /\ record[t] \in {"PENDING", "UNSURE"}
  /\ \/ /\ t \in executed
        /\ \E end \in {"CONFIRMED", "UNSURE"} : record' = [record EXCEPT ![t] = end]
     \/ record' = [record EXCEPT ![t] = "FAILED"]
  /\ UNCHANGED executed

\* When the backend stops, nothing is left to take a confirmation back; when
\* it starts, it settles everything it gives up on.
LeaveBe ==
  /\ record' = [t \in Transfers |-> IF record[t] = "UNSURE" THEN "CONFIRMED" ELSE record[t]]
  /\ UNCHANGED executed

GiveUp ==
  /\ \E stale \in SUBSET {t \in Transfers : record[t] = "PENDING"} :
       record' = [t \in Transfers |-> IF t \in stale THEN "FAILED" ELSE record[t]]
  /\ UNCHANGED executed

Next == LeaveBe \/ GiveUp \/ \E t \in Transfers : Execute(t) \/ Enter(t) \/ Settle(t)

Spec == Init /\ [][Next]_<<executed, record>>
=============================================================================
