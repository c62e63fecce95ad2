------------------------ MODULE MCTransferLifecycle ------------------------
(* Small instances of TransferLifecycle.                                   *)
EXTENDS TransferLifecycle, TLC

CONSTANTS t1, t2, r1, r2, r3

\* Two requests for the first transfer, one for the second.
TwiceAndOnce == (r1 :> t1 @@ r2 :> t1 @@ r3 :> t2)
Single == (r1 :> t1)

NoFaults == {}
Everywhere == {"unique", "lookup", "insert", "insertAck",
               "wait", "confirm", "confirmAck", "fail", "rescue"}

=============================================================================
