---------------------------- MODULE MCSendPage ----------------------------
(* Small instances of SendPage.                                            *)
EXTENDS SendPage

AllFaults == Signing \cup Submitting \cup {"sendAck", "close", "balance", "load"}
=============================================================================
