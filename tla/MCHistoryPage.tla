---------------------------- MODULE MCHistoryPage ----------------------------
(* Small instances of HistoryPage.                                         *)
EXTENDS HistoryPage, TLC

CONSTANTS t1, t2
=============================================================================
