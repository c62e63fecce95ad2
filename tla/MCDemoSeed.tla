----------------------------- MODULE MCDemoSeed -----------------------------
(* Small instances of DemoSeed.                                            *)
EXTENDS DemoSeed

CONSTANTS admin, user1, user2

Demo == <<admin, user1, user2>>
Numbers == 0..9
=============================================================================
