--------------------------- MODULE MCAccountAdmin ---------------------------
(* Small instances of AccountAdmin.                                        *)
EXTENDS AccountAdmin

Points == {"insert", "compare", "auth", "handle", "insertAck", "handleAck"}
=============================================================================
