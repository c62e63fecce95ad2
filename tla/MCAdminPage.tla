----------------------------- MODULE MCAdminPage -----------------------------
(* Small instances of AdminPage.                                           *)
EXTENDS AdminPage

CONSTANTS admin, other
=============================================================================
