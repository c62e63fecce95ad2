--------------------------- MODULE FundingPromise ---------------------------
(***************************************************************************)
(* What the funding of wallets promises, without workers, tables or nonces:*)
(* a wallet receives its gas, then its tokens, each at most once, and is   *)
(* declared ready when it holds both, for good.                            *)
(***************************************************************************)
CONSTANT Wallets

VARIABLES
  funds,   \* what each wallet was paid, of "gas" and "token"
  ready    \* the wallets declared ready

Init == funds = [w \in Wallets |-> {}] /\ ready = {}

PayGas(w) ==
  /\ "gas" \notin funds[w]
  /\ funds' = [funds EXCEPT ![w] = @ \cup {"gas"}]
  /\ UNCHANGED ready

PayTokens(w) ==
  /\ funds[w] = {"gas"}
  /\ funds' = [funds EXCEPT ![w] = @ \cup {"token"}]
  /\ UNCHANGED ready

DeclareReady(w) ==
  /\ funds[w] = {"gas", "token"} /\ w \notin ready
  /\ ready' = ready \cup {w}
  /\ UNCHANGED funds

Next == \E w \in Wallets : PayGas(w) \/ PayTokens(w) \/ DeclareReady(w)

Spec == Init /\ [][Next]_<<funds, ready>>
=============================================================================
