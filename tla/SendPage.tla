------------------------------ MODULE SendPage ------------------------------
(***************************************************************************)
(* The page that sends tokens (frontend/src/pages/SendTokens.jsx), in      *)
(* several tabs of one user, against the chain and the history of          *)
(* transfers, which is taken to keep TransferPromise.                      *)
(*                                                                         *)
(* A submission checks the balance the page read before, estimates, asks   *)
(* the node for a nonce, signs and sends, and only then posts the hash to  *)
(* the backend.  The panel of a transfer that was posted is polled.        *)
(* Answers to reads and polls arrive in any order, also when the page has  *)
(* gone on meanwhile.                                                      *)
(*                                                                         *)
(* Every transfer moves one token; the wallet is funded and has gas, its   *)
(* key is in the browser, and what the form holds passes its checks.  A    *)
(* submission takes a hash that no other carries.  The code's "signing" is *)
(* here the await it is at, and so is "submitting".                        *)
(***************************************************************************)
EXTENDS Integers, FiniteSets

CONSTANTS
  Tabs,
  Transfers,     \* bound: the transfers that can be under way, by their hash
  NoTransfer,
  Tokens,        \* what the wallet holds at first
  FaultPoints,   \* awaits that may fail; with "Ack", after they took effect
  MaxFaults      \* bound: failures in a behaviour

ASSUME SendAssumption == NoTransfer \notin Transfers /\ Tokens \in Nat
ASSUME SendBounds == IsFiniteSet(Transfers) /\ MaxFaults \in Nat

VARIABLES
  page,      \* each tab: what it does, its transfer, the status and balance it knows
  ask,       \* its read of the wallet: "none", "first" or "silent" (bound: one
             \* that the backend has not begun to answer)
  loads,     \* answers to such reads on their way
  polls,     \* answers to polls of the history on their way
  fate,      \* what became of each transfer on the chain
  nonce,     \* and the nonce it was signed with
  record,    \* the history: the status of each transfer
  faults     \* how much of the bound is used

reads == <<ask, loads, polls>>
chain == <<fate, nonce>>
vars == <<page, reads, chain, record, faults>>

NoBalance == -1
NoNonce == -1

\* transferState, with the await a submission is at for "signing" (the first
\* three) and "submitting".
Signing == {"estimate", "populate", "send"}
Submitting == {"post", "answer"}
States == {"away", "idle", "pending", "error"} \cup Signing \cup Submitting
Fates == {"unsent", "pool", "mined", "reverted"}
Settled == {"CONFIRMED", "FAILED"}

Blank == [state |-> "away", tx |-> NoTransfer, shown |-> "none",
          balance |-> NoBalance, loading |-> FALSE]

Init ==
  /\ page = [t \in Tabs |-> Blank]
  /\ ask = [t \in Tabs |-> "none"]
  /\ loads = {} /\ polls = {}
  /\ fate = [x \in Transfers |-> "unsent"]
  /\ nonce = [x \in Transfers |-> NoNonce]
  /\ record = [x \in Transfers |-> "none"]
  /\ faults = 0

Fail(point) ==
  /\ point \in FaultPoints /\ faults < MaxFaults
  /\ faults' = faults + 1

-----------------------------------------------------------------------------
(* The chain and the history.                                              *)

With(end) == {x \in Transfers : fate[x] = end}
Balance == Tokens - Cardinality(With("mined"))
Sent == Transfers \ With("unsent")

\* Nothing is dropped: the nonces sent are 0 up to their number.
PendingNonce == Cardinality(Sent)
NonceFree(n) == \A x \in Sent : nonce[x] # n

Mine(x) ==
  /\ fate[x] = "pool"
  /\ nonce[x] = Cardinality(With("mined") \cup With("reverted"))
  /\ fate' = [fate EXCEPT ![x] = IF Balance > 0 THEN "mined" ELSE "reverted"]
  /\ UNCHANGED <<page, reads, nonce, record, faults>>

History ==
  INSTANCE TransferPromise WITH executed <- With("mined"), record <- record

Settle(x) ==
  /\ UNCHANGED <<page, reads, chain, faults>>
  /\ History!Settle(x)

-----------------------------------------------------------------------------
(* Opening and leaving the page, and its reads of the wallet.              *)

Busy(t) == page[t].state \in Signing \cup Submitting

Open(t) ==
  /\ page[t].state = "away"
  /\ page' = [page EXCEPT ![t] = [Blank EXCEPT !.state = "idle", !.loading = TRUE]]
  /\ ask' = [ask EXCEPT ![t] = "first"]
  /\ UNCHANGED <<loads, polls, chain, record, faults>>

\* Nothing that is still on its way finds the page.
Forget(t) ==
  /\ page' = [page EXCEPT ![t] = Blank]
  /\ ask' = [ask EXCEPT ![t] = "none"]
  /\ loads' = {l \in loads : l.tab # t}
  /\ polls' = {p \in polls : p.tab # t}
  /\ UNCHANGED <<chain, record>>

\* "Back" is disabled while the page is busy; closing the tab is not.
Leave(t) ==
  /\ page[t].state # "away"
  /\ IF Busy(t) THEN Fail("close") ELSE UNCHANGED faults
  /\ Forget(t)

\* The backend reads the balances; live balances may not be available.
ReadWallet(t) ==
  /\ ask[t] # "none"
  /\ ask' = [ask EXCEPT ![t] = "none"]
  /\ \E b \in {Balance, NoBalance} :
       /\ loads' = loads \cup {[tab |-> t, first |-> ask[t] = "first", balance |-> b]}
       /\ IF b = NoBalance THEN Fail("balance") ELSE UNCHANGED faults
  /\ UNCHANGED <<page, polls, chain, record>>

\* setWallet, with whatever was read, however long ago.
WalletLoaded(l) ==
  /\ page' = [page EXCEPT ![l.tab].balance = l.balance,
                          ![l.tab].loading = @ /\ ~l.first]
  /\ loads' = loads \ {l}
  /\ UNCHANGED <<ask, polls, chain, record, faults>>

\* A first read that fails leaves a page without a wallet; a silent one is ignored.
WalletFails(t) ==
  /\ ask[t] # "none" /\ Fail("load")
  /\ page' = IF ask[t] = "first"
             THEN [page EXCEPT ![t] = [Blank EXCEPT !.state = "error"]] ELSE page
  /\ ask' = [ask EXCEPT ![t] = "none"]
  /\ UNCHANGED <<loads, polls, chain, record>>

-----------------------------------------------------------------------------
(* handleSubmit.                                                           *)

Goto(t, state) == page' = [page EXCEPT ![t].state = state]

\* What the catch of handleSubmit does, whatever was thrown.
CatchNothing(t) == UNCHANGED page

Catch(t) == Goto(t, "error")

PanelShown(t) == page[t].state = "pending"

\* The form is enabled.
CanUseSendTokens(t) ==
  /\ page[t].state # "away" /\ ~Busy(t) /\ ~page[t].loading
  /\ page[t].balance # NoBalance

\* The first checks run against the balance the page knows.
Submit(t, x) ==
  /\ CanUseSendTokens(t)
  /\ fate[x] = "unsent" /\ \A u \in Tabs : page[u].tx # x
  /\ page' = [page EXCEPT ![t].tx = x, ![t].shown = "none",
                ![t].state = IF page[t].balance > 0 THEN "estimate" ELSE "error"]
  /\ UNCHANGED <<reads, chain, record, faults>>

EstimateTransferNativeCost(t) ==
  /\ page[t].state = "estimate"
  /\ IF Balance > 0 THEN Goto(t, "populate") ELSE Catch(t)
  /\ UNCHANGED <<reads, chain, record, faults>>

\* contract.transfer estimates once more and asks for the nonce.
Populate(t) ==
  /\ page[t].state = "populate"
  /\ \/ /\ Balance > 0 /\ Goto(t, "send")
        /\ nonce' = [nonce EXCEPT ![page[t].tx] = PendingNonce]
     \/ Balance <= 0 /\ Catch(t) /\ UNCHANGED nonce
  /\ UNCHANGED <<reads, fate, record, faults>>

Accept(x) == NonceFree(nonce[x]) /\ fate' = [fate EXCEPT ![x] = "pool"]

\* Another tab may have sent with the nonce meanwhile.
BroadcastTokenTransfer(t) ==
  LET x == page[t].tx IN
  /\ page[t].state = "send"
  /\ \/ Accept(x) /\ Goto(t, "post")
     \/ ~NonceFree(nonce[x]) /\ Catch(t) /\ UNCHANGED fate
  /\ UNCHANGED <<reads, nonce, record, faults>>

\* The backend records the transfer.
TransferTokens(t) ==
  /\ page[t].state = "post"
  /\ UNCHANGED <<reads, chain, faults>>
  /\ History!Enter(page[t].tx)
  /\ Goto(t, "answer")

\* Its answer carries the row as it was entered.
Submitted(t) ==
  /\ page[t].state = "answer"
  /\ page' = [page EXCEPT ![t].state = "pending", ![t].shown = "PENDING"]
  /\ ask' = [ask EXCEPT ![t] = IF @ = "none" THEN "silent" ELSE @]
  /\ UNCHANGED <<loads, polls, chain, record, faults>>

SubmitThrows(t) ==
  /\ Busy(t)
  /\ Catch(t)
  /\ \/ Fail(page[t].state) /\ UNCHANGED <<fate, record>>
     \/ /\ page[t].state = "send" /\ Fail("sendAck")
        /\ Accept(page[t].tx) /\ UNCHANGED record
  /\ UNCHANGED <<reads, nonce>>

\* An error is cleared by its text; the state of the form is then as if idle.
ClearFeedbackOnEdit(t) ==
  /\ CanUseSendTokens(t) /\ page[t].state \in {"pending", "error"}
  /\ page' = [page EXCEPT ![t].state = "idle", ![t].tx = NoTransfer, ![t].shown = "none"]
  /\ UNCHANGED <<reads, chain, record, faults>>

-----------------------------------------------------------------------------
(* The polling of the panel.                                               *)

\* What a poll reads; it has no effect while the row is pending.  An unsure
\* confirmation shows like another.
StatusOf(x) == IF record[x] = "UNSURE" THEN "CONFIRMED" ELSE record[x]

PollsSubmitting(t) == page[t].state = "answer" /\ page[t].shown = "PENDING"

PollsPanel(t) == PanelShown(t) /\ page[t].shown = "PENDING"

Poll(t) ==
  LET x == page[t].tx IN
  /\ PollsPanel(t) /\ StatusOf(x) \in Settled
  /\ polls' = polls \cup {[tab |-> t, tx |-> x, status |-> StatusOf(x)]}
  /\ UNCHANGED <<page, ask, loads, chain, record, faults>>

\* Only for the transfer that is still shown.
AppliesAlways(p) == PanelShown(p.tab)

Applies(p) == PanelShown(p.tab) /\ page[p.tab].tx = p.tx

Polled(p) ==
  /\ page' = IF Applies(p) THEN [page EXCEPT ![p.tab].shown = p.status] ELSE page
  /\ polls' = polls \ {p}
  /\ UNCHANGED <<ask, loads, chain, record, faults>>

-----------------------------------------------------------------------------
Submits(t) ==
  \/ EstimateTransferNativeCost(t) \/ Populate(t) \/ BroadcastTokenTransfer(t)
  \/ TransferTokens(t) \/ Submitted(t)

PollAnswers(t) == \E p \in polls : p.tab = t /\ Polled(p)

Next ==
  \/ \E t \in Tabs :
       \/ Open(t) \/ Leave(t) \/ ReadWallet(t) \/ WalletFails(t)
       \/ Submits(t) \/ SubmitThrows(t) \/ ClearFeedbackOnEdit(t)
       \/ Poll(t) \/ PollAnswers(t)
       \/ \E x \in Transfers : Submit(t, x)
  \/ \E l \in loads : WalletLoaded(l)
  \/ \E x \in Transfers : Mine(x) \/ Settle(x)

Spec == Init /\ [][Next]_vars

\* Requests are answered, a panel polls, the history settles what is pending.
FairSpec ==
  /\ Spec
  /\ \A t \in Tabs : WF_vars(Submits(t)) /\ WF_vars(Poll(t)) /\ WF_vars(PollAnswers(t))
  /\ \A x \in Transfers : WF_vars(Settle(x))

-----------------------------------------------------------------------------
(* Properties.                                                             *)

SendTypeOK ==
  /\ page \in [Tabs -> [state : States, tx : Transfers \cup {NoTransfer},
                        shown : {"none", "PENDING"} \cup Settled,
                        balance : 0..Tokens \cup {NoBalance}, loading : BOOLEAN]]
  /\ ask \in [Tabs -> {"none", "first", "silent"}]
  /\ loads \subseteq [tab : Tabs, first : BOOLEAN, balance : 0..Tokens \cup {NoBalance}]
  /\ polls \subseteq [tab : Tabs, tx : Transfers, status : Settled]
  /\ fate \in [Transfers -> Fates]
  /\ nonce \in [Transfers -> 0..Cardinality(Transfers) \cup {NoNonce}]
  /\ record \in [Transfers -> {"none", "PENDING", "UNSURE"} \cup Settled]
  /\ faults \in 0..MaxFaults

\* The panel speaks of the transfer it names: this one is in the history, was
\* executed if it is shown as confirmed and failed there if shown as failed,
\* whatever late answers about earlier transfers of the page still arrive, and
\* though a confirmation that was shown may be taken back.
PanelTellsRecord ==
  \A t \in Tabs : PanelShown(t) =>
    /\ record[page[t].tx] # "none"
    /\ page[t].shown = "CONFIRMED" => fate[page[t].tx] = "mined"
    /\ page[t].shown = "FAILED" => record[page[t].tx] = "FAILED"

\* A tab that submits, or shows the panel, is on a transfer of its own, which
\* is not sent before it is signed, and is in the history once that answered.
TabsApart ==
  \A t \in Tabs :
    /\ Busy(t) \/ PanelShown(t) => page[t].tx \in Transfers
    /\ page[t].state \in Signing => fate[page[t].tx] = "unsent"
    /\ page[t].state \in {"answer", "pending"} => record[page[t].tx] # "none"
    /\ \A u \in Tabs \ {t} : page[t].tx = page[u].tx => page[t].tx = NoTransfer

\* The history and the answers to polls say what happened, however late.
AnswersTellRecord ==
  /\ \A x \in Transfers : record[x] \in {"CONFIRMED", "UNSURE"} => fate[x] = "mined"
  /\ \A p \in polls : /\ p.status = "CONFIRMED" => fate[p.tx] = "mined"
                      /\ p.status = "FAILED" => record[p.tx] = "FAILED"

NeverOverdrawn == Cardinality(With("mined")) <= Tokens

\* The page is well formed and its panel truthful; and what that rests on.
SendInv ==
  SendTypeOK /\ PanelTellsRecord /\ TabsApart /\ AnswersTellRecord /\ NeverOverdrawn

\* A page does not stay busy, in which its form and its way back are disabled.
BusyEnds == \A t \in Tabs : Busy(t) ~> ~Busy(t)

\* A panel that shows PENDING is settled in the end, unless it is closed.
PanelSettles ==
  \A t \in Tabs : page[t].shown = "PENDING" ~> page[t].shown # "PENDING"
=============================================================================
