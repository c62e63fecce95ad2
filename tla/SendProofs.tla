------------------------------ MODULE SendProofs ------------------------------
(***************************************************************************)
(* Proofs about SendPage, for any tabs, transfers and bounds.              *)
(***************************************************************************)
EXTENDS SendPage, FiniteSetTheorems, TLAPS

\* What the page, its requests and the chain may hold, one tab at a time.
Pages ==
  [state : States, tx : Transfers \cup {NoTransfer},
   shown : {"none", "PENDING"} \cup Settled,
   balance : 0..Tokens \cup {NoBalance}, loading : BOOLEAN]

LEMMA Typed ==
  ASSUME SendTypeOK
  PROVE  /\ page \in [Tabs -> Pages]
         /\ ask \in [Tabs -> {"none", "first", "silent"}]
         /\ fate \in [Transfers -> Fates]
         /\ nonce \in [Transfers -> 0..Cardinality(Transfers) \cup {NoNonce}]
         /\ record \in [Transfers -> {"none", "PENDING", "UNSURE"} \cup Settled]
         /\ \A t \in Tabs : page[t] \in Pages
BY DEF SendTypeOK, Pages

\* Sets of transfers can be counted.
LEMMA Counted ==
  ASSUME NEW S \in SUBSET Transfers
  PROVE  /\ IsFiniteSet(S) /\ Cardinality(S) \in Nat
         /\ Cardinality(S) <= Cardinality(Transfers)
BY SendBounds, FS_Subset, FS_CardinalityType

\* The balance is never below zero, and the next nonce is one of the bound.
LEMMA Numbers ==
  ASSUME SendTypeOK, NeverOverdrawn
  PROVE  /\ Balance \in 0..Tokens /\ NoBalance \notin 0..Tokens
         /\ PendingNonce \in 0..Cardinality(Transfers)
<1>1. With("mined") \subseteq Transfers /\ Sent \subseteq Transfers
  BY DEF With, Sent
<1>2. Cardinality(With("mined")) \in Nat /\ Cardinality(Sent) \in Nat
      /\ Cardinality(Sent) <= Cardinality(Transfers) /\ Cardinality(Transfers) \in Nat
  BY <1>1, Counted
<1> QED
  BY <1>2, SendAssumption DEF Balance, NeverOverdrawn, NoBalance, PendingNonce

-----------------------------------------------------------------------------
(* Types.                                                                  *)

LEMMA PageTyped ==
  ASSUME SendTypeOK, NEW t \in Tabs, NEW row \in Pages, page' = [page EXCEPT ![t] = row]
  PROVE  page' \in [Tabs -> Pages]
BY Typed

LEMMA GotoTyped ==
  ASSUME SendTypeOK, NEW t \in Tabs, NEW state \in States, Goto(t, state)
  PROVE  page' \in [Tabs -> Pages]
<1>1. [page[t] EXCEPT !.state = state] \in Pages
  BY Typed DEF Pages
<1> QED
  BY <1>1, Typed DEF Goto

LEMMA FateTyped ==
  ASSUME SendTypeOK, NEW x, Accept(x)
  PROVE  fate' \in [Transfers -> Fates]
BY Typed DEF Accept, Fates

LEMMA StateNames ==
  /\ {"away", "idle", "pending", "error"} \cup Signing \cup Submitting = States
  /\ Signing = {"estimate", "populate", "send"} /\ Submitting = {"post", "answer"}
BY DEF States, Signing, Submitting

LEMMA FaultsTyped ==
  ASSUME SendTypeOK, NEW point, Fail(point)
  PROVE  faults' \in 0..MaxFaults
BY SendBounds DEF Fail, SendTypeOK

\* The parts that a step may write keep the types when they are typed.
LEMMA AllTyped ==
  ASSUME SendTypeOK,
         page' \in [Tabs -> Pages],
         ask' \in [Tabs -> {"none", "first", "silent"}],
         loads' \subseteq [tab : Tabs, first : BOOLEAN, balance : 0..Tokens \cup {NoBalance}],
         polls' \subseteq [tab : Tabs, tx : Transfers, status : Settled],
         fate' \in [Transfers -> Fates],
         nonce' \in [Transfers -> 0..Cardinality(Transfers) \cup {NoNonce}],
         record' \in [Transfers -> {"none", "PENDING", "UNSURE"} \cup Settled],
         faults' \in 0..MaxFaults
  PROVE  SendTypeOK'
BY DEF SendTypeOK, Pages

LEMMA PageStepTyped ==
  ASSUME SendTypeOK, NeverOverdrawn, NEW t \in Tabs,
         \/ Open(t) \/ Leave(t) \/ ReadWallet(t) \/ WalletFails(t)
         \/ \E l \in loads : WalletLoaded(l)
  PROVE  SendTypeOK'
<1> USE DEF chain, reads
<1>0. /\ Blank \in Pages /\ [Blank EXCEPT !.state = "idle", !.loading = TRUE] \in Pages
      /\ [Blank EXCEPT !.state = "error"] \in Pages
  BY DEF Blank, Pages, States
<1>1. CASE Open(t)
  <2>1. page' \in [Tabs -> Pages]
    BY <1>0, <1>1, PageTyped DEF Open
  <2>2. ask' \in [Tabs -> {"none", "first", "silent"}]
    BY <1>1, Typed DEF Open
  <2> QED
    BY <1>1, <2>1, <2>2, AllTyped DEF Open, SendTypeOK
<1>2. CASE Leave(t)
  <2>1. page' \in [Tabs -> Pages]
    BY <1>0, <1>2, PageTyped DEF Leave, Forget
  <2>2. ask' \in [Tabs -> {"none", "first", "silent"}]
    BY <1>2, Typed DEF Leave, Forget
  <2>3. faults' \in 0..MaxFaults
    BY <1>2, FaultsTyped DEF Leave, SendTypeOK
  <2> QED
    BY <1>2, <2>1, <2>2, <2>3, AllTyped DEF Leave, Forget, SendTypeOK
<1>3. CASE ReadWallet(t)
  <2>1. PICK b \in {Balance, NoBalance} :
          /\ loads' = loads \cup {[tab |-> t, first |-> ask[t] = "first", balance |-> b]}
          /\ IF b = NoBalance THEN Fail("balance") ELSE UNCHANGED faults
    BY <1>3 DEF ReadWallet
  <2>2. b \in 0..Tokens \cup {NoBalance}
    BY Numbers
  <2>3. faults' \in 0..MaxFaults
    BY <2>1, FaultsTyped DEF SendTypeOK
  <2>4. ask' \in [Tabs -> {"none", "first", "silent"}]
    BY <1>3, Typed DEF ReadWallet
  <2>5. loads' \subseteq [tab : Tabs, first : BOOLEAN, balance : 0..Tokens \cup {NoBalance}]
    <3>1. (ask[t] = "first") \in BOOLEAN
      OBVIOUS
    <3>2. loads \subseteq [tab : Tabs, first : BOOLEAN, balance : 0..Tokens \cup {NoBalance}]
      BY DEF SendTypeOK
    <3>3. PICK first \in BOOLEAN : first = (ask[t] = "first")
      BY <3>1
    <3>4. loads' = loads \cup {[tab |-> t, first |-> first, balance |-> b]}
      BY <2>1, <3>3
    <3> QED
      BY <2>2, <3>2, <3>4
  <2> QED
    BY <1>3, <2>3, <2>4, <2>5, AllTyped DEF ReadWallet, SendTypeOK, Pages
<1>4. CASE WalletFails(t)
  <2>1. page' \in [Tabs -> Pages]
    BY <1>0, <1>4, PageTyped, Typed DEF WalletFails
  <2>2. ask' \in [Tabs -> {"none", "first", "silent"}]
    BY <1>4, Typed DEF WalletFails
  <2>3. faults' \in 0..MaxFaults
    BY <1>4, FaultsTyped DEF WalletFails
  <2> QED
    BY <1>4, <2>1, <2>2, <2>3, AllTyped DEF WalletFails, SendTypeOK
<1>5. ASSUME NEW l \in loads, WalletLoaded(l)
      PROVE  SendTypeOK'
  <2>1. l.tab \in Tabs /\ l.balance \in 0..Tokens \cup {NoBalance} /\ l.first \in BOOLEAN
    BY DEF SendTypeOK
  <2>2. page' \in [Tabs -> Pages]
    BY <1>5, <2>1, Typed DEF WalletLoaded, Pages
  <2> QED
    BY <1>5, <2>2, AllTyped DEF WalletLoaded, SendTypeOK
<1> QED
  BY <1>1, <1>2, <1>3, <1>4, <1>5

LEMMA SubmitStepTyped ==
  ASSUME SendTypeOK, NeverOverdrawn, TabsApart, NEW t \in Tabs,
         Submits(t) \/ SubmitThrows(t) \/ ClearFeedbackOnEdit(t)
           \/ \E x \in Transfers : Submit(t, x)
  PROVE  SendTypeOK'
<1> USE DEF chain, reads
<1>0. {"error", "populate", "send", "post", "answer", "estimate"} \subseteq States
  BY StateNames
<1>1. ASSUME NEW x \in Transfers, Submit(t, x)
      PROVE  SendTypeOK'
  <2>1. page' \in [Tabs -> Pages]
    <3> DEFINE state == IF page[t].balance > 0 THEN "estimate" ELSE "error"
               row == [page[t] EXCEPT !.tx = x, !.shown = "none", !.state = state]
    <3>1. state \in States
      BY <1>0
    <3>2. row \in Pages
      BY <3>1, Typed DEF Pages
    <3>3. page' = [page EXCEPT ![t] = row]
      BY <1>1, Typed DEF Submit
    <3> QED
      BY <3>2, <3>3, PageTyped
  <2> QED
    BY <1>1, <2>1, AllTyped DEF Submit, SendTypeOK
<1>2. CASE EstimateTransferNativeCost(t)
  <2>1. page' \in [Tabs -> Pages]
    BY <1>0, <1>2, GotoTyped DEF EstimateTransferNativeCost, Catch
  <2> QED
    BY <1>2, <2>1, AllTyped DEF EstimateTransferNativeCost, SendTypeOK
<1>3. CASE Populate(t)
  <2>1. page' \in [Tabs -> Pages]
    BY <1>0, <1>3, GotoTyped DEF Populate, Catch
  <2>2. nonce' \in [Transfers -> 0..Cardinality(Transfers) \cup {NoNonce}]
    BY <1>3, Numbers, Typed DEF Populate
  <2> QED
    BY <1>3, <2>1, <2>2, AllTyped DEF Populate, SendTypeOK
<1>4. CASE BroadcastTokenTransfer(t)
  <2>1. page' \in [Tabs -> Pages]
    BY <1>0, <1>4, GotoTyped DEF BroadcastTokenTransfer, Catch
  <2>2. fate' \in [Transfers -> Fates]
    BY <1>4, FateTyped, Typed DEF BroadcastTokenTransfer
  <2> QED
    BY <1>4, <2>1, <2>2, AllTyped DEF BroadcastTokenTransfer, SendTypeOK
<1>5. CASE TransferTokens(t)
  <2>1. page' \in [Tabs -> Pages]
    BY <1>0, <1>5, GotoTyped DEF TransferTokens
  <2>2. record' \in [Transfers -> {"none", "PENDING", "UNSURE"} \cup Settled]
    BY <1>5, Typed DEF TransferTokens, History!Enter
  <2> QED
    BY <1>5, <2>1, <2>2, AllTyped DEF TransferTokens, SendTypeOK
<1>6. CASE Submitted(t)
  <2>1. page' \in [Tabs -> Pages]
    BY <1>0, <1>6, Typed DEF Submitted, Pages, States
  <2>2. ask' \in [Tabs -> {"none", "first", "silent"}]
    BY <1>6, Typed DEF Submitted
  <2> QED
    BY <1>6, <2>1, <2>2, AllTyped DEF Submitted, SendTypeOK
<1>7. CASE SubmitThrows(t)
  <2>1. page' \in [Tabs -> Pages]
    BY <1>0, <1>7, GotoTyped DEF SubmitThrows, Catch
  <2>2. fate' \in [Transfers -> Fates]
    BY <1>7, FateTyped, Typed DEF SubmitThrows
  <2>3. faults' \in 0..MaxFaults
    BY <1>7, FaultsTyped DEF SubmitThrows
  <2> QED
    BY <1>7, <2>1, <2>2, <2>3, AllTyped DEF SubmitThrows, SendTypeOK
<1>8. CASE ClearFeedbackOnEdit(t)
  <2>1. page' \in [Tabs -> Pages]
    <3> DEFINE row == [page[t] EXCEPT !.state = "idle", !.tx = NoTransfer, !.shown = "none"]
    <3>1. row \in Pages
      BY Typed DEF Pages, States
    <3>2. page' = [page EXCEPT ![t] = row]
      BY <1>8, Typed DEF ClearFeedbackOnEdit
    <3> QED
      BY <3>1, <3>2, PageTyped
  <2> QED
    BY <1>8, <2>1, AllTyped DEF ClearFeedbackOnEdit, SendTypeOK
<1> QED
  BY <1>1, <1>2, <1>3, <1>4, <1>5, <1>6, <1>7, <1>8 DEF Submits

LEMMA PollStepTyped ==
  ASSUME SendTypeOK, TabsApart, NEW t \in Tabs,
         Poll(t) \/ \E p \in polls : Polled(p)
  PROVE  SendTypeOK'
<1> USE DEF chain, reads
<1>1. CASE Poll(t)
  <2>1. page[t].tx \in Transfers
    BY <1>1 DEF Poll, PollsPanel, TabsApart
  <2>2. polls' \subseteq [tab : Tabs, tx : Transfers, status : Settled]
    BY <1>1, <2>1 DEF Poll, SendTypeOK
  <2> QED
    BY <1>1, <2>2, AllTyped DEF Poll, SendTypeOK, Pages
<1>2. ASSUME NEW p \in polls, Polled(p)
      PROVE  SendTypeOK'
  <2>1. p.tab \in Tabs /\ p.status \in Settled
    BY DEF SendTypeOK
  <2>2. page' \in [Tabs -> Pages]
    BY <1>2, <2>1, Typed DEF Polled, Pages
  <2> QED
    BY <1>2, <2>2, AllTyped DEF Polled, SendTypeOK
<1> QED
  BY <1>1, <1>2

LEMMA ChainStepTyped ==
  ASSUME SendTypeOK, NEW x \in Transfers, Mine(x) \/ Settle(x)
  PROVE  SendTypeOK'
<1> USE DEF chain, reads
<1>1. CASE Mine(x)
  <2>1. fate' \in [Transfers -> Fates]
    BY <1>1, Typed DEF Mine, Fates
  <2> QED
    BY <1>1, <2>1, AllTyped DEF Mine, SendTypeOK, Pages
<1>2. CASE Settle(x)
  <2>1. record' \in [Transfers -> {"none", "PENDING", "UNSURE"} \cup Settled]
    BY <1>2, Typed DEF Settle, History!Settle, Settled
  <2> QED
    BY <1>2, <2>1, AllTyped DEF Settle, SendTypeOK, Pages
<1> QED
  BY <1>1, <1>2

\* The steps by the part of the page they belong to.
LEMMA NextSplit ==
  ASSUME SendTypeOK
  PROVE  Next <=> \/ \E t \in Tabs :
                       \/ Open(t) \/ Leave(t) \/ ReadWallet(t) \/ WalletFails(t)
                       \/ Submits(t) \/ SubmitThrows(t) \/ ClearFeedbackOnEdit(t)
                       \/ \E x \in Transfers : Submit(t, x)
                       \/ Poll(t)
                  \/ \E l \in loads : WalletLoaded(l)
                  \/ \E p \in polls : Polled(p)
                  \/ \E x \in Transfers : Mine(x) \/ Settle(x)
BY DEF Next, PollAnswers, SendTypeOK

LEMMA TypeStep ==
  ASSUME SendTypeOK, NeverOverdrawn, TabsApart, [Next]_vars
  PROVE  SendTypeOK'
<1>1. CASE UNCHANGED vars
  BY <1>1 DEF vars, reads, chain, SendTypeOK
<1>2. \A l \in loads : l.tab \in Tabs
  BY DEF SendTypeOK
<1>3. \A p \in polls : p.tab \in Tabs
  BY DEF SendTypeOK
<1> QED
  BY <1>1, <1>2, <1>3, NextSplit, PageStepTyped, SubmitStepTyped, PollStepTyped,
     ChainStepTyped

-----------------------------------------------------------------------------
(* Safety.                                                                 *)

\* What is settled in the history or on the chain stays so; only a tab that
\* signs sends a transfer, and only the tab that posts enters one.
LEMMA OnlyForward ==
  ASSUME SendTypeOK, TabsApart, [Next]_vars, NEW x \in Transfers
  PROVE  /\ fate[x] = "mined" => fate'[x] = "mined"
         /\ record[x] # "none" => record'[x] # "none"
         /\ record[x] = "FAILED" => record'[x] = "FAILED"
         /\ record'[x] \in {"CONFIRMED", "UNSURE"}
              => record[x] \in {"CONFIRMED", "UNSURE"} \/ fate[x] = "mined"
         /\ fate[x] = "unsent" /\ fate'[x] # "unsent"
              => \E t \in Tabs : page[t].state = "send" /\ page[t].tx = x
                                 /\ page'[t].state \notin Signing
<1> USE Typed DEF chain, reads
<1>1. ASSUME UNCHANGED <<fate, record>>
      PROVE  /\ fate'[x] = fate[x] /\ record'[x] = record[x]
  BY <1>1
<1>2. ASSUME NEW t \in Tabs, page[t].state = "send", Accept(page[t].tx), UNCHANGED record,
             page'[t].state \notin Signing
      PROVE  /\ record'[x] = record[x]
             /\ fate[x] = "mined" => fate'[x] = "mined"
             /\ fate[x] = "unsent" /\ fate'[x] # "unsent" => page[t].tx = x
  <2>1. page[t].tx \in Transfers /\ fate[page[t].tx] = "unsent"
    BY <1>2 DEF TabsApart, Busy, Signing
  <2> QED
    BY <1>2, <2>1 DEF Accept
<1>3. ASSUME NEW t \in Tabs, BroadcastTokenTransfer(t) \/ SubmitThrows(t), fate' # fate
      PROVE  /\ page[t].state = "send" /\ Accept(page[t].tx) /\ UNCHANGED record
             /\ page'[t].state \notin Signing
  BY <1>3, StateNames DEF BroadcastTokenTransfer, SubmitThrows, Goto, Catch, Pages
<1>4. ASSUME NEW t \in Tabs, TransferTokens(t)
      PROVE  /\ fate'[x] = fate[x]
             /\ record[x] # "none" => record'[x] = record[x]
             /\ record'[x] # record[x] => record'[x] = "PENDING"
  BY <1>4 DEF TransferTokens, History!Enter
<1>5. ASSUME NEW y \in Transfers, Mine(y)
      PROVE  /\ record'[x] = record[x]
             /\ fate[x] = "mined" => fate'[x] = "mined"
             /\ fate[x] = "unsent" => fate'[x] = "unsent"
  BY <1>5 DEF Mine
<1>6. ASSUME NEW y \in Transfers, Settle(y)
      PROVE  /\ fate'[x] = fate[x]
             /\ record[x] # "none" => record'[x] # "none"
             /\ record[x] = "FAILED" => record'[x] = "FAILED"
             /\ record'[x] \in {"CONFIRMED", "UNSURE"}
                  => record[x] \in {"CONFIRMED", "UNSURE"} \/ fate[x] = "mined"
  BY <1>6 DEF Settle, History!Settle, With
<1>7. CASE UNCHANGED vars
  BY <1>1, <1>7 DEF vars
<1>8. ASSUME NEW t \in Tabs, SubmitThrows(t)
      PROVE  UNCHANGED record
  BY <1>8 DEF SubmitThrows
<1>9. ASSUME NEW t \in Tabs,
             \/ Open(t) \/ Leave(t) \/ ReadWallet(t) \/ WalletFails(t)
             \/ EstimateTransferNativeCost(t) \/ Populate(t) \/ Submitted(t)
             \/ ClearFeedbackOnEdit(t) \/ Poll(t)
             \/ \E y \in Transfers : Submit(t, y)
      PROVE  UNCHANGED <<fate, record>>
  BY <1>9 DEF Open, Leave, Forget, ReadWallet, WalletFails, EstimateTransferNativeCost,
     Populate, Submitted, ClearFeedbackOnEdit, Poll, Submit
<1>10. ASSUME (\E l \in loads : WalletLoaded(l)) \/ (\E p \in polls : Polled(p))
       PROVE  UNCHANGED <<fate, record>>
  BY <1>10 DEF WalletLoaded, Polled
<1>11. ASSUME NEW t \in Tabs, BroadcastTokenTransfer(t)
       PROVE  UNCHANGED record
  BY <1>11 DEF BroadcastTokenTransfer
<1> QED
  BY <1>1, <1>2, <1>3, <1>4, <1>5, <1>6, <1>7, <1>8, <1>9, <1>10, <1>11, NextSplit
  DEF Submits

LEMMA StaysSettled ==
  ASSUME SendTypeOK, TabsApart, [Next]_vars
  PROVE  \A x \in Transfers :
           /\ fate[x] = "mined" => fate'[x] = "mined"
           /\ record[x] # "none" => record'[x] # "none"
           /\ record[x] = "FAILED" => record'[x] = "FAILED"
           /\ record'[x] \in {"CONFIRMED", "UNSURE"}
                => record[x] \in {"CONFIRMED", "UNSURE"} \/ fate[x] = "mined"
BY OnlyForward

\* What one step does to a tab: it may go on with its transfer, take one that
\* nobody has, drop its own, or show what a poll said of it.
Moves(t) ==
  /\ \A u \in Tabs \ {t} : page'[u] = page[u]
  /\ \/ page'[t].tx = page[t].tx
     \/ /\ page'[t].tx = NoTransfer
        /\ page'[t].state \notin Signing \cup Submitting \cup {"pending"}
     \/ /\ page'[t].tx \in Transfers /\ fate[page'[t].tx] = "unsent" /\ UNCHANGED fate
        /\ \A u \in Tabs : page[u].tx # page'[t].tx
        /\ page'[t].state \in {"estimate", "error"}
  /\ page'[t].state \in Signing =>
       page[t].state \in Signing \/ page'[t].tx # page[t].tx
  /\ page'[t].state \in Submitting \cup {"pending"} =>
       /\ page[t].state \in Signing \cup Submitting \cup {"pending"}
       /\ page'[t].tx = page[t].tx
  /\ page'[t].state \in {"answer", "pending"} =>
       page[t].state \in {"answer", "pending"} \/ record'[page[t].tx] # "none"
  /\ page'[t].state = "pending" /\ page'[t].shown \in Settled =>
       \/ page[t].state = "pending" /\ page'[t].shown = page[t].shown
       \/ \E p \in polls : p.tx = page'[t].tx /\ p.status = page'[t].shown

LEMMA OneTab ==
  ASSUME SendTypeOK, TabsApart, [Next]_vars
  PROVE  page' = page \/ \E t \in Tabs : Moves(t)
<1> USE Typed, StateNames DEF chain, reads, Settled
<1>1. ASSUME NEW t \in Tabs, NEW row, page' = [page EXCEPT ![t] = row],
             row.state \in {"away", "idle", "error"} /\ row.tx = NoTransfer
      PROVE  Moves(t)
  BY <1>1 DEF Moves
<1>2. ASSUME NEW t \in Tabs, Open(t) \/ Leave(t) \/ WalletFails(t) \/ ClearFeedbackOnEdit(t)
      PROVE  page' = page \/ Moves(t)
  <2>1. CASE Open(t)
    <3> DEFINE row == [Blank EXCEPT !.state = "idle", !.loading = TRUE]
    <3>1. page' = [page EXCEPT ![t] = row] /\ row.state = "idle" /\ row.tx = NoTransfer
      BY <2>1 DEF Open, Blank
    <3> HIDE DEF row
    <3> QED
      BY <1>1, <3>1
  <2>2. CASE Leave(t)
    <3>1. page' = [page EXCEPT ![t] = Blank]
          /\ Blank.state = "away" /\ Blank.tx = NoTransfer
      BY <2>2 DEF Leave, Forget, Blank
    <3> QED
      BY <1>1, <3>1
  <2>3. CASE WalletFails(t)
    <3> DEFINE row == [Blank EXCEPT !.state = "error"]
    <3>1. row.state = "error" /\ row.tx = NoTransfer
      BY DEF Blank
    <3>2. page' = page \/ page' = [page EXCEPT ![t] = row]
      BY <2>3 DEF WalletFails
    <3> HIDE DEF row
    <3> QED
      BY <1>1, <3>1, <3>2
  <2>4. CASE ClearFeedbackOnEdit(t)
    <3> DEFINE row == [page[t] EXCEPT !.state = "idle", !.tx = NoTransfer, !.shown = "none"]
    <3>1. page' = [page EXCEPT ![t] = row] /\ row.state = "idle" /\ row.tx = NoTransfer
      BY <2>4 DEF ClearFeedbackOnEdit, Pages
    <3> QED
      BY <1>1, <3>1
  <2> QED
    BY <1>2, <2>1, <2>2, <2>3, <2>4
<1>3. ASSUME NEW t \in Tabs, Catch(t)
      PROVE  Moves(t)
  BY <1>3 DEF Catch, Goto, Moves, Pages
<1>4. ASSUME NEW t \in Tabs, EstimateTransferNativeCost(t) \/ Populate(t)
      PROVE  Moves(t)
  <2>1. CASE Goto(t, "populate") \/ Goto(t, "send")
    BY <1>4, <2>1 DEF EstimateTransferNativeCost, Populate, Goto, Moves, Pages
  <2> QED
    BY <1>3, <1>4, <2>1 DEF EstimateTransferNativeCost, Populate
<1>5. ASSUME NEW t \in Tabs, BroadcastTokenTransfer(t) \/ SubmitThrows(t)
      PROVE  Moves(t)
  <2>1. CASE page[t].state = "send" /\ Goto(t, "post")
    BY <2>1 DEF Goto, Moves, Pages
  <2> QED
    BY <1>3, <1>5, <2>1 DEF BroadcastTokenTransfer, SubmitThrows
<1>6. ASSUME NEW t \in Tabs, TransferTokens(t)
      PROVE  Moves(t)
  <2>1. record'[page[t].tx] # "none"
    <3>1. page[t].tx \in Transfers
      BY <1>6 DEF TabsApart, Busy, TransferTokens
    <3> QED
      BY <1>6, <3>1 DEF TransferTokens, History!Enter
  <2> QED
    BY <1>6, <2>1 DEF TransferTokens, Goto, Moves, Pages
<1>7. ASSUME NEW t \in Tabs, Submitted(t)
      PROVE  Moves(t)
  BY <1>7 DEF Submitted, Moves, Pages
<1>8. ASSUME NEW t \in Tabs, NEW x \in Transfers, Submit(t, x)
      PROVE  Moves(t)
  <2>1. page'[t].tx = x /\ page'[t].state \in {"estimate", "error"}
        /\ \A u \in Tabs \ {t} : page'[u] = page[u]
    BY <1>8 DEF Submit, Pages
  <2> QED
    BY <1>8, <2>1 DEF Submit, Moves
<1>9. ASSUME NEW l \in loads, WalletLoaded(l)
      PROVE  Moves(l.tab) /\ l.tab \in Tabs
  BY <1>9 DEF WalletLoaded, Moves, Pages, SendTypeOK
<1>10. ASSUME NEW p \in polls, Polled(p)
       PROVE  page' = page \/ (Moves(p.tab) /\ p.tab \in Tabs)
  <2>1. CASE Applies(p)
    <3>1. p.tab \in Tabs /\ page' = [page EXCEPT ![p.tab].shown = p.status]
          /\ page[p.tab].tx = p.tx
      BY <1>10, <2>1 DEF Polled, Applies, SendTypeOK
    <3> QED
      BY <3>1, <2>1 DEF Moves, Pages, Applies, PanelShown
  <2>2. CASE ~Applies(p)
    BY <1>10, <2>2 DEF Polled
  <2> QED
    BY <2>1, <2>2
<1>11. ASSUME NEW t \in Tabs, ReadWallet(t) \/ Poll(t)
       PROVE  page' = page
  BY <1>11 DEF ReadWallet, Poll
<1>12. ASSUME NEW x \in Transfers, Mine(x) \/ Settle(x)
       PROVE  page' = page
  BY <1>12 DEF Mine, Settle
<1>13. CASE UNCHANGED vars
  BY <1>13 DEF vars
<1> QED
  BY <1>2, <1>4, <1>5, <1>6, <1>7, <1>8, <1>9, <1>10, <1>11, <1>12, <1>13, NextSplit
  DEF Submits

LEMMA ApartStep ==
  ASSUME SendTypeOK, TabsApart, [Next]_vars
  PROVE  TabsApart'
<1> DEFINE Alone(t) ==
             /\ page'[t].state \in Signing \cup Submitting \cup {"pending"}
                  => page'[t].tx \in Transfers
             /\ page'[t].state \in Signing => fate'[page'[t].tx] = "unsent"
             /\ page'[t].state \in {"answer", "pending"} => record'[page'[t].tx] # "none"
<1>0. \A t \in Tabs :
        /\ page[t].state \in Signing \cup Submitting \cup {"pending"}
             => page[t].tx \in Transfers
        /\ page[t].state \in Signing => fate[page[t].tx] = "unsent"
        /\ page[t].state \in {"answer", "pending"} => record[page[t].tx] # "none"
        /\ \A u \in Tabs \ {t} : page[t].tx = page[u].tx => page[t].tx = NoTransfer
  BY DEF TabsApart, Busy, PanelShown
<1>1. ASSUME \A t \in Tabs : Alone(t),
             \A t \in Tabs : \A u \in Tabs \ {t} :
               page'[t].tx = page'[u].tx => page'[t].tx = NoTransfer
      PROVE  TabsApart'
  BY <1>1 DEF TabsApart, Busy, PanelShown
\* A tab that stays as it is: nobody else sends what it signs.
<1>2. ASSUME NEW t \in Tabs, page'[t].tx = page[t].tx,
             page'[t].state \in Signing => page[t].state \in Signing,
             page'[t].state \in Submitting \cup {"pending"}
               => page[t].state \in Signing \cup Submitting \cup {"pending"},
             page'[t].state \in {"answer", "pending"}
               => page[t].state \in {"answer", "pending"} \/ record'[page[t].tx] # "none"
      PROVE  Alone(t)
  <2>1. page'[t].state \in Signing \cup Submitting \cup {"pending"}
          => page'[t].tx \in Transfers
    BY <1>0, <1>2
  <2>2. page'[t].state \in Signing => fate'[page'[t].tx] = "unsent"
    <3> SUFFICES ASSUME page'[t].state \in Signing, fate'[page[t].tx] # "unsent"
                 PROVE  FALSE
      BY <1>2
    <3>1. page[t].tx \in Transfers /\ fate[page[t].tx] = "unsent"
      BY <1>0, <1>2
    <3>2. PICK u \in Tabs : page[u].tx = page[t].tx /\ page'[u].state \notin Signing
      BY <3>1, OnlyForward
    <3>3. u = t
      BY <1>0, <3>1, <3>2, SendAssumption
    <3> QED
      BY <3>2, <3>3
  <2>3. page'[t].state \in {"answer", "pending"} => record'[page'[t].tx] # "none"
    BY <1>0, <1>2, StaysSettled, StateNames
  <2> QED
    BY <2>1, <2>2, <2>3
<1>3. CASE page' = page
  BY <1>0, <1>1, <1>2, <1>3
<1>4. ASSUME NEW t \in Tabs, Moves(t)
      PROVE  TabsApart'
  <2>1. \A u \in Tabs \ {t} : Alone(u)
    BY <1>2, <1>4 DEF Moves
  <2>2. Alone(t)
    <3>1. CASE page'[t].tx = page[t].tx
      BY <1>2, <1>4, <3>1 DEF Moves
    <3>2. CASE page'[t].tx # page[t].tx
      BY <1>4, <3>2, StateNames DEF Moves
    <3> QED
      BY <3>1, <3>2
  <2>3. \A u \in Tabs : \A v \in Tabs \ {u} :
          page'[u].tx = page'[v].tx => page'[u].tx = NoTransfer
    BY <1>0, <1>4 DEF Moves
  <2> QED
    BY <1>1, <2>1, <2>2, <2>3
<1> QED
  BY <1>3, <1>4, OneTab

LEMMA AnswersStep ==
  ASSUME SendTypeOK, TabsApart, AnswersTellRecord, [Next]_vars
  PROVE  AnswersTellRecord'
<1>1. \A x \in Transfers : record'[x] \in {"CONFIRMED", "UNSURE"} => fate'[x] = "mined"
  BY StaysSettled DEF AnswersTellRecord
<1>2. \A p \in polls' :
        \/ p \in polls
        \/ /\ p.tx \in Transfers /\ UNCHANGED <<fate, record>>
           /\ p.status = StatusOf(p.tx)
  <2>1. ASSUME NEW t \in Tabs, Poll(t), NEW p \in polls', p \notin polls
        PROVE  /\ p.tx \in Transfers /\ UNCHANGED <<fate, record>>
               /\ p.status = StatusOf(p.tx)
    <3>1. p = [tab |-> t, tx |-> page[t].tx, status |-> StatusOf(page[t].tx)]
      BY <2>1 DEF Poll
    <3> QED
      BY <2>1, <3>1 DEF Poll, PollsPanel, TabsApart, chain
  <2>2. CASE ~\E t \in Tabs : Poll(t)
    <3>1. polls' \subseteq polls
      BY <2>2, NextSplit DEF vars, reads, Open, Leave, Forget, ReadWallet, WalletLoaded,
         WalletFails, Submit, Submits, EstimateTransferNativeCost, Populate,
         BroadcastTokenTransfer, TransferTokens, Submitted, SubmitThrows,
         ClearFeedbackOnEdit, Polled, Mine, Settle
    <3> QED
      BY <3>1
  <2> QED
    BY <2>1, <2>2
<1>3. ASSUME NEW p \in polls'
      PROVE  /\ p.status = "CONFIRMED" => fate'[p.tx] = "mined"
             /\ p.status = "FAILED" => record'[p.tx] = "FAILED"
  <2>1. CASE p \in polls
    <3>1. p.tx \in Transfers
      BY <2>1 DEF SendTypeOK
    <3>2. /\ fate[p.tx] = "mined" => fate'[p.tx] = "mined"
          /\ record[p.tx] = "FAILED" => record'[p.tx] = "FAILED"
      BY <3>1, StaysSettled
    <3>3. /\ p.status = "CONFIRMED" => fate[p.tx] = "mined"
          /\ p.status = "FAILED" => record[p.tx] = "FAILED"
      BY <2>1 DEF AnswersTellRecord
    <3> QED
      BY <3>2, <3>3
  <2>2. CASE p \notin polls
    BY <1>2, <2>2 DEF AnswersTellRecord, StatusOf
  <2> QED
    BY <2>1, <2>2
<1> QED
  BY <1>1, <1>3 DEF AnswersTellRecord

LEMMA PanelStep ==
  ASSUME SendTypeOK, TabsApart, AnswersTellRecord, PanelTellsRecord, [Next]_vars
  PROVE  PanelTellsRecord'
<1> SUFFICES ASSUME NEW t \in Tabs, page'[t].state = "pending"
             PROVE  /\ record'[page'[t].tx] # "none"
                    /\ page'[t].shown = "CONFIRMED" => fate'[page'[t].tx] = "mined"
                    /\ page'[t].shown = "FAILED" => record'[page'[t].tx] = "FAILED"
  BY DEF PanelTellsRecord, PanelShown
<1>1. page'[t].tx \in Transfers /\ record'[page'[t].tx] # "none"
  BY ApartStep DEF TabsApart, PanelShown
<1>2. page'[t].shown \in Settled =>
        \/ page[t].state = "pending" /\ page'[t].shown = page[t].shown
           /\ page'[t].tx = page[t].tx
        \/ \E p \in polls : p.tx = page'[t].tx /\ p.status = page'[t].shown
  BY OneTab DEF Moves
<1>3. /\ fate[page'[t].tx] = "mined" => fate'[page'[t].tx] = "mined"
      /\ record[page'[t].tx] = "FAILED" => record'[page'[t].tx] = "FAILED"
  BY <1>1, StaysSettled
<1>4. page'[t].shown \in Settled =>
        /\ page'[t].shown = "CONFIRMED" => fate[page'[t].tx] = "mined"
        /\ page'[t].shown = "FAILED" => record[page'[t].tx] = "FAILED"
  <2>1. page[t].state = "pending" =>
          /\ page[t].shown = "CONFIRMED" => fate[page[t].tx] = "mined"
          /\ page[t].shown = "FAILED" => record[page[t].tx] = "FAILED"
    BY DEF PanelTellsRecord, PanelShown
  <2>2. \A p \in polls : /\ p.status = "CONFIRMED" => fate[p.tx] = "mined"
                         /\ p.status = "FAILED" => record[p.tx] = "FAILED"
    BY DEF AnswersTellRecord
  <2> QED
    BY <1>2, <2>1, <2>2
<1> QED
  BY <1>1, <1>3, <1>4 DEF Settled

\* A transfer is mined as such only while there are tokens.
LEMMA OverdrawnStep ==
  ASSUME SendTypeOK, TabsApart, NeverOverdrawn, [Next]_vars
  PROVE  NeverOverdrawn'
<1>1. ASSUME NEW x \in Transfers, Mine(x)
      PROVE  NeverOverdrawn'
  <2>1. CASE Balance > 0
    <3>1. With("mined")' = With("mined") \cup {x}
      BY <1>1, <2>1, Typed DEF Mine, With
    <3>2. IsFiniteSet(With("mined")) /\ Cardinality(With("mined")) \in Nat
      BY Counted DEF With
    <3>3. Cardinality(With("mined") \cup {x}) \in Nat
          /\ Cardinality(With("mined") \cup {x}) <= Cardinality(With("mined")) + 1
      BY <3>2, FS_AddElement
    <3>4. Cardinality(With("mined") \cup {x}) <= Tokens
      BY <2>1, <3>2, <3>3, SendAssumption DEF Balance
    <3> QED
      BY <3>1, <3>4 DEF NeverOverdrawn
  <2>2. CASE ~(Balance > 0)
    <3>1. With("mined")' = With("mined")
      BY <1>1, <2>2, Typed DEF Mine, With
    <3> QED
      BY <3>1 DEF NeverOverdrawn
  <2> QED
    BY <2>1, <2>2
<1>2. ASSUME NEW t \in Tabs, Accept(page[t].tx), page[t].state = "send"
      PROVE  With("mined")' = With("mined")
  <2>1. page[t].tx \in Transfers /\ fate[page[t].tx] = "unsent"
    BY <1>2 DEF TabsApart, Busy, Signing
  <2> QED
    BY <1>2, <2>1, Typed DEF Accept, With
<1>3. CASE ~\E x \in Transfers : Mine(x)
  <2>1. UNCHANGED fate \/ \E t \in Tabs : Accept(page[t].tx) /\ page[t].state = "send"
    BY <1>3, NextSplit DEF vars, reads, chain, Open, Leave, Forget, ReadWallet, WalletLoaded,
       WalletFails, Submit, Submits, EstimateTransferNativeCost, Populate,
       BroadcastTokenTransfer, TransferTokens, Submitted, SubmitThrows,
       ClearFeedbackOnEdit, Poll, Polled, Settle
  <2> QED
    BY <1>2, <2>1 DEF NeverOverdrawn, With
<1> QED
  BY <1>1, <1>3

-----------------------------------------------------------------------------
LEMMA InvInit == Init => SendInv
<1> SUFFICES ASSUME Init PROVE SendInv
  OBVIOUS
<1>1. \A t \in Tabs : page[t] = Blank
  BY DEF Init
<1>2. Blank \in Pages /\ Blank.state \notin Signing \cup Submitting \cup {"pending"}
      /\ Blank.tx = NoTransfer
  BY StateNames DEF Blank, Pages
<1>3. With("mined") = {}
  BY DEF Init, With
<1>4. NeverOverdrawn
  BY <1>3, FS_EmptySet, SendAssumption DEF NeverOverdrawn
<1>5. SendTypeOK
  BY <1>1, <1>2, SendBounds DEF Init, SendTypeOK, Pages, Fates
<1>6. TabsApart
  <2>1. \A t \in Tabs : page[t].tx = NoTransfer
                     /\ page[t].state \notin Signing \cup Submitting \cup {"pending"}
    BY <1>1, <1>2
  <2> QED
    BY <2>1, StateNames DEF TabsApart, Busy, PanelShown
<1>7. PanelTellsRecord
  BY <1>1, <1>2 DEF PanelTellsRecord, PanelShown
<1>8. AnswersTellRecord
  BY DEF AnswersTellRecord, Init
<1> QED
  BY <1>4, <1>5, <1>6, <1>7, <1>8 DEF SendInv

\* The page is well formed and its panel tells what became of the transfer it
\* names, in every tab, however late an answer is and whatever fails.
THEOREM SendSafe == Spec => []SendInv
<1>1. SendInv /\ [Next]_vars => SendInv'
  BY TypeStep, ApartStep, AnswersStep, PanelStep, OverdrawnStep DEF SendInv
<1> QED
  BY <1>1, InvInit, PTL DEF Spec

=============================================================================
