-------------------------- MODULE OnboardingProofs --------------------------
(***************************************************************************)
(* Theorems of WalletOnboarding: its inductive invariant, that pages tell  *)
(* the truth and keys are stored, and that it implements                   *)
(* OnboardingPromise.                                                      *)
(***************************************************************************)
EXTENDS WalletOnboarding, TLAPS

\* The invariant in three parts: the rows and posts, the pages and keys, and
\* what ties the two.
RowsInv ==
  /\ wallet \in [Users -> MaybeAddress] /\ job = wallet
  /\ post \in [Addresses -> PostPoints]
  /\ poster \in [Addresses -> Tabs] /\ owner \in [Addresses -> Users]
  /\ tx \in [Addresses -> Txs]
  /\ TxFits /\ OneCreates /\ WalletsOwned

PagesInv ==
  /\ page \in [Tabs -> Pages]
  /\ token \in [Browsers -> Tokens]
  /\ storage \in [Browsers -> [Addresses -> MaybeAddress]]
  /\ backups \subseteq Addresses
  /\ PageTellsTruth /\ PageWaits

UsedInv == faults \in 0..MaxFaults /\ leaves \in 0..MaxLeaves /\ sessions \in 0..MaxSessions

KeysInv == KeyIsStored /\ PostAwaited

LEMMA Split == OnboardingInv <=> RowsInv /\ PagesInv /\ UsedInv /\ KeysInv
BY DEF OnboardingInv, OnboardingTypeOK, RowsInv, PagesInv, UsedInv, KeysInv

LEMMA Joined ==
  ASSUME RowsInv', PagesInv', UsedInv', KeysInv' PROVE OnboardingInv'
BY DEF OnboardingInv, OnboardingTypeOK, RowsInv, PagesInv, UsedInv, KeysInv

LEMMA RowsFrame ==
  ASSUME RowsInv, UNCHANGED <<rowVars, postVars>> PROVE RowsInv'
BY DEF RowsInv, rowVars, postVars, TxFits, OneCreates, WalletsOwned

LEMMA PagesFrame ==
  ASSUME PagesInv, UNCHANGED <<wallet, page, token, keyVars>> PROVE PagesInv'
BY DEF PagesInv, keyVars, PageTellsTruth, PageWaits

LEMMA KeysFrame ==
  ASSUME KeysInv, UNCHANGED <<wallet, post, poster, page, storage, leaves>> PROVE KeysInv'
BY DEF KeysInv, KeyIsStored, PostAwaited, Waits

-----------------------------------------------------------------------------
(* Pages.                                                                  *)

\* What may be said of one page.
PageFits(t, p) ==
  /\ p \in Pages
  /\ p.waits # NoAddress => p.state = "creating"
  /\ p.address # NoAddress => p.user \in Users
  /\ p.state = "shown" /\ p.address # NoAddress =>
       /\ p.address = wallet[p.user]
       /\ p.hasKey => storage[BrowserOf[t]][p.address] = p.address

LEMMA PagesAre ==
  PagesInv <=> /\ page \in [Tabs -> Pages] /\ token \in [Browsers -> Tokens]
               /\ storage \in [Browsers -> [Addresses -> MaybeAddress]]
               /\ backups \subseteq Addresses
               /\ \A t \in Tabs : PageFits(t, page[t])
BY DEF PagesInv, PageTellsTruth, PageWaits, PageFits

LEMMA PagesBecome ==
  ASSUME page' \in [Tabs -> Pages], token' \in [Browsers -> Tokens],
         storage' \in [Browsers -> [Addresses -> MaybeAddress]],
         backups' \subseteq Addresses,
         \A t \in Tabs : PageFits(t, page[t])'
  PROVE  PagesInv'
BY DEF PagesInv, PageTellsTruth, PageWaits, PageFits

\* A step that replaces one page, by one that fits.
LEMMA PageReplaced ==
  ASSUME PagesInv, NEW t \in Tabs, NEW p, page' = [page EXCEPT ![t] = p],
         PageFits(t, p), UNCHANGED <<wallet, storage>>,
         token' \in [Browsers -> Tokens], backups' \subseteq Addresses
  PROVE  PagesInv'
<1>1. page' \in [Tabs -> Pages] /\ \A s \in Tabs : PageFits(s, page[s])'
  BY PagesAre DEF PageFits
<1> QED
  BY <1>1, PagesAre, PagesBecome

LEMMA BlankFits ==
  ASSUME NEW t \in Tabs, NEW state \in PageStates PROVE PageFits(t, Blank(state))
BY DEF PageFits, Blank, Pages, Tokens, MaybeAddress

LEMMA AskingFits ==
  ASSUME NEW t \in Tabs, NEW user \in Tokens PROVE PageFits(t, Asking(user))
BY DEF PageFits, Asking, Blank, Pages, PageStates, MaybeAddress

LEMMA TokensOK ==
  ASSUME PagesInv, NEW t \in Tabs
  PROVE  /\ Token(t) \in Tokens /\ BrowserOf[t] \in Browsers
         /\ \A tk \in Tokens : SetToken(t, tk) => token' \in [Browsers -> Tokens]
BY OnboardingAssumption, PagesAre DEF Token, SetToken

\* applyStatus shows what is true of the wallet, if it is asked of it.
LEMMA ShownFits ==
  ASSUME RowsInv, PagesInv, NEW t \in Tabs, NEW u \in Users,
         ApplyStatus(t, u, wallet[u], storage)
  PROVE  \E p : page' = [page EXCEPT ![t] = p] /\ PageFits(t, p) /\ p.waits = NoAddress
<1> DEFINE p == [state |-> "shown", user |-> u, waits |-> NoAddress, address |-> wallet[u],
                 hasKey |-> IF wallet[u] = NoAddress THEN FALSE ELSE Matches(t, wallet[u], storage)]
<1>1. page' = [page EXCEPT ![t] = p]
  BY DEF ApplyStatus
<1>2. p \in Pages
  BY DEF RowsInv, Pages, PageStates, Tokens, MaybeAddress, Matches
<1>3. PageFits(t, p)
  BY <1>2 DEF PageFits, Matches
<1>4. p.waits = NoAddress
  OBVIOUS
<1> HIDE DEF p
<1> QED
  BY <1>1, <1>3, <1>4

\* Steps that move one page on and let no post be forgotten: it waited for
\* nothing, or it is left.
LEMMA PageStep ==
  ASSUME OnboardingInv, UsedInv', NEW t \in Tabs, NEW p,
         page' = [page EXCEPT ![t] = p], PageFits(t, p),
         page[t].waits = NoAddress \/ (leaves' # 0),
         leaves = 0 \/ leaves' # 0,
         UNCHANGED <<rowVars, postVars, keyVars>>,
         token' \in [Browsers -> Tokens]
  PROVE  OnboardingInv'
<1>1. RowsInv'
  BY Split, RowsFrame
<1>2. PagesInv'
  BY Split, PagesAre, PageReplaced DEF rowVars, keyVars
<1>3. KeysInv'
  <2>1. KeyIsStored'
    BY Split DEF KeysInv, KeyIsStored, rowVars, postVars, keyVars
  <2>2. PostAwaited'
    <3>1. SUFFICES ASSUME leaves' = 0, NEW a \in Addresses, post[a] \notin {"unused", "done", "refused"}
                   PROVE  Waits(a)'
      BY DEF PostAwaited, postVars
    <3>2. Waits(a) /\ poster[a] \in Tabs /\ poster[a] # t
      BY <3>1, Split, OnboardingAssumption DEF KeysInv, PostAwaited, Waits, RowsInv
    <3> QED
      BY <3>2, Split, PagesAre DEF Waits, postVars
  <2> QED
    BY <2>1, <2>2 DEF KeysInv
<1> QED
  BY <1>1, <1>2, <1>3, Joined

\* A page in any other state than "creating" waits for nothing.
LEMMA Unwaiting ==
  ASSUME OnboardingInv, NEW t \in Tabs, page[t].state # "creating"
  PROVE  page[t].waits = NoAddress
BY Split DEF PagesInv, PageWaits

LEMMA ReadsKeepInv ==
  ASSUME OnboardingInv, NEW t \in Tabs, LoadWallet(t) \/ StatusShown(t) \/ Poll(t)
  PROVE  OnboardingInv'
<1>1. page[t].waits = NoAddress /\ UsedInv'
  BY Unwaiting, Split DEF LoadWallet, StatusShown, Poll, UsedInv, used
<1>2. RowsInv /\ PagesInv /\ token' \in [Browsers -> Tokens]
  BY Split, PagesAre DEF LoadWallet, StatusShown, Poll
<1>3. PICK p : page' = [page EXCEPT ![t] = p] /\ PageFits(t, p)
  <2>1. CASE LoadWallet(t)
    BY <1>2, <2>1, TokensOK, AskingFits DEF LoadWallet
  <2>2. CASE StatusShown(t)
    BY <1>2, <2>2, ShownFits DEF StatusShown
  <2>3. CASE Poll(t)
    BY <1>2, <2>3, ShownFits DEF Poll
  <2> QED
    BY <2>1, <2>2, <2>3
<1> QED
  BY <1>1, <1>2, <1>3, PageStep DEF LoadWallet, StatusShown, Poll, used

LEMMA EndsKeepInv ==
  ASSUME OnboardingInv, NEW t \in Tabs,
         StatusDenied(t) \/ StatusFails(t) \/ Leave(t) \/ Logout(t)
  PROVE  OnboardingInv'
<1>1. UsedInv'
  BY Split, OnboardingBounds DEF StatusDenied, StatusFails, Leave, Logout, UsedInv, used
<1>2. /\ page[t].waits = NoAddress \/ leaves' # 0
      /\ leaves = 0 \/ leaves' # 0
  BY Unwaiting, Split, OnboardingBounds
  DEF StatusDenied, StatusFails, Leave, Logout, UsedInv, used
<1>3. PagesInv /\ token' \in [Browsers -> Tokens]
  BY Split, PagesAre, TokensOK
  DEF StatusDenied, StatusFails, Leave, Logout, SessionEnds, Tokens
<1>4. PICK state \in PageStates : page' = [page EXCEPT ![t] = Blank(state)]
  BY DEF StatusDenied, StatusFails, Leave, Logout, SessionEnds, PageStates
<1>5. UNCHANGED <<rowVars, postVars, keyVars>>
  BY DEF StatusDenied, StatusFails, Leave, Logout
<1> QED
  BY <1>1, <1>2, <1>3, <1>4, <1>5, BlankFits, PageStep

LEMMA LoginKeepsInv ==
  ASSUME OnboardingInv, NEW t \in Tabs, NEW u \in Users, Login(t, u)
  PROVE  OnboardingInv'
<1>1. page[t].waits = NoAddress /\ UsedInv' /\ u \in Tokens
  BY Unwaiting, Split, OnboardingBounds DEF Login, UsedInv, Tokens
<1>2. PagesInv /\ token' \in [Browsers -> Tokens]
  BY <1>1, Split, TokensOK DEF Login
<1> QED
  BY <1>1, <1>2, AskingFits, PageStep DEF Login

LEMMA ExpireKeepsInv ==
  ASSUME OnboardingInv, NEW b \in Browsers, Expire(b)
  PROVE  OnboardingInv'
<1>1. UsedInv'
  BY Split, OnboardingBounds DEF Expire, UsedInv
<1>2. PagesInv'
  <2>1. token' \in [Browsers -> Tokens]
    BY Split, PagesAre DEF Expire, Tokens
  <2>2. \A t \in Tabs : PageFits(t, page[t])'
    BY Split, PagesAre DEF Expire, PageFits, rowVars, keyVars
  <2> QED
    BY <2>1, <2>2, Split, PagesAre, PagesBecome DEF Expire, keyVars
<1> QED
  BY <1>1, <1>2, Split, RowsFrame, KeysFrame, Joined DEF Expire, rowVars, postVars, keyVars

-----------------------------------------------------------------------------
(* Keys.                                                                   *)

LEMMA DownloadKeepsInv ==
  ASSUME OnboardingInv, NEW t \in Tabs, DownloadPrivateKey(t)
  PROVE  OnboardingInv'
<1> DEFINE key == storage[BrowserOf[t]][page[t].address]
<1>1. key \in Addresses
  <2>1. BrowserOf[t] \in Browsers /\ page[t].address \in Addresses
    BY Split, PagesAre, TokensOK DEF DownloadPrivateKey, Pages, MaybeAddress
  <2> QED
    BY <2>1, Split, PagesAre DEF DownloadPrivateKey, MaybeAddress
<1>2. PagesInv'
  <2>1. \A s \in Tabs : PageFits(s, page[s])'
    BY Split, PagesAre DEF DownloadPrivateKey, PageFits, rowVars
  <2> QED
    BY <1>1, <2>1, Split, PagesAre, PagesBecome DEF DownloadPrivateKey
<1>3. UsedInv'
  BY Split DEF DownloadPrivateKey, UsedInv, used
<1> QED
  BY <1>2, <1>3, Split, RowsFrame, KeysFrame, Joined DEF DownloadPrivateKey, rowVars, postVars, used

\* To store a key under its own address takes none away.
LEMMA StoredKeeps ==
  ASSUME PagesInv, NEW b \in Browsers, NEW a \in Addresses,
         storage' = [storage EXCEPT ![b][a] = a], wallet' = wallet
  PROVE  /\ storage' \in [Browsers -> [Addresses -> MaybeAddress]]
         /\ \A c \in Browsers, x \in Addresses : storage[c][x] = x => storage'[c][x] = x
         /\ storage'[b][a] = a
         /\ \A t \in Tabs : \A p : PageFits(t, p) => PageFits(t, p)'
<1>1. storage' \in [Browsers -> [Addresses -> MaybeAddress]]
  BY PagesAre DEF MaybeAddress
<1>2. /\ \A c \in Browsers, x \in Addresses : storage[c][x] = x => storage'[c][x] = x
      /\ storage'[b][a] = a
  BY PagesAre
<1>3. ASSUME NEW t \in Tabs, NEW p, PageFits(t, p) PROVE PageFits(t, p)'
  <2>1. BrowserOf[t] \in Browsers /\ (p.address # NoAddress => p.address \in Addresses)
    BY <1>3, TokensOK DEF PageFits, Pages, MaybeAddress
  <2> QED
    BY <1>2, <1>3, <2>1 DEF PageFits
<1> QED
  BY <1>1, <1>2, <1>3

LEMMA ImportKeepsInv ==
  ASSUME OnboardingInv, NEW t \in Tabs, NEW a \in Addresses, ImportPrivateKey(t, a)
  PROVE  OnboardingInv'
<1>1. /\ BrowserOf[t] \in Browsers /\ page[t].address = a
      /\ storage' = [storage EXCEPT ![BrowserOf[t]][a] = a]
  BY Split, TokensOK DEF ImportPrivateKey, Imports
<1>2. wallet' = wallet /\ UsedInv'
  BY Split DEF ImportPrivateKey, rowVars, used, UsedInv
<1>3. PagesInv'
  <2>1. PICK p : p = [page[t] EXCEPT !.hasKey = TRUE]
    OBVIOUS
  <2>2. PageFits(t, p)' /\ page' = [page EXCEPT ![t] = p]
    <3>1. page[t] \in Pages /\ PageFits(t, page[t]) /\ page[t].state = "shown"
      BY Split, PagesAre DEF ImportPrivateKey
    <3>2. p \in Pages /\ p.state = "shown" /\ p.address = a /\ p.user = page[t].user
          /\ p.waits = page[t].waits
      BY <1>1, <2>1, <3>1 DEF Pages
    <3>3. storage'[BrowserOf[t]][a] = a
      BY <1>1, <1>2, Split, StoredKeeps
    <3>4. PageFits(t, p)'
      BY <1>1, <1>2, <3>1, <3>2, <3>3 DEF PageFits
    <3> QED
      BY <2>1, <3>4 DEF ImportPrivateKey
  <2>3. \A s \in Tabs : PageFits(s, page[s])'
    BY <1>1, <1>2, <2>2, Split, PagesAre, StoredKeeps
  <2> QED
    BY <1>1, <1>2, <2>2, <2>3, Split, PagesAre, StoredKeeps, PagesBecome
    DEF ImportPrivateKey, PageFits
<1>4. KeysInv'
  <2>1. KeyIsStored'
    BY <1>1, <1>2, Split, StoredKeeps
    DEF KeysInv, KeyIsStored, ImportPrivateKey, postVars, used, RowsInv, MaybeAddress
  <2>2. PostAwaited'
    BY Split, PagesAre DEF KeysInv, PostAwaited, Waits, ImportPrivateKey, postVars, used, RowsInv, Pages
  <2> QED
    BY <2>1, <2>2 DEF KeysInv
<1> QED
  BY <1>2, <1>3, <1>4, Split, RowsFrame, Joined DEF ImportPrivateKey

-----------------------------------------------------------------------------
(* Posts.                                                                  *)

Awaited == {"wallet", "job", "commit", "status", "failed"}

\* A post that moves on and is still to be answered, by a step that stores no
\* key and leaves the pages.
LEMMA PostStep ==
  ASSUME OnboardingInv, RowsInv', NEW a \in Addresses, NEW s \in Awaited,
         post[a] \in Awaited, post' = [post EXCEPT ![a] = s],
         \A u \in Users : wallet'[u] = wallet[u]
                          \/ (wallet[u] = NoAddress /\ wallet'[u] = a),
         UNCHANGED <<poster, owner, page, token, keyVars, leaves>>, UsedInv'
  PROVE  OnboardingInv'
<1>1. PagesInv'
  <2>1. \A t \in Tabs : PageFits(t, page[t])'
    <3>1. SUFFICES ASSUME NEW t \in Tabs PROVE PageFits(t, page[t])'
      OBVIOUS
    <3>2. PageFits(t, page[t])
      BY Split, PagesAre
    <3> QED
      BY <3>2 DEF PageFits, keyVars
  <2> QED
    BY <2>1, Split, PagesAre, PagesBecome DEF keyVars
<1>2. KeyIsStored'
  <2>1. SUFFICES ASSUME leaves = 0, NEW u \in Users, wallet'[u] # NoAddress,
                        post'[wallet'[u]] = "done"
                 PROVE  \E b \in Browsers : storage[b][wallet'[u]] = wallet'[u]
    BY DEF KeyIsStored, keyVars
  <2>2. post'[a] # "done"
    BY Split DEF Awaited, RowsInv
  <2>3. wallet'[u] = wallet[u]
    BY <2>1, <2>2
  <2>4. wallet[u] \in Addresses /\ post[wallet[u]] = "done"
    BY <2>1, <2>2, <2>3, Split DEF RowsInv, MaybeAddress
  <2> QED
    BY <2>1, <2>3, <2>4, Split DEF KeysInv, KeyIsStored
<1>3. PostAwaited'
  BY Split DEF KeysInv, PostAwaited, Waits, Awaited, RowsInv
<1> QED
  BY <1>1, <1>2, <1>3, Joined DEF KeysInv

LEMMA InsertWalletKeepsInv ==
  ASSUME OnboardingInv, NEW a \in Addresses, InsertWallet(a)
  PROVE  OnboardingInv'
<1> DEFINE made == IF Inserts(owner[a]) THEN [NoTx EXCEPT !.created = TRUE, !.address = a]
                   ELSE [NoTx EXCEPT !.address = wallet[owner[a]]]
<1>1. /\ owner[a] \in Users /\ made \in Txs /\ made.job = NoAddress
      /\ made.created <=> wallet[owner[a]] = NoAddress
      /\ made.created => made.address = a
  BY Split DEF RowsInv, NoTx, Txs, MaybeAddress, Inserts
<1>2. tx' = [tx EXCEPT ![a] = made] /\ post' = [post EXCEPT ![a] = "job"]
  BY DEF InsertWallet
<1> HIDE DEF made
<1>3. TxFits'
  <2>1. SUFFICES ASSUME NEW c \in Addresses
                 PROVE  LET open == post'[c] \in {"job", "commit"} IN
                        /\ ~open => tx'[c] = NoTx
                        /\ open => (tx'[c].created <=> wallet[owner[c]] = NoAddress)
                        /\ tx'[c].created => tx'[c].address = c
                        /\ tx'[c].job = IF post'[c] = "commit" /\ tx'[c].created
                                       THEN c ELSE NoAddress
    BY DEF TxFits, InsertWallet, rowVars
  <2>2. CASE c = a
    BY <1>1, <1>2, <2>2, Split DEF RowsInv
  <2>3. CASE c # a
    <3>1. post'[c] = post[c] /\ tx'[c] = tx[c]
      BY <1>2, <2>3, Split DEF RowsInv
    <3> QED
      BY <3>1, Split DEF RowsInv, TxFits
  <2> QED
    BY <2>2, <2>3
<1>4. OneCreates'
  BY <1>1, <1>2, Split DEF RowsInv, OneCreates, InsertWallet, WalletLocked
<1>5. WalletsOwned'
  BY <1>2, Split DEF RowsInv, WalletsOwned, InsertWallet, rowVars, Recorded, MaybeAddress
<1>6. RowsInv'
  BY <1>1, <1>2, <1>3, <1>4, <1>5, Split DEF RowsInv, InsertWallet, rowVars, PostPoints
<1> QED
  BY <1>2, <1>6, PostStep, Split DEF InsertWallet, rowVars, used, UsedInv, Awaited

LEMMA CreateFundingJobKeepsInv ==
  ASSUME OnboardingInv, NEW a \in Addresses, CreateFundingJobInTransaction(a)
  PROVE  OnboardingInv'
<1> DEFINE j == IF tx[a].created THEN a ELSE NoAddress
<1>1. owner[a] \in Users /\ tx[a] \in Txs /\ j \in MaybeAddress
  BY Split DEF RowsInv, MaybeAddress
<1>2. /\ tx' = [tx EXCEPT ![a].job = j] /\ post' = [post EXCEPT ![a] = "commit"]
      /\ tx[a].created <=> wallet[owner[a]] = NoAddress
  BY Split DEF RowsInv, TxFits, CreateFundingJobInTransaction
<1>3. TxFits'
  BY <1>1, <1>2, Split
  DEF RowsInv, TxFits, CreateFundingJobInTransaction, rowVars, Txs
<1>4. OneCreates'
  BY <1>1, <1>2, Split DEF RowsInv, OneCreates, CreateFundingJobInTransaction, Txs
<1>5. WalletsOwned'
  BY <1>2, Split
  DEF RowsInv, WalletsOwned, CreateFundingJobInTransaction, rowVars, Recorded, MaybeAddress
<1>6. tx' \in [Addresses -> Txs]
  BY <1>1, <1>2, Split DEF RowsInv, Txs
<1>7. RowsInv'
  BY <1>2, <1>3, <1>4, <1>5, <1>6, Split
  DEF RowsInv, CreateFundingJobInTransaction, rowVars, PostPoints
<1> QED
  BY <1>2, <1>7, PostStep, Split
  DEF CreateFundingJobInTransaction, rowVars, used, UsedInv, Awaited

\* A commit records a user's first wallet, with its job, or nothing.
LEMMA CommitCreates ==
  ASSUME RowsInv, NEW a \in Addresses, post[a] = "commit", CommitRows(a)
  PROVE  \/ /\ tx[a].created /\ wallet[owner[a]] = NoAddress
            /\ wallet' = [wallet EXCEPT ![owner[a]] = a] /\ job' = wallet'
         \/ UNCHANGED rowVars
<1>1. a # NoAddress
  BY OnboardingAssumption
<1> QED
  BY <1>1 DEF RowsInv, TxFits, CommitRows, rowVars

\* The end of a transaction: with its effect or without.
LEMMA TxEnds ==
  ASSUME OnboardingInv, NEW a \in Addresses, post[a] \in Awaited, NEW s \in {"status", "failed"},
         \/ UNCHANGED rowVars
         \/ post[a] = "commit" /\ CommitRows(a),
         tx' = [tx EXCEPT ![a] = NoTx], post' = [post EXCEPT ![a] = s],
         UNCHANGED <<poster, owner, page, token, keyVars, leaves>>, UsedInv'
  PROVE  OnboardingInv'
<1>1. NoTx \in Txs /\ ~NoTx.created /\ NoTx.job = NoAddress /\ owner[a] \in Users
      /\ a # NoAddress /\ s \in Recorded /\ s \in PostPoints /\ s \in Awaited
  BY Split, OnboardingAssumption DEF NoTx, Txs, MaybeAddress, RowsInv, Recorded, PostPoints, Awaited
<1>2. CASE UNCHANGED rowVars
  <2>1. TxFits' /\ OneCreates'
    BY <1>1, <1>2, Split DEF RowsInv, TxFits, OneCreates, rowVars
  <2>2. WalletsOwned'
    BY <1>1, <1>2, Split DEF RowsInv, WalletsOwned, rowVars, MaybeAddress
  <2>3. RowsInv'
    BY <1>1, <1>2, <2>1, <2>2, Split DEF RowsInv, rowVars
  <2> QED
    BY <1>1, <1>2, <2>3, PostStep DEF rowVars
<1>3. CASE /\ post[a] = "commit" /\ tx[a].created /\ wallet[owner[a]] = NoAddress
           /\ wallet' = [wallet EXCEPT ![owner[a]] = a] /\ job' = wallet'
  <2>1. \A c \in Addresses \ {a} : post[c] \in {"job", "commit"} => owner[c] # owner[a]
    BY <1>3, Split DEF RowsInv, TxFits, OneCreates
  <2>2. TxFits'
    BY <1>1, <1>3, <2>1, Split DEF RowsInv, TxFits
  <2>3. OneCreates'
    BY <1>1, Split DEF RowsInv, OneCreates
  <2>4. WalletsOwned'
    BY <1>1, <1>3, Split DEF RowsInv, WalletsOwned, MaybeAddress
  <2>5. wallet' \in [Users -> MaybeAddress]
    BY <1>1, <1>3, Split DEF RowsInv, MaybeAddress
  <2>6. RowsInv'
    BY <1>1, <1>3, <2>2, <2>3, <2>4, <2>5, Split DEF RowsInv
  <2>7. \A u \in Users : wallet'[u] = wallet[u] \/ (wallet[u] = NoAddress /\ wallet'[u] = a)
    BY <1>1, <1>3, Split DEF RowsInv
  <2> QED
    BY <1>1, <2>6, <2>7, PostStep
<1> QED
  BY <1>2, <1>3, CommitCreates, Split

LEMMA CommitKeepsInv ==
  ASSUME OnboardingInv, NEW a \in Addresses, Commit(a)
  PROVE  OnboardingInv'
<1>1. UsedInv'
  BY Split DEF Commit, used, UsedInv
<1> QED
  BY <1>1, TxEnds DEF Commit, used, Awaited

LEMMA CreateThrowsKeepsInv ==
  ASSUME OnboardingInv, NEW a \in Addresses, CreateThrows(a)
  PROVE  OnboardingInv'
<1>1. UsedInv'
  BY Split, OnboardingBounds DEF CreateThrows, UsedInv
<1> QED
  BY <1>1, TxEnds DEF CreateThrows, Awaited

-----------------------------------------------------------------------------
(* The request and its answers.                                            *)

LEMMA StatusMissingKeepsInv ==
  ASSUME OnboardingInv, NEW t \in Tabs, NEW a \in Addresses, StatusMissing(t, a)
  PROVE  OnboardingInv'
<1>1. /\ post[a] = "unused" /\ Token(t) \in Users /\ a # NoAddress
      /\ page[t].waits = NoAddress /\ tx[a] = NoTx /\ ~NoTx.created
  BY Split, Unwaiting, OnboardingAssumption
  DEF StatusMissing, Missing, Fresh, RowsInv, TxFits, NoTx
<1>2. RowsInv'
  <2>1. TxFits' /\ OneCreates'
    BY <1>1, Split DEF StatusMissing, RowsInv, TxFits, OneCreates, rowVars
  <2>2. WalletsOwned'
    BY <1>1, Split DEF StatusMissing, RowsInv, WalletsOwned, rowVars, Recorded, MaybeAddress
  <2> QED
    BY <1>1, <2>1, <2>2, Split DEF StatusMissing, RowsInv, rowVars, PostPoints
<1>3. PICK p : p = [page[t] EXCEPT !.state = "creating", !.user = Token(t), !.waits = a]
  OBVIOUS
<1>4. page' = [page EXCEPT ![t] = p] /\ p.waits = a
  BY <1>3, Split, PagesAre DEF StatusMissing, Pages
<1>5. PagesInv'
  <2>1. PageFits(t, p)
    BY <1>1, <1>3, Split, PagesAre DEF PageFits, Pages, PageStates, Tokens, MaybeAddress
  <2> QED
    BY <1>4, <2>1, Split, PagesAre, PageReplaced DEF StatusMissing, rowVars, keyVars
<1>6. KeyIsStored'
  BY <1>1, Split
  DEF KeysInv, KeyIsStored, StatusMissing, RowsInv, rowVars, keyVars, used, MaybeAddress
<1>7. PostAwaited'
  <2>1. SUFFICES ASSUME leaves = 0, NEW x \in Addresses,
                        post'[x] \notin {"unused", "done", "refused"}
                 PROVE  page'[poster'[x]].waits = x
    BY DEF PostAwaited, Waits, StatusMissing, used
  <2>2. CASE x = a
    BY <1>4, <2>2, Split, PagesAre DEF StatusMissing, RowsInv
  <2>3. CASE x # a
    <3>1. page[poster[x]].waits = x /\ poster[x] \in Tabs /\ x # NoAddress
      BY <2>1, <2>3, Split, OnboardingAssumption
      DEF StatusMissing, KeysInv, PostAwaited, Waits, RowsInv
    <3> QED
      BY <1>1, <1>4, <2>3, <3>1, Split, PagesAre DEF StatusMissing, RowsInv
  <2> QED
    BY <2>2, <2>3
<1>8. UsedInv'
  BY Split DEF StatusMissing, used, UsedInv
<1> QED
  BY <1>2, <1>5, <1>6, <1>7, <1>8, Joined DEF KeysInv

\* An answer that moves a post to its end leaves the rows.
LEMMA AnswerRows ==
  ASSUME RowsInv, NEW a \in Addresses, post[a] \in {"status", "failed"}, NEW s \in {"done", "refused"},
         post' = [post EXCEPT ![a] = s], UNCHANGED <<rowVars, poster, owner, tx>>
  PROVE  RowsInv'
<1>1. TxFits' /\ OneCreates'
  BY DEF RowsInv, TxFits, OneCreates, rowVars
<1>2. WalletsOwned'
  BY DEF RowsInv, WalletsOwned, rowVars, Recorded, MaybeAddress
<1> QED
  BY <1>1, <1>2 DEF RowsInv, rowVars, PostPoints

\* The other posts are still awaited: their pages are others.
LEMMA AnswerAwaited ==
  ASSUME OnboardingInv, NEW a \in Addresses, NEW s \in {"done", "refused"},
         post' = [post EXCEPT ![a] = s], UNCHANGED <<poster, leaves>>,
         \/ UNCHANGED page
         \/ Waits(a) /\ \E p : page' = [page EXCEPT ![poster[a]] = p]
  PROVE  PostAwaited'
<1>1. SUFFICES ASSUME leaves = 0, NEW x \in Addresses,
                      post'[x] \notin {"unused", "done", "refused"}
               PROVE  page'[poster[x]].waits = x
  BY DEF PostAwaited, Waits
<1>2. x # a /\ page[poster[x]].waits = x /\ poster[x] \in Tabs
  BY <1>1, Split DEF KeysInv, PostAwaited, Waits, RowsInv
<1> QED
  BY <1>2, Split, PagesAre DEF Waits

LEMMA AnswerStatusKeepsInv ==
  ASSUME OnboardingInv, NEW a \in Addresses, AnswerStatus(a)
  PROVE  OnboardingInv'
<1> DEFINE t == poster[a]
           b == BrowserOf[t]
           answer == wallet[owner[a]]
<1>1. /\ t \in Tabs /\ b \in Browsers /\ owner[a] \in Users
      /\ answer \in MaybeAddress /\ a # NoAddress
  BY Split, TokensOK, OnboardingAssumption DEF RowsInv
<1>2. /\ post[a] = "status" /\ post' = [post EXCEPT ![a] = "done"]
      /\ UNCHANGED <<rowVars, poster, owner, tx, token, backups, leaves>>
      /\ wallet' = wallet /\ UsedInv'
  BY Split DEF AnswerStatus, used, UsedInv, rowVars
<1>3. RowsInv'
  BY <1>2, Split, AnswerRows
<1>4. CASE ~Waits(a)
  <2>1. UNCHANGED <<page, storage>> /\ leaves # 0
    BY <1>2, <1>4, Split DEF AnswerStatus, Created, KeysInv, PostAwaited
  <2> QED
    BY <1>2, <1>3, <2>1, Split, PagesFrame, Joined
    DEF KeysInv, KeyIsStored, PostAwaited, rowVars, keyVars
<1>5. CASE Waits(a)
  <2>1. /\ storage' = IF answer = a THEN [storage EXCEPT ![b][a] = a] ELSE storage
        /\ ApplyStatus(t, owner[a], answer, storage')
    BY <1>5 DEF AnswerStatus, Created, Keeps
  <2>2. /\ storage' \in [Browsers -> [Addresses -> MaybeAddress]]
        /\ \A c \in Browsers, x \in Addresses : storage[c][x] = x => storage'[c][x] = x
        /\ answer = a => storage'[b][a] = a
        /\ \A s \in Tabs : \A p : PageFits(s, p) => PageFits(s, p)'
    <3>1. CASE answer = a
      BY <1>1, <1>2, <2>1, <3>1, Split, StoredKeeps
    <3>2. CASE answer # a
      BY <1>2, <2>1, <3>2, Split, PagesAre DEF PageFits
    <3> QED
      BY <3>1, <3>2
  <2>3. PICK p : p = [state |-> "shown", user |-> owner[a], waits |-> NoAddress, address |-> answer,
                      hasKey |-> IF answer = NoAddress THEN FALSE ELSE Matches(t, answer, storage')]
    OBVIOUS
  <2>4. page' = [page EXCEPT ![t] = p]
    BY <2>1, <2>3 DEF ApplyStatus
  <2>5. PageFits(t, p)'
    <3>1. p \in Pages
      BY <1>1, <2>3 DEF Pages, PageStates, Tokens, MaybeAddress, Matches
    <3> QED
      BY <1>1, <1>2, <2>3, <3>1 DEF PageFits, Matches
  <2>6. PagesInv'
    <3>1. page' \in [Tabs -> Pages] /\ \A s \in Tabs : PageFits(s, page[s])'
      <4>1. page \in [Tabs -> Pages] /\ p \in Pages
        BY <2>5, Split, PagesAre DEF PageFits
      <4>2. \A s \in Tabs : PageFits(s, page[s])'
        <5>1. SUFFICES ASSUME NEW s \in Tabs PROVE PageFits(s, page[s])'
          OBVIOUS
        <5>2. CASE s = t
          <6>1. PageFits(s, p)' /\ page'[s] = p
            BY <1>1, <1>2, <2>4, <2>5, <4>1, <5>2
          <6> QED
            BY <6>1
        <5>3. CASE s # t
          <6>1. PICK q : q = page[s] /\ PageFits(s, q)
            BY Split, PagesAre
          <6>2. PageFits(s, q)' /\ page'[s] = q
            BY <2>2, <2>4, <4>1, <5>3, <6>1
          <6> QED
            BY <6>2
        <5> QED
          BY <5>2, <5>3
      <4> QED
        BY <1>1, <2>4, <4>1, <4>2
    <3> QED
      BY <1>2, <2>2, <3>1, Split, PagesAre, PagesBecome
  <2>7. KeyIsStored'
    <3>1. SUFFICES ASSUME leaves = 0, NEW u \in Users, wallet[u] # NoAddress,
                          post'[wallet[u]] = "done"
                   PROVE  \E c \in Browsers : storage'[c][wallet[u]] = wallet[u]
      BY <1>2 DEF KeyIsStored
    <3>2. wallet[u] \in Addresses /\ owner[wallet[u]] = u
      BY <3>1, Split DEF RowsInv, MaybeAddress, WalletsOwned
    <3>3. CASE wallet[u] = a
      BY <1>1, <2>2, <3>2, <3>3
    <3>4. CASE wallet[u] # a
      <4>1. post[wallet[u]] = "done"
        BY <1>2, <3>1, <3>2, <3>4, Split DEF RowsInv
      <4>2. PICK c \in Browsers : storage[c][wallet[u]] = wallet[u]
        BY <3>1, <4>1, Split DEF KeysInv, KeyIsStored
      <4> QED
        BY <2>2, <3>2, <4>2
    <3> QED
      BY <3>3, <3>4
  <2>8. PostAwaited'
    BY <1>2, <1>5, <2>4, AnswerAwaited
  <2> QED
    BY <1>2, <1>3, <2>6, <2>7, <2>8, Joined DEF KeysInv
<1> QED
  BY <1>4, <1>5

LEMMA AnswerErrorKeepsInv ==
  ASSUME OnboardingInv, NEW a \in Addresses, AnswerError(a)
  PROVE  OnboardingInv'
<1>1. /\ post[a] = "failed" /\ post' = [post EXCEPT ![a] = "refused"]
      /\ UNCHANGED <<rowVars, poster, owner, tx, token, keyVars, leaves>>
      /\ UNCHANGED <<wallet, storage>> /\ UsedInv' /\ poster[a] \in Tabs
  BY Split DEF AnswerError, Refused, used, UsedInv, keyVars, rowVars, RowsInv
<1>2. RowsInv'
  BY <1>1, Split, AnswerRows
<1>3. KeyIsStored'
  BY <1>1, Split DEF KeysInv, KeyIsStored, RowsInv, MaybeAddress
<1>4. UNCHANGED page \/ (Waits(a) /\ page' = [page EXCEPT ![poster[a]] = Blank("error")])
  BY DEF AnswerError, Refused
<1>5. PagesInv'
  <2>1. CASE UNCHANGED page
    BY <1>1, <2>1, Split, PagesFrame
  <2>2. CASE page' = [page EXCEPT ![poster[a]] = Blank("error")]
    <3>1. PageFits(poster[a], Blank("error"))
      BY <1>1, BlankFits DEF PageStates
    <3> QED
      BY <1>1, <2>2, <3>1, Split, PagesAre, PageReplaced DEF keyVars
  <2> QED
    BY <1>4, <2>1, <2>2
<1>6. PostAwaited'
  BY <1>1, <1>4, AnswerAwaited
<1> QED
  BY <1>1, <1>2, <1>3, <1>5, <1>6, Joined DEF KeysInv

-----------------------------------------------------------------------------
(* The theorems.                                                           *)

LEMMA InitInv == Init => OnboardingInv
<1> SUFFICES ASSUME Init PROVE OnboardingInv
  OBVIOUS
<1>1. /\ (CHOOSE t \in Tabs : TRUE) \in Tabs
      /\ (CHOOSE u \in Users : TRUE) \in Users
  BY OnboardingAssumption
<1>2. RowsInv
  <2>1. NoTx \in Txs /\ ~NoTx.created /\ NoTx.job = NoAddress
    BY DEF NoTx, Txs, MaybeAddress
  <2> QED
    BY <1>1, <2>1 DEF Init, RowsInv, TxFits, OneCreates, WalletsOwned, MaybeAddress, PostPoints
<1>3. PagesInv
  <2>1. \A t \in Tabs : PageFits(t, page[t]) /\ page[t] \in Pages
    BY BlankFits DEF Init, PageFits, PageStates
  <2>2. page \in [Tabs -> Pages]
    BY <2>1 DEF Init
  <2> QED
    BY <1>1, <2>1, <2>2, PagesAre DEF Init, Tokens, MaybeAddress
<1>4. UsedInv /\ KeysInv
  BY OnboardingBounds DEF Init, UsedInv, KeysInv, KeyIsStored, PostAwaited
<1> QED
  BY <1>2, <1>3, <1>4, Split

LEMMA NextKeepsInv == OnboardingInv /\ [Next]_vars => OnboardingInv'
<1> SUFFICES ASSUME OnboardingInv, [Next]_vars PROVE OnboardingInv'
  OBVIOUS
<1>1. ASSUME NEW t \in Tabs,
             \/ LoadWallet(t) \/ Poll(t) \/ Pending(t) \/ StatusFails(t)
             \/ Leave(t) \/ Logout(t) \/ DownloadPrivateKey(t)
      PROVE  OnboardingInv'
  BY <1>1, ReadsKeepInv, EndsKeepInv, DownloadKeepsInv, StatusMissingKeepsInv DEF Pending
<1>2. ASSUME NEW t \in Tabs, NEW u \in Users, Login(t, u) PROVE OnboardingInv'
  BY <1>2, LoginKeepsInv
<1>3. ASSUME NEW t \in Tabs, NEW a \in Addresses, ImportPrivateKey(t, a) PROVE OnboardingInv'
  BY <1>3, ImportKeepsInv
<1>4. ASSUME NEW b \in Browsers, Expire(b) PROVE OnboardingInv'
  BY <1>4, ExpireKeepsInv
<1>5. ASSUME NEW a \in Addresses, Creates(a) \/ CreateThrows(a) PROVE OnboardingInv'
  BY <1>5, InsertWalletKeepsInv, CreateFundingJobKeepsInv, CommitKeepsInv,
     AnswerStatusKeepsInv, AnswerErrorKeepsInv, CreateThrowsKeepsInv DEF Creates
<1>6. CASE UNCHANGED vars
  <2>1. UsedInv'
    BY <1>6, Split DEF vars, used, UsedInv
  <2> QED
    BY <1>6, <2>1, Split, RowsFrame, PagesFrame, KeysFrame, Joined
    DEF vars, rowVars, postVars, keyVars, used
<1> QED
  BY <1>1, <1>2, <1>3, <1>4, <1>5, <1>6 DEF Next

\* Rows, posts, pages and keys keep the invariant, whatever fails, is left or is
\* done in another session.
THEOREM OnboardingInvariant == Spec => []OnboardingInv
BY InitInv, NextKeepsInv, PTL DEF Spec

\* No page shows a wrong wallet, or claims a key that its browser has not got.
THEOREM PagesTellTruth == Spec => []PageTellsTruth
<1>1. OnboardingInv => PageTellsTruth
  BY DEF OnboardingInv
<1> QED
  BY <1>1, OnboardingInvariant, PTL

\* The key of a wallet is stored once its post is answered, if nobody left.
THEOREM KeysAreStored == Spec => []KeyIsStored
<1>1. OnboardingInv => KeyIsStored
  BY DEF OnboardingInv
<1> QED
  BY <1>1, OnboardingInvariant, PTL

LEMMA PromiseStep == OnboardingInv /\ [Next]_vars => [Promise!Next]_<<wallet, job>>
<1> SUFFICES ASSUME OnboardingInv, [Next]_vars PROVE [Promise!Next]_<<wallet, job>>
  OBVIOUS
<1>1. ASSUME NEW a \in Addresses, post[a] = "commit", CommitRows(a)
      PROVE  [Promise!Next]_<<wallet, job>>
  <2>1. CASE UNCHANGED rowVars
    BY <2>1 DEF rowVars
  <2>2. CASE /\ wallet[owner[a]] = NoAddress
             /\ wallet' = [wallet EXCEPT ![owner[a]] = a] /\ job' = wallet'
    <3>1. owner[a] \in Users /\ job = wallet
      BY Split DEF RowsInv
    <3>2. Promise!Create(owner[a], a)
      BY <2>2, <3>1 DEF Promise!Create
    <3> QED
      BY <3>1, <3>2 DEF Promise!Next
  <2> QED
    BY <1>1, <2>1, <2>2, CommitCreates, Split
<1>2. ASSUME NEW a \in Addresses, Creates(a) \/ CreateThrows(a)
      PROVE  [Promise!Next]_<<wallet, job>>
  BY <1>1, <1>2
  DEF Creates, InsertWallet, CreateFundingJobInTransaction, Commit, AnswerStatus, AnswerError,
      CreateThrows, rowVars
<1>3. ASSUME ~ \E a \in Addresses : Creates(a) \/ CreateThrows(a)
      PROVE  UNCHANGED <<wallet, job>>
  BY <1>3
  DEF Next, LoadWallet, Poll, Pending, StatusShown, StatusDenied, StatusMissing, StatusFails,
      Leave, Logout, DownloadPrivateKey, Login, ImportPrivateKey, Expire, rowVars, vars
<1> QED
  BY <1>2, <1>3

\* A user's first wallet is the only one and its job comes with it.
THEOREM OnboardingKeepsPromise == Spec => OnboardingPromiseKept
<1>1. Init => Promise!Init
  BY DEF Init, Promise!Init
<1> QED
  BY <1>1, PromiseStep, OnboardingInvariant, PTL
  DEF Spec, OnboardingPromiseKept, Promise!Spec
=============================================================================
