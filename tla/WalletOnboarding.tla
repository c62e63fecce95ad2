------------------------- MODULE WalletOnboarding -------------------------
(***************************************************************************)
(* How a user gets a wallet: the wallet page (frontend/src/pages/          *)
(* Wallet.jsx), the keys of the browser (frontend/src/lib/walletKey.js),   *)
(* the token its tabs share (frontend/src/lib/token.ts), and the           *)
(* transaction that records the wallet and its funding job (createWallet   *)
(* of backend/src/services/walletService.js).                              *)
(*                                                                         *)
(* A page that is told the user has no wallet makes a key and posts its    *)
(* address.  It stores the key only once the answer names that address:    *)
(* a page left before then takes its key with it, and the request goes on  *)
(* without it.  A private key is named by its address, and a post by the   *)
(* address it carries, which no other post does.                           *)
(*                                                                         *)
(* A request is made as the user of the token that the browser holds when  *)
(* it is sent.  A login in one tab changes it for all of them, and a page  *)
(* that is open goes on, as another user.                                  *)
(***************************************************************************)
EXTENDS Naturals, FiniteSets

CONSTANTS
  Users, Tabs,
  NoUser, Expired,        \* no token; one that is no longer good
  Browsers, BrowserOf,    \* the browser each tab belongs to
  Addresses,              \* bound: the wallets that can be generated
  NoAddress,
  FaultPoints,            \* the awaits that may fail: of createWallet, and the page's "fetch"
  MaxFaults, MaxLeaves,   \* bounds: failures, and pages left
  MaxSessions             \* bound: logins, and tokens that expire

ASSUME OnboardingAssumption ==
  /\ Users # {} /\ Tabs # {}
  /\ BrowserOf \in [Tabs -> Browsers]
  /\ NoAddress \notin Addresses
  /\ NoUser \notin Users /\ Expired \notin Users /\ NoUser # Expired

ASSUME OnboardingBounds ==
  MaxFaults \in Nat /\ MaxLeaves \in Nat /\ MaxSessions \in Nat

VARIABLES
  wallet, job,      \* the rows of wallets and wallet_funding_jobs: the address of each
  post,             \* where the request of each address is
  poster, owner,    \* the tab that sent it, and the user it was sent as
  tx,               \* what its open transaction did
  page,             \* what each tab shows
  token,            \* the user whose token each browser holds
  storage,          \* the private key each browser keeps for an address
  backups,          \* the keys users saved to a file
  faults, leaves, sessions  \* how much of each bound is used

rowVars == <<wallet, job>>
postVars == <<post, poster, owner, tx>>
keyVars == <<storage, backups>>
used == <<faults, leaves, sessions>>
vars == <<rowVars, postVars, page, token, keyVars, used>>

MaybeAddress == Addresses \cup {NoAddress}
Tokens == Users \cup {NoUser, Expired}
PostPoints == {"unused", "wallet", "job", "commit", "status", "failed", "done", "refused"}
PageStates == {"away", "loading", "creating", "error", "shown"}

\* user: as whom the page asked last; waits: the address whose answer it waits
\* for; address: the wallet it shows.
Pages == [state : PageStates, user : Tokens, waits : MaybeAddress,
          address : MaybeAddress, hasKey : BOOLEAN]
Txs == [created : BOOLEAN, address : MaybeAddress, job : MaybeAddress]

NoTx == [created |-> FALSE, address |-> NoAddress, job |-> NoAddress]
Blank(state) == [state |-> state, user |-> NoUser, waits |-> NoAddress,
                 address |-> NoAddress, hasKey |-> FALSE]
Asking(user) == [Blank("loading") EXCEPT !.user = user]

Init ==
  /\ wallet = [u \in Users |-> NoAddress] /\ job = [u \in Users |-> NoAddress]
  /\ post = [a \in Addresses |-> "unused"]
  /\ poster = [a \in Addresses |-> CHOOSE t \in Tabs : TRUE]
  /\ owner = [a \in Addresses |-> CHOOSE u \in Users : TRUE]
  /\ tx = [a \in Addresses |-> NoTx]
  /\ page = [t \in Tabs |-> Blank("away")]
  /\ token = [b \in Browsers |-> CHOOSE u \in Users : TRUE]
  /\ storage = [b \in Browsers |-> [a \in Addresses |-> NoAddress]]
  /\ backups = {}
  /\ faults = 0 /\ leaves = 0 /\ sessions = 0

Token(t) == token[BrowserOf[t]]
SetToken(t, tk) == token' = [token EXCEPT ![BrowserOf[t]] = tk]
Fresh(a) == post[a] = "unused"

\* Keys that were not made are all alike.
NextKey == CHOOSE a \in Addresses : Fresh(a)

-----------------------------------------------------------------------------
(* The page.                                                               *)

Matches(t, a, keys) == keys[BrowserOf[t]][a] = a

\* applyStatus, of the status of a user, with what the browser keeps by then.
ApplyStatus(t, user, a, keys) ==
  page' = [page EXCEPT ![t] =
    [state |-> "shown", user |-> user, waits |-> NoAddress, address |-> a,
     hasKey |-> IF a = NoAddress THEN FALSE ELSE Matches(t, a, keys)]]

\* The page opens, where there is a token, or "Reload Wallet" is pressed; the
\* button is off while loading.
LoadWallet(t) ==
  /\ \/ page[t].state = "away" /\ Token(t) # NoUser
     \/ page[t].state \in {"error", "shown"}
  /\ page' = [page EXCEPT ![t] = Asking(Token(t))]
  /\ UNCHANGED <<rowVars, postVars, token, keyVars, used>>

\* A login, also in a tab whose login page is older than the browser's token.
Login(t, u) ==
  /\ page[t].state = "away" /\ sessions < MaxSessions
  /\ SetToken(t, u)
  /\ page' = [page EXCEPT ![t] = Asking(u)]
  /\ sessions' = sessions + 1
  /\ UNCHANGED <<rowVars, postVars, keyVars, faults, leaves>>

\* A token expires, or its user is frozen: what is asked with it is refused.
Expire(b) ==
  /\ token[b] \in Users /\ sessions < MaxSessions
  /\ token' = [token EXCEPT ![b] = Expired]
  /\ sessions' = sessions + 1
  /\ UNCHANGED <<rowVars, postVars, page, keyVars, faults, leaves>>

\* The status names the wallet: the page shows it.
StatusShown(t) ==
  /\ page[t].state = "loading" /\ page[t].user \in Users
  /\ wallet[page[t].user] # NoAddress
  /\ ApplyStatus(t, page[t].user, wallet[page[t].user], storage)
  /\ UNCHANGED <<rowVars, postVars, token, keyVars, used>>

\* A page that shows a wallet polls, as the user of the token by then, who may
\* have no wallet.  (A poll that is refused or fails changes nothing.)
Poll(t) ==
  /\ page[t].state = "shown" /\ page[t].address # NoAddress /\ Token(t) \in Users
  /\ ApplyStatus(t, Token(t), wallet[Token(t)], storage)
  /\ UNCHANGED <<rowVars, postVars, token, keyVars, used>>

Missing(t) ==
  /\ page[t].state = "loading" /\ page[t].user \in Users
  /\ wallet[page[t].user] = NoAddress

\* There is no wallet: the page makes a key and posts its address, as the user
\* of the token by then.
StatusMissing(t, a) ==
  /\ Missing(t) /\ Token(t) \in Users /\ Fresh(a) /\ a = NextKey
  /\ page' = [page EXCEPT ![t].state = "creating", ![t].user = Token(t), ![t].waits = a]
  /\ post' = [post EXCEPT ![a] = "wallet"]
  /\ poster' = [poster EXCEPT ![a] = t] /\ owner' = [owner EXCEPT ![a] = Token(t)]
  /\ UNCHANGED <<rowVars, tx, token, keyVars, used>>

\* Back to the login page, without the token that the browser has by now.
SessionEnds(t) ==
  /\ SetToken(t, NoUser)
  /\ page' = [page EXCEPT ![t] = Blank("away")]

\* The status, or the post, is asked with a token that is not good: 401 or 403.
StatusDenied(t) ==
  /\ page[t].state = "loading"
  /\ page[t].user \notin Users \/ (Missing(t) /\ Token(t) \notin Users)
  /\ SessionEnds(t)
  /\ UNCHANGED <<rowVars, postVars, keyVars, used>>

\* The status is not to be had; or requireAuth cannot read the account, and
\* takes the token for a bad one.
StatusFails(t) ==
  /\ page[t].state = "loading" /\ "fetch" \in FaultPoints /\ faults < MaxFaults
  /\ faults' = faults + 1
  /\ \/ page' = [page EXCEPT ![t] = Blank("error")] /\ UNCHANGED token
     \/ SessionEnds(t)
  /\ UNCHANGED <<rowVars, postVars, keyVars, leaves, sessions>>

\* The page is left: what it waits for will find nobody.
Leave(t) ==
  /\ page[t].state # "away" /\ leaves < MaxLeaves
  /\ leaves' = leaves + 1
  /\ page' = [page EXCEPT ![t] = Blank("away")]
  /\ UNCHANGED <<rowVars, postVars, token, keyVars, faults, sessions>>

Logout(t) ==
  /\ page[t].state # "away" /\ leaves < MaxLeaves
  /\ leaves' = leaves + 1
  /\ SessionEnds(t)
  /\ UNCHANGED <<rowVars, postVars, keyVars, faults, sessions>>

Waits(a) == page[poster[a]].waits = a

\* The key is stored if the wallet is the one this page made.
KeepsNone(a, answer) == FALSE

Keeps(a, answer) == answer = a

\* The answer of /wallet/create.
Created(a, answer) ==
  LET t == poster[a]
      b == BrowserOf[t] IN
  IF ~Waits(a) THEN UNCHANGED <<page, storage>>
  ELSE /\ storage' = IF Keeps(a, answer) THEN [storage EXCEPT ![b][a] = a] ELSE storage
       /\ ApplyStatus(t, owner[a], answer, storage')

RefusedSilently(a) == UNCHANGED <<page, storage>>

Refused(a) ==
  /\ page' = IF Waits(a) THEN [page EXCEPT ![poster[a]] = Blank("error")] ELSE page
  /\ UNCHANGED storage

\* The backup of the key the browser keeps for the wallet shown.
DownloadPrivateKey(t) ==
  LET key == storage[BrowserOf[t]][page[t].address] IN
  /\ page[t].state = "shown" /\ page[t].address # NoAddress /\ key # NoAddress
  /\ backups' = backups \cup {key}
  /\ UNCHANGED <<rowVars, postVars, page, token, storage, used>>

\* A key is imported only for the wallet it is the key of.
ImportsAny(key, a) == TRUE

Imports(key, a) == key = a

ImportPrivateKey(t, key) ==
  /\ page[t].state = "shown" /\ page[t].address # NoAddress /\ key \in backups
  /\ Imports(key, page[t].address)
  /\ storage' = [storage EXCEPT ![BrowserOf[t]][page[t].address] = key]
  /\ page' = [page EXCEPT ![t].hasKey = TRUE]
  /\ UNCHANGED <<rowVars, postVars, token, backups, used>>

-----------------------------------------------------------------------------
(* createWallet: one transaction, then the status.                         *)

\* Another open transaction inserted this user's wallet, or job: inserting it
\* too waits for the end of that transaction.
WalletLocked(a) == \E c \in Addresses \ {a} : owner[c] = owner[a] /\ tx[c].created
JobLocked(a) == \E c \in Addresses \ {a} : owner[c] = owner[a] /\ tx[c].job # NoAddress

\* INSERT ... ON CONFLICT DO NOTHING, and the SELECT of the wallet in its way.
InsertsAlways(u) == TRUE

Inserts(u) == wallet[u] = NoAddress

InsertWallet(a) ==
  LET u == owner[a] IN
  /\ post[a] = "wallet" /\ ~WalletLocked(a)
  /\ tx' = [tx EXCEPT ![a] =
       IF Inserts(u) THEN [NoTx EXCEPT !.created = TRUE, !.address = a]
       ELSE [NoTx EXCEPT !.address = wallet[u]]]
  /\ post' = [post EXCEPT ![a] = "job"]
  /\ UNCHANGED <<rowVars, poster, owner, page, token, keyVars, used>>

\* The job is for the wallet, whoever made it.
CreateFundingJobInTransaction(a) ==
  /\ post[a] = "job" /\ ~JobLocked(a)
  /\ tx' = [tx EXCEPT ![a].job = IF job[owner[a]] = NoAddress THEN tx[a].address ELSE NoAddress]
  /\ post' = [post EXCEPT ![a] = "commit"]
  /\ UNCHANGED <<rowVars, poster, owner, page, token, keyVars, used>>

\* What the transaction of a did takes effect.
CommitRows(a) ==
  LET u == owner[a] IN
  /\ wallet' = IF tx[a].created THEN [wallet EXCEPT ![u] = a] ELSE wallet
  /\ job' = IF tx[a].job # NoAddress THEN [job EXCEPT ![u] = tx[a].job] ELSE job

Commit(a) ==
  /\ post[a] = "commit"
  /\ CommitRows(a)
  /\ tx' = [tx EXCEPT ![a] = NoTx]
  /\ post' = [post EXCEPT ![a] = "status"]
  /\ UNCHANGED <<poster, owner, page, token, keyVars, used>>

\* getWalletStatus, and its answer reaches the page.
AnswerStatus(a) ==
  /\ post[a] = "status"
  /\ Created(a, wallet[owner[a]])
  /\ post' = [post EXCEPT ![a] = "done"]
  /\ UNCHANGED <<rowVars, poster, owner, tx, token, backups, used>>

\* A statement fails: the transaction, unless it was committed, is rolled back,
\* and the answer is 500.  "commitAck" is a commit whose answer is lost.
CreateThrows(a) ==
  /\ post[a] \in {"wallet", "job", "commit", "status"} /\ faults < MaxFaults
  /\ \/ post[a] \in FaultPoints /\ UNCHANGED rowVars
     \/ post[a] = "commit" /\ "commitAck" \in FaultPoints /\ CommitRows(a)
  /\ faults' = faults + 1
  /\ tx' = [tx EXCEPT ![a] = NoTx]
  /\ post' = [post EXCEPT ![a] = "failed"]
  /\ UNCHANGED <<poster, owner, page, token, keyVars, leaves, sessions>>

AnswerError(a) ==
  /\ post[a] = "failed"
  /\ Refused(a)
  /\ post' = [post EXCEPT ![a] = "refused"]
  /\ UNCHANGED <<rowVars, poster, owner, tx, token, backups, used>>

-----------------------------------------------------------------------------
Creates(a) ==
  \/ InsertWallet(a) \/ CreateFundingJobInTransaction(a) \/ Commit(a)
  \/ AnswerStatus(a) \/ AnswerError(a)

Pending(t) ==
  \/ StatusShown(t) \/ StatusDenied(t)
  \/ \E a \in Addresses : StatusMissing(t, a)

Next ==
  \/ \E t \in Tabs :
       \/ LoadWallet(t) \/ Poll(t) \/ Pending(t) \/ StatusFails(t)
       \/ Leave(t) \/ Logout(t) \/ DownloadPrivateKey(t)
       \/ \E u \in Users : Login(t, u)
       \/ \E a \in Addresses : ImportPrivateKey(t, a)
  \/ \E b \in Browsers : Expire(b)
  \/ \E a \in Addresses : Creates(a) \/ CreateThrows(a)

Spec == Init /\ [][Next]_vars

\* Every request that was sent is answered, and every page asks.
FairSpec ==
  /\ Spec
  /\ \A a \in Addresses : WF_vars(Creates(a))
  /\ \A t \in Tabs : WF_vars(Pending(t))

-----------------------------------------------------------------------------
(* Properties.                                                             *)

OnboardingTypeOK ==
  /\ wallet \in [Users -> MaybeAddress] /\ job \in [Users -> MaybeAddress]
  /\ post \in [Addresses -> PostPoints]
  /\ poster \in [Addresses -> Tabs] /\ owner \in [Addresses -> Users]
  /\ tx \in [Addresses -> Txs]
  /\ page \in [Tabs -> Pages]
  /\ token \in [Browsers -> Tokens]
  /\ storage \in [Browsers -> [Addresses -> MaybeAddress]]
  /\ backups \subseteq Addresses
  /\ faults \in 0..MaxFaults /\ leaves \in 0..MaxLeaves /\ sessions \in 0..MaxSessions

\* The wallet and its job are recorded as OnboardingPromise says, however the
\* posts of a user's tabs interleave, fail or outlive their pages and sessions.
Promise == INSTANCE OnboardingPromise
OnboardingPromiseKept == Promise!Spec

\* What a page shows is the wallet of the user it asked as, whoever logged in
\* meanwhile, and it says that the wallet can sign only if the browser keeps the
\* key of this wallet.
PageTellsTruth ==
  \A t \in Tabs : page[t].state = "shown" /\ page[t].address # NoAddress =>
    /\ page[t].address = wallet[page[t].user]
    /\ page[t].hasKey => storage[BrowserOf[t]][page[t].address] = page[t].address

\* The key of a recorded wallet is in some browser once its post is answered
\* with a status, if no page was left.
KeyIsStored ==
  leaves = 0 =>
    \A u \in Users :
      LET a == wallet[u] IN
      a # NoAddress /\ post[a] = "done"
        => \E b \in Browsers : storage[b][a] = a

\* Why the wallet and its job are recorded at once: a transaction that is open
\* made the wallet, and then its job, or found one, and no two of one user's make it.
TxFits ==
  \A a \in Addresses :
    LET open == post[a] \in {"job", "commit"} IN
    /\ ~open => tx[a] = NoTx
    /\ open => (tx[a].created <=> wallet[owner[a]] = NoAddress)
    /\ tx[a].created => tx[a].address = a
    /\ tx[a].job = IF post[a] = "commit" /\ tx[a].created THEN a ELSE NoAddress

OneCreates ==
  \A a, c \in Addresses :
    tx[a].created /\ tx[c].created /\ owner[a] = owner[c] => a = c

Recorded == {"status", "failed", "done", "refused"}

WalletsOwned ==
  \A u \in Users :
    wallet[u] # NoAddress => owner[wallet[u]] = u /\ post[wallet[u]] \in Recorded

\* Why its key is stored: while no page is left, a post's page waits for it.
PageWaits ==
  \A t \in Tabs : /\ page[t].waits # NoAddress => page[t].state = "creating"
                  /\ page[t].address # NoAddress => page[t].user \in Users

PostAwaited ==
  leaves = 0 =>
    \A a \in Addresses : post[a] \notin {"unused", "done", "refused"} => Waits(a)

\* The inductive invariant: rows, posts and pages fit, and no page deceives its
\* user.
OnboardingInv ==
  /\ OnboardingTypeOK /\ PageTellsTruth /\ KeyIsStored
  /\ job = wallet /\ TxFits /\ OneCreates /\ WalletsOwned
  /\ PageWaits /\ PostAwaited

Loading(t) == page[t].state \in {"loading", "creating"}

\* A page that loads ends with a status, an error or at the login, or it is left.
\* (Or there is no key left that it could make.)
LoadingEnds ==
  \A t \in Tabs :
    Loading(t) ~> \/ ~Loading(t)
                  \/ page[t].state = "loading" /\ \A a \in Addresses : ~Fresh(a)
=============================================================================
