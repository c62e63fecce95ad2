# Tokenix: a TLA+ verification project

Tokenix is a demo wallet: users register, get a wallet whose key stays in their
browser, are funded by a background worker (a little ETH for gas, then 100 TNX
from a faucet contract), and send each other tokens; the backend records the
transfers and follows them until they are settled. Paths below are relative to
the root of the repository.

1. [The system](#1-the-system)
2. [Modules](#2-modules)
3. [What is abstracted](#3-what-is-abstracted)
4. [Runs, bounds and fairness](#4-runs-bounds-and-fairness)
5. [Proofs](#5-proofs)
6. [Findings](#6-findings)
7. [Not modelled, and the plan](#7-not-modelled-and-the-plan)

## 1. The system

### Components

| Component | State it keeps | Operations |
| --- | --- | --- |
| Wallet funding worker (`backend/src/services/walletFundingWorker.js`) | none of its own between turns; within one, the job row it read at acquisition, the nonce floor, the reserved nonce | `acquireJob`, `processJob`, `processPhase`, `preparePhase`, `initializeNonceReservation`, `reserveNonce`, `broadcastOutbox`, `finalizePhaseIfReady`, `markJobError`, `releaseJob`, the `tick` timer |
| Funding tables (`backend/db/init.sql`) | `wallet_funding_jobs` (phase statuses, lifecycle, lease, version, `next_retry_at`), `signed_transaction_outbox` (one signed transaction per job and phase), `faucet_nonce_reservations` (next nonce of the signer) | the SQL above and below |
| Funding jobs and wallet status (`walletFundingService.js`) | the job row | `createFundingJobInTransaction`, `getWalletStatus`, `enqueueFundingRetry` |
| Chain client (`BlockchainClient.js`) | a provider and a signer | nonces, signing, broadcast, receipts, `waitForTransaction` with its timeout |
| Faucet and token contracts (`blockchain/contracts`) | who has claimed, token balances, owner | `claim`, `recoverTokenOwnership`, ERC-20 |
| Transfer record (`transactionService.js`, `transactionRoutes.js`) | `transactions` rows; one promise in memory per pending row | `recordSubmittedTransfer`, `finalizeTransactionInBackground`, the history |
| Bootstrap and migrations (`bootstrap/runDatabaseBootstrap.js`, `db/`) | the schema | at every start: every migration again, among them the one that fails stale pending transfers |
| Wallet creation (`walletService.js`, `walletRoutes.js`) | `wallets` rows | `createWallet`: wallet and job in one transaction |
| Wallet page and browser keys (`pages/Wallet.jsx`, `lib/walletKey.js`) | what the page shows, the key in `localStorage`, backups | load, create, poll, back up, import |
| Send page (`pages/SendTokens.jsx`, `lib/sendTokenReadiness.js`) | the form, the balance it read, the status panel | read the wallet, check, estimate, sign, broadcast, post, poll |
| History page (`pages/TransactionHistory.jsx`) | the rows it shows, whether it loads | open, load, refresh, poll |
| Accounts, administration (`authService.js`, `requireAuth.js`, `adminService.js`) | `users` rows, JWTs | register, log in, freeze, change roles |
| Sessions in the browser (`lib/token.ts`, `lib/auth.ts`) | one token in `localStorage`, for all tabs | log in, log out, cleared at a 401 |
| Administration page (`pages/Admin.jsx`) | the list of users, the row it locks | load, freeze, unfreeze, change roles |
| Demo seed (`backend/scripts/prepare-demo-data.js`) | a file with the demo wallets' keys; rows of every table | make wallets, fund them, transfer around a circle |
| Deployment (`ignition/modules/Token.cjs`, `scripts/sync-abi.js`, `entrypoint.sh`) | the contracts, the files with addresses and epoch | deploy, hand the token to the faucet, write the files |
| Outbox encryption (`outboxEncryption.js`) | a key | AES-GCM over signed transactions |
| API client, routing, server start | | presentation and I/O |

### How they interact, and what is hard

* **Worker, tables and chain.** Workers in several containers share the three
  tables, and every job is paid from one signer account, so one sequence of
  nonces. There is a lease (`locked_by`, `locked_until`) with a version, but a
  worker whose lease ran out goes on until its next check; the outbox updates
  have no lease guard; and what was true when the job was acquired (phase and
  status) is used, without a second look, until the turn ends. A crash, a thrown
  statement or a lost RPC answer may fall at any `await`: between the
  reservation of a nonce and its row, between the row and the broadcast, between
  the broadcast and its record. A node with a pool queues nonces that are ahead;
  Hardhat's automining refuses them.
* **User and worker.** `enqueueFundingRetry` resets phases whoever holds the
  lease.
* **Seed and worker.** `scripts/prepare-demo-data.js` sends from the signer's
  account, past the reservation table.
* **Seed, database, file and chain.** The seed writes a wallet's row at once and
  all keys at the end of its first part, claims from the faucet and marks the job
  ready afterwards, and moves tokens before it records that it did. It may stop
  at any await; each of the three stores may be lost without the others; and the
  chain is started anew whenever its container is.
* **Browser, record and chain.** The browser sends a transfer first and tells
  the backend afterwards. The check that its hash is new and the insert are
  apart. The confirmation is a promise in memory: a wait of 60 seconds, two
  writes, a catch that writes as well; a restart forgets it. Pages poll until
  the first settled status and then stop.
* **Tabs of one wallet.** Each tab checks against the balance it read last and
  asks the node for a nonce just before it sends; polls and reads are answered
  when the page has gone on to the next transfer.
* **Administrators and users.** A request is let through by one read of the
  account and does its work afterwards; a login decides from the row it read
  before it compared the password; registering looks up first and inserts later.
* **Tabs and sessions.** A browser keeps one token. A login in one tab makes the
  next request of every open page speak for somebody else, and a 401, however
  late, clears whatever token is there by then; a query that throws in
  `requireAuth` is answered 401, too.
* **Loads, polls and changes.** The history and the administration page number
  no request: an answer is shown when it arrives.
* **Pages, keys and wallets.** A page makes a key, posts its address and stores
  the key only when the answer names this address. Tabs and browsers of one user
  race; a page can be left while its post is under way; the status read after
  the commit can fail.

What makes each part correct: nobody is paid twice and everybody once in the
end; what is sent can always be sent again from the outbox; no nonce is given out
twice; *ready* means paid, for good; a transfer is recorded once, *confirmed*
means executed, *settled* stays settled and is reached; a user has one wallet
with one job that pays it, and no page claims a key it does not have, whoever is
logged in; a panel speaks of its own transfer, a page does not hang, and what it
shows is what the record says, or the users' table, unless it was overtaken; an
email has one account that keeps its secret, only administrators change
accounts, and who is frozen ceases to act; the faucet pays a wallet once and no
token is unaccounted for; the seed, run again, repairs what it left. The
`hazards` of `PROJECT.json` list, line by line, where each of these can break.

## 2. Modules

| Module | What it is |
| --- | --- |
| `FundingWorker` | The worker, its tables and the chain. State, actions, fairness, type invariant, safety properties. |
| `FundingPromise` | The abstract specification: a wallet gets its gas, then its tokens, each at most once, and is declared ready, for good, when it holds both. |
| `FundingRefinement` | The mapping (`funds`: what the chain holds; `ready`: the job rows) and `PromiseKept`. |
| `FundingInvariant` | The inductive invariant `IInv` in named parts. |
| `FundingWorkerProofs` | Theorems of `FundingWorker` for every value of the constants, its refinement of `FundingPromise` included. |
| `TransferLifecycle` | Requests to record a transfer, the table, the promises in memory, restarts, pages. |
| `TransferPromise` | Abstract: entered once as pending, confirmed only if executed, final once settled, but for a confirmation that was not acknowledged. |
| `TransferProofs` | Theorems of `TransferLifecycle`, its refinement of `TransferPromise` included. |
| `HistoryPage` | The history page over `TransferPromise`. |
| `HistoryProofs` | Theorems of `HistoryPage`. |
| `WalletOnboarding` | Pages, the token they share, keys, posts and the transaction of `createWallet`. |
| `OnboardingPromise` | Abstract: a user's first wallet is the only one and its job comes with it. |
| `OnboardingProofs` | Theorems of `WalletOnboarding`, its refinement of `OnboardingPromise` included. |
| `SendPage` | The send page in several tabs, over `TransferPromise` for the history. |
| `SendProofs` | Theorems of `SendPage`. |
| `AccountAdmin` | Registration, logins, the check before a request, freezing and roles. |
| `AccountPromise` | Abstract: one account per email with the secret it was opened with; only who has been an administrator changes accounts. |
| `AccountProofs` | Theorems of `AccountAdmin`, its refinement of `AccountPromise` included. |
| `AdminPage` | The administration page and what the backend's handlers do for it. |
| `AdminPageProofs` | Theorems of `AdminPage`. |
| `TokenFaucet` | The two contracts: minting, transfers, claims, owners. |
| `TokenPromise` | Abstract: a wallet is granted its amount once, and tokens are only moved otherwise, while the faucet holds the token. |
| `DemoSeed` | The demo script and the deployments over `TokenFaucet`. |
| `DemoProofs` | Theorems of `TokenFaucet` and `DemoSeed`, the refinement of `TokenPromise` included. |
| `MC...` | Values of the constants for TLC. |

The chain is part of `FundingWorker` (the signer's account: `mempool`, `mined`)
and of `TransferLifecycle` (the fate of users' transfers): the two accounts
never meet. `FundingWorker` stands alone from `WalletOnboarding`, whose commit is
its `CreateFundingJob`. `SendPage` composes with the record through its promise:
its `TransferTokens` and `Settle` are the abstract record's `Enter` and `Settle`,
which `TransferLifecycle` is proved to implement (section 5); `HistoryPage` runs
over every step of the same promise. `DemoSeed` extends `TokenFaucet`, and its
chain is proved to implement `TokenPromise`.

### State and actions

An action is what the code does between two awaits: one SQL statement (or one
SQL transaction whose statements nobody sees apart) or one RPC, and the
branching up to the next await. `pc[p]` names the statement a worker is about to
run; `post[r]`, `fin[i]` (transfers) and `post[a]` (wallets) do so for requests
and promises.

`FundingWorker`:

| Code | Model |
| --- | --- |
| `wallet_funding_jobs` row | `job[j]`: phase statuses, lifecycle, `ready`, `lockedBy`, `leaseLive` (`locked_until` in the future), `version`, `due` (`next_retry_at` in the past) |
| `signed_transaction_outbox` row | `outbox[j][phase]`: nonce and status |
| `faucet_nonce_reservations.next_nonce` | `nextNonce` |
| `job` argument of `processJob` and below | `snap[p]` |
| provider nonce, floor, reserved nonce | `floor[p]`, `nonce[p]` |
| `acquireJob` | `Acquire` |
| `processPhase` | `LookUp`, `WithOutbox`, `Missing`, `AfterNotFinal` |
| `preparePhase` | `Prepare`, `Recheck`, `Sign`, `Persist`, `Insert`, `CheckSigned`, `SetPhaseSigned`, `Collect` |
| `initializeNonceReservation`, `reserveNonce` | `ReadNonce`, `ReadOutbox`, `Upsert`, `Reserve` |
| `broadcastOutbox` | `CheckLease`, `Broadcast`, `OutboxBroadcast`, `JobBroadcast` |
| `finalizePhaseIfReady` | `ReadReceipt`, `Pending`, `Reverted`, `Confirm`, `OutboxConfirmed` |
| `releaseJob`, the last update and the catch of `processJob` | `Release`, `CatchError` |
| a throwing await, a dead process | `Throw`, `Crash` |
| `createFundingJobInTransaction`, `enqueueFundingRetry` | `CreateFundingJob`, `EnqueueFundingRetry` |
| time | `BecomeDue`, `LeaseExpires` |
| the node | `Mine`, `DropTx`, `Accepted`, `PendingNonces`; `ForeignSend` for the demo seed |

`TransferLifecycle`: `rows` is the table, `fin[i]` the promise of row `i`,
`panel[r]` what the page of request `r` shows. `Submit`, `EnsureUniqueTxHash`,
`ValidateSubmittedTransfer`, `CreatePendingTransaction` and `SubmitThrows` are
`recordSubmittedTransfer`; `Receipt`, `Timeout`, `MarkTransactionConfirmed`,
`MarkTransactionFailed` and `FinalizeThrows` are
`finalizeTransactionInBackground`; `Crash` and `Boot` a restart with its
migration; `Poll` the page's effect.

`WalletOnboarding`: `LoadWallet`, `StatusShown`, `StatusMissing`, `StatusDenied`,
`StatusFails` and `Leave` are the page's `loadWallet` and its cleanup, `Poll` its
interval; `Login`, `Logout`, `Expire` what happens to `token[b]`, which every
request is made with; `InsertWallet`, `CreateFundingJobInTransaction`, `Commit`, `AnswerStatus`,
`CreateThrows` and `AnswerError` are `createWallet` and its route;
`DownloadPrivateKey` and `ImportPrivateKey` the backup. What an open transaction
did is in `tx` until it commits; `WalletLocked` and `JobLocked` are the waits of
an insert on the uncommitted row of another.

`SendPage`: `Submit`, `EstimateTransferNativeCost`, `Populate`,
`BroadcastTokenTransfer`, `TransferTokens`, `Submitted` and `SubmitThrows` are
`handleSubmit` from await to await (`Populate` is the estimate and the nonce
that `contract.transfer` asks for before it signs); `ReadWallet`, `WalletLoaded`
and `WalletFails` are `loadWallet`; `Poll` and `Polled` the polling effect;
`ClearFeedbackOnEdit`, `Open` and `Leave` the form. `page[t].state` refines
`transferState`.

`HistoryPage`: `Open`, `Refresh` and `Tick` call `loadTransactions`; `ReadRows` is
the backend's query, `Arrives` and `Fails` its continuation. `asked` and
`answers` are requests before and after the query; an answer is `late` when one
that was read after it has been shown.

`AccountAdmin`: `call[c]` is a request being handled. `Register` and
`InsertUser` are `register`; `Login` and `ComparePassword` are `login`;
`Request` and `RequireAuth` are `requireAuth` with `requireAdmin`; `Handle` is
the route, with `SetUserFrozen` and `SetUserRole`; `Throws` an await that fails.
`trusted` is a history variable, for the promise.

`AdminPage`: `Open`, `Refresh` and `Reload` are `loadAdminData` up to its await,
`Click` the two handlers; `Serve` is the route with its checks; `Loaded`,
`Changed`, `Forbidden`, `Failed` and `Denied` are the continuations and catches,
`Unheeded` an answer to a page that was left: nothing is shown, but after a change
that was made `loadAdminData` runs all the same, for nobody, and a 401 of that load
ends the session.
`elsewhere`, `late` and the `overtaken` of a request are history variables: they
say when a page may rightly be stale.

`TokenFaucet` and `DemoSeed`: one operator per call of a contract, one action per
await of the script (`UpsertDemoUser` ... `RecordTransfer`), `seed` its position
and locals. `Stop` ends it anywhere, `LoseWalletFile` and `LoseDatabase` take a
store away, `Redeploy` starts the chain anew, `Meddle` is what the owner and the
demo users can do by hand. `made` numbers wallets as they are generated.

## 3. What is abstracted

* **Time** is the conditions it makes true. Leases may run out over a slow
  worker (this counts as a failure, `"stall"`), or over one that is gone.
* **Versions.** `version = version + 1` is compared for equality only, with the
  version a worker in flight read. An acquisition takes any version that no
  worker in flight on this job carries; that is what a counter that never
  returns to an old value gives, without an unbounded counter.
* **Acquisition** is one statement. That `FOR UPDATE SKIP LOCKED` passes over a
  row which another statement holds at that very instant is left out: the
  statement either comes before the other or after it.
* **Transactions** are their job, phase and nonce; a stored transaction is its
  row's nonce. Encryption, hashes and amounts are left out: the checks on them
  compare what was stored with itself. What they throw is a `Throw` at the await
  where they run.
* **One chain epoch** in `FundingWorker`, one signer, and the default
  confirmation target of 1.
* **Posts** in `TransferLifecycle` are those whose fields pass the checks; a refused
  post changes no state. The signed message of an older flow (`verifySignature`)
  is checked by no route any more.
* **Letter case of hashes.** `ensureUniqueTxHash` compares hashes in lower case
  (`transactionService.js:282`), the UNIQUE index as they are written
  (`init.sql:27`, `ensure-current-schema.sql:70`). The model has one test,
  `Unrecorded`, for both: its posts carry a hash as ethers computed it, for which
  the two agree. Two posts of one hash in different letter case that pass each
  other between the check and the insert are outside the model; both would be
  entered, and `RecordedOnce` says nothing of them.
* **Awaits that throw** either did nothing (`Throw`) or took effect with the
  acknowledgement lost. In the worker the latter is the step followed by a throw
  at the next point. In the transfer record and the wallet's commit it has a
  name of its own (`insertAck`, `confirmAck`, `commitAck`) because the code does
  different things after them.
* **Keys** are named by the address they sign for.
* **The send page** moves one token at a time, from a wallet with gas and its key
  in the browser; the fields of the form pass their checks. The nodes' pool
  drops nothing and replaces nothing there.
* **Sessions.** A login elsewhere is a change of `token[b]`, and so is its
  expiry. `SendPage` and `HistoryPage` take their user as given.
* **The history page** forgets requests of a page that was left: nothing they
  bring is shown, and they change nothing.
* **The administration page** makes its three reads in one request; a handler is
  one step, for what interleaves inside of it is `AccountAdmin`'s. Requests that
  outlive a visit stay: the backend serves them, a change that was made asks for a
  load that nobody sees, and a 401 ends the session. By then the token may be gone.
* **The demo script** runs once at a time. Gas suffices; allowances, which
  nothing approves, are left out. A row and a key of a user are compared by
  nobody, also not by the code.
* **Accounts** are named by their email; nothing deletes one. Input that is
  malformed is refused before anything is read. `AccountAdmin`, and with it
  `AccountPromise`, is about `authService` and `adminService`: the demo script is
  outside, which sets the password, the role and the frozen flag of the demo
  accounts again whenever it runs (`prepare-demo-data.js:47-51`).

## 4. Runs, bounds and fairness

Every run says `CHECK_DEADLOCK FALSE`: when every wallet is funded, every
transfer settled and the bounds are used up, the system really has nothing to
do.

| Run | Instance | Shows |
| --- | --- | --- |
| `worker_pair` | two workers under one `WORKER_ID`, one job, a node with a pool, claims that may revert, two failures at any point, one retry | `TypeOK`, `LeaseExclusive`, `ReservedNonceFresh`, `OnlyStoredIsSent`, `PaidOnce`, `ReadyIsFunded` |
| `shared_signer` | one worker, two jobs (one seeded while the chain was away), automining, one failure at any point, one retry, one foreign transaction | `IInv` and the refinement `PromiseKept` |
| `wallet_funded` | one worker, one job, a pool, two failures at any point from the stored row on, a dropped transaction among them, one retry | `CreatedIsFunded` |
| `burned_nonce` (violation) | one worker, two jobs, the first seeded while the chain was away, no failure | `CreatedIsFunded` |
| `transfer_record` | two transfers, three requests (two with one hash), two failures, lost acknowledgements among them, one restart | `TransferTypeOK`, `RecordedOnce`, `ConfirmedIsMined`, `PanelStands`, the refinement `PromiseKept`, `LostOnlySo`, `WatchEnds` |
| `stuck_pending` (violation) | one transfer, one restart | `Settles` |
| `send_page` | two tabs, two transfers, one token, one failure at any point | `SendInv`, `BusyEnds`, `PanelSettles` |
| `history_page` | two transfers, two requests at a time, two of them failing | `HistoryInv`, `ShownMovesOn`, `PendingIsFollowed`, `LoadingEnds` |
| `onboarding_race` | two users, two tabs in one browser and one in another, two keys, one failure, one page left, one login or expiry | `OnboardingInv`, `KeyIsStored`, the refinement `OnboardingPromiseKept`, `LoadingEnds` |
| `accounts` | two emails, one of them an administrator at first, two secrets, two requests at a time, one failure at any point | `AccountInv`, `FreezeTakesHold`, the refinement `AccountPromiseKept` |
| `admin_page` | the administrator and another user, two requests at a time, one failure | `AdminInv`, `ShowsWhatItDid`, `LoadingEnds` |
| `demo_seed` | three demo users, ten accounts, two deployments, one stop or one act by hand, the file or the database lost, a cap that six claims reach | `DemoInv`, `SupplyAccounted`, `DoneIsConsistent`, `BaselineKept`, the refinement `TokenPromiseKept`, `FundsOnlyKept`, `RerunsRepair` |

An `...Inv` is a module's type invariant, its safety properties, and what else it
takes to make them inductive, in named parts (`SendInv` is `SendTypeOK` and
`PanelTellsRecord`, which rest on `TabsApart`, `AnswersTellRecord` and
`NeverOverdrawn`, and so on). Each of them is inductive; `DemoInv` is so together
with `SupplyAccounted`.

**Why the bounds are enough.** Two workers are what it takes to steal a lease,
and a worker steals from itself (after a crash) under the same rules; two
failures cover a stall followed by a failure of the worker that took over. Two
jobs are what it takes for the signer's nonces to be shared; the two-worker,
two-job case of the nonce properties is covered by the proofs, which know no
bound. Two requests with one hash are what it takes to race, and a third with
another hash shows that the rows do not disturb each other. The bounds
`MaxFaults`, `MaxRetries`, `MaxForeign`, `MaxCrashes` and `MaxLeaves` cap the
failures of a behaviour, never its length: jobs are acquired and pages polled
for ever. `Versions` has a version more than other workers can carry.
`Addresses` bounds the keys that can be made: a page without a key left to make
waits, and the liveness properties say so. Two tabs with one token between them are
what it takes to race for the balance and for a nonce, and two transfers what it
takes for a late answer to meet the next panel. Two requests at a time are every
race of the accounts, for no request has more than two steps; the slots are used
again and again. Two requests at once are what it takes to overtake, on the
history page (where a poll goes on while the user asks) and on the administration
page (a change meets the load of an earlier one, or of an earlier visit). For the
seed, two deployments are one that replaces what the rows speak of; one stop at
any await, followed by any number of runs, is what makes them disagree; and the
cap is small enough for six claims and one amount minted by hand to meet it.

**Fairness of `FundingWorker`.** `FairSpec`: a worker that is not stopped
finishes its turn (`WF` of `Works`) and polls again (`WF` of `Acquire`, the
`finally` of `tick`); `NOW()` passes `next_retry_at` and `locked_until`; wallets
are created; the chain mines. `PollFairSpec`, for two jobs, adds that each job is
acquired if it is time and again the first one due, and that it is: on a node
that mines at once no job is due at every poll (one that cannot go on is blocked
for 30 seconds, six polls), so some polls find no older job due. Without this,
the oldest job could keep the worker to itself; with a pool and an empty chain
it really can, for a pending job is due again by the next poll. No passing run
shows that a job behind another is funded: `wallet_funded` has one.

**Fairness of `TransferLifecycle`.** Requests and promises go on, and a stopped
backend is started again by its operator (`docker-compose.yml` has no restart
policy). Nothing is assumed of the chain: what is never mined ends by the
timeout.

**Fairness of `WalletOnboarding`.** A request that was sent is answered and a
loading page asks. Nothing makes a page poll or reload.

**Fairness of `HistoryPage`.** The interval fires, and requests are served and
answered or fail. **Of `AdminPage`:** requests are served and answered. **Of
`DemoSeed`:** a script that was started goes on. Nothing makes anybody start it;
`RerunsRepair` speaks of one that is started again and again.

**Fairness of `SendPage`.** The awaits of a submission answer or throw, the
interval of a panel goes on polling, and the record settles what is pending
(`Settles` of `TransferLifecycle`, with its conditions). Nothing is assumed of
the chain or of the user.

**Fairness of `AccountAdmin`.** A request that is being handled goes on.

**Limits of the liveness runs.** `CreatedIsFunded` is checked for failures after
the signed transaction is stored. Before that, the code gives up: a phase that
was marked without a row ends as `OUTBOX_MISSING`, and a nonce that was reserved
and not stored leaves a hole (`burned_nonce`). `Settles` does not hold
(`stuck_pending`). What does is said in two parts: a row that is PENDING has a
promise, but for a restart, a lost acknowledgement of its insert, and a failed
write in the catch of its promise (`LostOnlySo`); and a row with a promise is
settled (`WatchEnds`). `KeyIsStored` is checked while nobody leaves a page, and
only of posts that are answered with a status (section 6).

**Mutants.** Each property of a passing run has, in the module, an operator that
is not used: the mapped operator beside it, with a plausible bug (no check of
the version, `GREATEST` left out, what is signed sent instead of what is stored,
a receipt's status not read, the catch that writes nothing, ...). Put in the
place of the right operator, it violates the property.

## 5. Proofs

`tlapm` proves the eight proof modules to the last leaf. The assumptions are those
of the constants (`WorkersAssumption`, `JobsAssumption`, `VersionsAssumption`,
`BoundsAssumption`, `PostsAssumption`, `TransferBounds`, `OnboardingAssumption`,
`OnboardingBounds`, `AccountAssumption`, `AccountBounds`, `SendAssumption`,
`SendBounds`, `HistoryBounds`, `AdminPageAssumption`, `AdminPageBounds`,
`TokenAssumption`, `SeedAssumption`, `SeedBounds`). They say what kind of value
each is; that there is a user, a tab and an email at all; that the accounts of
the token, and the transfers of a wallet, are finitely many, for both are counted;
that the seed has at least two users, each of them once; and that what it moves is
no more than a wallet is granted, as its constants are. TLC evaluates them in
every run.

**`FundingWorkerProofs`.** `Spec => []IInv`, and from it `TypeOK`,
`LeaseExclusive`, `ReservedNonceFresh`, `OnlyStoredIsSent`, `PaidOnce` and
`ReadyIsFunded`, for any number of workers (under any ids), jobs, failures,
retries and foreign transactions. Why none of these is inductive alone:

* `LeaseExclusive` follows from `VersionsDistinct`: two turns on one job carry
  different versions. The owner column is of no help, for ids may be shared.
* `ReservedNonceFresh` needs `ReservationAhead`: `next_nonce` is beyond every
  nonce on a row or in a worker's hand, whatever floor, however old, the upsert
  brings. This is where `GREATEST` matters. `NonceKnown` says that a worker that
  signs holds a nonce at all.
* `OnlyStoredIsSent` needs `RowBehind` (who broadcasts has a row), and that a
  row's nonce never changes: `TableFrame` shows that every step either keeps all
  nonces or stores a new row where there was none.
* `PaidOnce` follows from `OnlyStoredIsSent`: two payments of one phase are at
  the nonce of the same row, and a nonce is mined once.
* `ReadyIsFunded` needs `ConfirmedIsPaid` (a status *confirmed*, or a worker
  about to write it, has its payment on the chain) and `TokenAfterGas`.

`FundingKeepsPromise`: the worker implements `FundingPromise`. What is paid is read
off the chain, who is ready off the rows; a step of the promise is a block that
holds a payment (`BlockPays`) or the update that makes a job ready
(`JobDeclares`). That a token claim is paid only after gas is `TokenAfterGas` at
the block, and that nothing takes readiness back is `ReadyStays`.

The proofs go by the shape of a step (`NextSplit`): an acquisition, a step of a
worker, a step of something else. Frame lemmas (`WorkFrame`, `OutsideFrame`,
`TableFrame`) say once what each kind leaves alone, and each conjunct of `IInv`
has a lemma of its own that it is kept.

**`TransferProofs`.** `Spec => []TransferInv`, from it `TransferTypeOK`,
`RecordedOnce` and `ConfirmedIsMined`; `TransferInv` is these three with why they
hold (a promise confirms only what it saw mined, an answered page has a row), and is
the proof's own: no run checks it beside its parts. And `RecordKeepsPromise`:
`TransferLifecycle` implements `TransferPromise`, whatever fails, is lost or
restarts. The mapping shows a CONFIRMED row whose write was not acknowledged, and
whose promise still runs, as `UNSURE`: the catch may yet take it back. The
refinement rests on two more invariants: a promise that has not ended has a
pending row or an unsure one, and none runs while the backend is down.

`PanelsStand`: a page polls until it is shown a settled status, and never again.
The history then holds what it shows, but where the catch took a confirmation back.
Why: a row changes its status only while it is pending or unsure (`RowsMoveSo`,
which no boot and no restart escapes), and is unsure only after a failure
(`UnsureCosts`).

`RowsAreLostOnlySo` is the action property `LostOnlySo` from the same invariant,
step by step: a promise that ends writes its row, unless it was in its catch.

**`OnboardingProofs`.** `Spec => []OnboardingInv`, from it `PageTellsTruth` and
`KeyIsStored`; and `OnboardingKeepsPromise`. A page must not claim a key for a
wallet that is not its user's, while the token under it changes hands; this
rests on

* `TxFits` and `OneCreates`: an open transaction did what its post has come to,
  and one transaction at most holds a user's row, since an insert waits for it;
* `Recorded` and `WalletsOwned`: a wallet's row is of the user whose token the
  post was made with, so `wallet` and `job` agree at every commit;
* `PageWaits` and `PostAwaited`: while nobody left a page, a post that is under
  way has a page that waits for it, and that page stores its key.

The commit is the promise's step; everything else leaves the rows alone.

**`AccountProofs`.** `Spec => []AccountInv`, from it `TokenIsEarned`; and
`AccountsKeepPromise`. A request acts on what it read at `requireAuth`, after
which roles may change. `SecretGiven` says that a request that opens an account
or compares a password carries a secret, `NewIsOrdinary` that nothing is done to
an account before it is opened; `AdminsAreTrusted` and `HandledByTrusted`, that
whose request changes an account is, or was, an administrator.

**`SendProofs`.** `Spec => []SendInv`. That a panel speaks of its own transfer
rests on `TabsApart` (no two tabs are on one transfer, and what is being signed
was not sent) and on `AnswersTellRecord`: an answer to a poll, however late, says
what was true of the transfer it was asked for. The second needs that the record
only moves forward, which is a step of `TransferPromise` (`OnlyForward`,
`StaysSettled`). That the tabs themselves keep to `TransferPromise` needs no
proof: they write to the record by its own `Enter` and `Settle`.

**`HistoryProofs`.** `Spec => []HistoryInv`, and from it the action property
`ShownMovesOn`. Requests are removed from the middle of a sequence, so the proof
begins with what `RemoveAt` keeps (`Removed`) and what it counts
(`CountRemoved`). `ReadInOrder` is the heart: answers are ranked in the order in
which they were read, and one that is not late is never behind the page.

**`AdminPageProofs`.** `Spec => []AdminInv`, from it `ShowsWhatItDid`. That a page
at rest shows the table is no invariant of a page that is not: while requests are
under way the list may be old. `AnswersTrue` and `ListTrue` say what makes up for
it: each list, shown or on its way, is the table's, or something that is still
under way replaces it (`Superseded`). `LeftBehind` is about the changes of a visit
that has ended: one that is served during the next counts as another's.

**`DemoProofs`.** `SeedInv` is `DemoInv` with `SupplyAccounted`; from it follow
`DoneIsConsistent` and `BaselineKept`, the action property `FundsOnlyKept`, and
that the chain implements `TokenPromise`. `KeysMatch` and `JobsFollow` say, for
every point of the script, which of the users it is done with, and what row, key
and job they then have; `Balances` follows the amount around the circle.

`SupplyAccounted` adds up the balances of any finite set of accounts. The
library's theorems for induction take a predicate, which no prover here can
instantiate; but that of the least element (`WFMin`) takes a set, and gives
induction over the members of a set of numbers (`NatInSet`), and over the subsets
of `Accounts` in the order in which the fold takes elements (`PickInduction`).
With it, the sum exists (`SumExists`), is zero of nothing, is no less than each of
its terms (`TotalCovers`), and changes by what is added and taken (`TotalMoves`).

**Model-checked only.** Liveness (`CreatedIsFunded`, `WatchEnds`, `BusyEnds`,
`PanelSettles`, `PendingIsFollowed`, `LoadingEnds`, `FreezeTakesHold`,
`RerunsRepair`), which is out of the prover's reach. Of `LoadingEnds` the safety
half is proved for the history and the administration page (`LoadingIsAsked`): a
page that loads has a request under way that will end it. Every safety property
that a run checks, and every refinement, is a theorem.

## 6. Findings

| Run | What the code does |
| --- | --- |
| `burned_nonce` | A claim that cannot be estimated burns the nonce just reserved; no later transaction of the signer is ever mined. |
| `stuck_pending` | A restart within ten minutes leaves a transfer PENDING until a later restart. |

Seen while modelling, without a run of its own:

* `finalizePhaseIfReady` makes the job ready and then closes the outbox row
  (`walletFundingWorker.js:420`); if the second update fails, the catch of
  `processJob` writes *blocked* over the phase of a ready job.
* `initializeNonceReservation` compares the provider's nonce with the rows that
  are not yet *confirmed*: a row whose status lags behind the chain (its worker
  died after the broadcast) reads as a gap, and a job goes to manual review
  though no nonce is missing (`walletFundingWorker.js:155`).
* A page that is left while its wallet is created drops the only copy of the key:
  `loadWallet` keeps it in a local variable until `/wallet/create` answers, and
  returns without storing it when the page is gone (`Wallet.jsx:100`). So does a
  page whose post took effect and was answered with an error.
  `KeyIsStored` is violated without its condition `leaves = 0`.
* The seed says that running it again "does not move tokens again, so demo
  balances stay at the funded baseline" (`prepare-demo-data.js:339-341`). It
  looks only for some transfer of the circle: a script that stopped in its midst
  leaves balances off the baseline for good, or, if nothing was recorded yet,
  moves tokens again. `BaselineKept` is violated without its condition `~cut`.
* The seed writes the row of a new wallet at once and the keys of all wallets
  later; a stop between, with the old key file and a database filled anew, leaves
  a user whose row and key are of different wallets, and no run compares them
  (`prepare-demo-data.js:82`).
* Requests are answered with 401 when the account cannot be read; a 401 clears
  the token that is there when it arrives, also that of a login made since, and
  also for a page that was left (`Admin.jsx:103`, `Wallet.jsx:172`).
* The administration page locks only the row of the latest change, and an answer
  to one change unlocks the row of another (`Admin.jsx:129`).
* A CONFIRMED write that took effect but whose answer is lost is overwritten with
  FAILED by the catch, after pages have stopped polling
  (`transactionService.js:245`).
* The send page says "Transfer not submitted" whatever failed, also when only
  the post to the backend did and the node has the transfer; the form is enabled
  then, and submitting again pays again (`SendTokens.jsx:245`).
* Two administrators may freeze each other at once, and one may give up the role:
  then nobody is left to undo it (`adminService.js:81`).
* `requireAuth` answers 401 when its query throws, and pages take that as the end
  of the session (`requireAuth.js:56`).
* A transfer mined after the wait of 60 seconds is FAILED in the history for
  good (`transactionService.js:245`).
* `getLifecycleFromJob` answers `legacy_unverified` for a missing job, but
  `getWalletStatus` hands it the row of a LEFT JOIN, of nulls: a wallet older
  than the funding jobs is shown as pending (`walletFundingService.js:61`).

## 7. Not modelled, and the plan

Left out for good: encryption (a pure function), the API client and routing
(presentation), live balances and the wording of errors, the reads of the
backend that no page's state depends on, the scripts that wait for ports and
start containers.

Not modelled yet: what the worker does with a job seeded before a redeployment
(its chain has one epoch); the retry button of the wallet page (its effect on the
job is `EnqueueFundingRetry`); a login as another user under an open send or
history page.

Next, in this order:

1. **The safety half of more liveness**, as `LoadingIsAsked`: that a pending row
   which nothing forgot has a promise (`WatchEnds`), and that a job which is not
   ready, and not held, is due or will be (`CreatedIsFunded`).
2. **Redeployment** in `FundingWorker`: the chain epoch of jobs and outbox rows,
   which the worker compares with each other and never with the chain's.
