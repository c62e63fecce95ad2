------------------------------ MODULE DemoSeed ------------------------------
(***************************************************************************)
(* The script that prepares the demo (backend/scripts/prepare-demo-data.js) *)
(* against the database, the file it keeps the wallets' keys in, and a     *)
(* chain that is started anew and deployed to now and then                 *)
(* (blockchain/entrypoint.sh, scripts/sync-abi.js).                        *)
(*                                                                         *)
(* It makes a wallet for each demo user and saves the keys, then funds the *)
(* wallets through the faucet and marks them ready, then, unless the       *)
(* history has transfers already, sends an amount around the circle of     *)
(* users.  It may stop at any await, whether the await throws or the       *)
(* process is killed, with or without effect; and it is run again.         *)
(*                                                                         *)
(* Wallets are numbered as they are generated, and a key is named by its   *)
(* wallet; account 0 is the deployer's.  Nobody else uses these accounts   *)
(* or their wallets while the demo is prepared, but for what Meddle does.  *)
(* A transaction that is repeated on a new chain may have its old hash.    *)
(***************************************************************************)
EXTENDS TokenFaucet, Sequences

CONSTANTS
  DemoUsers,     \* in the order of the script
  NoWallet,
  TransferAmount,
  MaxDeployments, MaxTrouble   \* bounds; the latter of stops and meddling

Users == {DemoUsers[i] : i \in 1..Len(DemoUsers)}
N == Len(DemoUsers)

ASSUME SeedAssumption ==
  /\ DemoUsers \in Seq(Users)
  /\ \A i, j \in 1..N : DemoUsers[i] = DemoUsers[j] => i = j
  /\ N > 1
  /\ Deployer = 0 /\ NoWallet \notin Accounts
  /\ TransferAmount \in 1..ClaimAmount

ASSUME SeedBounds ==
  /\ MaxDeployments \in Nat \ {0} /\ MaxTrouble \in Nat
  /\ Accounts = 0..(Cardinality(Accounts) - 1)   \* bound: the wallets generated

VARIABLES
  gas,            \* the wallets that hold gas
  deployment,     \* how often the chain was deployed to
  synced,         \* the deployment DeploymentEpoch.json names
  users,          \* the demo users with an account
  wallet, job,    \* the rows of wallets, and of wallet_funding_jobs: all ready
  entered,        \* the wallets whose funding is in the transactions
  history,        \* the transfers of the circle that are there
  file,           \* DEMO_WALLET_FILE: the wallet whose key it has
  seed,           \* the running script
  made,           \* how many wallets were generated
  lost,           \* history: what was lost, the file or the database
  cut,            \* history: did a script end in the midst of the circle?
  stops, meddling   \* how often there was trouble of each kind

chain == <<tokens, gas>>
deployed == <<deployment, synced>>
rows == <<users, wallet, job, entered, history>>
bounds == <<lost, cut, stops, meddling>>
vars == <<chain, deployed, rows, file, seed, made, bounds>>

NoFile == [u \in Users |-> NoWallet]
NoJob == [wallet |-> NoWallet, epoch |-> 0]
Points == {"off", "user", "wallet", "save", "check", "gas", "claim", "enter", "mark",
           "exist", "send", "record", "done"}
Off == [at |-> "off", i |-> 1, store |-> NoFile, epoch |-> 0]

\* The chain is deployed to, the database and the file are empty.
Init ==
  /\ Deployed
  /\ gas = {} /\ deployment = 1 /\ synced = 0
  /\ users = {} /\ wallet = NoFile /\ job = [u \in Users |-> NoJob]
  /\ entered = {} /\ history = {}
  /\ file = NoFile
  /\ seed = Off
  /\ made = 0
  /\ lost = "nothing" /\ cut = FALSE /\ stops = 0 /\ meddling = 0

-----------------------------------------------------------------------------
(* Deployments.                                                            *)

\* full-deploy gives the token to the faucet, then writes the files.
HandOver ==
  /\ TransferOwnership(Deployer, Faucet)
  /\ UNCHANGED <<gas, deployed, rows, file, seed, made, bounds>>

SyncAbi ==
  /\ owner # Deployer /\ synced # deployment
  /\ synced' = deployment
  /\ UNCHANGED <<chain, deployment, rows, file, seed, made, bounds>>

\* The node is started anew: its chain is empty, its contracts at their old
\* addresses again.
Redeploy ==
  /\ deployment < MaxDeployments
  /\ deployment' = deployment + 1
  /\ DeployedAgain /\ gas' = {}
  /\ UNCHANGED <<synced, rows, file, seed, made, bounds>>

-----------------------------------------------------------------------------
(* The script.                                                             *)

User == DemoUsers[seed.i]

\* The steps of a user's turn end with the next user's, or the next part.
Goto(at) == seed' = [seed EXCEPT !.at = at]

NextUser(at, then) ==
  IF seed.i < N THEN [seed EXCEPT !.at = at, !.i = @ + 1]
  ELSE [seed EXCEPT !.at = then, !.i = 1]

\* The process starts when the contracts' files are there.
Start ==
  /\ seed.at = "off" /\ synced # 0
  /\ seed' = [Off EXCEPT !.at = "user", !.store = file, !.epoch = synced]
  /\ UNCHANGED <<chain, deployed, rows, file, made, bounds>>

UpsertDemoUser ==
  /\ seed.at = "user"
  /\ users' = users \cup {User}
  /\ Goto("wallet")
  /\ UNCHANGED <<chain, deployed, wallet, job, entered, history, file, made, bounds>>

Known == wallet[User] # NoWallet /\ seed.store[User] # NoWallet

\* A wallet is made unless there are both the row and its key.
EnsureWallet ==
  /\ seed.at = "wallet"
  /\ \/ /\ Known
        /\ seed' = NextUser("user", "save")
        /\ UNCHANGED <<wallet, made>>
     \/ /\ ~Known /\ made + 1 \in Accounts
        /\ made' = made + 1
        /\ wallet' = [wallet EXCEPT ![User] = made']
        /\ seed' = [NextUser("user", "save") EXCEPT !.store[User] = made']
  /\ UNCHANGED <<chain, deployed, users, job, entered, history, file, bounds>>

WriteWalletFileOnce ==
  /\ seed.at = "save"
  /\ file' = IF file = NoFile THEN seed.store ELSE file
  /\ Goto("check")
  /\ UNCHANGED <<chain, deployed, rows, made, bounds>>

WriteWalletFile ==
  /\ seed.at = "save"
  /\ file' = seed.store
  /\ Goto("check")
  /\ UNCHANGED <<chain, deployed, rows, made, bounds>>

\* The address is the row's; the key that signs is the file's.
Wallet == wallet[User]

CheckClaimedSkipping ==
  /\ seed.at = "check"
  /\ seed' = IF Wallet \in claimed THEN NextUser("check", "exist")
             ELSE [seed EXCEPT !.at = "gas"]
  /\ UNCHANGED <<chain, deployed, rows, file, made, bounds>>

CheckClaimed ==
  /\ seed.at = "check"
  /\ Goto(IF Wallet \in claimed THEN "mark" ELSE "gas")
  /\ UNCHANGED <<chain, deployed, rows, file, made, bounds>>

SendGas ==
  /\ seed.at = "gas"
  /\ gas' = gas \cup {Wallet}
  /\ Goto("claim")
  /\ UNCHANGED <<tokens, deployed, rows, file, made, bounds>>

\* A call that reverts throws, and ends the script.
Throws == seed' = Off

ClaimTokens ==
  /\ seed.at = "claim"
  /\ \/ Claim(Deployer, Wallet, ComputeRequestId(Wallet), ClaimAmount) /\ Goto("enter")
     \/ /\ ~Claimable(Deployer, Wallet, ComputeRequestId(Wallet), ClaimAmount)
        /\ Throws /\ UNCHANGED tokens
  /\ UNCHANGED <<gas, deployed, rows, file, made, bounds>>

\* The SYSTEM_FUNDING row.  A claim repeated for the same wallet on a new
\* chain may have the hash of the row that is there, and the insert throws.
EnterFunding ==
  /\ seed.at = "enter"
  /\ \/ entered' = entered \cup {Wallet} /\ Goto("mark")
     \/ Wallet \in entered /\ Throws /\ UNCHANGED entered
  /\ UNCHANGED <<chain, deployed, users, wallet, job, history, file, made, bounds>>

MarkReadyAsOfNow ==
  /\ seed.at = "mark"
  /\ job' = [job EXCEPT ![User] = [wallet |-> Wallet, epoch |-> synced]]
  /\ seed' = NextUser("check", "exist")
  /\ UNCHANGED <<chain, deployed, users, wallet, entered, history, file, made, bounds>>

MarkReadyOnce ==
  /\ seed.at = "mark"
  /\ job' = IF job[User] # NoJob THEN job
            ELSE [job EXCEPT ![User] = [wallet |-> Wallet, epoch |-> seed.epoch]]
  /\ seed' = NextUser("check", "exist")
  /\ UNCHANGED <<chain, deployed, users, wallet, entered, history, file, made, bounds>>

MarkFundingJobReady ==
  /\ seed.at = "mark"
  /\ job' = [job EXCEPT ![User] = [wallet |-> Wallet, epoch |-> seed.epoch]]
  /\ seed' = NextUser("check", "exist")
  /\ UNCHANGED <<chain, deployed, users, wallet, entered, history, file, made, bounds>>

DemoTransfersExist == history # {}

CheckTransfers ==
  /\ seed.at = "exist"
  /\ Goto(IF DemoTransfersExist THEN "done" ELSE "send")
  /\ UNCHANGED <<chain, deployed, rows, file, made, bounds>>

\* The circle: user1 to user2, user2 to admin, admin to user1.
From(k) == seed.store[DemoUsers[(k % N) + 1]]
ToFirst(k) == wallet[DemoUsers[1]]

To(k) == wallet[DemoUsers[((k + 1) % N) + 1]]

CutShort == cut' = (cut \/ seed.at = "record" \/ (seed.at = "send" /\ seed.i > 1))

SendTransfer ==
  /\ seed.at = "send"
  /\ \/ /\ From(seed.i) \in gas /\ Transfer(From(seed.i), To(seed.i), TransferAmount)
        /\ Goto("record")
        /\ UNCHANGED cut
     \/ /\ From(seed.i) \notin gas \/ holds[From(seed.i)] < TransferAmount
        /\ Throws /\ CutShort /\ UNCHANGED tokens
  /\ UNCHANGED <<gas, deployed, rows, file, made, lost, stops, meddling>>

RecordTransfer ==
  /\ seed.at = "record"
  /\ history' = history \cup {seed.i}
  /\ seed' = NextUser("send", "done")
  /\ UNCHANGED <<chain, deployed, users, wallet, job, entered, file, made, bounds>>

Exit ==
  /\ seed.at = "done"
  /\ seed' = Off
  /\ UNCHANGED <<chain, deployed, rows, file, made, bounds>>

\* After the step before took effect, and before the one it is at does.
Stop ==
  /\ seed.at # "off" /\ stops + meddling < MaxTrouble
  /\ stops' = stops + 1
  /\ seed' = Off /\ CutShort
  /\ UNCHANGED <<chain, deployed, rows, file, made, lost, meddling>>

-----------------------------------------------------------------------------
(* What may happen between the runs.                                       *)

\* Outside the containers the file is in the directory for temporary files,
\* and the database is kept apart from it.
LoseWalletFile ==
  /\ seed.at = "off" /\ file # NoFile /\ lost = "nothing"
  /\ lost' = "file"
  /\ file' = NoFile
  /\ UNCHANGED <<chain, deployed, rows, seed, made, cut, stops, meddling>>

LoseDatabase ==
  /\ seed.at = "off" /\ users # {} /\ lost = "nothing"
  /\ lost' = "database"
  /\ users' = {} /\ wallet' = NoFile /\ job' = [u \in Users |-> NoJob]
  /\ entered' = {} /\ history' = {}
  /\ UNCHANGED <<chain, deployed, file, seed, made, cut, stops, meddling>>

\* The deployer takes the token from the faucet, and mints by hand; a demo
\* user sends tokens.
Meddle ==
  /\ stops + meddling < MaxTrouble
  /\ meddling' = meddling + 1
  /\ \/ RecoverTokenOwnership(Deployer, Deployer)
     \/ Mint(Deployer, Deployer, TransferAmount)
     \/ \E u, v \in Users : /\ u # v
                            /\ {file[u], file[v]} \subseteq Accounts /\ file[u] \in gas
                            /\ Transfer(file[u], file[v], TransferAmount)
  /\ UNCHANGED <<gas, deployed, rows, file, seed, made, lost, cut, stops>>

-----------------------------------------------------------------------------
Goes ==
  \/ UpsertDemoUser \/ EnsureWallet \/ WriteWalletFile
  \/ CheckClaimed \/ SendGas \/ ClaimTokens \/ EnterFunding \/ MarkFundingJobReady
  \/ CheckTransfers \/ SendTransfer \/ RecordTransfer \/ Exit

Next ==
  \/ HandOver \/ SyncAbi \/ Redeploy
  \/ Start \/ Goes \/ Stop
  \/ LoseWalletFile \/ LoseDatabase \/ Meddle

Spec == Init /\ [][Next]_vars

\* A script that was started goes on.
FairSpec == Spec /\ WF_vars(Goes)

-----------------------------------------------------------------------------
(* Properties.                                                             *)

Wallets == Accounts \cup {NoWallet}

DemoTypeOK ==
  /\ TokenTypeOK
  /\ gas \subseteq Accounts /\ users \subseteq Users
  /\ deployment \in 1..MaxDeployments /\ synced \in 0..deployment
  /\ {wallet, file} \subseteq [Users -> Wallets]
  /\ job \in [Users -> [wallet : Wallets, epoch : 0..deployment]]
  /\ entered \subseteq Accounts /\ history \subseteq 1..N
  /\ seed \in [at : Points, i : 1..N, store : [Users -> Wallets], epoch : 0..deployment]
  /\ made \in Accounts
  /\ lost \in {"nothing", "file", "database"} /\ cut \in BOOLEAN
  /\ {stops, meddling} \subseteq 0..MaxTrouble

\* The faucet keeps its promise, over deployments, reruns and recovery.
Promise == INSTANCE TokenPromise WITH granted <- claimed, guarded <- owner = Faucet
TokenPromiseKept == Promise!Spec

\* What the script does not survive: the database lost, the rows filled anew,
\* and a stop before the file is saved.  Row and key are not compared.
MayDiffer == lost = "database" /\ stops > 0

\* No wallet is paid before its key is on file: a script that stops strands
\* nothing it funded.
FundsOnlyKept ==
  [][\A a \in claimed' \ claimed : MayDiffer \/ \E u \in Users : file[u] = a]_vars

\* The wallet of a job that is ready on this deployment has its tokens there,
\* although the database outlives the chain and a script may outlive it too.
ReadyIsPaid == \A u \in Users : job[u].epoch = deployment => job[u].wallet \in claimed

\* A wallet is one user's, wherever it is kept, and was generated.
OwnWallets ==
  \A u, v \in Users :
    \A a \in {wallet[u], file[u], seed.store[u]}, b \in {wallet[v], file[v], seed.store[v]} :
      a = NoWallet \/ (a \in 1..made /\ (a = b => u = v))

\* Whose turn for a wallet, and for a job, the running script is done with.
TurnsBefore == {DemoUsers[j] : j \in 1..(seed.i - 1)}

Provided ==
  IF seed.at = "off" THEN {} ELSE IF seed.at \in {"user", "wallet"} THEN TurnsBefore ELSE Users

Readied ==
  IF seed.at \in {"exist", "send", "record", "done"} THEN Users
  ELSE IF seed.at \in {"check", "gas", "claim", "enter", "mark"} THEN TurnsBefore ELSE {}

\* The script has the key of each row that it provided; before, a row and a
\* key that are both there match, and without the loss of the database there
\* is no key without its row.
KeysMatch ==
  /\ \A u \in Provided : /\ NoWallet \notin {wallet[u], seed.store[u]}
                         /\ MayDiffer \/ wallet[u] = seed.store[u]
  /\ \A u \in Users \ Provided :
       /\ seed.at # "off" => seed.store[u] = file[u]
       /\ MayDiffer \/ NoWallet \in {wallet[u], file[u]} \/ wallet[u] = file[u]
  /\ lost # "database" => \A u \in Users : file[u] \in {NoWallet, wallet[u]}
  /\ seed.at \notin {"off", "user", "wallet", "save"} => file = seed.store

\* The jobs that the script is done with are of its rows, and one that is to be
\* marked on this deployment is paid there.
JobsFollow ==
  /\ seed.at \in {"off", "save", "exist", "done"} => seed.i = 1
  /\ \A u \in Readied : job[u] = [wallet |-> wallet[u], epoch |-> seed.epoch]
  /\ seed.at \in {"enter", "mark"} /\ seed.epoch = deployment => Wallet \in claimed

\* What was granted is where it was, or a transfer's amount has come around from
\* the first sender to the last receiver; or the chain is a new one.
Granted(a) == IF a \in claimed THEN ClaimAmount ELSE 0

InCircle == seed.at = "record" \/ (seed.at = "send" /\ seed.i > 1)

Sent == IF seed.at = "record" THEN seed.i ELSE seed.i - 1

Balanced == \A a \in Accounts : holds[a] = Granted(a)

OnItsWay ==
  \A a \in Accounts :
    holds[a] = Granted(a) + (IF a = To(Sent) THEN TransferAmount ELSE 0)
                          - (IF a = From(1) THEN TransferAmount ELSE 0)

Balances ==
  ~cut /\ ~MayDiffer /\ meddling = 0 =>
    IF InCircle THEN OnItsWay \/ (gas = {} /\ Balanced) ELSE Balanced

\* Rows, keys, file and chain are well formed and agree, and no wallet is ready
\* unpaid.
DemoInv ==
  DemoTypeOK /\ ReadyIsPaid /\ OwnWallets /\ KeysMatch /\ JobsFollow /\ Balances

\* A script that ends well has left, whatever was cut short before, each user
\* with one wallet: the row's, the file's and the job's.
DoneIsConsistent ==
  seed.at = "done" =>
    \A u \in Users : /\ wallet[u] = file[u] \/ MayDiffer
                     /\ job[u] = [wallet |-> wallet[u], epoch |-> seed.epoch]

\* "Re-running the seed therefore does not move tokens again": the wallets hold
\* what they were granted, if no script ended in the midst of the circle (the
\* next does not finish it, or starts it over) and nobody else moved tokens.
BaselineKept ==
  /\ seed.at = "done" /\ seed.epoch = deployment
  /\ ~cut /\ ~MayDiffer /\ meddling = 0
  => \A u \in Users : holds[wallet[u]] = ClaimAmount

\* Running the script again and again repairs what one that stopped left
\* undone, as long as the faucet can mint.
AllReady ==
  \A u \in Users : /\ job[u] = [wallet |-> wallet[u], epoch |-> deployment]
                   /\ wallet[u] = file[u] \/ MayDiffer
                   /\ wallet[u] \in claimed

CanMint == owner = Faucet /\ (seed.at = "claim" => Mintable(Faucet, ClaimAmount))

RerunsRepair ==
  []<>(seed.at = "user") /\ <>[](synced = deployment /\ CanMint) => <>[]AllReady
=============================================================================
