----------------------------- MODULE TokenFaucet -----------------------------
(***************************************************************************)
(* The token and its faucet on one chain (blockchain/contracts/Token.sol,  *)
(* GuardedFaucet.sol), as blockchain/ignition/modules/Token.cjs deploys    *)
(* them: account 0 owns both, then gives the token to the faucet.          *)
(*                                                                         *)
(* An operation is a transaction that succeeds; one that reverts changes   *)
(* nothing, and its guard is what its caller can test.  A request id is    *)
(* named by the wallet it is computed for: the hash of the domain, chain,  *)
(* contracts and wallet tells wallets apart.                               *)
(***************************************************************************)
EXTENDS Naturals, FiniteSets, FiniteSetsExt

CONSTANTS
  Accounts,      \* the addresses that own, pay and are paid
  Deployer,      \* account 0, the owner of the faucet
  Faucet,        \* the faucet, as an owner of the token
  ClaimAmount, MaxSupply

ASSUME TokenAssumption ==
  /\ IsFiniteSet(Accounts) /\ Deployer \in Accounts /\ Faucet \notin Accounts
  /\ ClaimAmount \in Nat \ {0} /\ MaxSupply \in Nat

VARIABLES
  owner,     \* the owner of the token
  holds,     \* the balance of each account
  supply,
  claimed,   \* walletClaimed
  used,      \* requestUsed
  byHand     \* history: what was minted otherwise than by a claim

tokens == <<owner, holds, supply, claimed, used, byHand>>

\* Both contracts are there, and account 0 owns the token.
Deployed ==
  /\ owner = Deployer
  /\ holds = [a \in Accounts |-> 0] /\ supply = 0
  /\ claimed = {} /\ used = {}
  /\ byHand = 0

\* The chain is started anew, and both are deployed again.
DeployedAgain ==
  /\ owner' = Deployer
  /\ holds' = [a \in Accounts |-> 0] /\ supply' = 0
  /\ claimed' = {} /\ used' = {}
  /\ byHand' = 0

-----------------------------------------------------------------------------
(* MyToken.                                                                *)

Mintable(by, amount) == by = owner /\ supply + amount <= MaxSupply

Credit(to, amount) ==
  /\ holds' = [holds EXCEPT ![to] = @ + amount]
  /\ supply' = supply + amount

Mint(by, to, amount) ==
  /\ Mintable(by, amount)
  /\ Credit(to, amount)
  /\ byHand' = byHand + amount
  /\ UNCHANGED <<owner, claimed, used>>

Transfer(from, to, amount) ==
  /\ holds[from] >= amount
  /\ holds' = [a \in Accounts |-> holds[a] + (IF a = to THEN amount ELSE 0)
                                           - (IF a = from THEN amount ELSE 0)]
  /\ UNCHANGED <<owner, supply, claimed, used, byHand>>

TransferOwnership(by, to) ==
  /\ by = owner
  /\ owner' = to
  /\ UNCHANGED <<holds, supply, claimed, used, byHand>>

-----------------------------------------------------------------------------
(* GuardedFaucet.                                                          *)

ComputeRequestId(wallet) == wallet

ClaimableUnowned(by, wallet, id, amount) ==
  /\ by = Deployer /\ amount = ClaimAmount
  /\ id = ComputeRequestId(wallet)
  /\ wallet \notin claimed /\ id \notin used

\* The checks of claim, and those of the mint it calls.
Claimable(by, wallet, id, amount) ==
  /\ by = Deployer /\ amount = ClaimAmount
  /\ id = ComputeRequestId(wallet)
  /\ wallet \notin claimed /\ id \notin used
  /\ Mintable(Faucet, amount)

ClaimUnrecorded(by, wallet, id, amount) ==
  /\ Claimable(by, wallet, id, amount)
  /\ used' = used \cup {id}
  /\ Credit(wallet, amount)
  /\ UNCHANGED <<owner, claimed, byHand>>

Claim(by, wallet, id, amount) ==
  /\ Claimable(by, wallet, id, amount)
  /\ claimed' = claimed \cup {wallet} /\ used' = used \cup {id}
  /\ Credit(wallet, amount)
  /\ UNCHANGED <<owner, byHand>>

RecoverTokenOwnership(by, to) ==
  /\ by = Deployer
  /\ TransferOwnership(Faucet, to)

-----------------------------------------------------------------------------
(* Properties.                                                             *)

TokenTypeOK ==
  /\ owner \in Accounts \cup {Faucet}
  /\ holds \in [Accounts -> 0..MaxSupply] /\ supply \in 0..MaxSupply
  /\ claimed \subseteq Accounts /\ used \subseteq Accounts
  /\ byHand \in 0..MaxSupply

\* The tokens there are were claimed, once a wallet, or minted by an owner's
\* hand; and somebody holds each of them.
SupplyAccounted ==
  /\ supply = ClaimAmount * Cardinality(claimed) + byHand
  /\ supply = MapThenSumSet(LAMBDA a : holds[a], Accounts)
=============================================================================
