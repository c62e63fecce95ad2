----------------------------- MODULE DemoProofs -----------------------------
(***************************************************************************)
(* Proofs about TokenFaucet and DemoSeed, for any accounts, amounts, users *)
(* and bounds.                                                             *)
(***************************************************************************)
EXTENDS DemoSeed, FiniteSetTheorems, WellFoundedInduction, TLAPS

-----------------------------------------------------------------------------
(* Sums.  The library's theorems for induction take a predicate, which no  *)
(* prover here can instantiate; that of the least element takes a set.     *)

LEMMA NatInSet ==
  ASSUME NEW T, 0 \in T, \A n \in Nat : n \in T => n + 1 \in T
  PROVE  Nat \subseteq T
<1> DEFINE Bad == {n \in Nat : n \notin T}
           less == OpToRel(<, Nat)
<1> SUFFICES ASSUME Bad # {} PROVE FALSE
  OBVIOUS
<1>1. IsWellFoundedOn(less, Nat)
  BY NatLessThanWellFounded
<1>2. \A m, n \in Nat : m < n => <<m, n>> \in less
  BY DEF OpToRel
<1>3. Bad \subseteq Nat
  OBVIOUS
<1> HIDE DEF less
<1>4. PICK n \in Bad : \A m \in Bad : <<m, n>> \notin less
  <2> HIDE DEF Bad
  <2> QED
    BY <1>1, <1>3, WFMin
<1>5. n \in Nat /\ n # 0 /\ n - 1 \in Nat /\ n - 1 < n /\ (n - 1) + 1 = n
  BY <1>3, <1>4
<1>6. n - 1 \in Bad
  BY <1>4, <1>5
<1> QED
  BY <1>2, <1>4, <1>5, <1>6

\* How the library takes elements from a set to sum over it.
Pick(s) == CHOOSE x \in s : TRUE

LEMMA Picked ==
  ASSUME NEW s \in SUBSET Accounts, s # {}
  PROVE  /\ Pick(s) \in s /\ Pick(s) \in Accounts
         /\ s \ {Pick(s)} \in SUBSET Accounts
         /\ IsFiniteSet(s) /\ Cardinality(s) \in Nat /\ Cardinality(s \ {Pick(s)}) \in Nat
         /\ Cardinality(s) = Cardinality(s \ {Pick(s)}) + 1
<1>1. Pick(s) \in s
  BY DEF Pick
<1>2. IsFiniteSet(s)
  BY TokenAssumption, FS_Subset
<1>3. IsFiniteSet(s \ {Pick(s)}) /\ Cardinality(s \ {Pick(s)}) = Cardinality(s) - 1
  BY <1>1, <1>2, FS_RemoveElement
<1>4. Cardinality(s) \in Nat /\ Cardinality(s \ {Pick(s)}) \in Nat
  BY <1>2, <1>3, FS_CardinalityType
<1> QED
  BY <1>1, <1>2, <1>3, <1>4

LEMMA PickInduction ==
  ASSUME NEW G, {} \in G,
         \A s \in SUBSET Accounts : s # {} /\ s \ {Pick(s)} \in G => s \in G
  PROVE  SUBSET Accounts \subseteq G
<1> DEFINE T == {n \in Nat : \A s \in SUBSET Accounts : Cardinality(s) = n => s \in G}
<1>1. \A s \in SUBSET Accounts : IsFiniteSet(s) /\ Cardinality(s) \in Nat
  BY TokenAssumption, FS_Subset, FS_CardinalityType
<1>2. 0 \in T
  BY <1>1, FS_EmptySet
<1>3. ASSUME NEW n \in Nat, n \in T
      PROVE  n + 1 \in T
  <2>1. ASSUME NEW s \in SUBSET Accounts, Cardinality(s) = n + 1
        PROVE  s \in G
    <3>1. s # {}
      BY <2>1, FS_EmptySet
    <3>2. s \ {Pick(s)} \in SUBSET Accounts /\ Cardinality(s \ {Pick(s)}) = n
      BY <2>1, <3>1, Picked
    <3> QED
      BY <1>3, <3>1, <3>2
  <2> QED
    BY <2>1
<1>4. Nat \subseteq T
  <2> HIDE DEF T
  <2> QED
    BY <1>2, <1>3, NatInSet
<1> QED
  BY <1>1, <1>4

\* g[s] is the sum of f over s, for each set of accounts.
Sum(f, g, s) == IF s = {} THEN 0 ELSE f[Pick(s)] + g[s \ {Pick(s)}]

IsSum(f, g) == g = [s \in SUBSET Accounts |-> Sum(f, g, s)]

Total(f) == (CHOOSE g : IsSum(f, g))[Accounts]

LEMMA SumExists ==
  ASSUME NEW f
  PROVE  \E g : IsSum(f, g)
<1> DEFINE Upto(g, n) == /\ g = [s \in SUBSET Accounts |-> g[s]]
                         /\ \A s \in SUBSET Accounts :
                              Cardinality(s) <= n => g[s] = Sum(f, g, s)
           T == {n \in Nat : \E g : Upto(g, n)}
<1>1. 0 \in T
  <2> DEFINE g == [s \in SUBSET Accounts |-> 0]
  <2>1. ASSUME NEW s \in SUBSET Accounts, Cardinality(s) <= 0
        PROVE  s = {}
    <3>1. IsFiniteSet(s) /\ Cardinality(s) \in Nat
      BY TokenAssumption, FS_Subset, FS_CardinalityType
    <3> QED
      BY <2>1, <3>1, FS_EmptySet
  <2>2. Upto(g, 0)
    BY <2>1 DEF Sum
  <2> QED
    BY <2>2
<1>2. ASSUME NEW n \in Nat, n \in T
      PROVE  n + 1 \in T
  <2>1. PICK g : Upto(g, n)
    BY <1>2
  <2> DEFINE h == [s \in SUBSET Accounts |->
                     IF Cardinality(s) <= n THEN g[s] ELSE Sum(f, g, s)]
  <2>2. ASSUME NEW s \in SUBSET Accounts, Cardinality(s) <= n + 1
        PROVE  h[s] = Sum(f, h, s)
    <3>1. CASE s = {}
      <4>1. h[s] = g[s] \/ h[s] = Sum(f, g, s)
        OBVIOUS
      <4>2. Cardinality(s) <= n => g[s] = Sum(f, g, s)
        BY <2>1
      <4>3. h[s] = Sum(f, g, s)
        BY <4>2
      <4> QED
        BY <3>1, <4>3 DEF Sum
    <3>2. CASE s # {}
      <4> DEFINE r == s \ {Pick(s)}
      <4>1. /\ r \in SUBSET Accounts /\ Cardinality(r) \in Nat
            /\ Cardinality(s) = Cardinality(r) + 1
        BY <3>2, Picked
      <4>2. Cardinality(r) <= n
        BY <2>2, <4>1
      <4>3. h[r] = g[r]
        BY <4>1, <4>2
      <4>4. h[s] = Sum(f, g, s)
        BY <2>1
      <4> QED
        BY <3>2, <4>3, <4>4 DEF Sum
    <3> QED
      BY <3>1, <3>2
  <2>3. h = [s \in SUBSET Accounts |-> h[s]]
    OBVIOUS
  <2>4. Upto(h, n + 1)
    BY <2>2, <2>3
  <2> HIDE DEF h, Upto
  <2> QED
    BY <2>4
<1>3. Nat \subseteq T
  <2> HIDE DEF T
  <2> QED
    BY <1>1, <1>2, NatInSet
<1>4. Cardinality(Accounts) \in Nat
  BY TokenAssumption, FS_CardinalityType
<1>5. PICK g : Upto(g, Cardinality(Accounts))
  BY <1>3, <1>4
<1>6. \A s \in SUBSET Accounts : Cardinality(s) <= Cardinality(Accounts)
  BY TokenAssumption, FS_Subset
<1>7. \A s \in SUBSET Accounts : g[s] = Sum(f, g, s)
  BY <1>5, <1>6
<1>8. g = [s \in SUBSET Accounts |-> Sum(f, g, s)]
  BY <1>5, <1>7
<1> QED
  BY <1>8 DEF IsSum

\* The sum that the library's operator is.
LEMMA TotalIs ==
  ASSUME NEW f
  PROVE  \E g : /\ Total(f) = g[Accounts]
                /\ \A s \in SUBSET Accounts : g[s] = Sum(f, g, s)
<1>1. IsSum(f, CHOOSE g : IsSum(f, g))
  BY SumExists
<1> QED
  BY <1>1 DEF Total, IsSum

\* Sums of balances are natural, and no balance is more than the sum.
LEMMA TotalCovers ==
  ASSUME NEW f \in [Accounts -> Nat]
  PROVE  Total(f) \in Nat /\ \A a \in Accounts : f[a] <= Total(f)
<1>1. PICK g : Total(f) = g[Accounts] /\ \A s \in SUBSET Accounts : g[s] = Sum(f, g, s)
  BY TotalIs
<1> DEFINE G == {s \in SUBSET Accounts : g[s] \in Nat /\ \A a \in s : f[a] <= g[s]}
<1>2. {} \in G
  BY <1>1 DEF Sum
<1>3. ASSUME NEW s \in SUBSET Accounts, s # {}, s \ {Pick(s)} \in G
      PROVE  s \in G
  <2> DEFINE r == s \ {Pick(s)}
  <2>1. Pick(s) \in Accounts /\ Pick(s) \in s
    BY <1>3, Picked
  <2>2. g[s] = f[Pick(s)] + g[r]
    BY <1>1, <1>3 DEF Sum
  <2>3. f[Pick(s)] \in Nat /\ g[r] \in Nat /\ \A a \in r : f[a] <= g[r]
    BY <1>3, <2>1
  <2>4. ASSUME NEW a \in s
        PROVE  f[a] <= g[s]
    <3>1. f[a] \in Nat
      OBVIOUS
    <3>2. CASE a = Pick(s)
      BY <2>2, <2>3, <3>2
    <3>3. CASE a \in r
      <4> HIDE DEF r
      <4> QED
        BY <2>2, <2>3, <3>1, <3>3
    <3> QED
      BY <3>2, <3>3
  <2> QED
    BY <2>2, <2>3, <2>4
<1>4. Accounts \in G
  <2> HIDE DEF G
  <2> QED
    BY <1>2, <1>3, PickInduction
<1> QED
  BY <1>1, <1>4

LEMMA TotalOfNothing == Total([a \in Accounts |-> 0]) = 0
<1> DEFINE f == [a \in Accounts |-> 0]
<1>1. PICK g : Total(f) = g[Accounts] /\ \A s \in SUBSET Accounts : g[s] = Sum(f, g, s)
  BY TotalIs
<1> DEFINE G == {s \in SUBSET Accounts : g[s] = 0}
<1>2. {} \in G
  BY <1>1 DEF Sum
<1>3. ASSUME NEW s \in SUBSET Accounts, s # {}, s \ {Pick(s)} \in G
      PROVE  s \in G
  <2>1. Pick(s) \in Accounts
    BY <1>3, Picked
  <2>2. g[s] = f[Pick(s)] + g[s \ {Pick(s)}]
    BY <1>1, <1>3 DEF Sum
  <2>3. f[Pick(s)] = 0 /\ g[s \ {Pick(s)}] = 0
    BY <1>3, <2>1
  <2> QED
    BY <2>2, <2>3
<1>4. Accounts \in G
  <2> HIDE DEF G
  <2> QED
    BY <1>2, <1>3, PickInduction
<1> QED
  BY <1>1, <1>4

\* What is added to one account, and taken from one, is in the sum.
LEMMA TotalMoves ==
  ASSUME NEW f \in [Accounts -> Nat], NEW h \in [Accounts -> Nat],
         NEW to \in Accounts, NEW from \in Accounts, NEW n \in Nat, NEW m \in Nat,
         \A a \in Accounts : h[a] = f[a] + (IF a = to THEN n ELSE 0)
                                         - (IF a = from THEN m ELSE 0)
  PROVE  Total(h) = Total(f) + n - m
<1>1. PICK g : Total(f) = g[Accounts] /\ \A s \in SUBSET Accounts : g[s] = Sum(f, g, s)
  BY TotalIs
<1>2. PICK k : Total(h) = k[Accounts] /\ \A s \in SUBSET Accounts : k[s] = Sum(h, k, s)
  BY TotalIs
<1> DEFINE Added(s) == IF to \in s THEN n ELSE 0
           Taken(s) == IF from \in s THEN m ELSE 0
           G == {s \in SUBSET Accounts :
                   g[s] \in Int /\ k[s] = g[s] + Added(s) - Taken(s)}
<1>3. {} \in G
  <2>1. {} \in SUBSET Accounts /\ Added({}) = 0 /\ Taken({}) = 0
    OBVIOUS
  <2>2. g[{}] = 0 /\ k[{}] = 0
    BY <1>1, <1>2, <2>1 DEF Sum
  <2> HIDE DEF Added, Taken
  <2> QED
    BY <2>1, <2>2
<1>4. ASSUME NEW s \in SUBSET Accounts, s # {}, s \ {Pick(s)} \in G
      PROVE  s \in G
  <2> DEFINE r == s \ {Pick(s)}
             p == Pick(s)
  <2>1. p \in Accounts /\ p \in s
    BY <1>4, Picked
  <2>2. g[s] = f[p] + g[r] /\ k[s] = h[p] + k[r]
    BY <1>1, <1>2, <1>4 DEF Sum
  <2>3. g[r] \in Int /\ k[r] = g[r] + Added(r) - Taken(r) /\ f[p] \in Nat
    BY <1>4, <2>1
  <2>4. h[p] = f[p] + (IF p = to THEN n ELSE 0) - (IF p = from THEN m ELSE 0)
    BY <2>1
  <2>5. Added(s) = Added(r) + (IF p = to THEN n ELSE 0)
    BY <2>1
  <2>6. Taken(s) = Taken(r) + (IF p = from THEN m ELSE 0)
    BY <2>1
  <2>7. Added(r) \in Nat /\ Taken(r) \in Nat
    OBVIOUS
  <2>8. g[s] \in Int /\ k[s] = g[s] + Added(s) - Taken(s)
    <3> HIDE DEF Added, Taken, p, r
    <3> QED
      BY <2>2, <2>3, <2>4, <2>5, <2>6, <2>7
  <2> QED
    BY <2>8
<1>5. Accounts \in G
  <2> HIDE DEF G
  <2> QED
    BY <1>3, <1>4, PickInduction
<1> QED
  BY <1>1, <1>2, <1>5

-----------------------------------------------------------------------------
(* The token and the faucet.                                               *)

TokenInv == TokenTypeOK /\ SupplyAccounted

LEMMA Supply ==
  /\ SupplyAccounted <=> /\ supply = ClaimAmount * Cardinality(claimed) + byHand
                         /\ supply = Total(holds)
  /\ SupplyAccounted' <=> /\ supply' = ClaimAmount * Cardinality(claimed') + byHand'
                          /\ supply' = Total(holds')
BY DEF SupplyAccounted, MapThenSumSet, MapThenFoldSet, Total, IsSum, Sum, Pick

LEMMA TokenTyped ==
  ASSUME TokenTypeOK
  PROVE  /\ MaxSupply \in Nat /\ ClaimAmount \in Nat /\ ClaimAmount > 0
         /\ owner \in Accounts \cup {Faucet} /\ holds \in [Accounts -> Nat]
         /\ holds \in [Accounts -> 0..MaxSupply]
         /\ supply \in Nat /\ supply <= MaxSupply /\ byHand \in Nat
         /\ claimed \subseteq Accounts /\ used \subseteq Accounts
         /\ IsFiniteSet(claimed) /\ Cardinality(claimed) \in Nat
<1>1. claimed \subseteq Accounts /\ IsFiniteSet(claimed)
  BY TokenAssumption, FS_Subset DEF TokenTypeOK
<1>2. Cardinality(claimed) \in Nat
  BY <1>1, FS_CardinalityType
<1>3. holds \in [Accounts -> Nat]
  BY TokenAssumption DEF TokenTypeOK
<1> QED
  BY <1>1, <1>2, <1>3, TokenAssumption DEF TokenTypeOK

\* Balances are bounded by the supply, and so is what was minted by hand.
LEMMA TokenTypedNext ==
  ASSUME owner' \in Accounts \cup {Faucet}, holds' \in [Accounts -> Nat],
         supply' \in 0..MaxSupply, byHand' \in Nat,
         claimed' \subseteq Accounts, used' \subseteq Accounts,
         SupplyAccounted'
  PROVE  TokenTypeOK'
<1>0. MaxSupply \in Nat /\ ClaimAmount \in Nat
  BY TokenAssumption
<1>1. \A a \in Accounts : holds'[a] <= supply'
  BY TotalCovers, Supply
<1>2. holds' \in [Accounts -> 0..MaxSupply]
  BY <1>0, <1>1
<1>3. byHand' <= supply'
  <2>1. Cardinality(claimed') \in Nat
    BY TokenAssumption, FS_Subset, FS_CardinalityType
  <2>2. ClaimAmount * Cardinality(claimed') \in Nat
    BY <1>0, <2>1
  <2>3. supply' = ClaimAmount * Cardinality(claimed') + byHand'
    BY Supply
  <2> QED
    BY <2>2, <2>3
<1> QED
  BY <1>0, <1>2, <1>3 DEF TokenTypeOK

LEMMA DeployedInv == Deployed => TokenInv
<1> SUFFICES ASSUME Deployed PROVE TokenInv
  OBVIOUS
<1>1. SupplyAccounted
  <2>1. Cardinality(claimed) = 0 /\ supply = 0 /\ byHand = 0
    BY FS_EmptySet DEF Deployed
  <2>2. Total(holds) = 0
    BY TotalOfNothing DEF Deployed
  <2>3. ClaimAmount * Cardinality(claimed) + byHand = 0
    BY <2>1, TokenAssumption
  <2> QED
    BY <2>1, <2>2, <2>3, Supply
<1>2. TokenTypeOK
  BY TokenAssumption DEF Deployed, TokenTypeOK
<1> QED
  BY <1>1, <1>2 DEF TokenInv

LEMMA DeployedAgainInv == DeployedAgain => TokenInv'
<1> SUFFICES ASSUME DeployedAgain PROVE TokenInv'
  OBVIOUS
<1>1. SupplyAccounted'
  <2>1. Cardinality(claimed') = 0 /\ supply' = 0 /\ byHand' = 0
    BY FS_EmptySet DEF DeployedAgain
  <2>2. Total(holds') = 0
    BY TotalOfNothing DEF DeployedAgain
  <2>3. ClaimAmount * Cardinality(claimed') + byHand' = 0
    BY <2>1, TokenAssumption
  <2> QED
    BY <2>1, <2>2, <2>3, Supply
<1>2. TokenTypeOK'
  BY TokenAssumption DEF DeployedAgain, TokenTypeOK
<1> QED
  BY <1>1, <1>2 DEF TokenInv

LEMMA CreditTotal ==
  ASSUME TokenInv, NEW to \in Accounts, NEW n \in Nat, supply + n <= MaxSupply,
         Credit(to, n)
  PROVE  /\ holds' \in [Accounts -> Nat] /\ supply' \in 0..MaxSupply
         /\ supply' = Total(holds')
<1>1. holds \in [Accounts -> Nat] /\ supply \in Nat /\ MaxSupply \in Nat /\ supply = Total(holds)
  BY TokenTyped, Supply DEF TokenInv
<1>2. holds' = [holds EXCEPT ![to] = @ + n] /\ supply' = supply + n
  BY DEF Credit
<1>3. holds' \in [Accounts -> Nat]
  BY <1>1, <1>2
<1>4. \A a \in Accounts : holds'[a] = holds[a] + (IF a = to THEN n ELSE 0)
                                               - (IF a = to THEN 0 ELSE 0)
  BY <1>1, <1>2
<1>5. Total(holds') = Total(holds) + n - 0
  BY <1>1, <1>3, <1>4, TotalMoves
<1> QED
  BY <1>1, <1>2, <1>3, <1>5

LEMMA ClaimInv ==
  ASSUME TokenInv, NEW by, NEW w \in Accounts, NEW id, NEW n, Claim(by, w, id, n)
  PROVE  TokenInv'
<1>1. /\ n = ClaimAmount /\ id = w /\ w \notin claimed /\ supply + n <= MaxSupply
      /\ claimed' = claimed \cup {w} /\ used' = used \cup {w}
      /\ Credit(w, n) /\ UNCHANGED <<owner, byHand>>
  BY DEF Claim, Claimable, Mintable, ComputeRequestId
<1>2. /\ ClaimAmount \in Nat /\ owner \in Accounts \cup {Faucet} /\ byHand \in Nat
      /\ claimed \subseteq Accounts /\ used \subseteq Accounts
      /\ IsFiniteSet(claimed) /\ Cardinality(claimed) \in Nat
      /\ supply = ClaimAmount * Cardinality(claimed) + byHand
  BY TokenTyped, Supply DEF TokenInv
<1>3. /\ holds' \in [Accounts -> Nat] /\ supply' \in 0..MaxSupply
      /\ supply' = Total(holds') /\ supply' = supply + ClaimAmount
  BY <1>1, <1>2, CreditTotal DEF Credit
<1>4. Cardinality(claimed') = Cardinality(claimed) + 1
  BY <1>1, <1>2, FS_AddElement
<1>5. supply' = ClaimAmount * Cardinality(claimed') + byHand'
  <2>1. \A x, y, z \in Nat : x * (y + 1) + z = (x * y + z) + x
    OBVIOUS
  <2> QED
    BY <1>1, <1>2, <1>3, <1>4, <2>1
<1>6. SupplyAccounted'
  BY <1>3, <1>5, Supply
<1> QED
  BY <1>1, <1>2, <1>3, <1>6, TokenTypedNext DEF TokenInv

LEMMA MintInv ==
  ASSUME TokenInv, NEW by, NEW to \in Accounts, NEW n \in Nat, Mint(by, to, n)
  PROVE  TokenInv'
<1>1. /\ supply + n <= MaxSupply /\ Credit(to, n) /\ byHand' = byHand + n
      /\ supply' = supply + n
      /\ UNCHANGED <<owner, claimed, used>>
  BY DEF Mint, Mintable, Credit
<1>2. /\ owner \in Accounts \cup {Faucet} /\ byHand \in Nat /\ ClaimAmount \in Nat
      /\ claimed \subseteq Accounts /\ used \subseteq Accounts /\ Cardinality(claimed) \in Nat
      /\ supply = ClaimAmount * Cardinality(claimed) + byHand
  BY TokenTyped, Supply DEF TokenInv
<1>3. /\ holds' \in [Accounts -> Nat] /\ supply' \in 0..MaxSupply
      /\ supply' = Total(holds')
  BY <1>1, CreditTotal
<1>4. supply' = ClaimAmount * Cardinality(claimed') + byHand'
  <2>1. ClaimAmount * Cardinality(claimed) \in Nat
    BY <1>2
  <2> QED
    BY <1>1, <1>2, <2>1
<1>5. SupplyAccounted'
  BY <1>3, <1>4, Supply
<1> QED
  BY <1>1, <1>2, <1>3, <1>5, TokenTypedNext DEF TokenInv

LEMMA TransferInv ==
  ASSUME TokenInv, NEW from \in Accounts, NEW to \in Accounts, NEW n \in Nat,
         Transfer(from, to, n)
  PROVE  TokenInv'
<1>1. /\ holds[from] >= n /\ UNCHANGED <<owner, supply, claimed, used, byHand>>
      /\ holds' = [a \in Accounts |-> holds[a] + (IF a = to THEN n ELSE 0)
                                               - (IF a = from THEN n ELSE 0)]
  BY DEF Transfer
<1>2. /\ holds \in [Accounts -> Nat] /\ supply \in Nat /\ supply <= MaxSupply
      /\ supply = Total(holds) /\ MaxSupply \in Nat
      /\ supply = ClaimAmount * Cardinality(claimed) + byHand
      /\ owner \in Accounts \cup {Faucet} /\ byHand \in Nat
      /\ claimed \subseteq Accounts /\ used \subseteq Accounts
  BY TokenTyped, Supply DEF TokenInv
<1>3. holds' \in [Accounts -> Nat]
  BY <1>1, <1>2
<1>4. Total(holds') = Total(holds) + n - n
  <2>1. \A a \in Accounts : holds'[a] = holds[a] + (IF a = to THEN n ELSE 0)
                                                 - (IF a = from THEN n ELSE 0)
    BY <1>1
  <2>2. holds \in [Accounts -> Nat]
    BY <1>2
  <2> QED
    BY <1>3, <2>1, <2>2, TotalMoves
<1>5. SupplyAccounted'
  BY <1>1, <1>2, <1>4, Supply
<1> QED
  BY <1>1, <1>2, <1>3, <1>5, TokenTypedNext DEF TokenInv

LEMMA OwnerInv ==
  ASSUME TokenInv, NEW by, NEW to \in Accounts \cup {Faucet}, TransferOwnership(by, to)
  PROVE  TokenInv'
<1>1. owner' = to /\ UNCHANGED <<holds, supply, claimed, used, byHand>>
  BY DEF TransferOwnership
<1>2. SupplyAccounted'
  BY <1>1, Supply DEF TokenInv
<1> QED
  BY <1>1, <1>2 DEF TokenInv, TokenTypeOK

-----------------------------------------------------------------------------
(* The parts of a state.                                                   *)

Script == [at : Points, i : 1..N, store : [Users -> Wallets], epoch : 0..deployment]

\* What holds in every state.
SeedInv == DemoInv /\ SupplyAccounted

LEMMA Parts ==
  /\ SeedInv => /\ DemoTypeOK /\ TokenInv /\ ReadyIsPaid /\ OwnWallets
                /\ KeysMatch /\ JobsFollow /\ Balances
  /\ /\ DemoTypeOK' /\ TokenInv' /\ ReadyIsPaid' /\ OwnWallets'
     /\ KeysMatch' /\ JobsFollow' /\ Balances'
     => SeedInv'
BY DEF SeedInv, DemoInv, DemoTypeOK, TokenInv

LEMMA Order ==
  /\ N \in Nat /\ N > 1 /\ 1 \in 1..N
  /\ \A j \in 1..N : DemoUsers[j] \in Users
  /\ \A u \in Users : \E j \in 1..N : u = DemoUsers[j]
  /\ \A i, j \in 1..N : DemoUsers[i] = DemoUsers[j] => i = j
<1>1. N \in Nat /\ N > 1
  BY SeedAssumption DEF N
<1> QED
  BY <1>1, SeedAssumption DEF N, Users

LEMMA Numbers ==
  /\ Accounts \subseteq Nat /\ NoWallet \notin Accounts /\ 0 \in Accounts
  /\ \A k \in Nat : k + 1 \in Accounts => 1..(k + 1) \subseteq Accounts
  /\ TransferAmount \in Nat /\ TransferAmount > 0 /\ TransferAmount <= ClaimAmount
  /\ ClaimAmount \in Nat /\ MaxSupply \in Nat
  /\ MaxDeployments \in Nat /\ MaxTrouble \in Nat
<1>1. Cardinality(Accounts) \in Nat
  BY TokenAssumption, FS_CardinalityType
<1>2. Accounts = 0..(Cardinality(Accounts) - 1)
  BY SeedBounds
<1>3. Accounts \subseteq Nat /\ \A k \in Nat : k + 1 \in Accounts => 1..(k + 1) \subseteq Accounts
  BY <1>1, <1>2
<1> QED
  BY <1>3, TokenAssumption, SeedAssumption, SeedBounds

LEMMA SeedTyped ==
  ASSUME DemoTypeOK
  PROVE  /\ seed \in Script /\ seed.at \in Points /\ seed.i \in 1..N
         /\ seed.store \in [Users -> Wallets] /\ seed.epoch \in 0..deployment
         /\ wallet \in [Users -> Wallets] /\ file \in [Users -> Wallets]
         /\ User \in Users /\ seed.i \in Nat /\ N \in Nat
         /\ deployment \in Nat /\ deployment > 0 /\ made \in Nat
         /\ stops \in Nat /\ meddling \in Nat
         /\ gas \subseteq Accounts /\ claimed \subseteq Accounts
<1>1. /\ seed \in Script /\ deployment \in 1..MaxDeployments /\ made \in Accounts
      /\ {stops, meddling} \subseteq 0..MaxTrouble
      /\ {wallet, file} \subseteq [Users -> Wallets] /\ gas \subseteq Accounts
      /\ claimed \subseteq Accounts
  BY DEF DemoTypeOK, TokenTypeOK, Script
<1>2. /\ seed.at \in Points /\ seed.i \in 1..N
      /\ seed.store \in [Users -> Wallets] /\ seed.epoch \in 0..deployment
  BY <1>1 DEF Script
<1> QED
  BY <1>1, <1>2, Order, Numbers DEF User

LEMMA AllTyped ==
  ASSUME TokenInv', gas' \subseteq Accounts, users' \subseteq Users,
         deployment' \in 1..MaxDeployments, synced' \in 0..deployment',
         wallet' \in [Users -> Wallets], file' \in [Users -> Wallets],
         job' \in [Users -> [wallet : Wallets, epoch : 0..deployment']],
         entered' \subseteq Accounts, history' \subseteq 1..N,
         seed' \in [at : Points, i : 1..N, store : [Users -> Wallets], epoch : 0..deployment'],
         made' \in Accounts,
         lost' \in {"nothing", "file", "database"}, cut' \in BOOLEAN,
         {stops', meddling'} \subseteq 0..MaxTrouble
  PROVE  DemoTypeOK'
BY DEF DemoTypeOK, TokenInv

\* What goes on to another point, and nothing else of the script.
LEMMA GotoTells ==
  ASSUME DemoTypeOK, NEW p \in Points, Goto(p)
  PROVE  /\ seed' \in Script /\ seed'.at = p
         /\ seed'.i = seed.i /\ seed'.store = seed.store /\ seed'.epoch = seed.epoch
<1>1. seed \in Script
  BY SeedTyped
<1> QED
  BY <1>1 DEF Goto, Script

LEMMA OffTells ==
  ASSUME DemoTypeOK
  PROVE  /\ Off \in Script /\ Off.at = "off" /\ Off.i = 1 /\ Off.store = NoFile
         /\ Off.epoch = 0 /\ NoFile \in [Users -> Wallets]
         /\ \A u \in Users : NoFile[u] = NoWallet
BY SeedTyped, Order DEF Off, Script, NoFile, Wallets, Points

\* The end of a user's turn.
LEMMA TurnTells ==
  ASSUME DemoTypeOK, NEW at \in Points, NEW then \in Points
  PROVE  LET next == NextUser(at, then) IN
         /\ next \in Script /\ next.store = seed.store /\ next.epoch = seed.epoch
         /\ \/ next.at = at /\ next.i = seed.i + 1 /\ seed.i < N
            \/ next.at = then /\ next.i = 1 /\ seed.i = N
<1>1. seed \in Script /\ seed.i \in 1..N /\ N \in Nat /\ 1 \in 1..N
  BY SeedTyped, Order
<1>2. CASE seed.i < N
  <2>1. NextUser(at, then) = [seed EXCEPT !.at = at, !.i = seed.i + 1]
    BY <1>2 DEF NextUser
  <2>2. seed.i + 1 \in 1..N
    BY <1>1, <1>2
  <2> QED
    BY <1>1, <1>2, <2>1, <2>2 DEF Script
<1>3. CASE ~(seed.i < N)
  <2>1. NextUser(at, then) = [seed EXCEPT !.at = then, !.i = 1]
    BY <1>3 DEF NextUser
  <2>2. seed.i = N
    BY <1>1, <1>3
  <2> QED
    BY <1>1, <1>3, <2>1, <2>2 DEF Script
<1> QED
  BY <1>2, <1>3

LEMMA Turns ==
  ASSUME DemoTypeOK
  PROVE  /\ TurnsBefore \subseteq Users /\ User \notin TurnsBefore
         /\ seed.i = 1 => TurnsBefore = {}
         /\ seed.i = N => TurnsBefore \cup {User} = Users
         /\ seed'.i = seed.i => TurnsBefore' = TurnsBefore
         /\ seed'.i = seed.i + 1 => TurnsBefore' = TurnsBefore \cup {User}
<1>1. seed.i \in 1..N /\ N \in Nat
  BY SeedTyped
<1>2. TurnsBefore \subseteq Users
  BY <1>1, Order DEF TurnsBefore
<1>3. User \notin TurnsBefore
  BY <1>1, Order DEF TurnsBefore, User
<1>4. seed.i = 1 => TurnsBefore = {}
  BY DEF TurnsBefore
<1>5. seed.i = N => TurnsBefore \cup {User} = Users
  BY <1>1, <1>2, Order DEF TurnsBefore, User
<1>6. seed'.i = seed.i => TurnsBefore' = TurnsBefore
  BY DEF TurnsBefore
<1>7. seed'.i = seed.i + 1 => TurnsBefore' = TurnsBefore \cup {User}
  BY <1>1 DEF TurnsBefore, User
<1> QED
  BY <1>2, <1>3, <1>4, <1>5, <1>6, <1>7

\* After the end of a turn the users are those before it and its own.
LEMMA TurnEnds ==
  ASSUME DemoTypeOK, seed'.i = seed.i + 1 \/ seed.i = N
  PROVE  TurnsBefore \cup {User} = IF seed.i = N THEN Users ELSE TurnsBefore'
BY Turns

-----------------------------------------------------------------------------
(* Frames: parts that a step leaves as they are.                           *)

LEMMA TokensRest ==
  ASSUME TokenInv, UNCHANGED tokens
  PROVE  TokenInv'
<1>1. UNCHANGED <<owner, holds, supply, claimed, used, byHand>>
  BY DEF tokens
<1>2. SupplyAccounted'
  BY <1>1, Supply DEF TokenInv
<1> QED
  BY <1>1, <1>2 DEF TokenInv, TokenTypeOK

\* Nothing but the script's own counters and its place changes.
LEMMA TypedRest ==
  ASSUME DemoTypeOK, TokenInv', UNCHANGED <<gas, deployed, rows, file, made, lost>>,
         seed' \in Script, cut' \in BOOLEAN, {stops', meddling'} \subseteq 0..MaxTrouble
  PROVE  DemoTypeOK'
BY AllTyped DEF DemoTypeOK, deployed, rows, Script

LEMMA PaidRest ==
  ASSUME ReadyIsPaid, UNCHANGED <<job, deployment>>, claimed \subseteq claimed'
  PROVE  ReadyIsPaid'
BY DEF ReadyIsPaid

LEMMA OwnRest ==
  ASSUME OwnWallets, made' = made,
         \A u \in Users : {wallet'[u], file'[u], seed'.store[u]}
                            \subseteq {wallet[u], file[u], seed.store[u], NoWallet}
  PROVE  OwnWallets'
<1> SUFFICES ASSUME NEW u \in Users, NEW v \in Users,
                    NEW a \in {wallet'[u], file'[u], seed'.store[u]},
                    NEW b \in {wallet'[v], file'[v], seed'.store[v]}
             PROVE  a = NoWallet \/ (a \in 1..made' /\ (a = b => u = v))
  BY DEF OwnWallets
<1>1. /\ a \in {wallet[u], file[u], seed.store[u], NoWallet}
      /\ b \in {wallet[v], file[v], seed.store[v], NoWallet}
  OBVIOUS
<1>2. CASE b = NoWallet
  BY <1>1, <1>2 DEF OwnWallets
<1>3. CASE b # NoWallet
  BY <1>1, <1>3 DEF OwnWallets
<1> QED
  BY <1>2, <1>3

\* The points after the keys are saved.
Saved == {"check", "gas", "claim", "enter", "mark", "exist", "send", "record", "done"}

LEMMA SavedPoints ==
  /\ Saved \subseteq Points
  /\ \A p \in Points : p \notin Saved <=> p \in {"off", "user", "wallet", "save"}
BY DEF Saved, Points

\* From then on the rows, the keys and the file are one.
LEMMA KeysSaved ==
  ASSUME DemoTypeOK, KeysMatch, seed.at \in Saved
  PROVE  /\ file = seed.store
         /\ \A u \in Users : /\ wallet[u] \in Accounts /\ seed.store[u] \in Accounts
                             /\ MayDiffer \/ wallet[u] = seed.store[u]
<1>1. Provided = Users /\ file = seed.store
  BY DEF Provided, KeysMatch, Saved
<1> QED
  BY <1>1, SeedTyped DEF KeysMatch, Wallets

LEMMA KeysRest ==
  ASSUME DemoTypeOK, KeysMatch, UNCHANGED <<wallet, file, lost>>,
         seed'.store = seed.store, Provided' = Provided, MayDiffer => MayDiffer',
         seed'.at = "off" => seed.at = "off", seed.at = "off" => seed'.at = "off",
         seed'.at \in {"off", "user", "wallet", "save"} \/ seed.at \in Saved
  PROVE  KeysMatch'
BY SeedTyped DEF KeysMatch, Saved

LEMMA SavedRest ==
  ASSUME DemoTypeOK, OwnWallets, KeysMatch, UNCHANGED <<wallet, file, lost, stops, made>>,
         seed.at \in Saved, seed'.at \in Saved, seed'.store = seed.store
  PROVE  OwnWallets' /\ KeysMatch'
<1>1. Provided' = Provided
  BY DEF Provided, Saved
<1>2. MayDiffer => MayDiffer'
  BY DEF MayDiffer
<1>3. KeysMatch'
  BY <1>1, <1>2, KeysRest DEF Saved
<1>4. OwnWallets'
  BY OwnRest
<1> QED
  BY <1>3, <1>4

LEMMA BalancesRest ==
  ASSUME DemoTypeOK, Balances, UNCHANGED <<holds, claimed>>, ~InCircle, ~InCircle',
         cut => cut', MayDiffer => MayDiffer', meddling' = meddling
  PROVE  Balances'
BY DEF Balances, Balanced, Granted

-----------------------------------------------------------------------------
(* Deployments, and what happens between the runs.                         *)

LEMMA ChainInv ==
  ASSUME SeedInv, HandOver \/ SyncAbi \/ Meddle
  PROVE  SeedInv'
<1>0. /\ DemoTypeOK /\ TokenInv /\ ReadyIsPaid /\ OwnWallets /\ KeysMatch /\ JobsFollow
      /\ Balances
  BY Parts
<1>1. /\ UNCHANGED <<claimed, gas, deployment, rows, file, seed, made, lost, cut, stops>>
      /\ meddling' \in 0..MaxTrouble /\ synced' \in 0..deployment
      /\ UNCHANGED <<holds, meddling>> \/ meddling' # 0
  <2>1. CASE HandOver \/ SyncAbi
    BY <1>0, <2>1, SeedTyped
       DEF HandOver, SyncAbi, TransferOwnership, deployed, bounds, DemoTypeOK, chain, tokens
  <2>2. CASE Meddle
    <3>1. UNCHANGED <<gas, deployed, rows, file, seed, made, lost, cut, stops>>
      BY <2>2 DEF Meddle
    <3>2. UNCHANGED claimed
      BY <2>2 DEF Meddle, RecoverTokenOwnership, TransferOwnership, Mint, Transfer
    <3>3. meddling' = meddling + 1 /\ stops + meddling < MaxTrouble
      BY <2>2 DEF Meddle
    <3>4. meddling' \in 0..MaxTrouble /\ meddling' # 0
      BY <1>0, <3>3, SeedTyped, Numbers
    <3> QED
      BY <1>0, <3>1, <3>2, <3>4 DEF deployed, DemoTypeOK
  <2> QED
    BY <2>1, <2>2
<1>2. TokenInv'
  <2>1. CASE HandOver
    BY <1>0, <2>1, OwnerInv DEF HandOver
  <2>2. CASE SyncAbi
    BY <1>0, <2>2, TokensRest DEF SyncAbi, chain
  <2>3. CASE Meddle
    <3>1. CASE RecoverTokenOwnership(Deployer, Deployer)
      BY <1>0, <3>1, TokenAssumption, OwnerInv DEF RecoverTokenOwnership
    <3>2. CASE Mint(Deployer, Deployer, TransferAmount)
      BY <1>0, <3>2, TokenAssumption, Numbers, MintInv
    <3>3. ASSUME NEW u \in Users, NEW v \in Users, {file[u], file[v]} \subseteq Accounts,
                 Transfer(file[u], file[v], TransferAmount)
          PROVE  TokenInv'
      BY <1>0, <3>3, Numbers, TransferInv
    <3> QED
      BY <2>3, <3>1, <3>2, <3>3 DEF Meddle
  <2> QED
    BY <2>1, <2>2, <2>3
<1>3. DemoTypeOK'
  BY <1>0, <1>1, <1>2, AllTyped DEF DemoTypeOK, rows
<1>4. ReadyIsPaid' /\ OwnWallets' /\ KeysMatch'
  <2>1. UNCHANGED <<wallet, job>> /\ Provided' = Provided /\ (MayDiffer => MayDiffer')
    BY <1>1 DEF rows, Provided, TurnsBefore, MayDiffer
  <2> QED
    BY <1>0, <1>1, <2>1, PaidRest, OwnRest, KeysRest, SeedTyped, SavedPoints
<1>5. JobsFollow'
  BY <1>0, <1>1 DEF JobsFollow, Readied, TurnsBefore, Wallet, User, rows
<1>6. Balances'
  BY <1>0, <1>1 DEF Balances, InCircle, OnItsWay, Balanced, Granted, Sent, To, From,
                    MayDiffer, rows
<1> QED
  BY <1>2, <1>3, <1>4, <1>5, <1>6, Parts

\* On a new chain nothing is claimed, no job is ready, and no account has gas.
LEMMA RedeployInv ==
  ASSUME SeedInv, Redeploy
  PROVE  SeedInv'
<1>0. /\ DemoTypeOK /\ TokenInv /\ ReadyIsPaid /\ OwnWallets /\ KeysMatch /\ JobsFollow
      /\ Balances
  BY Parts
<1>1. /\ UNCHANGED <<synced, rows, file, seed, made, bounds>> /\ DeployedAgain /\ gas' = {}
      /\ deployment' = deployment + 1 /\ deployment < MaxDeployments
      /\ deployment \in Nat /\ seed.epoch \in 0..deployment
      /\ claimed' = {} /\ holds' = [a \in Accounts |-> 0]
  BY <1>0, SeedTyped DEF Redeploy, DeployedAgain
<1>2. TokenInv'
  BY <1>1, DeployedAgainInv
<1>3. \A u \in Users : job[u].epoch \in 0..deployment
  BY <1>0 DEF DemoTypeOK
<1>4. DemoTypeOK'
  <2>1. deployment' \in 1..MaxDeployments /\ 0..deployment \subseteq 0..deployment'
    BY <1>0, <1>1, Numbers DEF DemoTypeOK
  <2>2. job' \in [Users -> [wallet : Wallets, epoch : 0..deployment']]
    BY <1>0, <1>1, <2>1 DEF DemoTypeOK, rows
  <2>3. seed' \in [at : Points, i : 1..N, store : [Users -> Wallets], epoch : 0..deployment']
    BY <1>0, <1>1, <2>1 DEF DemoTypeOK
  <2> QED
    BY <1>0, <1>1, <1>2, <2>1, <2>2, <2>3, AllTyped DEF DemoTypeOK, rows, bounds
<1>5. ReadyIsPaid'
  BY <1>1, <1>3 DEF ReadyIsPaid, rows
<1>6. OwnWallets' /\ KeysMatch'
  <2>1. UNCHANGED <<wallet, lost>> /\ Provided' = Provided /\ (MayDiffer => MayDiffer')
    BY <1>1 DEF rows, bounds, Provided, TurnsBefore, MayDiffer
  <2> QED
    BY <1>0, <1>1, <2>1, OwnRest, KeysRest, SeedTyped, SavedPoints
<1>7. JobsFollow'
  BY <1>0, <1>1 DEF JobsFollow, Readied, TurnsBefore, rows
<1>8. Balances'
  <2>1. Balanced'
    BY <1>1 DEF Balanced, Granted
  <2> QED
    BY <1>1, <2>1 DEF Balances
<1> QED
  BY <1>2, <1>4, <1>5, <1>6, <1>7, <1>8, Parts

LEMMA LossInv ==
  ASSUME SeedInv, LoseWalletFile \/ LoseDatabase
  PROVE  SeedInv'
<1>0. /\ DemoTypeOK /\ TokenInv /\ ReadyIsPaid /\ OwnWallets /\ KeysMatch /\ JobsFollow
      /\ Balances
  BY Parts
<1>1. /\ seed.at = "off" /\ lost = "nothing"
      /\ UNCHANGED <<chain, deployed, seed, made, cut, stops, meddling>>
      /\ UNCHANGED tokens /\ UNCHANGED <<holds, claimed, gas, deployment, synced>>
  BY DEF LoseWalletFile, LoseDatabase, chain, tokens, deployed
<1>2. /\ NoFile \in [Users -> Wallets] /\ \A u \in Users : NoFile[u] = NoWallet
      /\ seed.epoch \in 0..deployment /\ deployment \in Nat /\ deployment > 0
      /\ wallet \in [Users -> Wallets] /\ file \in [Users -> Wallets]
  BY <1>0, OffTells, SeedTyped
<1>3. \/ file' = NoFile /\ lost' = "file" /\ UNCHANGED rows
      \/ /\ lost' = "database" /\ file' = file /\ wallet' = NoFile
         /\ job' = [u \in Users |-> NoJob] /\ users' = {} /\ entered' = {} /\ history' = {}
  BY DEF LoseWalletFile, LoseDatabase
<1>4. TokenInv'
  BY <1>0, <1>1, TokensRest
<1>5. DemoTypeOK'
  <2>1. NoJob \in [wallet : Wallets, epoch : 0..deployment]
    BY <1>2 DEF NoJob, Wallets
  <2> QED
    BY <1>0, <1>1, <1>2, <1>3, <1>4, <2>1, AllTyped DEF DemoTypeOK, rows
<1>6. ReadyIsPaid'
  <2>1. CASE UNCHANGED rows
    BY <1>0, <1>1, <2>1, PaidRest DEF rows
  <2>2. CASE job' = [u \in Users |-> NoJob]
    BY <1>1, <1>2, <2>2 DEF ReadyIsPaid, NoJob
  <2> QED
    BY <1>3, <2>1, <2>2
<1>7. OwnWallets'
  BY <1>0, <1>1, <1>2, <1>3, OwnRest DEF rows
<1>8. KeysMatch'
  <2>1. Provided' = {}
    BY <1>1 DEF Provided
  <2>2. \A u \in Users : NoWallet \in {wallet'[u], file'[u]}
    BY <1>2, <1>3
  <2>3. lost' # "database" => \A u \in Users : file'[u] = NoWallet
    BY <1>2, <1>3
  <2> QED
    BY <1>1, <2>1, <2>2, <2>3 DEF KeysMatch
<1>9. JobsFollow'
  <2>1. Readied' = {}
    BY <1>1 DEF Readied
  <2> QED
    BY <1>0, <1>1, <2>1 DEF JobsFollow
<1>10. Balances'
  <2>1. ~InCircle /\ ~InCircle' /\ ~MayDiffer
    BY <1>1 DEF InCircle, MayDiffer
  <2> QED
    BY <1>0, <1>1, <2>1, BalancesRest
<1> QED
  BY <1>4, <1>5, <1>6, <1>7, <1>8, <1>9, <1>10, Parts

-----------------------------------------------------------------------------
(* Ends of the script.                                                     *)

\* Before the file is saved only a stop ends it; afterwards rows and keys are one.
LEMMA EndsInv ==
  ASSUME SeedInv, seed' = Off, seed.at # "off",
         UNCHANGED <<chain, deployed, rows, file, made, lost, meddling>>,
         \/ stops' = stops /\ seed.at \in Saved
         \/ stops' = stops + 1 /\ stops' \in 0..MaxTrouble,
         cut' \in BOOLEAN, cut => cut', InCircle => cut'
  PROVE  SeedInv'
<1>0. /\ DemoTypeOK /\ TokenInv /\ ReadyIsPaid /\ OwnWallets /\ KeysMatch /\ JobsFollow
      /\ Balances
  BY Parts
<1>1. /\ UNCHANGED tokens /\ UNCHANGED <<holds, claimed, gas, deployment, wallet, job>>
      /\ seed' \in Script /\ seed'.at = "off" /\ seed'.i = 1 /\ seed'.store = NoFile
      /\ \A u \in Users : NoFile[u] = NoWallet
  BY <1>0, OffTells DEF chain, tokens, deployed, rows
<1>2. TokenInv'
  BY <1>0, <1>1, TokensRest
<1>3. DemoTypeOK'
  <2>1. {stops', meddling'} \subseteq 0..MaxTrouble
    BY <1>0 DEF DemoTypeOK
  <2>2. gas' = gas
    BY <1>1
  <2> QED
    BY <1>0, <1>1, <1>2, <2>1, <2>2, TypedRest
<1>4. ReadyIsPaid' /\ OwnWallets'
  BY <1>0, <1>1, PaidRest, OwnRest
<1>5. MayDiffer => MayDiffer'
  BY <1>0, SeedTyped DEF MayDiffer
<1>6. KeysMatch'
  <2>1. Provided' = {}
    BY <1>1 DEF Provided
  <2>2. lost # "database" => \A u \in Users : file[u] \in {NoWallet, wallet[u]}
    BY <1>0 DEF KeysMatch
  <2>3. ASSUME NEW u \in Users
        PROVE  MayDiffer' \/ NoWallet \in {wallet[u], file[u]} \/ wallet[u] = file[u]
    <3>1. CASE seed.at \in Saved
      BY <1>0, <1>5, <3>1, KeysSaved
    <3>2. CASE stops' = stops + 1
      <4>1. stops' > 0
        BY <1>0, <3>2, SeedTyped
      <4> QED
        BY <2>2, <4>1 DEF MayDiffer
    <3> QED
      BY <3>1, <3>2
  <2> QED
    BY <1>1, <2>1, <2>2, <2>3 DEF KeysMatch
<1>7. JobsFollow'
  <2>1. Readied' = {}
    BY <1>1 DEF Readied
  <2> QED
    BY <1>1, <2>1 DEF JobsFollow
<1>8. Balances'
  <2>1. ~InCircle'
    BY <1>1 DEF InCircle
  <2>2. CASE InCircle
    BY <2>2 DEF Balances
  <2>3. CASE ~InCircle
    BY <1>0, <1>1, <1>5, <2>1, <2>3, BalancesRest
  <2> QED
    BY <2>2, <2>3
<1> QED
  BY <1>2, <1>3, <1>4, <1>6, <1>7, <1>8, Parts

LEMMA StopInv ==
  ASSUME SeedInv, Stop \/ Exit
  PROVE  SeedInv'
<1>0. DemoTypeOK /\ stops \in Nat /\ meddling \in Nat /\ cut \in BOOLEAN /\ MaxTrouble \in Nat
  BY Parts, SeedTyped, Numbers DEF DemoTypeOK
<1>1. CASE Stop
  <2>1. stops' = stops + 1 /\ stops' \in 0..MaxTrouble
    BY <1>0, <1>1 DEF Stop
  <2>2. cut' \in BOOLEAN /\ (cut => cut') /\ (InCircle => cut')
    BY <1>0, <1>1 DEF Stop, CutShort, InCircle
  <2> QED
    BY <1>1, <2>1, <2>2, EndsInv DEF Stop
<1>2. CASE Exit
  <2>1. /\ seed.at = "done" /\ ~InCircle /\ seed.at \in Saved
        /\ stops' = stops /\ cut' = cut
        /\ UNCHANGED <<chain, deployed, rows, file, made, lost, meddling>>
    BY <1>2 DEF Exit, InCircle, bounds, Saved
  <2> QED
    BY <1>0, <1>2, <2>1, EndsInv DEF Exit
<1> QED
  BY <1>1, <1>2

-----------------------------------------------------------------------------
(* Users and wallets.                                                      *)

LEMMA StartInv ==
  ASSUME SeedInv, Start
  PROVE  SeedInv'
<1>0. /\ DemoTypeOK /\ TokenInv /\ ReadyIsPaid /\ OwnWallets /\ KeysMatch /\ JobsFollow
      /\ Balances
  BY Parts
<1>1. /\ seed.at = "off" /\ UNCHANGED <<chain, deployed, rows, file, made, bounds>>
      /\ UNCHANGED tokens /\ UNCHANGED <<holds, claimed, gas, deployment, wallet, job>>
      /\ UNCHANGED <<lost, cut, stops, meddling>>
  BY DEF Start, chain, tokens, deployed, rows, bounds
<1>2. /\ seed' \in Script /\ seed'.at = "user" /\ seed'.i = 1 /\ seed'.store = file
  <2>1. Off \in Script /\ file \in [Users -> Wallets] /\ synced \in 0..deployment
    BY <1>0, OffTells, SeedTyped DEF DemoTypeOK
  <2> QED
    BY <2>1, OffTells, <1>0 DEF Start, Script, Points
<1>3. TokenInv'
  BY <1>0, <1>1, TokensRest
<1>4. DemoTypeOK'
  BY <1>0, <1>1, <1>2, <1>3, TypedRest DEF DemoTypeOK
<1>5. ReadyIsPaid' /\ OwnWallets'
  BY <1>0, <1>1, <1>2, PaidRest, OwnRest
<1>6. Provided = {} /\ Provided' = {} /\ Readied' = {} /\ ~InCircle /\ ~InCircle'
  BY <1>1, <1>2 DEF Provided, Readied, TurnsBefore, InCircle
<1>7. MayDiffer' = MayDiffer
  BY <1>1 DEF MayDiffer
<1>8. KeysMatch'
  BY <1>0, <1>1, <1>2, <1>6, <1>7 DEF KeysMatch
<1>9. JobsFollow'
  BY <1>2, <1>6 DEF JobsFollow
<1>10. Balances'
  BY <1>0, <1>1, <1>6, <1>7, BalancesRest
<1> QED
  BY <1>3, <1>4, <1>5, <1>8, <1>9, <1>10, Parts

LEMMA UpsertInv ==
  ASSUME SeedInv, UpsertDemoUser
  PROVE  SeedInv'
<1>0. /\ DemoTypeOK /\ TokenInv /\ ReadyIsPaid /\ OwnWallets /\ KeysMatch /\ JobsFollow
      /\ Balances
  BY Parts
<1>1. /\ seed.at = "user" /\ users' = users \cup {User}
      /\ UNCHANGED <<wallet, job, entered, history, file, made>>
      /\ UNCHANGED tokens /\ UNCHANGED <<holds, claimed, gas, deployment, synced>>
      /\ UNCHANGED <<lost, cut, stops, meddling>>
  BY DEF UpsertDemoUser, chain, tokens, deployed, bounds
<1>2. /\ seed' \in Script /\ seed'.at = "wallet" /\ seed'.i = seed.i
      /\ seed'.store = seed.store
  BY <1>0, GotoTells DEF UpsertDemoUser, Points
<1>3. TokenInv'
  BY <1>0, <1>1, TokensRest
<1>4. DemoTypeOK'
  <2>1. users' \subseteq Users
    BY <1>0, <1>1, SeedTyped DEF DemoTypeOK
  <2> QED
    BY <1>0, <1>1, <1>2, <1>3, <2>1, AllTyped DEF DemoTypeOK, Script
<1>5. ReadyIsPaid' /\ OwnWallets'
  BY <1>0, <1>1, <1>2, PaidRest, OwnRest
<1>6. Provided' = Provided /\ Readied' = {} /\ ~InCircle /\ ~InCircle'
  BY <1>1, <1>2 DEF Provided, Readied, TurnsBefore, InCircle
<1>7. MayDiffer' = MayDiffer
  BY <1>1 DEF MayDiffer
<1>8. KeysMatch'
  BY <1>0, <1>1, <1>2, <1>6, <1>7, KeysRest
<1>9. JobsFollow'
  BY <1>2, <1>6 DEF JobsFollow
<1>10. Balances'
  BY <1>0, <1>1, <1>6, <1>7, BalancesRest
<1> QED
  BY <1>3, <1>4, <1>5, <1>8, <1>9, <1>10, Parts

\* A row and a key that are both there match; a wallet that is made is new.
LEMMA WalletInv ==
  ASSUME SeedInv, EnsureWallet
  PROVE  SeedInv'
<1>0. /\ DemoTypeOK /\ TokenInv /\ ReadyIsPaid /\ OwnWallets /\ KeysMatch /\ JobsFollow
      /\ Balances
  BY Parts
<1>1. /\ seed.at = "wallet"
      /\ UNCHANGED <<users, job, entered, history, file>>
      /\ UNCHANGED tokens /\ UNCHANGED <<holds, claimed, gas, deployment, synced>>
      /\ UNCHANGED <<lost, cut, stops, meddling>>
  BY DEF EnsureWallet, chain, tokens, deployed, bounds
<1> DEFINE next == NextUser("user", "save")
           new == made + 1
<1>2. \/ Known /\ seed' = next /\ UNCHANGED <<wallet, made>>
      \/ /\ ~Known /\ new \in Accounts /\ made' = new
         /\ wallet' = [wallet EXCEPT ![User] = new]
         /\ seed' = [next EXCEPT !.store[User] = new]
  BY DEF EnsureWallet
<1>3. /\ next \in Script /\ next.store = seed.store
      /\ \/ next.at = "user" /\ next.i = seed.i + 1 /\ seed.i < N
         \/ next.at = "save" /\ next.i = 1 /\ seed.i = N
  <2>1. "user" \in Points /\ "save" \in Points
    BY DEF Points
  <2> QED
    BY <1>0, <2>1, TurnTells
<1>4. /\ User \in Users /\ made \in Nat /\ made \in Accounts /\ N \in Nat /\ seed.i \in Nat
      /\ wallet \in [Users -> Wallets] /\ seed.store \in [Users -> Wallets]
      /\ file \in [Users -> Wallets]
  BY <1>0, SeedTyped DEF DemoTypeOK
<1> HIDE DEF next, new
<1>5. /\ seed' \in Script /\ made' \in Accounts /\ wallet' \in [Users -> Wallets]
      /\ \/ seed'.at = "user" /\ seed'.i = seed.i + 1 /\ seed.i < N
         \/ seed'.at = "save" /\ seed'.i = 1 /\ seed.i = N
      /\ \A u \in Users \ {User} :
           wallet'[u] = wallet[u] /\ seed'.store[u] = seed.store[u]
      /\ \/ /\ Known /\ made' = made
            /\ wallet'[User] = wallet[User] /\ seed'.store[User] = seed.store[User]
         \/ /\ ~Known /\ made' = new /\ new \in Accounts
            /\ wallet'[User] = new /\ seed'.store[User] = new
  <2>1. CASE Known /\ seed' = next /\ UNCHANGED <<wallet, made>>
    BY <1>3, <1>4, <2>1
  <2>2. CASE /\ ~Known /\ new \in Accounts /\ made' = new
             /\ wallet' = [wallet EXCEPT ![User] = new]
             /\ seed' = [next EXCEPT !.store[User] = new]
    <3>1. new \in Wallets
      BY <2>2 DEF Wallets
    <3>2. wallet' \in [Users -> Wallets] /\ wallet'[User] = new
          /\ \A u \in Users \ {User} : wallet'[u] = wallet[u]
      BY <1>4, <2>2, <3>1
    <3>3. /\ seed' \in Script /\ seed'.at = next.at /\ seed'.i = next.i
          /\ seed'.store = [next.store EXCEPT ![User] = new]
      BY <1>3, <1>4, <2>2, <3>1 DEF Script
    <3>4. /\ seed'.store[User] = new
          /\ \A u \in Users \ {User} : seed'.store[u] = seed.store[u]
      BY <1>3, <1>4, <3>3
    <3> QED
      BY <1>3, <2>2, <3>2, <3>3, <3>4
  <2> QED
    BY <1>2, <2>1, <2>2
<1>6. TokenInv'
  BY <1>0, <1>1, TokensRest
<1>7. DemoTypeOK'
  BY <1>0, <1>1, <1>5, <1>6, AllTyped DEF DemoTypeOK, Script
<1>8. ReadyIsPaid'
  BY <1>0, <1>1, PaidRest
<1>9. OwnWallets'
  <2>1. CASE Known
    BY <1>0, <1>1, <1>5, <2>1, OwnRest
  <2>2. CASE ~Known
    <3>1. /\ made' = made + 1
          /\ wallet'[User] = made + 1 /\ seed'.store[User] = made + 1
      BY <1>5, <2>2, Numbers DEF new
    <3> SUFFICES ASSUME NEW u \in Users, NEW v \in Users,
                        NEW a \in {wallet'[u], file'[u], seed'.store[u]},
                        NEW b \in {wallet'[v], file'[v], seed'.store[v]}
                 PROVE  a = NoWallet \/ (a \in 1..made' /\ (a = b => u = v))
      BY DEF OwnWallets
    <3>2. ASSUME NEW w \in Users, NEW c \in {wallet'[w], file'[w], seed'.store[w]}
          PROVE  \/ c \in {wallet[w], file[w], seed.store[w]}
                 \/ w = User /\ c = made + 1
      BY <1>1, <1>5, <2>2, <3>1
    <3>3. \A w \in Users : \A c \in {wallet[w], file[w], seed.store[w]} :
            c = NoWallet \/ c \in 1..made
      BY <1>0 DEF OwnWallets
    <3>4. made + 1 \in 1..made' /\ made + 1 \notin 1..made /\ 1..made \subseteq 1..made'
      BY <1>4, <3>1
    <3>5. made + 1 # NoWallet
      BY <1>5, <2>2, Numbers DEF new
    <3>6. CASE u = User /\ a = made + 1
      BY <3>2, <3>3, <3>4, <3>5, <3>6
    <3>7. CASE a \in {wallet[u], file[u], seed.store[u]}
      <4>1. CASE v = User /\ b = made + 1
        BY <3>3, <3>4, <3>5, <3>7, <4>1
      <4>2. CASE b \in {wallet[v], file[v], seed.store[v]}
        <5>1. a = NoWallet \/ (a \in 1..made /\ (a = b => u = v))
          BY <1>0, <3>7, <4>2 DEF OwnWallets
        <5> QED
          BY <3>4, <5>1
      <4> QED
        BY <3>2, <4>1, <4>2
    <3> QED
      BY <3>2, <3>6, <3>7
  <2> QED
    BY <2>1, <2>2
<1>10. Provided = TurnsBefore /\ Provided' = TurnsBefore \cup {User} /\ User \notin TurnsBefore
  <2>1. TurnsBefore \cup {User} = IF seed.i = N THEN Users ELSE TurnsBefore'
    BY <1>0, <1>5, TurnEnds
  <2>2. seed.i < N => seed.i # N
    BY <1>4
  <2> QED
    BY <1>0, <1>1, <1>5, <2>1, <2>2, Turns DEF Provided
<1>11. MayDiffer' = MayDiffer
  BY <1>1 DEF MayDiffer
<1>12. KeysMatch'
  <2>1. seed.store[User] = file[User]
    BY <1>0, <1>1, <1>4, <1>10 DEF KeysMatch
  <2>2. NoWallet \notin {wallet'[User], seed'.store[User]}
    BY <1>5, Numbers DEF Known
  <2>3. MayDiffer \/ wallet'[User] = seed'.store[User]
    BY <1>0, <1>4, <1>5, <1>10, <2>1 DEF KeysMatch, Known
  <2>4. ASSUME NEW u \in Provided'
        PROVE  /\ NoWallet \notin {wallet'[u], seed'.store[u]}
               /\ MayDiffer' \/ wallet'[u] = seed'.store[u]
    <3>1. CASE u = User
      BY <1>11, <2>2, <2>3, <3>1
    <3>2. CASE u \in TurnsBefore /\ u # User
      <4>1. u \in Users
        BY <1>0, <3>2, Turns
      <4> QED
        BY <1>0, <1>5, <1>10, <1>11, <3>2, <4>1 DEF KeysMatch
    <3> QED
      BY <1>10, <3>1, <3>2
  <2>5. ASSUME NEW u \in Users \ Provided'
        PROVE  /\ seed'.store[u] = file'[u]
               /\ MayDiffer' \/ NoWallet \in {wallet'[u], file'[u]} \/ wallet'[u] = file'[u]
    <3>1. u \in Users \ Provided /\ u # User
      BY <1>10
    <3> QED
      BY <1>0, <1>1, <1>5, <1>11, <3>1 DEF KeysMatch
  <2>6. ASSUME lost' # "database", NEW u \in Users
        PROVE  file'[u] \in {NoWallet, wallet'[u]}
    <3>1. file[u] \in {NoWallet, wallet[u]}
      BY <1>0, <1>1, <2>6 DEF KeysMatch
    <3> QED
      BY <1>1, <1>5, <2>1, <3>1 DEF Known
  <2> QED
    BY <1>5, <2>4, <2>5, <2>6 DEF KeysMatch
<1>13. Readied' = {} /\ ~InCircle /\ ~InCircle'
  BY <1>1, <1>5 DEF Readied, InCircle
<1>14. JobsFollow'
  BY <1>5, <1>13 DEF JobsFollow
<1>15. Balances'
  BY <1>0, <1>1, <1>11, <1>13, BalancesRest
<1> QED
  BY <1>6, <1>7, <1>8, <1>9, <1>12, <1>14, <1>15, Parts

LEMMA WriteInv ==
  ASSUME SeedInv, WriteWalletFile
  PROVE  SeedInv'
<1>0. /\ DemoTypeOK /\ TokenInv /\ ReadyIsPaid /\ OwnWallets /\ KeysMatch /\ JobsFollow
      /\ Balances
  BY Parts
<1>1. /\ seed.at = "save" /\ file' = seed.store /\ UNCHANGED <<rows, made>>
      /\ UNCHANGED <<wallet, job>>
      /\ UNCHANGED tokens /\ UNCHANGED <<holds, claimed, gas, deployment, synced>>
      /\ UNCHANGED <<lost, cut, stops, meddling>>
  BY DEF WriteWalletFile, chain, tokens, deployed, bounds, rows
<1>2. /\ seed' \in Script /\ seed'.at = "check" /\ seed'.i = seed.i /\ seed.i = 1
      /\ seed'.store = seed.store
  BY <1>0, <1>1, GotoTells DEF WriteWalletFile, Points, JobsFollow
<1>3. TokenInv'
  BY <1>0, <1>1, TokensRest
<1>4. DemoTypeOK'
  <2>1. file' \in [Users -> Wallets]
    BY <1>0, <1>1, SeedTyped
  <2> QED
    BY <1>0, <1>1, <1>2, <1>3, <2>1, AllTyped DEF DemoTypeOK, Script, rows
<1>5. ReadyIsPaid' /\ OwnWallets'
  BY <1>0, <1>1, <1>2, PaidRest, OwnRest
<1>6. /\ Provided = Users /\ Provided' = Users /\ Readied' = {}
      /\ ~InCircle /\ ~InCircle'
  BY <1>0, <1>1, <1>2, Turns DEF Provided, Readied, InCircle
<1>7. MayDiffer' = MayDiffer /\ (MayDiffer => lost = "database")
  BY <1>1 DEF MayDiffer
<1>8. KeysMatch'
  BY <1>0, <1>1, <1>2, <1>6, <1>7 DEF KeysMatch
<1>9. JobsFollow'
  BY <1>2, <1>6 DEF JobsFollow
<1>10. Balances'
  BY <1>0, <1>1, <1>6, <1>7, BalancesRest
<1> QED
  BY <1>3, <1>4, <1>5, <1>8, <1>9, <1>10, Parts

-----------------------------------------------------------------------------
(* Funding.                                                                *)

LEMMA FundingFrame ==
  ASSUME SeedInv, seed.at \in Saved, seed'.at \in Saved, seed' \in Script,
         seed'.store = seed.store,
         UNCHANGED <<users, wallet, file, made, deployment, synced>>,
         UNCHANGED <<lost, cut, stops, meddling>>,
         TokenInv', gas' \subseteq Accounts, entered' \subseteq Accounts,
         history' \subseteq 1..N,
         job' \in [Users -> [wallet : Wallets, epoch : 0..deployment]]
  PROVE  /\ DemoTypeOK' /\ OwnWallets' /\ KeysMatch' /\ MayDiffer' = MayDiffer
         /\ UNCHANGED <<holds, claimed>> /\ ~InCircle /\ ~InCircle' => Balances'
<1>0. DemoTypeOK /\ OwnWallets /\ KeysMatch /\ Balances
  BY Parts
<1>1. DemoTypeOK'
  BY <1>0, AllTyped DEF DemoTypeOK, Script
<1>2. MayDiffer' = MayDiffer
  BY DEF MayDiffer
<1>3. OwnWallets' /\ KeysMatch'
  BY <1>0, SavedRest
<1>4. UNCHANGED <<holds, claimed>> /\ ~InCircle /\ ~InCircle' => Balances'
  BY <1>0, <1>2, BalancesRest
<1> QED
  BY <1>1, <1>2, <1>3, <1>4

LEMMA WalletTells ==
  ASSUME SeedInv, seed.at \in Saved
  PROVE  Wallet \in Accounts /\ User \in Users
BY Parts, KeysSaved, SeedTyped DEF Wallet

\* The points of a user's turn with its funding.
Funding == {"check", "gas", "claim", "enter", "mark"}

\* From one point of a turn to the next.
LEMMA InTurnInv ==
  ASSUME SeedInv, NEW p \in Funding, seed.at \in Funding, Goto(p),
         UNCHANGED <<users, wallet, job, history, file, made, deployment, synced>>,
         UNCHANGED <<lost, cut, stops, meddling>>,
         TokenInv', claimed \subseteq claimed', gas' \subseteq Accounts,
         entered' \subseteq Accounts,
         p \in {"enter", "mark"} /\ seed.epoch = deployment => Wallet \in claimed',
         UNCHANGED <<holds, claimed>> \/ Balances'
  PROVE  SeedInv'
<1>0. DemoTypeOK /\ ReadyIsPaid /\ JobsFollow
  BY Parts
<1>1. /\ seed' \in Script /\ seed'.at = p /\ seed'.i = seed.i
      /\ seed'.store = seed.store /\ seed'.epoch = seed.epoch
      /\ seed.at \in Saved /\ p \in Saved
  <2>1. p \in Points
    BY DEF Points, Funding
  <2> QED
    BY <1>0, <2>1, GotoTells DEF Funding, Saved
<1>2. ~InCircle /\ ~InCircle'
  BY <1>1 DEF InCircle, Funding
<1>3. DemoTypeOK' /\ OwnWallets' /\ KeysMatch' /\ Balances'
  <2>1. /\ job' \in [Users -> [wallet : Wallets, epoch : 0..deployment]]
        /\ history' \subseteq 1..N
    BY <1>0 DEF DemoTypeOK
  <2> QED
    BY <1>1, <1>2, <2>1, FundingFrame
<1>4. ReadyIsPaid'
  BY <1>0, PaidRest
<1>5. JobsFollow'
  <2>1. Readied = TurnsBefore /\ Readied' = TurnsBefore
    BY <1>1 DEF Readied, TurnsBefore, Funding
  <2>2. Wallet' = Wallet
    BY <1>1 DEF Wallet, User
  <2> QED
    BY <1>0, <1>1, <2>1, <2>2 DEF JobsFollow, Funding
<1> QED
  BY <1>3, <1>4, <1>5, Parts

LEMMA CheckGasInv ==
  ASSUME SeedInv, CheckClaimed \/ SendGas
  PROVE  SeedInv'
<1>0. DemoTypeOK /\ TokenInv
  BY Parts
<1>1. /\ seed.at \in {"check", "gas"} /\ seed.at \in Saved /\ seed.at \in Funding
      /\ UNCHANGED <<users, wallet, job, entered, history, file, made, deployment, synced>>
      /\ UNCHANGED <<lost, cut, stops, meddling>>
      /\ UNCHANGED tokens /\ UNCHANGED <<holds, claimed>>
  BY DEF CheckClaimed, SendGas, Saved, Funding, chain, tokens, deployed, rows, bounds
<1>2. TokenInv'
  BY <1>0, <1>1, TokensRest
<1>3. entered' \subseteq Accounts /\ gas \subseteq Accounts /\ Wallet \in Accounts
  BY <1>0, <1>1, WalletTells DEF DemoTypeOK
<1>4. CASE CheckClaimed
  <2>1. PICK p \in {"mark", "gas"} : Goto(p) /\ (p = "mark" => Wallet \in claimed)
    BY <1>4 DEF CheckClaimed
  <2>2. p \in Funding /\ gas' = gas
    BY <1>4 DEF CheckClaimed, chain, Funding
  <2> QED
    BY <1>1, <1>2, <1>3, <2>1, <2>2, InTurnInv
<1>5. CASE SendGas
  <2>1. Goto("claim") /\ "claim" \in Funding /\ gas' \subseteq Accounts
    BY <1>3, <1>5 DEF SendGas, Funding
  <2> QED
    BY <1>1, <1>2, <1>3, <2>1, InTurnInv
<1> QED
  BY <1>4, <1>5

LEMMA ClaimStepInv ==
  ASSUME SeedInv, ClaimTokens
  PROVE  SeedInv'
<1>0. DemoTypeOK /\ TokenInv /\ Balances
  BY Parts
<1>1. /\ seed.at = "claim" /\ seed.at \in Saved /\ seed.at \in Funding /\ gas' = gas
      /\ UNCHANGED <<deployed, rows, file, made, bounds>>
      /\ UNCHANGED <<users, wallet, job, entered, history, file, made, deployment, synced>>
      /\ UNCHANGED <<lost, cut, stops, meddling>>
  BY DEF ClaimTokens, Saved, Funding, deployed, rows, bounds
<1>2. Wallet \in Accounts /\ User \in Users
  BY <1>1, WalletTells
<1>3. CASE Throws /\ UNCHANGED tokens
  <2>1. ~InCircle /\ cut \in BOOLEAN /\ UNCHANGED chain
    BY <1>0, <1>1, <1>3 DEF InCircle, DemoTypeOK, chain
  <2> QED
    BY <1>1, <1>3, <2>1, EndsInv DEF Throws
<1>4. CASE Claim(Deployer, Wallet, ComputeRequestId(Wallet), ClaimAmount) /\ Goto("enter")
  <2>1. TokenInv'
    BY <1>0, <1>2, <1>4, ClaimInv
  <2>2. /\ Wallet \notin claimed /\ claimed' = claimed \cup {Wallet}
        /\ holds' = [holds EXCEPT ![Wallet] = @ + ClaimAmount]
    BY <1>4 DEF Claim, Claimable, Credit
  <2>3. seed'.at = "enter"
    BY <1>0, <1>4, GotoTells DEF Points
  <2>4. Balances'
    <3>1. MayDiffer' = MayDiffer /\ ~InCircle /\ ~InCircle'
      BY <1>1, <2>3 DEF MayDiffer, InCircle
    <3>2. Balanced => Balanced'
      <4>1. holds \in [Accounts -> Nat] /\ ClaimAmount \in Nat
        BY <1>0, TokenTyped DEF TokenInv
      <4> QED
        BY <1>2, <2>2, <4>1 DEF Balanced, Granted
    <3> QED
      BY <1>0, <1>1, <3>1, <3>2 DEF Balances
  <2>5. gas' \subseteq Accounts /\ entered' \subseteq Accounts /\ "enter" \in Funding
    BY <1>0, <1>1 DEF DemoTypeOK, Funding
  <2> QED
    BY <1>1, <1>4, <2>1, <2>2, <2>4, <2>5, InTurnInv
<1> QED
  BY <1>3, <1>4 DEF ClaimTokens

LEMMA EnterInv ==
  ASSUME SeedInv, EnterFunding
  PROVE  SeedInv'
<1>0. DemoTypeOK /\ TokenInv /\ JobsFollow
  BY Parts
<1>1. /\ seed.at = "enter" /\ seed.at \in Saved /\ seed.at \in Funding
      /\ UNCHANGED <<users, wallet, job, history, file, made, deployment, synced>>
      /\ UNCHANGED <<lost, cut, stops, meddling>>
      /\ UNCHANGED chain /\ UNCHANGED deployed
      /\ UNCHANGED tokens /\ UNCHANGED <<holds, claimed, gas>>
  BY DEF EnterFunding, Saved, Funding, chain, tokens, deployed, bounds
<1>2. TokenInv' /\ Wallet \in Accounts
  BY <1>0, <1>1, TokensRest, WalletTells
<1>3. CASE Throws /\ UNCHANGED entered
  <2>1. ~InCircle /\ cut \in BOOLEAN /\ UNCHANGED rows
    BY <1>0, <1>1, <1>3 DEF InCircle, DemoTypeOK, rows
  <2> QED
    BY <1>1, <1>3, <2>1, EndsInv DEF Throws
<1>4. CASE entered' = entered \cup {Wallet} /\ Goto("mark")
  <2>1. entered' \subseteq Accounts /\ gas' \subseteq Accounts /\ "mark" \in Funding
    BY <1>0, <1>1, <1>2, <1>4 DEF DemoTypeOK, Funding
  <2>2. seed.epoch = deployment => Wallet \in claimed
    BY <1>0, <1>1 DEF JobsFollow
  <2> QED
    BY <1>1, <1>2, <1>4, <2>1, <2>2, InTurnInv
<1> QED
  BY <1>3, <1>4 DEF EnterFunding

LEMMA MarkInv ==
  ASSUME SeedInv, MarkFundingJobReady
  PROVE  SeedInv'
<1>0. DemoTypeOK /\ TokenInv /\ ReadyIsPaid /\ JobsFollow
  BY Parts
<1> DEFINE ready == [wallet |-> Wallet, epoch |-> seed.epoch]
<1>1. /\ seed.at = "mark" /\ seed.at \in Saved
      /\ UNCHANGED <<users, wallet, entered, history, file, made, deployment, synced>>
      /\ UNCHANGED <<lost, cut, stops, meddling>>
      /\ UNCHANGED tokens /\ UNCHANGED <<holds, claimed, gas>>
      /\ job' = [job EXCEPT ![User] = ready]
  BY DEF MarkFundingJobReady, Saved, chain, tokens, deployed, bounds
<1>2. /\ seed' \in Script /\ seed'.store = seed.store /\ seed'.epoch = seed.epoch
      /\ \/ seed'.at = "check" /\ seed'.i = seed.i + 1 /\ seed.i < N
         \/ seed'.at = "exist" /\ seed'.i = 1 /\ seed.i = N
  <2>1. "check" \in Points /\ "exist" \in Points
    BY DEF Points
  <2> QED
    BY <1>0, <2>1, TurnTells DEF MarkFundingJobReady
<1>3. TokenInv' /\ Wallet \in Accounts /\ User \in Users /\ seed.epoch \in 0..deployment
      /\ seed.i \in Nat /\ N \in Nat
  BY <1>0, <1>1, TokensRest, WalletTells, SeedTyped
<1>4. ready \in [wallet : Wallets, epoch : 0..deployment]
  BY <1>3 DEF Wallets
<1>5. /\ job' \in [Users -> [wallet : Wallets, epoch : 0..deployment]]
      /\ job'[User] = [wallet |-> wallet[User], epoch |-> seed.epoch]
      /\ \A u \in Users \ {User} : job'[u] = job[u]
  <2>1. job \in [Users -> [wallet : Wallets, epoch : 0..deployment]]
    BY <1>0 DEF DemoTypeOK
  <2>2. job'[User] = ready /\ \A u \in Users \ {User} : job'[u] = job[u]
    BY <1>1, <1>3, <2>1
  <2>3. ready = [wallet |-> wallet[User], epoch |-> seed.epoch]
    BY DEF Wallet
  <2> HIDE DEF ready
  <2> QED
    BY <1>1, <1>4, <2>1, <2>2, <2>3
<1>6. DemoTypeOK' /\ OwnWallets' /\ KeysMatch' /\ Balances'
  <2>1. ~InCircle /\ ~InCircle' /\ seed'.at \in Saved
    BY <1>1, <1>2 DEF InCircle, Saved
  <2>2. gas' \subseteq Accounts /\ entered' \subseteq Accounts /\ history' \subseteq 1..N
    BY <1>0, <1>1 DEF DemoTypeOK
  <2> QED
    BY <1>1, <1>2, <1>3, <1>5, <2>1, <2>2, FundingFrame
<1>7. ReadyIsPaid'
  <2>1. seed.epoch = deployment => wallet[User] \in claimed
    BY <1>0, <1>1 DEF JobsFollow, Wallet
  <2> QED
    BY <1>0, <1>1, <1>5, <2>1 DEF ReadyIsPaid
<1>8. JobsFollow'
  <2>1. TurnsBefore \cup {User} = IF seed.i = N THEN Users ELSE TurnsBefore'
    BY <1>0, <1>2, TurnEnds
  <2>2. Readied' = TurnsBefore \cup {User} /\ Readied = TurnsBefore /\ TurnsBefore \subseteq Users
    BY <1>0, <1>1, <1>2, <1>3, <2>1, Turns DEF Readied
  <2>3. ASSUME NEW u \in Readied'
        PROVE  job'[u] = [wallet |-> wallet'[u], epoch |-> seed'.epoch]
    <3>1. CASE u = User
      BY <1>1, <1>2, <1>5, <3>1
    <3>2. CASE u \in TurnsBefore /\ u # User
      BY <1>0, <1>1, <1>2, <1>5, <2>2, <3>2 DEF JobsFollow
    <3> QED
      BY <2>2, <3>1, <3>2
  <2> QED
    BY <1>2, <2>3 DEF JobsFollow
<1> QED
  BY <1>3, <1>6, <1>7, <1>8, Parts

LEMMA CheckTransfersInv ==
  ASSUME SeedInv, CheckTransfers
  PROVE  SeedInv'
<1>0. DemoTypeOK /\ TokenInv /\ ReadyIsPaid /\ JobsFollow
  BY Parts
<1>1. /\ seed.at = "exist" /\ seed.at \in Saved
      /\ UNCHANGED <<users, wallet, job, entered, history, file, made, deployment, synced>>
      /\ UNCHANGED <<lost, cut, stops, meddling>>
      /\ UNCHANGED tokens /\ UNCHANGED <<holds, claimed, gas>>
  BY DEF CheckTransfers, Saved, chain, tokens, deployed, rows, bounds
<1>2. /\ seed' \in Script /\ seed'.at \in {"done", "send"} /\ seed'.i = seed.i /\ seed.i = 1
      /\ seed'.store = seed.store /\ seed'.epoch = seed.epoch /\ seed'.at \in Saved
  <2>1. PICK p \in {"done", "send"} : Goto(p)
    BY DEF CheckTransfers
  <2>2. p \in Points /\ p \in Saved
    BY DEF Points, Saved
  <2> QED
    BY <1>0, <1>1, <2>1, <2>2, GotoTells DEF JobsFollow
<1>3. TokenInv'
  BY <1>0, <1>1, TokensRest
<1>4. DemoTypeOK' /\ OwnWallets' /\ KeysMatch' /\ Balances'
  <2>1. ~InCircle /\ ~InCircle'
    BY <1>1, <1>2 DEF InCircle
  <2>2. /\ gas' \subseteq Accounts /\ entered' \subseteq Accounts /\ history' \subseteq 1..N
        /\ job' \in [Users -> [wallet : Wallets, epoch : 0..deployment]]
    BY <1>0, <1>1 DEF DemoTypeOK
  <2> QED
    BY <1>1, <1>2, <1>3, <2>1, <2>2, FundingFrame
<1>5. ReadyIsPaid'
  BY <1>0, <1>1, PaidRest
<1>6. JobsFollow'
  <2>1. Readied = Users /\ Readied' = Users
    BY <1>1, <1>2 DEF Readied
  <2> QED
    BY <1>0, <1>1, <1>2, <2>1 DEF JobsFollow
<1> QED
  BY <1>3, <1>4, <1>5, <1>6, Parts

-----------------------------------------------------------------------------
(* The circle.                                                             *)

\* Who is paid next sends next, and the last receiver is the first sender; no
\* one sends to themselves.
LEMMA Circle ==
  ASSUME SeedInv, seed.at \in Saved
  PROVE  /\ \A k \in 1..N : From(k) \in Accounts /\ To(k) \in Accounts /\ From(k) # To(k)
         /\ From(1) \in Accounts
         /\ ~MayDiffer => To(N) = From(1)
         /\ ~MayDiffer => \A k \in 2..N : To(k - 1) = From(k)
<1>0. DemoTypeOK /\ OwnWallets /\ KeysMatch
  BY Parts
<1>1. /\ N \in Nat /\ N > 1 /\ \A j \in 1..N : DemoUsers[j] \in Users
      /\ \A i, j \in 1..N : DemoUsers[i] = DemoUsers[j] => i = j
  BY Order
<1>2. \A u \in Users : /\ wallet[u] \in Accounts /\ seed.store[u] \in Accounts
                       /\ MayDiffer \/ wallet[u] = seed.store[u]
  BY <1>0, KeysSaved
<1>3. ASSUME NEW k \in 1..N
      PROVE  /\ (k % N) + 1 \in 1..N /\ ((k + 1) % N) + 1 \in 1..N
             /\ (k % N) + 1 # ((k + 1) % N) + 1
  BY <1>1
<1>4. 1 % N = 1 /\ (N + 1) % N = 1
  BY <1>1
<1>5. ASSUME NEW k \in 1..N
      PROVE  From(k) \in Accounts /\ To(k) \in Accounts /\ From(k) # To(k)
  <2> DEFINE u == DemoUsers[(k % N) + 1]
             v == DemoUsers[((k + 1) % N) + 1]
  <2>1. u \in Users /\ v \in Users /\ u # v
    BY <1>1, <1>3
  <2>2. From(k) = seed.store[u] /\ To(k) = wallet[v]
    BY DEF From, To
  <2> HIDE DEF u, v
  <2>3. seed.store[u] # NoWallet
    BY <1>2, <2>1, Numbers
  <2> QED
    BY <1>0, <1>2, <2>1, <2>2, <2>3 DEF OwnWallets
<1>6. ~MayDiffer => To(N) = From(1)
  <2>1. From(1) = seed.store[DemoUsers[2]] /\ To(N) = wallet[DemoUsers[2]]
    BY <1>4 DEF From, To
  <2> QED
    BY <1>1, <1>2, <2>1
<1>7. ASSUME ~MayDiffer, NEW k \in 2..N
      PROVE  To(k - 1) = From(k)
  <2>1. k \in 1..N /\ (k - 1) + 1 = k
    BY <1>1
  <2>2. To(k - 1) = wallet[DemoUsers[(k % N) + 1]]
    BY <2>1 DEF To
  <2>3. DemoUsers[(k % N) + 1] \in Users
    BY <1>1, <1>3, <2>1
  <2> QED
    BY <1>2, <1>7, <2>2, <2>3 DEF From
<1>8. 1 \in 1..N
  BY <1>1
<1> QED
  BY <1>5, <1>6, <1>7, <1>8

LEMMA SendTransferInv ==
  ASSUME SeedInv, SendTransfer
  PROVE  SeedInv'
<1>0. DemoTypeOK /\ TokenInv /\ ReadyIsPaid /\ JobsFollow /\ Balances
  BY Parts
<1>1. /\ seed.at = "send" /\ seed.at \in Saved /\ seed.i \in 1..N /\ seed.i \in Nat
      /\ UNCHANGED <<gas, deployed, rows, file, made, lost, stops, meddling>>
      /\ UNCHANGED <<users, wallet, job, entered, history, deployment, synced>>
  BY <1>0, SeedTyped DEF SendTransfer, Saved, deployed, rows
<1>2. CASE Throws /\ CutShort /\ UNCHANGED tokens
  <2>1. cut' \in BOOLEAN /\ (cut => cut') /\ (InCircle => cut') /\ UNCHANGED chain
    BY <1>0, <1>1, <1>2 DEF CutShort, InCircle, DemoTypeOK, chain
  <2> QED
    BY <1>1, <1>2, <2>1, EndsInv DEF Throws
<1>3. CASE /\ From(seed.i) \in gas /\ Transfer(From(seed.i), To(seed.i), TransferAmount)
           /\ Goto("record") /\ UNCHANGED cut
  <2>1. /\ seed' \in Script /\ seed'.at = "record" /\ seed'.i = seed.i
        /\ seed'.store = seed.store /\ seed'.epoch = seed.epoch /\ seed'.at \in Saved
    BY <1>0, <1>3, GotoTells DEF Points, Saved
  <2>2. From(seed.i) \in Accounts /\ To(seed.i) \in Accounts
    BY <1>1, Circle
  <2>3. TokenInv'
    BY <1>0, <1>3, <2>2, Numbers, TransferInv
  <2>4. DemoTypeOK' /\ OwnWallets' /\ KeysMatch' /\ MayDiffer' = MayDiffer
    <3>1. /\ gas' \subseteq Accounts /\ entered' \subseteq Accounts /\ history' \subseteq 1..N
          /\ job' \in [Users -> [wallet : Wallets, epoch : 0..deployment]]
      BY <1>0, <1>1 DEF DemoTypeOK
    <3> QED
      BY <1>1, <1>3, <2>1, <2>3, <3>1, FundingFrame
  <2>5. /\ UNCHANGED claimed
        /\ holds' = [a \in Accounts |->
                       holds[a] + (IF a = To(seed.i) THEN TransferAmount ELSE 0)
                                - (IF a = From(seed.i) THEN TransferAmount ELSE 0)]
    BY <1>3 DEF Transfer
  <2>6. ReadyIsPaid'
    BY <1>0, <1>1, <2>5, PaidRest
  <2>7. JobsFollow'
    <3>1. Readied = Users /\ Readied' = Users
      BY <1>1, <2>1 DEF Readied
    <3> QED
      BY <1>0, <1>1, <2>1, <3>1 DEF JobsFollow
  <2>8. Balances'
    <3> SUFFICES ASSUME ~cut, ~MayDiffer, meddling = 0
                 PROVE  OnItsWay'
      BY <1>1, <1>3, <2>1, <2>4 DEF Balances, InCircle
    <3>1. OnItsWay' <=> \A a \in Accounts :
            holds'[a] = Granted(a) + (IF a = To(seed.i) THEN TransferAmount ELSE 0)
                                   - (IF a = From(1) THEN TransferAmount ELSE 0)
      BY <1>1, <2>1, <2>5 DEF OnItsWay, Granted, Sent, To, From
    <3>2. CASE seed.i = 1
      <4>1. Balanced
        BY <1>0, <1>1, <3>2 DEF Balances, InCircle
      <4> QED
        BY <2>5, <3>1, <3>2, <4>1 DEF Balanced
    <3>3. CASE seed.i > 1
      <4>1. OnItsWay /\ Sent = seed.i - 1
        BY <1>0, <1>1, <1>3, <3>3 DEF Balances, InCircle, Sent
      <4>2. To(seed.i - 1) = From(seed.i)
        BY <1>1, <3>3, Circle
      <4>3. \A a \in Accounts :
              holds[a] = Granted(a) + (IF a = From(seed.i) THEN TransferAmount ELSE 0)
                                    - (IF a = From(1) THEN TransferAmount ELSE 0)
        BY <4>1, <4>2 DEF OnItsWay
      <4>4. TransferAmount \in Nat /\ \A a \in Accounts : Granted(a) \in Nat
        BY Numbers DEF Granted
      <4> QED
        BY <2>5, <3>1, <4>3, <4>4
    <3> QED
      BY <1>1, <3>2, <3>3
  <2> QED
    BY <2>3, <2>4, <2>6, <2>7, <2>8, Parts
<1> QED
  BY <1>2, <1>3 DEF SendTransfer

LEMMA RecordTransferInv ==
  ASSUME SeedInv, RecordTransfer
  PROVE  SeedInv'
<1>0. DemoTypeOK /\ TokenInv /\ ReadyIsPaid /\ JobsFollow /\ Balances
  BY Parts
<1>1. /\ seed.at = "record" /\ seed.at \in Saved /\ seed.i \in 1..N /\ seed.i \in Nat
      /\ N \in Nat /\ history' = history \cup {seed.i}
      /\ UNCHANGED <<users, wallet, job, entered, file, made, deployment, synced>>
      /\ UNCHANGED <<lost, cut, stops, meddling>>
      /\ UNCHANGED tokens /\ UNCHANGED <<holds, claimed, gas>>
  BY <1>0, SeedTyped DEF RecordTransfer, Saved, chain, tokens, deployed, bounds
<1>2. /\ seed' \in Script /\ seed'.store = seed.store /\ seed'.epoch = seed.epoch
      /\ \/ seed'.at = "send" /\ seed'.i = seed.i + 1 /\ seed.i < N
         \/ seed'.at = "done" /\ seed'.i = 1 /\ seed.i = N
  <2>1. "send" \in Points /\ "done" \in Points
    BY DEF Points
  <2> QED
    BY <1>0, <2>1, TurnTells DEF RecordTransfer
<1>3. TokenInv' /\ seed'.at \in Saved
  BY <1>0, <1>1, <1>2, TokensRest DEF Saved
<1>4. DemoTypeOK' /\ OwnWallets' /\ KeysMatch' /\ MayDiffer' = MayDiffer
  <2>1. /\ gas' \subseteq Accounts /\ entered' \subseteq Accounts /\ history' \subseteq 1..N
        /\ job' \in [Users -> [wallet : Wallets, epoch : 0..deployment]]
    BY <1>0, <1>1 DEF DemoTypeOK
  <2> QED
    BY <1>1, <1>2, <1>3, <2>1, FundingFrame
<1>5. ReadyIsPaid'
  BY <1>0, <1>1, PaidRest
<1>6. JobsFollow'
  <2>1. Readied = Users /\ Readied' = Users
    BY <1>1, <1>2 DEF Readied
  <2> QED
    BY <1>0, <1>1, <1>2, <2>1 DEF JobsFollow
<1>7. Balances'
  <2> SUFFICES ASSUME ~cut, ~MayDiffer, meddling = 0
               PROVE  IF InCircle' THEN OnItsWay' \/ (gas' = {} /\ Balanced') ELSE Balanced'
    BY <1>1, <1>4 DEF Balances
  <2>1. InCircle /\ Sent = seed.i /\ (OnItsWay \/ (gas = {} /\ Balanced))
    BY <1>0, <1>1 DEF Balances, InCircle, Sent
  <2>2. Balanced' <=> Balanced
    BY <1>1 DEF Balanced, Granted
  <2>3. CASE seed'.at = "send" /\ seed'.i = seed.i + 1
    <3>1. InCircle' /\ Sent' = seed.i
      BY <1>1, <2>3 DEF InCircle, Sent
    <3>2. OnItsWay' <=> OnItsWay
      BY <1>1, <1>2, <2>1, <3>1 DEF OnItsWay, Granted, To, From
    <3> QED
      BY <1>1, <2>1, <2>2, <3>1, <3>2
  <2>4. CASE seed'.at = "done" /\ seed.i = N
    <3>1. ~InCircle'
      BY <2>4 DEF InCircle
    <3>2. OnItsWay => Balanced
      <4>1. To(Sent) = From(1)
        BY <1>1, <2>1, <2>4, Circle
      <4>2. TransferAmount \in Nat /\ \A a \in Accounts : Granted(a) \in Nat
        BY Numbers DEF Granted
      <4> QED
        BY <4>1, <4>2 DEF OnItsWay, Balanced
    <3> QED
      BY <2>1, <2>2, <3>1, <3>2
  <2> QED
    BY <1>2, <2>3, <2>4
<1> QED
  BY <1>3, <1>4, <1>5, <1>6, <1>7, Parts

-----------------------------------------------------------------------------
(* The theorems.                                                           *)

LEMMA InitInv == Init => SeedInv
<1> SUFFICES ASSUME Init PROVE SeedInv
  OBVIOUS
<1>1. /\ Deployed /\ gas = {} /\ deployment = 1 /\ synced = 0
      /\ users = {} /\ wallet = NoFile /\ job = [u \in Users |-> NoJob]
      /\ entered = {} /\ history = {} /\ file = NoFile /\ seed = Off /\ made = 0
      /\ lost = "nothing" /\ cut = FALSE /\ stops = 0 /\ meddling = 0
  BY DEF Init
<1>2. NoFile \in [Users -> Wallets] /\ \A u \in Users : NoFile[u] = NoWallet
  BY DEF NoFile, Wallets
<1>3. /\ seed.at = "off" /\ seed.i = 1 /\ seed.store = NoFile /\ seed.epoch = 0
      /\ seed \in [at : Points, i : 1..N, store : [Users -> Wallets], epoch : 0..deployment]
  BY <1>1, <1>2, Order DEF Off, Points
<1>4. TokenInv
  BY <1>1, DeployedInv
<1>5. DemoTypeOK
  <2>1. NoJob \in [wallet : Wallets, epoch : 0..deployment]
    BY <1>1 DEF NoJob, Wallets
  <2>2. /\ 1 \in 1..MaxDeployments /\ 0 \in 0..MaxTrouble /\ 0 \in 0..1 /\ 0 \in Accounts
        /\ [u \in Users |-> NoJob] \in [Users -> [wallet : Wallets, epoch : 0..deployment]]
    BY <2>1, SeedBounds, Numbers
  <2>3. TokenTypeOK
    BY <1>4 DEF TokenInv
  <2> QED
    BY <1>1, <1>2, <1>3, <2>2, <2>3 DEF DemoTypeOK
<1>6. ReadyIsPaid
  BY <1>1 DEF ReadyIsPaid, NoJob
<1>7. OwnWallets
  BY <1>1, <1>2, <1>3 DEF OwnWallets
<1>8. Provided = {} /\ Readied = {} /\ ~InCircle
  BY <1>3 DEF Provided, Readied, InCircle
<1>9. KeysMatch
  BY <1>1, <1>2, <1>3, <1>8 DEF KeysMatch
<1>10. JobsFollow
  BY <1>3, <1>8 DEF JobsFollow
<1>11. Balances
  BY <1>1, <1>8 DEF Balances, Balanced, Granted, Deployed
<1> QED
  BY <1>4, <1>5, <1>6, <1>7, <1>9, <1>10, <1>11 DEF SeedInv, DemoInv, TokenInv

LEMMA StepInv == SeedInv /\ [Next]_vars => SeedInv'
<1> SUFFICES ASSUME SeedInv, [Next]_vars PROVE SeedInv'
  OBVIOUS
<1>1. CASE UNCHANGED vars
  <2>1. /\ UNCHANGED tokens /\ UNCHANGED <<owner, holds, supply, claimed, used, byHand>>
        /\ UNCHANGED <<gas, deployment, synced, users, wallet, job, entered, history>>
        /\ UNCHANGED <<file, seed, made, lost, cut, stops, meddling>>
    BY <1>1 DEF vars, chain, tokens, deployed, rows, bounds
  <2>2. TokenInv'
    BY <2>1, Parts, TokensRest
  <2>3. DemoTypeOK' /\ ReadyIsPaid' /\ OwnWallets'
    BY <2>1, <2>2, Parts DEF DemoTypeOK, TokenInv, ReadyIsPaid, OwnWallets
  <2>4. KeysMatch' /\ JobsFollow'
    BY <2>1, Parts DEF KeysMatch, JobsFollow, Provided, Readied, TurnsBefore, MayDiffer,
                       Wallet, User
  <2>5. Balances'
    BY <2>1, Parts DEF Balances, InCircle, OnItsWay, Balanced, Granted, Sent, To, From,
                       MayDiffer
  <2> QED
    BY <2>2, <2>3, <2>4, <2>5, Parts
<1>2. CASE Goes
  BY <1>2, UpsertInv, WalletInv, WriteInv, CheckGasInv, ClaimStepInv, EnterInv, MarkInv,
     CheckTransfersInv, SendTransferInv, RecordTransferInv, StopInv DEF Goes
<1> QED
  BY <1>1, <1>2, ChainInv, RedeployInv, StartInv, StopInv, LossInv DEF Next

LEMMA SeedSafe == Spec => []SeedInv
<1>1. Init => SeedInv
  BY InitInv
<1>2. SeedInv /\ [Next]_vars => SeedInv'
  BY StepInv
<1> QED
  BY <1>1, <1>2, PTL DEF Spec

\* DemoInv: over deployments, losses, stops and reruns of prepare-demo-data.js, rows,
\* keys and jobs stay matched as the script relies on, each wallet is one user's,
\* and a job that is ready on this deployment has its wallet paid there.
THEOREM DemoSafe == Spec => []DemoInv
<1>1. SeedInv => DemoInv
  BY DEF SeedInv
<1> QED
  BY <1>1, SeedSafe, PTL

\* SupplyAccounted: the tokens of Token.sol are those that GuardedFaucet.sol granted,
\* one amount to each wallet that claimed, and those an owner minted by hand; and
\* the accounts hold that sum.
THEOREM SupplyIsAccounted == Spec => []SupplyAccounted
<1>1. SeedInv => SupplyAccounted
  BY DEF SeedInv
<1> QED
  BY <1>1, SeedSafe, PTL

\* DoneIsConsistent: a script that ends well leaves each user one wallet: the row's,
\* the file's and the job's.
THEOREM DoneLeavesOneWallet == Spec => []DoneIsConsistent
<1>1. SeedInv => DoneIsConsistent
  <2> SUFFICES ASSUME SeedInv, seed.at = "done", NEW u \in Users
               PROVE  /\ wallet[u] = file[u] \/ MayDiffer
                      /\ job[u] = [wallet |-> wallet[u], epoch |-> seed.epoch]
    BY DEF DoneIsConsistent
  <2>1. seed.at \in Saved /\ Readied = Users
    BY DEF Saved, Readied
  <2> QED
    BY <2>1, Parts, KeysSaved DEF JobsFollow
<1> QED
  BY <1>1, SeedSafe, PTL

\* BaselineKept: "Re-running the seed therefore does not move tokens again": however
\* often it was run, a wallet holds what it was granted, unless a circle was cut.
THEOREM RerunsKeepBaseline == Spec => []BaselineKept
<1>1. SeedInv => BaselineKept
  <2> SUFFICES ASSUME SeedInv, seed.at = "done", seed.epoch = deployment,
                      ~cut, ~MayDiffer, meddling = 0, NEW u \in Users
               PROVE  holds[wallet[u]] = ClaimAmount
    BY DEF BaselineKept
  <2>1. seed.at \in Saved /\ Readied = Users /\ ~InCircle
    BY DEF Saved, Readied, InCircle
  <2>2. wallet[u] \in Accounts
    BY <2>1, Parts, KeysSaved
  <2>3. job[u] = [wallet |-> wallet[u], epoch |-> deployment]
    BY <2>1, Parts DEF JobsFollow
  <2>4. wallet[u] \in claimed
    BY <2>3, Parts DEF ReadyIsPaid
  <2>5. Balanced
    BY <2>1, Parts DEF Balances
  <2> QED
    BY <2>2, <2>4, <2>5 DEF Balanced, Granted
<1> QED
  BY <1>1, SeedSafe, PTL

\* What a step of the demo does to the token.
LEMMA TokenSteps ==
  ASSUME SeedInv, Next
  PROVE  \/ UNCHANGED <<owner, holds, claimed>>
         \/ owner' \in {Deployer, Faucet} /\ UNCHANGED <<holds, claimed>>
         \/ DeployedAgain
         \/ /\ seed.at = "claim" /\ Wallet \in Accounts
            /\ Claim(Deployer, Wallet, ComputeRequestId(Wallet), ClaimAmount)
         \/ Mint(Deployer, Deployer, TransferAmount)
         \/ \E a \in Accounts : \E b \in Accounts \ {a} : Transfer(a, b, TransferAmount)
<1>1. CASE HandOver \/ SyncAbi \/ Redeploy
  BY <1>1 DEF HandOver, SyncAbi, Redeploy, TransferOwnership, chain, tokens
<1>2. CASE Start \/ Stop \/ LoseWalletFile \/ LoseDatabase
  BY <1>2 DEF Start, Stop, LoseWalletFile, LoseDatabase, chain, tokens
<1>3. CASE Meddle
  <2>1. ASSUME NEW u \in Users, NEW v \in Users, u # v, {file[u], file[v]} \subseteq Accounts,
               Transfer(file[u], file[v], TransferAmount)
        PROVE  \E a \in Accounts : \E b \in Accounts \ {a} : Transfer(a, b, TransferAmount)
    <3>1. file[u] # file[v]
      <4>1. file[u] # NoWallet
        BY <2>1, Numbers
      <4> QED
        BY <2>1, <4>1, Parts DEF OwnWallets
    <3> QED
      BY <2>1, <3>1
  <2>2. CASE RecoverTokenOwnership(Deployer, Deployer)
    BY <2>2 DEF RecoverTokenOwnership, TransferOwnership
  <2> QED
    BY <1>3, <2>1, <2>2 DEF Meddle
<1>4. CASE Goes
  <2>1. CASE ClaimTokens
    <3>1. seed.at = "claim" /\ seed.at \in Saved
      BY <2>1 DEF ClaimTokens, Saved
    <3> QED
      BY <2>1, <3>1, WalletTells DEF ClaimTokens, tokens
  <2>2. CASE SendTransfer
    <3>1. CASE UNCHANGED tokens
      BY <3>1 DEF tokens
    <3>2. CASE Transfer(From(seed.i), To(seed.i), TransferAmount)
      <4>1. seed.at \in Saved /\ seed.i \in 1..N
        BY <2>2, Parts, SeedTyped DEF SendTransfer, Saved
      <4>2. From(seed.i) \in Accounts /\ To(seed.i) \in Accounts \ {From(seed.i)}
        BY <4>1, Circle
      <4> QED
        BY <3>2, <4>2
    <3> QED
      BY <2>2, <3>1, <3>2 DEF SendTransfer
  <2>3. CASE \/ UpsertDemoUser \/ EnsureWallet \/ WriteWalletFile \/ CheckClaimed \/ SendGas
             \/ EnterFunding \/ MarkFundingJobReady \/ CheckTransfers \/ RecordTransfer \/ Exit
    BY <2>3 DEF UpsertDemoUser, EnsureWallet, WriteWalletFile, CheckClaimed, SendGas,
                EnterFunding, MarkFundingJobReady, CheckTransfers, RecordTransfer, Exit,
                chain, tokens
  <2> QED
    BY <1>4, <2>1, <2>2, <2>3 DEF Goes
<1> QED
  BY <1>1, <1>2, <1>3, <1>4 DEF Next

\* FundsOnlyKept: the script saves the file before it funds: the key of a wallet that
\* is paid is on file, so that a script that stops strands nothing.
THEOREM FundsAreKept == Spec => FundsOnlyKept
<1> DEFINE Kept == \A a \in claimed' \ claimed : MayDiffer \/ \E u \in Users : file[u] = a
<1>1. SeedInv /\ [Next]_vars => [Kept]_vars
  <2> SUFFICES ASSUME SeedInv, Next, NEW a \in claimed' \ claimed, ~MayDiffer
               PROVE  \E u \in Users : file[u] = a
    OBVIOUS
  <2>1. /\ seed.at = "claim"
        /\ Claim(Deployer, Wallet, ComputeRequestId(Wallet), ClaimAmount)
    BY TokenSteps DEF DeployedAgain, Mint, Transfer
  <2>2. a = Wallet
    BY <2>1 DEF Claim
  <2>3. seed.at \in Saved
    BY <2>1 DEF Saved
  <2>4. User \in Users /\ wallet[User] = file[User]
    BY <2>3, WalletTells, Parts, KeysSaved
  <2> QED
    BY <2>2, <2>4 DEF Wallet
<1> QED
  BY <1>1, SeedSafe, PTL DEF Spec, FundsOnlyKept

\* TokenPromiseKept: through the script, deployments and what others do, the faucet
\* of GuardedFaucet.sol keeps the promise of TokenPromise: one grant to a wallet on
\* a chain, and otherwise tokens are only moved, while it owns the token.
THEOREM FaucetKeepsPromise == Spec => TokenPromiseKept
<1>1. Init => Promise!Init
  <2> SUFFICES ASSUME Init PROVE Promise!Init
    OBVIOUS
  <2>1. owner # Faucet /\ claimed = {} /\ holds = [a \in Accounts |-> 0]
    BY TokenAssumption DEF Init, Deployed
  <2> QED
    BY <2>1 DEF Promise!Init, Promise!Nothing
<1>2. SeedInv /\ [Next]_vars => [Promise!Next]_<<holds, claimed, owner = Faucet>>
  <2> SUFFICES ASSUME SeedInv, [Next]_vars,
                      ~UNCHANGED <<owner, holds, claimed>>
               PROVE  Promise!Next
    OBVIOUS
  <2>0. /\ Next /\ Deployer \in Accounts /\ Faucet # Deployer
        /\ holds \in [Accounts -> Nat] /\ TransferAmount \in Nat /\ TransferAmount > 0
        /\ claimed \subseteq Accounts
    BY Parts, TokenTyped, Numbers, TokenAssumption
       DEF vars, chain, tokens, TokenInv
  <2>1. CASE owner' \in {Deployer, Faucet} /\ UNCHANGED <<holds, claimed>>
    <3>1. Promise!Guard
      BY <2>1 DEF Promise!Guard
    <3> QED
      BY <3>1 DEF Promise!Next
  <2>2. CASE DeployedAgain
    <3>1. Promise!Restart
      BY <2>0, <2>2 DEF Promise!Restart, Promise!Nothing, DeployedAgain
    <3> QED
      BY <3>1 DEF Promise!Next
  <2>3. CASE /\ seed.at = "claim" /\ Wallet \in Accounts
             /\ Claim(Deployer, Wallet, ComputeRequestId(Wallet), ClaimAmount)
    <3>1. /\ owner = Faucet /\ owner' = owner /\ Wallet \notin claimed
          /\ claimed' = claimed \cup {Wallet}
          /\ holds' = [holds EXCEPT ![Wallet] = @ + ClaimAmount]
      BY <2>3 DEF Claim, Claimable, Mintable, Credit
    <3>2. Promise!Grant(Wallet)
      BY <3>1 DEF Promise!Grant
    <3> QED
      BY <2>3, <3>2 DEF Promise!Next
  <2>4. CASE Mint(Deployer, Deployer, TransferAmount)
    <3>1. /\ owner = Deployer /\ owner' = owner /\ claimed' = claimed
          /\ holds' = [holds EXCEPT ![Deployer] = @ + TransferAmount]
      BY <2>4 DEF Mint, Mintable, Credit
    <3>2. /\ holds' = [holds EXCEPT ![Deployer] = holds'[Deployer]]
          /\ holds'[Deployer] > holds[Deployer]
      BY <2>0, <3>1
    <3>3. Promise!Make(Deployer)
      BY <2>0, <3>1, <3>2 DEF Promise!Make
    <3> QED
      BY <2>0, <3>3 DEF Promise!Next
  <2>5. ASSUME NEW a \in Accounts, NEW b \in Accounts \ {a}, Transfer(a, b, TransferAmount)
        PROVE  Promise!Next
    <3>1. /\ holds[a] >= TransferAmount /\ UNCHANGED <<owner, claimed>>
          /\ holds' = [c \in Accounts |->
                         holds[c] + (IF c = b THEN TransferAmount ELSE 0)
                                  - (IF c = a THEN TransferAmount ELSE 0)]
      BY <2>5 DEF Transfer
    <3>2. TransferAmount \in 1..holds[a]
      BY <2>0, <3>1
    <3>3. holds' = [holds EXCEPT ![a] = @ - TransferAmount, ![b] = @ + TransferAmount]
      <4> DEFINE moved == [holds EXCEPT ![a] = @ - TransferAmount,
                                        ![b] = @ + TransferAmount]
      <4>1. ASSUME NEW c \in Accounts
            PROVE  holds'[c] = moved[c]
        <5>0. a # b /\ DOMAIN holds = Accounts /\ holds[c] \in Nat
          BY <2>0
        <5>1. CASE c = a
          <6>1. holds'[c] = holds[c] + 0 - TransferAmount
            BY <3>1, <5>0, <5>1
          <6>2. moved[c] = holds[c] - TransferAmount
            BY <5>0, <5>1
          <6> QED
            BY <2>0, <5>0, <6>1, <6>2
        <5>2. CASE c = b
          <6>1. holds'[c] = holds[c] + TransferAmount - 0
            BY <3>1, <5>0, <5>2
          <6>2. moved[c] = holds[c] + TransferAmount
            BY <5>0, <5>2
          <6> QED
            BY <2>0, <5>0, <6>1, <6>2
        <5>3. CASE c # a /\ c # b
          <6>1. holds'[c] = holds[c] + 0 - 0
            BY <3>1, <5>3
          <6>2. moved[c] = holds[c]
            BY <5>0, <5>3
          <6> QED
            BY <5>0, <6>1, <6>2
        <5> QED
          BY <5>1, <5>2, <5>3
      <4>2. DOMAIN holds' = Accounts /\ DOMAIN moved = Accounts
        BY <2>0, <3>1
      <4>3. holds' = [c \in Accounts |-> holds'[c]]
        BY <3>1
      <4>4. moved = [c \in Accounts |-> moved[c]]
        BY <2>0
      <4> HIDE DEF moved
      <4>5. holds' = moved
        BY <4>1, <4>3, <4>4
      <4> QED
        BY <4>5 DEF moved
    <3>4. Promise!Move(a, b)
      BY <3>1, <3>2, <3>3 DEF Promise!Move
    <3> QED
      BY <3>4 DEF Promise!Next
  <2> QED
    BY <2>0, <2>1, <2>2, <2>3, <2>4, <2>5, TokenSteps
<1> QED
  BY <1>1, <1>2, SeedSafe, PTL DEF Spec, TokenPromiseKept, Promise!Spec

=============================================================================
