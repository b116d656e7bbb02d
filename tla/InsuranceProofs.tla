-------------------------- MODULE InsuranceProofs --------------------------
(***************************************************************************)
(* Proofs about Insurance, for every set of users, pools and requests and  *)
(* every bound: types, that lockedCapital is what the audit trail says was *)
(* locked and unlocked, that payouts are covered, and how often a row can  *)
(* be settled, however the requests interleave.                            *)
(***************************************************************************)
EXTENDS Insurance, FiniteSetTheorems, WellFoundedInduction, TLAPS

\* No foreign key dangles: a claim refers to a policy, and an open transaction
\* to rows, that exist.
References ==
    /\ \A c \in ClaimIds : ClaimExists(c) => PolicyExists(claim[c].policy)
    /\ \A r \in Reqs : txn[r].op \in {"create", "release"} => PolicyExists(txn[r].policy)
    /\ \A r \in Reqs : txn[r].op \in {"assess", "pay"} => ClaimExists(txn[r].claim)

\* Audit rows are only of rows that exist.
NoAuditBeforeCreate ==
    /\ \A p \in PolicyIds : ~PolicyExists(p) => releases[p] = 0
    /\ \A c \in ClaimIds : ~ClaimExists(c) => verdicts[c].reject = 0 /\ verdicts[c].payout = 0

IInv == TypeOK /\ References /\ NoAuditBeforeCreate /\ PoolBalance

-----------------------------------------------------------------------------
\* Sums: how SumTo changes when the function it sums changes at one point, and
\* its value on the zero function.  The induction is on a least counterexample.

\* Every nonempty set of naturals has a least element.
LEMMA LeastNatural ==
    ASSUME NEW T, T \subseteq Nat, T # {}
    PROVE  \E m \in T : \A k \in T : m <= k
<1> DEFINE R == OpToRel(<, Nat)
<1>1. IsWellFoundedOn(R, Nat)
  BY NatLessThanWellFounded
<1>2. PICK m \in T : \A k \in T : <<k, m>> \notin R
  <2> HIDE DEF R
  <2> QED BY <1>1, WFMin
<1>3. R = {ss \in Nat \X Nat : ss[1] < ss[2]}
  BY Zenon DEF OpToRel
<1>4. ASSUME NEW k \in T PROVE m <= k
  <2> HIDE DEF R
  <2>1. k \in Nat /\ m \in Nat
    OBVIOUS
  <2>2. ~(k < m)
    BY <1>2, <1>3, <2>1
  <2> QED BY <2>1, <2>2
<1> QED BY <1>4

\* A function of prefix sums of f exists on every initial segment.
LEMMA PrefixSumExists ==
    ASSUME NEW n \in Nat, NEW f \in [1..n -> Int]
    PROVE  \E g \in [0..n -> Int] :
               g = [i \in 0..n |-> IF i = 0 THEN 0 ELSE g[i - 1] + f[i]]
<1> DEFINE Sums(m, g) == /\ g \in [0..m -> Int]
                         /\ g[0] = 0
                         /\ \A i \in 1..m : g[i] = g[i - 1] + f[i]
           Bad == {m \in 0..n : \A g \in [0..m -> Int] : ~Sums(m, g)}
<1>1. ASSUME Bad # {} PROVE FALSE
  <2>1. PICK m \in Bad : \A k \in Bad : m <= k
    BY <1>1, LeastNatural, Bad \subseteq Nat
  <2>2. m \in 0..n
    OBVIOUS
  <2>3. CASE m = 0
    <3>1. Sums(0, [i \in 0..0 |-> 0])
      OBVIOUS
    <3> QED BY <2>3, <3>1
  <2>4. CASE m # 0
    <3>1. m - 1 \in 0..n /\ ~(m <= m - 1)
      BY <2>2, <2>4
    <3>0. m - 1 \notin Bad
      <4> HIDE DEF Bad
      <4> QED BY <2>1, <3>1
    <3>2. PICK g \in [0..(m - 1) -> Int] : Sums(m - 1, g)
      <4> HIDE DEF Sums
      <4> QED BY <3>1, <3>0
    <3> DEFINE h == [i \in 0..m |-> IF i = m THEN g[m - 1] + f[m] ELSE g[i]]
    <3>3. h \in [0..m -> Int]
      BY <2>2, <2>4, <3>2
    <3>4. Sums(m, h)
      BY <2>2, <2>4, <3>2, <3>3
    <3> QED BY <3>3, <3>4
  <2> QED BY <2>3, <2>4
<1>2. PICK g \in [0..n -> Int] : Sums(n, g)
  <2> HIDE DEF Sums
  <2>1. n \in 0..n /\ n \notin Bad
    BY <1>1
  <2> QED BY <2>1
<1>3. g = [i \in 0..n |-> IF i = 0 THEN 0 ELSE g[i - 1] + f[i]]
  BY <1>2
<1> QED BY <1>3

\* The recursive definition of PrefixSum defines what it says.
LEMMA PrefixSumUnfold ==
    ASSUME NEW n \in Nat, NEW f \in [1..n -> Int]
    PROVE  /\ PrefixSum(f, n) \in [0..n -> Int]
           /\ PrefixSum(f, n)[0] = 0
           /\ \A i \in 1..n : PrefixSum(f, n)[i] = PrefixSum(f, n)[i - 1] + f[i]
<1> DEFINE Fix(g) == g = [i \in 0..n |-> IF i = 0 THEN 0 ELSE g[i - 1] + f[i]]
           ps == PrefixSum(f, n)
<1>1. PICK g \in [0..n -> Int] : Fix(g)
  BY PrefixSumExists
<1>2. Fix(ps)
  BY <1>1 DEF PrefixSum
<1> HIDE DEF ps
<1>3. ps[0] = 0 /\ \A i \in 1..n : ps[i] = ps[i - 1] + f[i]
  BY <1>2
<1> DEFINE Diff == {i \in 0..n : ps[i] # g[i]}
<1>4. ASSUME Diff # {} PROVE FALSE
  <2>1. PICK m \in Diff : \A k \in Diff : m <= k
    BY <1>4, LeastNatural, Diff \subseteq Nat
  <2>2. m # 0
    BY <1>1, <1>3, g[0] = 0
  <2>3. m \in 1..n /\ m - 1 \in 0..n
    BY <2>2
  <2>4. ps[m - 1] = g[m - 1]
    BY <2>1, <2>3
  <2>5. ps[m] = ps[m - 1] + f[m] /\ g[m] = g[m - 1] + f[m]
    BY <1>1, <1>3, <2>3
  <2> QED BY <2>4, <2>5
<1>5. ps \in [0..n -> Int]
  <2>1. \A i \in 0..n : ps[i] = g[i]
    BY <1>4
  <2>2. ps = [i \in 0..n |-> ps[i]]
    BY <1>2
  <2> QED BY <2>1, <2>2
<1> QED BY <1>3, <1>5 DEF ps

\* Adding d to one entry adds d to the sum.
LEMMA SumToUpdate ==
    ASSUME NEW n \in Nat, NEW f \in [1..n -> Int], NEW g \in [1..n -> Int],
           NEW k \in 1..n, NEW d \in Int,
           g[k] = f[k] + d, \A i \in 1..n : i # k => g[i] = f[i]
    PROVE  SumTo(g, n) = SumTo(f, n) + d
<1> DEFINE pf == PrefixSum(f, n)
           pg == PrefixSum(g, n)
<1>1. /\ pf \in [0..n -> Int] /\ pf[0] = 0
      /\ \A i \in 1..n : pf[i] = pf[i - 1] + f[i]
  BY PrefixSumUnfold
<1>2. /\ pg \in [0..n -> Int] /\ pg[0] = 0
      /\ \A i \in 1..n : pg[i] = pg[i - 1] + g[i]
  BY PrefixSumUnfold
<1> HIDE DEF pf, pg
<1> DEFINE Off(i) == pg[i] # IF i < k THEN pf[i] ELSE pf[i] + d
           Bad == {i \in 0..n : Off(i)}
<1>3. ASSUME Bad # {} PROVE FALSE
  <2>1. PICK m \in Bad : \A j \in Bad : m <= j
    BY <1>3, LeastNatural, Bad \subseteq Nat
  <2>2. m \in 1..n
    BY <1>1, <1>2
  <2>3. m - 1 \in 0..n /\ ~(m <= m - 1)
    BY <2>2
  <2>4. ~Off(m - 1)
    BY <2>1, <2>3
  <2>5. pg[m] = pg[m - 1] + g[m] /\ pf[m] = pf[m - 1] + f[m]
    BY <1>1, <1>2, <2>2
  <2>6. pf[m - 1] \in Int /\ pg[m - 1] \in Int /\ f[m] \in Int /\ g[m] \in Int
    BY <1>1, <1>2, <2>2, <2>3
  <2>7. ~Off(m)
    <3> HIDE DEF Bad
    <3>1. CASE m < k
      BY <3>1, <2>2, <2>4, <2>5, <2>6
    <3>2. CASE m = k
      BY <3>2, <2>2, <2>4, <2>5, <2>6
    <3>3. CASE m > k
      <4>1. g[m] = f[m] /\ ~(m < k) /\ ~(m - 1 < k)
        BY <3>3, <2>2
      <4> QED BY <4>1, <2>2, <2>4, <2>5, <2>6
    <3> QED BY <3>1, <3>2, <3>3, <2>2
  <2> QED BY <2>7
<1>4. pg[n] = pf[n] + d
  BY <1>3
<1> QED BY <1>4 DEF SumTo, pf, pg

\* The sum of the zero function is zero.
LEMMA SumToZero ==
    ASSUME NEW n \in Nat
    PROVE  SumTo([i \in 1..n |-> 0], n) = 0
<1> DEFINE z == [i \in 1..n |-> 0]
           pz == PrefixSum(z, n)
           Bad == {i \in 0..n : pz[i] # 0}
<1>1. /\ pz \in [0..n -> Int] /\ pz[0] = 0
      /\ \A i \in 1..n : pz[i] = pz[i - 1] + z[i]
  BY PrefixSumUnfold, z \in [1..n -> Int]
<1> HIDE DEF pz
<1>2. ASSUME Bad # {} PROVE FALSE
  <2>1. PICK m \in Bad : \A j \in Bad : m <= j
    BY <1>2, LeastNatural, Bad \subseteq Nat
  <2>2. m \in 1..n
    BY <1>1
  <2>3. m - 1 \in 0..n /\ ~(m <= m - 1)
    BY <2>2
  <2>4. pz[m - 1] = 0
    BY <2>1, <2>3
  <2> QED BY <1>1, <2>2, <2>4
<1>3. pz[n] = 0
  BY <1>2
<1> QED BY <1>3 DEF SumTo, pz

\* g is f with d added to one entry, or f itself.
Shifted(f, g, n, d) ==
    \/ g = f /\ d = 0
    \/ \E k \in 1..n : g[k] = f[k] + d /\ \A i \in 1..n : i # k => g[i] = f[i]

LEMMA SumToInt ==
    ASSUME NEW n \in Nat, NEW f \in [1..n -> Int]
    PROVE  SumTo(f, n) \in Int
<1>1. PrefixSum(f, n) \in [0..n -> Int]
  BY PrefixSumUnfold
<1> QED BY <1>1 DEF SumTo

\* The sum shifts with the entry.
LEMMA SumToShift ==
    ASSUME NEW n \in Nat, NEW f \in [1..n -> Int], NEW g \in [1..n -> Int],
           NEW d \in Int, Shifted(f, g, n, d)
    PROVE  /\ SumTo(f, n) \in Int
           /\ SumTo(g, n) = SumTo(f, n) + d
<1>1. SumTo(f, n) \in Int
  BY SumToInt
<1>2. CASE g = f /\ d = 0
  BY <1>1, <1>2
<1>3. CASE \E k \in 1..n : g[k] = f[k] + d /\ \A i \in 1..n : i # k => g[i] = f[i]
  BY <1>1, <1>3, SumToUpdate
<1> QED BY <1>1, <1>2, <1>3 DEF Shifted

-----------------------------------------------------------------------------
\* A transaction's fields, by its operation.
LEMMA TxnFields ==
    ASSUME TypeOK, NEW r \in Reqs
    PROVE  /\ txn[r].op = "purchase" => txn[r] \in PurchaseTx
           /\ txn[r].op = "release" => txn[r] \in ReleaseTx
           /\ txn[r].op = "create" => txn[r] \in CreateTx
           /\ txn[r].op = "pay" => txn[r] \in PayTx
           /\ txn[r].op = "assess" => txn[r] \in AssessTx
BY DEF TypeOK, Txn, Idle, PurchaseTx, ReleaseTx, CreateTx, PayTx, AssessTx

\* A row that exists has the fields of its table.
LEMMA RowFields ==
    ASSUME TypeOK
    PROVE  /\ \A p \in PolicyIds : PolicyExists(p) => policy[p] \in Policy
           /\ \A c \in ClaimIds : ClaimExists(c) => claim[c] \in Claim
BY DEF TypeOK, PolicyExists, ClaimExists, NoPolicy, NoClaim

LEMMA ClampType == \A x \in Int : Clamp(x) \in Score
BY DEF Clamp, Score

\* A claim that exists has a policy row, with an owner and a pool.
LEMMA ClaimFields ==
    ASSUME TypeOK, References, NEW c \in ClaimIds, ClaimExists(c)
    PROVE  /\ claim[c] \in Claim
           /\ claim[c].policy \in PolicyIds
           /\ claim[c].amount \in Amounts /\ claim[c].amount \in Nat
           /\ PolicyOf(c) \in Policy
           /\ OwnerOf(c) \in Users
           /\ PolicyOf(c).pool \in Pools
<1>1. claim[c] \in Claim
  BY RowFields
<1>2. claim[c].policy \in PolicyIds /\ claim[c].amount \in Amounts
  BY <1>1 DEF Claim
<1>5. claim[c].amount \in Nat
  <2> DEFINE a == claim[c].amount
  <2>1. a \in Amounts
    BY <1>2
  <2> HIDE DEF a
  <2>2. a \in Nat
    BY <2>1, AmountsAssumption
  <2> QED BY <2>2 DEF a
<1>3. PolicyExists(claim[c].policy)
  BY DEF References
<1>4. PolicyOf(c) \in Policy
  BY <1>2, <1>3, RowFields DEF PolicyOf
<1> QED BY <1>1, <1>2, <1>4, <1>5 DEF Policy, OwnerOf

-----------------------------------------------------------------------------
\* One step from a state with types and references keeps the types.
LEMMA TypeStep ==
    ASSUME TypeOK, References, [Next]_vars
    PROVE  TypeOK'
<1> USE AmountsAssumption, BoundsAssumption
<1>1. ASSUME NEW r \in Reqs, NEW u \in Users, NEW q \in Pools, NEW a \in Coverages,
             BeginPurchase(r, u, q, a)
      PROVE  TypeOK'
  <2>1. [op |-> "purchase", user |-> u, pool |-> q, coverage |-> a] \in Txn
    BY DEF Txn, PurchaseTx
  <2> QED BY <1>1, <2>1 DEF BeginPurchase, Start, rows, TypeOK
<1>2. ASSUME NEW r \in Reqs, CommitPurchase(r) PROVE TypeOK'
  <2>1. txn[r] \in PurchaseTx
    BY <1>2, TxnFields DEF CommitPurchase
  <2>2. policy' \in [PolicyIds -> Policy \cup {NoPolicy}]
    <3>1. PICK p \in PolicyIds : policy' = [policy EXCEPT ![p] =
                [status |-> "ACTIVE", user |-> txn[r].user, pool |-> txn[r].pool,
                 coverage |-> txn[r].coverage, deleted |-> FALSE]]
      BY <1>2 DEF CommitPurchase
    <3>2. [status |-> "ACTIVE", user |-> txn[r].user, pool |-> txn[r].pool,
           coverage |-> txn[r].coverage, deleted |-> FALSE] \in Policy
      BY <2>1 DEF PurchaseTx, Policy, OpenStatus
    <3> QED BY <3>1, <3>2 DEF TypeOK
  <2>3. pool' \in [Pools -> Pool]
    BY <1>2, <2>1 DEF CommitPurchase, LockCapital, TypeOK, Pool, PurchaseTx
  <2> QED BY <1>2, <2>2, <2>3 DEF CommitPurchase, Finish, TypeOK, Txn
<1>3. ASSUME NEW r \in Reqs, NEW p \in PolicyIds, NEW to \in ClosedStatus,
             BeginRelease(r, p, to)
      PROVE  TypeOK'
  <2>1. [op |-> "release", policy |-> p, to |-> to] \in Txn
    BY DEF Txn, ReleaseTx
  <2> QED BY <1>3, <2>1 DEF BeginRelease, Start, rows, TypeOK
<1>4. ASSUME NEW r \in Reqs, CommitRelease(r) PROVE TypeOK'
  <2>1. txn[r] \in ReleaseTx
    BY <1>4, TxnFields DEF CommitRelease
  <2>2. PICK p \in PolicyIds : p = txn[r].policy
    BY <2>1 DEF ReleaseTx
  <2>3. policy[p] \in Policy
    BY <1>4, <2>2, RowFields DEF CommitRelease, LivePolicy
  <2>4. policy' \in [PolicyIds -> Policy \cup {NoPolicy}]
    BY <1>4, <2>1, <2>2, <2>3 DEF CommitRelease, ReleaseTx, TypeOK, Policy
  <2>5. pool' \in [Pools -> Pool]
    <3>1. PICK q : q = policy[p].pool
      OBVIOUS
    <3>2. PICK a : a = policy[p].coverage
      OBVIOUS
    <3>3. q \in Pools /\ a \in Int
      <4>1. q \in Pools /\ a \in Coverages
        BY <2>3, <3>1, <3>2 DEF Policy
      <4>2. Coverages \subseteq Int
        BY AmountsAssumption DEF AmountsAssumption
      <4> QED BY <4>1, <4>2
    <3>4. pool' = [pool EXCEPT ![q].locked = @ - a]
      BY <1>4, <2>2, <3>1, <3>2 DEF CommitRelease, UnlockCapital
    <3> QED BY <3>3, <3>4 DEF TypeOK, Pool
  <2>6. releases' \in [PolicyIds -> Nat]
    BY <1>4, <2>2 DEF CommitRelease, TypeOK
  <2> QED BY <1>4, <2>4, <2>5, <2>6 DEF CommitRelease, Finish, TypeOK, Txn
<1>5. ASSUME NEW r \in Reqs, NEW p \in PolicyIds, NEW a \in Amounts,
             BeginCreateClaim(r, p, a)
      PROVE  TypeOK'
  <2>1. [op |-> "create", policy |-> p, amount |-> a] \in Txn
    BY DEF Txn, CreateTx
  <2> QED BY <1>5, <2>1 DEF BeginCreateClaim, Start, rows, TypeOK
<1>6. ASSUME NEW r \in Reqs, CommitCreateClaim(r) PROVE TypeOK'
  <2>1. txn[r] \in CreateTx
    BY <1>6, TxnFields DEF CommitCreateClaim
  <2>2. PICK c \in ClaimIds : claim' = [claim EXCEPT ![c] =
                [status |-> "PENDING", policy |-> txn[r].policy,
                 amount |-> txn[r].amount, payout |-> 0, deleted |-> FALSE]]
    BY <1>6 DEF CommitCreateClaim
  <2>3. [status |-> "PENDING", policy |-> txn[r].policy,
         amount |-> txn[r].amount, payout |-> 0, deleted |-> FALSE] \in Claim
    BY <2>1 DEF CreateTx, Claim, ClaimStatus
  <2>4. claim' \in [ClaimIds -> Claim \cup {NoClaim}]
    BY <2>2, <2>3 DEF TypeOK
  <2> QED BY <1>6, <2>4 DEF CommitCreateClaim, Finish, TypeOK, Txn
<1>7. ASSUME NEW r \in Reqs, NEW c \in ClaimIds, BeginPay(r, c) PROVE TypeOK'
  <2>1. [op |-> "pay", claim |-> c] \in Txn
    BY DEF Txn, PayTx
  <2> QED BY <1>7, <2>1 DEF BeginPay, Start, rows, TypeOK
<1>8. ASSUME NEW r \in Reqs, CommitPay(r) PROVE TypeOK'
  <2>1. txn[r] \in PayTx
    BY <1>8, TxnFields DEF CommitPay
  <2>2. PICK c \in ClaimIds : c = txn[r].claim
    BY <2>1 DEF PayTx
  <2>3. claim[c] \in Claim /\ claim[c].amount \in Nat /\ PolicyOf(c).pool \in Pools
    BY <1>8, <2>2, ClaimFields DEF CommitPay, LiveClaim
  <2>4. claim' \in [ClaimIds -> Claim \cup {NoClaim}]
    BY <1>8, <2>2, <2>3 DEF CommitPay, TypeOK, Claim, ClaimStatus
  <2>5. pool' \in [Pools -> Pool]
    <3>1. claim[c].amount \in Int
      BY <2>3
    <3>2. pool' = [pool EXCEPT ![PolicyOf(c).pool].locked = @ - claim[c].amount]
      BY <1>8, <2>2 DEF CommitPay, UnlockCapital
    <3> QED BY <2>3, <3>1, <3>2 DEF TypeOK, Pool
  <2>6. verdicts' \in [ClaimIds -> Verdicts]
    BY <1>8, <2>2 DEF CommitPay, TypeOK, Verdicts
  <2> QED BY <1>8, <2>4, <2>5, <2>6 DEF CommitPay, Finish, TypeOK, Txn
<1>9. ASSUME NEW r \in Reqs, NEW c \in ClaimIds, BeginAssess(r, c) PROVE TypeOK'
  <2>1. \A s \in AssessStep, f \in BOOLEAN : Assessment(c, s, f, "REJECTED", 0) \in Txn
    BY DEF Txn, AssessTx, Assessment, Score
  <2>2. \E t \in Txn : txn' = [txn EXCEPT ![r] = t]
    <3>1. CASE PolicyOf(c).status # "ACTIVE" \/ ~WithinCoverage(c)
      BY <1>9, <2>1, <3>1 DEF BeginAssess, Start, AssessStep
    <3>2. CASE ~(PolicyOf(c).status # "ACTIVE" \/ ~WithinCoverage(c))
      <4>1. PICK f \in FraudOutcomes(c) :
               Start(r, Assessment(c, IF f THEN "fraud" ELSE "oracle", f, "REJECTED", 0))
        BY <1>9, <3>2 DEF BeginAssess
      <4>2. f \in BOOLEAN
        BY DEF FraudOutcomes
      <4> QED BY <4>1, <4>2, <2>1 DEF Start, AssessStep
    <3> QED BY <3>1, <3>2
  <2> QED BY <1>9, <2>2 DEF BeginAssess, rows, TypeOK
<1>10. ASSUME NEW r \in Reqs, FraudRead(r) \/ FraudWrite(r) \/ VerifyOracle(r)
                              \/ UpdateClaim(r) \/ ReadScore(r)
       PROVE  TypeOK'
  <2>1. txn[r] \in AssessTx /\ txn[r].claim \in ClaimIds /\ ClaimExists(txn[r].claim)
    BY <1>10, TxnFields DEF FraudRead, FraudWrite, VerifyOracle, UpdateClaim,
                            ReadScore, AssessAt, References, AssessTx
  <2>2. FindUserScore(OwnerOf(txn[r].claim)) \in Score
    <3>1. OwnerOf(txn[r].claim) \in Users
      BY <2>1, ClaimFields
    <3>2. 0 \in Score /\ score \in [Users -> Score]
      BY DEF TypeOK, Score
    <3> QED BY <3>1, <3>2 DEF FindUserScore
  <2>3. Clamp(txn[r].score + FRAUD_DETECTED) \in Score
    <3>1. txn[r].score + FRAUD_DETECTED \in Int
      <4>1. txn[r].score \in Score
        BY <2>1 DEF AssessTx
      <4>2. Score \subseteq Int /\ FRAUD_DETECTED \in Int
        BY DEF Score, FRAUD_DETECTED
      <4> QED BY <4>1, <4>2
    <3> QED BY <3>1, ClampType
  <2>4. txn' \in [Reqs -> Txn]
    <3>1. \E t \in AssessTx : txn' = [txn EXCEPT ![r] = t]
      <4>1. CASE FraudRead(r)
        BY <4>1, <2>1, <2>2 DEF FraudRead, AssessTx, AssessStep, TypeOK
      <4>2. CASE FraudWrite(r)
        BY <4>2, <2>1, <2>3 DEF FraudWrite, AssessTx, AssessStep, TypeOK
      <4>3. CASE VerifyOracle(r)
        BY <4>3, <2>1 DEF VerifyOracle, AssessTx, AssessStep, TypeOK
      <4>4. CASE UpdateClaim(r)
        BY <4>4, <2>1 DEF UpdateClaim, AssessTx, AssessStep, TypeOK
      <4>5. CASE ReadScore(r)
        BY <4>5, <2>1, <2>2 DEF ReadScore, AssessTx, AssessStep, TypeOK
      <4> QED BY <1>10, <4>1, <4>2, <4>3, <4>4, <4>5
    <3> QED BY <3>1 DEF TypeOK, Txn
  <2> QED BY <1>10, <2>4 DEF FraudRead, FraudWrite, VerifyOracle, UpdateClaim,
                             ReadScore, rows, TypeOK
<1>11. ASSUME NEW r \in Reqs, CommitApprove(r) \/ CommitReject(r) PROVE TypeOK'
  <2>1. txn[r] \in AssessTx
    BY <1>11, TxnFields DEF CommitApprove, CommitReject, AssessAt
  <2>2. PICK c \in ClaimIds : c = txn[r].claim
    BY <2>1 DEF AssessTx
  <2>3. ClaimExists(c)
    BY <2>1, <2>2 DEF References, AssessTx
  <2>4. claim[c] \in Claim /\ claim[c].amount \in Nat /\ PolicyOf(c).pool \in Pools
    BY <2>3, ClaimFields
  <2>5. claim' \in [ClaimIds -> Claim \cup {NoClaim}]
    <3>1. CASE CommitApprove(r)
      BY <2>2, <2>4, <3>1 DEF CommitApprove, TypeOK, Claim, ClaimStatus
    <3>2. CASE CommitReject(r)
      BY <2>2, <2>4, <3>2 DEF CommitReject, TypeOK, Claim, ClaimStatus
    <3> QED BY <1>11, <3>1, <3>2
  <2>6. pool' \in [Pools -> Pool]
    <3>1. claim[c].amount \in Int
      BY <2>4
    <3> QED BY <1>11, <2>2, <3>1
            DEF CommitApprove, CommitReject, UnlockCapital, TypeOK, Pool
  <2>7. verdicts' \in [ClaimIds -> Verdicts]
    <3>1. CASE CommitApprove(r)
      BY <2>2, <3>1 DEF CommitApprove, TypeOK, Verdicts
    <3>2. CASE CommitReject(r)
      BY <2>2, <3>2 DEF CommitReject, TypeOK, Verdicts
    <3> QED BY <1>11, <3>1, <3>2
  <2>8. \A d \in Int : Clamp(txn[r].score + d) \in Score
    <3>1. txn[r].score \in Int
      BY <2>1 DEF AssessTx, Score
    <3> QED BY <3>1, ClampType
  <2>9. score' \in [Users -> Score]
    BY <1>11, <2>8 DEF CommitApprove, CommitReject, AdjustReputation, TypeOK,
                       CLAIM_APPROVED, CLAIM_REJECTED
  <2>10. history' \in [Users -> Int]
    BY <1>11 DEF CommitApprove, CommitReject, AdjustReputation, TypeOK,
                 CLAIM_APPROVED, CLAIM_REJECTED, FRAUD_DETECTED
  <2> QED BY <1>11, <2>5, <2>6, <2>7, <2>9, <2>10
          DEF CommitApprove, CommitReject, Finish, TypeOK, Txn
<1>12. ASSUME NEW r \in Reqs, Abort(r) PROVE TypeOK'
  BY <1>12 DEF Abort, Finish, rows, TypeOK, Txn
<1>13. ASSUME NEW q \in Pools, NEW a \in TopUps, AddCapital(q, a) PROVE TypeOK'
  BY <1>13 DEF AddCapital, TypeOK, Pool
<1>14. ASSUME NEW u \in Users, DeleteUser(u) PROVE TypeOK'
  <2>1. policy' \in [PolicyIds -> Policy \cup {NoPolicy}]
    <3>1. ASSUME NEW p \in PolicyIds PROVE policy'[p] \in Policy \cup {NoPolicy}
      <4>1. CASE policy[p] \in Policy
        BY <1>14, <4>1 DEF DeleteUser, Policy
      <4>2. CASE policy[p] = NoPolicy
        BY <1>14, <4>2 DEF DeleteUser, NoPolicy, PolicyExists
      <4> QED BY <4>1, <4>2 DEF TypeOK
    <3> QED BY <1>14, <3>1 DEF DeleteUser
  <2>2. claim' \in [ClaimIds -> Claim \cup {NoClaim}]
    <3>1. ASSUME NEW c \in ClaimIds PROVE claim'[c] \in Claim \cup {NoClaim}
      <4>1. CASE ClaimExists(c)
        BY <1>14, <4>1, RowFields DEF DeleteUser, Claim
      <4>2. CASE ~ClaimExists(c)
        BY <1>14, <4>2 DEF DeleteUser, TypeOK
      <4> QED BY <4>1, <4>2
    <3> QED BY <1>14, <3>1 DEF DeleteUser
  <2> QED BY <1>14, <2>1, <2>2 DEF DeleteUser, TypeOK
<1>15. CASE UNCHANGED vars
  BY <1>15 DEF vars, TypeOK
<1> QED
  BY <1>1, <1>2, <1>3, <1>4, <1>5, <1>6, <1>7, <1>8, <1>9, <1>10, <1>11, <1>12,
     <1>13, <1>14, <1>15 DEF Next, PolicyStep, ClaimStep, AssessmentStep

-----------------------------------------------------------------------------
\* The disjuncts of Next that leave policies, claims and their audit rows alone.
Quiet(r) ==
    \/ \E u \in Users, q \in Pools, a \in Coverages : BeginPurchase(r, u, q, a)
    \/ \E p \in PolicyIds, to \in ClosedStatus : BeginRelease(r, p, to)
    \/ \E p \in PolicyIds, a \in Amounts : BeginCreateClaim(r, p, a)
    \/ \E c \in ClaimIds : BeginPay(r, c)
    \/ \E c \in ClaimIds : BeginAssess(r, c)
    \/ FraudRead(r) \/ FraudWrite(r) \/ VerifyOracle(r) \/ UpdateClaim(r)
    \/ ReadScore(r) \/ Abort(r)

\* Begin, read and abort steps change no row.
LEMMA QuietRows ==
    ASSUME NEW r \in Reqs, Quiet(r)
    PROVE  UNCHANGED rows
BY DEF Quiet, BeginPurchase, BeginRelease, BeginCreateClaim, BeginPay,
       BeginAssess, FraudRead, FraudWrite, VerifyOracle, UpdateClaim, ReadScore, Abort

\* Next, by its effect on the rows.
LEMMA NextCases ==
    ASSUME [Next]_vars
    PROVE  \/ \E r \in Reqs : \/ Quiet(r)
                              \/ CommitPurchase(r) \/ CommitRelease(r)
                              \/ CommitCreateClaim(r) \/ CommitPay(r)
                              \/ CommitApprove(r) \/ CommitReject(r)
           \/ \E q \in Pools, a \in TopUps : AddCapital(q, a)
           \/ \E u \in Users : DeleteUser(u)
           \/ UNCHANGED vars
BY DEF Next, PolicyStep, ClaimStep, AssessmentStep, Quiet

\* Rows are never removed, and what a policy covers and a claim asks for is
\* never changed: no repository of the insurance services deletes a row, and
\* every update writes the status, the payout or deletedAt only.
LEMMA RowsPersist ==
    ASSUME TypeOK, References, [Next]_vars
    PROVE  /\ \A p \in PolicyIds : PolicyExists(p) =>
                 /\ policy'[p].status # "NONE"
                 /\ policy'[p].pool = policy[p].pool /\ policy'[p].user = policy[p].user
                 /\ policy'[p].coverage = policy[p].coverage
           /\ \A c \in ClaimIds : ClaimExists(c) =>
                 /\ claim'[c].status # "NONE"
                 /\ claim'[c].policy = claim[c].policy
                 /\ claim'[c].amount = claim[c].amount
<1>1. ASSUME NEW r \in Reqs, Quiet(r)
      PROVE  UNCHANGED <<policy, claim>>
  BY <1>1, QuietRows DEF rows
<1>2. ASSUME NEW r \in Reqs, CommitPurchase(r)
      PROVE  /\ UNCHANGED claim
             /\ \A p \in PolicyIds : PolicyExists(p) => policy'[p] = policy[p]
  BY <1>2 DEF CommitPurchase, TypeOK
<1>3. ASSUME NEW r \in Reqs, CommitRelease(r)
      PROVE  /\ UNCHANGED claim
             /\ \A p \in PolicyIds : PolicyExists(p) =>
                 /\ policy'[p].status # "NONE"
                 /\ policy'[p].pool = policy[p].pool /\ policy'[p].user = policy[p].user
                 /\ policy'[p].coverage = policy[p].coverage
  <2>1. txn[r] \in ReleaseTx
    BY <1>3, TxnFields DEF CommitRelease
  <2>2. txn[r].policy \in PolicyIds /\ txn[r].to # "NONE"
    BY <2>1 DEF ReleaseTx, ClosedStatus
  <2>3. policy[txn[r].policy] \in Policy
    BY <1>3, <2>2, RowFields DEF CommitRelease, LivePolicy
  <2>4. policy' = [policy EXCEPT ![txn[r].policy].status = txn[r].to]
    BY <1>3 DEF CommitRelease
  <2>5. UNCHANGED claim
    BY <1>3 DEF CommitRelease
  <2>6. ASSUME NEW p \in PolicyIds, PolicyExists(p)
        PROVE  /\ policy'[p].status # "NONE"
               /\ policy'[p].pool = policy[p].pool /\ policy'[p].user = policy[p].user
               /\ policy'[p].coverage = policy[p].coverage
    <3>1. CASE p = txn[r].policy
      BY <3>1, <2>2, <2>3, <2>4 DEF TypeOK, Policy
    <3>2. CASE p # txn[r].policy
      BY <3>2, <2>4, <2>6 DEF TypeOK, PolicyExists
    <3> QED BY <3>1, <3>2
  <2> QED BY <2>5, <2>6
<1>4. ASSUME NEW r \in Reqs, CommitCreateClaim(r)
      PROVE  /\ UNCHANGED policy
             /\ \A c \in ClaimIds : ClaimExists(c) => claim'[c] = claim[c]
  BY <1>4 DEF CommitCreateClaim, TypeOK
<1>5. ASSUME NEW r \in Reqs, CommitPay(r) \/ CommitApprove(r) \/ CommitReject(r)
      PROVE  /\ UNCHANGED policy
             /\ \A c \in ClaimIds : ClaimExists(c) =>
                 /\ claim'[c].status # "NONE"
                 /\ claim'[c].policy = claim[c].policy
                 /\ claim'[c].amount = claim[c].amount
  <2>1. txn[r].claim \in ClaimIds
    BY <1>5, TxnFields DEF CommitPay, CommitApprove, CommitReject, AssessAt, PayTx, AssessTx
  <2>2. UNCHANGED policy
    BY <1>5 DEF CommitPay, CommitApprove, CommitReject
  <2>3. ASSUME NEW c \in ClaimIds, ClaimExists(c)
        PROVE  /\ claim'[c].status # "NONE"
               /\ claim'[c].policy = claim[c].policy
               /\ claim'[c].amount = claim[c].amount
    <3>1. claim[c] \in Claim
      BY <2>3, RowFields
    <3>2. CASE CommitPay(r)
      BY <2>1, <2>3, <3>1, <3>2 DEF CommitPay, TypeOK, Claim, ClaimExists
    <3>3. CASE CommitApprove(r)
      BY <2>1, <2>3, <3>1, <3>3 DEF CommitApprove, TypeOK, Claim, ClaimExists
    <3>4. CASE CommitReject(r)
      BY <2>1, <2>3, <3>1, <3>4 DEF CommitReject, TypeOK, Claim, ClaimExists
    <3> QED BY <1>5, <3>2, <3>3, <3>4
  <2> QED BY <2>2, <2>3
<1>6. ASSUME NEW u \in Users, DeleteUser(u)
      PROVE  /\ \A p \in PolicyIds : PolicyExists(p) =>
                 /\ policy'[p].status # "NONE"
                 /\ policy'[p].pool = policy[p].pool /\ policy'[p].user = policy[p].user
                 /\ policy'[p].coverage = policy[p].coverage
             /\ \A c \in ClaimIds : ClaimExists(c) =>
                 /\ claim'[c].status # "NONE"
                 /\ claim'[c].policy = claim[c].policy
                 /\ claim'[c].amount = claim[c].amount
  <2>1. ASSUME NEW p \in PolicyIds, PolicyExists(p)
        PROVE  /\ policy'[p].status # "NONE"
               /\ policy'[p].pool = policy[p].pool /\ policy'[p].user = policy[p].user
               /\ policy'[p].coverage = policy[p].coverage
    BY <1>6, <2>1, RowFields DEF DeleteUser, Policy, PolicyExists
  <2>2. ASSUME NEW c \in ClaimIds, ClaimExists(c)
        PROVE  /\ claim'[c].status # "NONE"
               /\ claim'[c].policy = claim[c].policy
               /\ claim'[c].amount = claim[c].amount
    BY <1>6, <2>2, RowFields DEF DeleteUser, Claim, ClaimExists
  <2> QED BY <2>1, <2>2
<1>7. ASSUME NEW q \in Pools, NEW a \in TopUps, AddCapital(q, a)
      PROVE  UNCHANGED <<policy, claim>>
  BY <1>7 DEF AddCapital
<1>8. ASSUME UNCHANGED vars PROVE UNCHANGED <<policy, claim>>
  BY <1>8 DEF vars
<1> QED
  BY <1>1, <1>2, <1>3, <1>4, <1>5, <1>6, <1>7, <1>8, NextCases
  DEF PolicyExists, ClaimExists

-----------------------------------------------------------------------------
\* References are preserved: rows persist, and every transaction starts from
\* rows it has read.
LEMMA ReferencesStep ==
    ASSUME TypeOK, References, [Next]_vars
    PROVE  References'
<1>1. /\ \A p \in PolicyIds : PolicyExists(p) => policy'[p].status # "NONE"
      /\ \A c \in ClaimIds : ClaimExists(c) =>
            claim'[c].status # "NONE" /\ claim'[c].policy = claim[c].policy
  BY RowsPersist
<1>2. \A c \in ClaimIds : claim'[c].status # "NONE" => policy'[claim'[c].policy].status # "NONE"
  <2> SUFFICES ASSUME NEW c \in ClaimIds, claim'[c].status # "NONE"
               PROVE  policy'[claim'[c].policy].status # "NONE"
    OBVIOUS
  <2>1. CASE ClaimExists(c)
    BY <1>1, <2>1, ClaimFields DEF References
  <2>2. CASE ~ClaimExists(c)
    <3>1. PICK r \in Reqs : CommitCreateClaim(r)
      <4>1. ASSUME NEW r \in Reqs, Quiet(r) PROVE FALSE
        BY <2>2, <4>1, QuietRows DEF rows, ClaimExists
      <4>2. ASSUME NEW r \in Reqs, CommitPurchase(r) \/ CommitRelease(r) PROVE FALSE
        BY <2>2, <4>2 DEF CommitPurchase, CommitRelease, ClaimExists
      <4>3. ASSUME NEW r \in Reqs, CommitPay(r) \/ CommitApprove(r) \/ CommitReject(r)
            PROVE  FALSE
        <5>1. txn[r].claim \in ClaimIds /\ ClaimExists(txn[r].claim)
          BY <4>3, TxnFields DEF CommitPay, CommitApprove, CommitReject, AssessAt,
                                 PayTx, AssessTx, References
        <5>2. claim'[c] = claim[c]
          <6>1. c # txn[r].claim
            BY <2>2, <5>1
          <6> QED BY <4>3, <6>1, <5>1 DEF CommitPay, CommitApprove, CommitReject, TypeOK
        <5> QED BY <2>2, <5>2 DEF ClaimExists
      <4>4. ASSUME NEW q \in Pools, NEW a \in TopUps, AddCapital(q, a) PROVE FALSE
        BY <2>2, <4>4 DEF AddCapital, ClaimExists
      <4>5. ASSUME NEW u \in Users, DeleteUser(u) PROVE FALSE
        BY <2>2, <4>5 DEF DeleteUser, ClaimExists
      <4>6. ASSUME UNCHANGED vars PROVE FALSE
        BY <2>2, <4>6 DEF vars, ClaimExists
      <4> QED BY <4>1, <4>2, <4>3, <4>4, <4>5, <4>6, NextCases
    <3>2. txn[r] \in CreateTx /\ txn[r].policy \in PolicyIds /\ PolicyExists(txn[r].policy)
      BY <3>1, TxnFields DEF CommitCreateClaim, CreateTx, References
    <3>3. claim'[c].policy = txn[r].policy
      BY <2>2, <3>1 DEF CommitCreateClaim, TypeOK, ClaimExists
    <3> QED BY <1>1, <3>2, <3>3
  <2> QED BY <2>1, <2>2
<1>3. ASSUME NEW r \in Reqs
      PROVE  /\ txn'[r].op \in {"create", "release"} =>
                policy'[txn'[r].policy].status # "NONE"
             /\ txn'[r].op \in {"assess", "pay"} => claim'[txn'[r].claim].status # "NONE"
  <2>1. \/ txn'[r] = txn[r]
        \/ txn'[r] = Idle
        \/ txn'[r].op = "purchase"
        \/ /\ txn'[r].op \in {"create", "release"}
           /\ txn'[r].policy \in PolicyIds /\ PolicyExists(txn'[r].policy)
        \/ /\ txn'[r].op \in {"assess", "pay"}
           /\ txn'[r].claim \in ClaimIds /\ ClaimExists(txn'[r].claim)
    <3>1. ASSUME NEW s \in Reqs, Quiet(s)
          PROVE  \/ txn'[r] = txn[r]
                 \/ txn'[r] = Idle
                 \/ txn'[r].op = "purchase"
                 \/ /\ txn'[r].op \in {"create", "release"}
                    /\ txn'[r].policy \in PolicyIds /\ PolicyExists(txn'[r].policy)
                 \/ /\ txn'[r].op \in {"assess", "pay"}
                    /\ txn'[r].claim \in ClaimIds /\ ClaimExists(txn'[r].claim)
      <4>1. CASE \E u \in Users, q \in Pools, a \in Coverages : BeginPurchase(s, u, q, a)
        BY <4>1 DEF BeginPurchase, Start, TypeOK
      <4>2. CASE \E p \in PolicyIds, to \in ClosedStatus : BeginRelease(s, p, to)
        BY <4>2 DEF BeginRelease, Start, TypeOK, LivePolicy
      <4>3. CASE \E p \in PolicyIds, a \in Amounts : BeginCreateClaim(s, p, a)
        BY <4>3 DEF BeginCreateClaim, Start, TypeOK, LivePolicy
      <4>4. CASE \E c \in ClaimIds : BeginPay(s, c)
        BY <4>4 DEF BeginPay, Start, TypeOK, LiveClaim
      <4>5. CASE \E c \in ClaimIds : BeginAssess(s, c)
        BY <4>5 DEF BeginAssess, Assessment, Start, TypeOK, LiveClaim
      <4>6. CASE FraudRead(s) \/ FraudWrite(s) \/ VerifyOracle(s) \/ UpdateClaim(s) \/ ReadScore(s)
        <5>1. txn[s] \in AssessTx /\ txn[s].claim \in ClaimIds /\ ClaimExists(txn[s].claim)
          BY <4>6, TxnFields DEF FraudRead, FraudWrite, VerifyOracle, UpdateClaim,
                                 ReadScore, AssessAt, References, AssessTx
        <5>2. CASE r # s
          BY <4>6, <5>2 DEF FraudRead, FraudWrite, VerifyOracle, UpdateClaim,
                            ReadScore, TypeOK
        <5>3. CASE r = s
          <6>1. txn'[s].op = "assess" /\ txn'[s].claim = txn[s].claim
            BY <4>6, <5>1 DEF FraudRead, FraudWrite, VerifyOracle, UpdateClaim,
                              ReadScore, TypeOK, AssessTx
          <6> QED BY <5>1, <5>3, <6>1
        <5> QED BY <5>2, <5>3
      <4>7. CASE Abort(s)
        BY <4>7 DEF Abort, Finish, TypeOK
      <4> QED BY <3>1, <4>1, <4>2, <4>3, <4>4, <4>5, <4>6, <4>7 DEF Quiet
    <3>2. ASSUME NEW s \in Reqs,
                 \/ CommitPurchase(s) \/ CommitRelease(s) \/ CommitCreateClaim(s)
                 \/ CommitPay(s) \/ CommitApprove(s) \/ CommitReject(s)
          PROVE  txn'[r] = txn[r] \/ txn'[r] = Idle
      BY <3>2 DEF CommitPurchase, CommitRelease, CommitCreateClaim, CommitPay,
                  CommitApprove, CommitReject, Finish, TypeOK
    <3>3. ASSUME \/ \E q \in Pools, a \in TopUps : AddCapital(q, a)
                 \/ \E u \in Users : DeleteUser(u)
                 \/ UNCHANGED vars
          PROVE  txn' = txn
      BY <3>3 DEF AddCapital, DeleteUser, vars
    <3> QED BY <3>1, <3>2, <3>3, NextCases
  <2>2. Idle.op = "idle"
    BY DEF Idle
  <2>3. /\ txn[r].op \in {"create", "release"} =>
             txn[r].policy \in PolicyIds /\ PolicyExists(txn[r].policy)
        /\ txn[r].op \in {"assess", "pay"} =>
             txn[r].claim \in ClaimIds /\ ClaimExists(txn[r].claim)
    BY TxnFields DEF References, CreateTx, ReleaseTx, AssessTx, PayTx
  <2> QED BY <1>1, <2>1, <2>2, <2>3
<1> QED BY <1>2, <1>3 DEF References, PolicyExists, ClaimExists

-----------------------------------------------------------------------------
\* Audit rows are written with a row that exists.
LEMMA NoAuditStep ==
    ASSUME TypeOK, References, NoAuditBeforeCreate, [Next]_vars
    PROVE  NoAuditBeforeCreate'
<1>1. /\ \A p \in PolicyIds : policy'[p].status = "NONE" => ~PolicyExists(p)
      /\ \A c \in ClaimIds : claim'[c].status = "NONE" => ~ClaimExists(c)
  BY RowsPersist
<1>2. /\ \A p \in PolicyIds : ~PolicyExists(p) => releases'[p] = releases[p]
      /\ \A c \in ClaimIds : ~ClaimExists(c) => verdicts'[c] = verdicts[c]
  <2>1. ASSUME NEW r \in Reqs, Quiet(r) PROVE UNCHANGED <<releases, verdicts>>
    BY <2>1, QuietRows DEF rows
  <2>2. ASSUME NEW r \in Reqs, CommitRelease(r)
        PROVE  /\ UNCHANGED verdicts
               /\ \A p \in PolicyIds : ~PolicyExists(p) => releases'[p] = releases[p]
    BY <2>2 DEF CommitRelease, LivePolicy, TypeOK
  <2>3. ASSUME NEW r \in Reqs, CommitPay(r) \/ CommitApprove(r) \/ CommitReject(r)
        PROVE  /\ UNCHANGED releases
               /\ \A c \in ClaimIds : ~ClaimExists(c) => verdicts'[c] = verdicts[c]
    <3>1. ClaimExists(txn[r].claim)
      BY <2>3 DEF CommitPay, CommitApprove, CommitReject, AssessAt, References
    <3> QED BY <2>3, <3>1 DEF CommitPay, CommitApprove, CommitReject, TypeOK
  <2>4. ASSUME \/ \E r \in Reqs : CommitPurchase(r) \/ CommitCreateClaim(r)
               \/ \E q \in Pools, a \in TopUps : AddCapital(q, a)
               \/ \E u \in Users : DeleteUser(u)
               \/ UNCHANGED vars
        PROVE  UNCHANGED <<releases, verdicts>>
    BY <2>4 DEF CommitPurchase, CommitCreateClaim, AddCapital, DeleteUser, vars
  <2> QED BY <2>1, <2>2, <2>3, <2>4, NextCases
<1> QED BY <1>1, <1>2 DEF NoAuditBeforeCreate, PolicyExists, ClaimExists
-----------------------------------------------------------------------------
\* The contributions to lockedCapital are integers.
IntContributions ==
    \A q \in Pools : /\ Reserved(q) \in [1..MaxPolicies -> Int]
                     /\ Settled(q) \in [1..MaxClaims -> Int]

LEMMA ContributionTypes == TypeOK /\ References => IntContributions
<1> SUFFICES ASSUME TypeOK, References, NEW q \in Pools
             PROVE  /\ Reserved(q) \in [1..MaxPolicies -> Int]
                    /\ Settled(q) \in [1..MaxClaims -> Int]
  BY DEF IntContributions
<1>1. ASSUME NEW p \in PolicyIds PROVE Reserved(q)[p] \in Int
  <2> DEFINE k == policy[p].coverage
             n == releases[p]
  <2>1. k \in Int
    <3>1. CASE PolicyExists(p)
      <4>1. k \in Coverages
        BY <3>1, RowFields DEF Policy
      <4> HIDE DEF k
      <4> QED BY <4>1, AmountsAssumption
    <3>2. CASE ~PolicyExists(p)
      BY <3>2 DEF TypeOK, PolicyExists, Policy, NoPolicy, OpenStatus, ClosedStatus
    <3> QED BY <3>1, <3>2
  <2>2. n \in Int
    BY DEF TypeOK
  <2>3. Reserved(q)[p] = IF policy[p].pool = q THEN k - k * n ELSE 0
    BY DEF Reserved
  <2> HIDE DEF k, n
  <2>4. k - k * n \in Int
    BY <2>1, <2>2
  <2> QED BY <2>3, <2>4
<1>2. ASSUME NEW c \in ClaimIds PROVE Settled(q)[c] \in Int
  <2> DEFINE k == claim[c].amount
             n == verdicts[c].reject + verdicts[c].payout
  <2>1. n \in Int
    BY DEF TypeOK, Verdicts
  <2>2. Settled(q)[c] = IF ClaimExists(c) /\ PolicyOf(c).pool = q THEN k * n ELSE 0
    BY DEF Settled
  <2>3. ClaimExists(c) => k \in Int
    BY ClaimFields
  <2> HIDE DEF k, n
  <2>4. ClaimExists(c) => k * n \in Int
    BY <2>1, <2>3
  <2> QED BY <2>2, <2>4
<1>3. Reserved(q) = [p \in PolicyIds |-> Reserved(q)[p]]
  BY DEF Reserved
<1>4. Settled(q) = [c \in ClaimIds |-> Settled(q)[c]]
  BY DEF Settled
<1> QED BY <1>1, <1>2, <1>3, <1>4 DEF PolicyIds, ClaimIds

\* The balance of pool q.
Balanced(q) ==
    pool[q].locked = SumTo(Reserved(q), MaxPolicies) - SumTo(Settled(q), MaxClaims)

\* A step that shifts one policy's contribution by dr, one claim's by ds and
\* lockedCapital by their difference keeps the balance.
LEMMA BalanceByShift ==
    ASSUME TypeOK, References, TypeOK', References', NEW q \in Pools, Balanced(q),
           NEW dr \in Int, NEW ds \in Int,
           Shifted(Reserved(q), Reserved(q)', MaxPolicies, dr),
           Shifted(Settled(q), Settled(q)', MaxClaims, ds),
           pool'[q].locked = pool[q].locked + dr - ds
    PROVE  Balanced(q)'
<1> DEFINE R == Reserved(q)
           S == Settled(q)
           R2 == Reserved(q)'
           S2 == Settled(q)'
<1>1. R \in [1..MaxPolicies -> Int] /\ S \in [1..MaxClaims -> Int]
  BY ContributionTypes DEF IntContributions
<1>2. R2 \in [1..MaxPolicies -> Int] /\ S2 \in [1..MaxClaims -> Int]
  <2>1. IntContributions'
    BY ContributionTypes, PTL
  <2> QED BY <2>1 DEF IntContributions
<1>3. pool[q].locked = SumTo(R, MaxPolicies) - SumTo(S, MaxClaims)
  BY DEF Balanced
<1>4. Shifted(R, R2, MaxPolicies, dr) /\ Shifted(S, S2, MaxClaims, ds)
  OBVIOUS
<1>5. SUFFICES pool'[q].locked = SumTo(R2, MaxPolicies) - SumTo(S2, MaxClaims)
  BY DEF Balanced
<1> HIDE DEF R, S, R2, S2
<1>6. SumTo(R, MaxPolicies) \in Int /\ SumTo(R2, MaxPolicies) = SumTo(R, MaxPolicies) + dr
  BY <1>1, <1>2, <1>4, SumToShift, BoundsAssumption
<1>7. SumTo(S, MaxClaims) \in Int /\ SumTo(S2, MaxClaims) = SumTo(S, MaxClaims) + ds
  BY <1>1, <1>2, <1>4, SumToShift, BoundsAssumption
<1> QED BY <1>3, <1>6, <1>7
-----------------------------------------------------------------------------
\* A policy that is neither created nor released contributes what it did.
LEMMA ReservedKept ==
    ASSUME TypeOK, References, [Next]_vars, NEW q \in Pools, NEW p \in PolicyIds,
           releases'[p] = releases[p],
           PolicyExists(p) \/ policy'[p] = policy[p]
    PROVE  Reserved(q)'[p] = Reserved(q)[p]
<1>1. policy'[p].pool = policy[p].pool /\ policy'[p].coverage = policy[p].coverage
  BY RowsPersist
<1>2. Reserved(q)[p] = IF policy[p].pool = q
                       THEN policy[p].coverage - policy[p].coverage * releases[p] ELSE 0
  BY DEF Reserved
<1>3. Reserved(q)'[p] = IF policy'[p].pool = q
                        THEN policy'[p].coverage - policy'[p].coverage * releases'[p] ELSE 0
  BY DEF Reserved
<1> QED BY <1>1, <1>2, <1>3

\* A claim that no step rejects or pays contributes what it did, a new one
\* nothing.
LEMMA SettledKept ==
    ASSUME TypeOK, References, NoAuditBeforeCreate, [Next]_vars, TypeOK', References',
           NEW q \in Pools, NEW c \in ClaimIds,
           verdicts'[c].reject = verdicts[c].reject,
           verdicts'[c].payout = verdicts[c].payout
    PROVE  Settled(q)'[c] = Settled(q)[c]
<1>1. Settled(q)[c] = IF claim[c].status # "NONE" /\ policy[claim[c].policy].pool = q
                      THEN claim[c].amount * (verdicts[c].reject + verdicts[c].payout)
                      ELSE 0
  BY DEF Settled, ClaimExists, PolicyOf
<1>2. Settled(q)'[c] = IF claim'[c].status # "NONE" /\ policy'[claim'[c].policy].pool = q
                       THEN claim'[c].amount * (verdicts'[c].reject + verdicts'[c].payout)
                       ELSE 0
  BY DEF Settled, ClaimExists, PolicyOf
<1>3. CASE ClaimExists(c)
  <2>1. claim'[c].status # "NONE" /\ claim'[c].policy = claim[c].policy
        /\ claim'[c].amount = claim[c].amount
    BY <1>3, RowsPersist
  <2>2. policy'[claim[c].policy].pool = policy[claim[c].policy].pool
    BY <1>3, RowsPersist, ClaimFields DEF References
  <2> QED BY <1>1, <1>2, <1>3, <2>1, <2>2 DEF ClaimExists
<1>4. CASE ~ClaimExists(c)
  <2>1. verdicts'[c].reject + verdicts'[c].payout = 0
    BY <1>4 DEF NoAuditBeforeCreate
  <2> DEFINE a == claim'[c].amount
  <2>2. a \in Int
    <3>1. a \in Amounts \cup {0}
      BY DEF TypeOK, Claim, NoClaim
    <3> HIDE DEF a
    <3> QED BY <3>1, AmountsAssumption
  <2>3. Settled(q)'[c] = 0
    <3> HIDE DEF a
    <3>1. a * 0 = 0
      BY <2>2
    <3> QED BY <1>2, <2>1, <3>1 DEF a
  <2> QED BY <1>1, <1>4, <2>3 DEF ClaimExists
<1> QED BY <1>3, <1>4

\* One rejection or payout more adds the amount of the claim once.
LEMMA SettledOnceMore ==
    ASSUME TypeOK, References, [Next]_vars,
           NEW q \in Pools, NEW c \in ClaimIds, ClaimExists(c),
           verdicts'[c].reject + verdicts'[c].payout
              = verdicts[c].reject + verdicts[c].payout + 1
    PROVE  Settled(q)'[c] = Settled(q)[c] + (IF PolicyOf(c).pool = q THEN claim[c].amount ELSE 0)
<1> DEFINE a == claim[c].amount
           n == verdicts[c].reject + verdicts[c].payout
           n2 == verdicts'[c].reject + verdicts'[c].payout
<1>1. Settled(q)[c] = IF PolicyOf(c).pool = q THEN a * n ELSE 0
  BY DEF Settled
<1>2. /\ claim'[c].status # "NONE" /\ claim'[c].policy = claim[c].policy
      /\ claim'[c].amount = a
  BY RowsPersist
<1>3. policy'[claim[c].policy].pool = policy[claim[c].policy].pool
  BY RowsPersist, ClaimFields DEF References
<1>4. Settled(q)'[c] = IF PolicyOf(c).pool = q THEN a * n2 ELSE 0
  <2>1. Settled(q)'[c] = IF claim'[c].status # "NONE" /\ policy'[claim'[c].policy].pool = q
                         THEN claim'[c].amount * n2 ELSE 0
    BY DEF Settled, ClaimExists, PolicyOf
  <2> HIDE DEF a, n2
  <2> QED BY <1>2, <1>3, <2>1 DEF PolicyOf
<1>5. a \in Int /\ n \in Int
  BY ClaimFields DEF TypeOK, Verdicts
<1>6. n2 = n + 1
  OBVIOUS
<1> HIDE DEF a, n, n2
<1>7. a * n2 = a * n + a
  BY <1>5, <1>6
<1> QED BY <1>1, <1>4, <1>5, <1>7 DEF a
-----------------------------------------------------------------------------
\* Contributions that agree everywhere are not shifted.
LEMMA NoShift ==
    ASSUME NEW q \in Pools
    PROVE  /\ (\A p \in PolicyIds : Reserved(q)'[p] = Reserved(q)[p])
                 => Shifted(Reserved(q), Reserved(q)', MaxPolicies, 0)
           /\ (\A c \in ClaimIds : Settled(q)'[c] = Settled(q)[c])
                 => Shifted(Settled(q), Settled(q)', MaxClaims, 0)
<1>1. ASSUME \A p \in PolicyIds : Reserved(q)'[p] = Reserved(q)[p]
      PROVE  Reserved(q)' = Reserved(q)
  <2>1. Reserved(q) = [p \in PolicyIds |-> Reserved(q)[p]]
    BY DEF Reserved
  <2>2. Reserved(q)' = [p \in PolicyIds |-> Reserved(q)'[p]]
    BY DEF Reserved
  <2> QED BY <1>1, <2>1, <2>2
<1>2. ASSUME \A c \in ClaimIds : Settled(q)'[c] = Settled(q)[c]
      PROVE  Settled(q)' = Settled(q)
  <2>1. Settled(q) = [c \in ClaimIds |-> Settled(q)[c]]
    BY DEF Settled
  <2>2. Settled(q)' = [c \in ClaimIds |-> Settled(q)'[c]]
    BY DEF Settled
  <2> QED BY <1>2, <2>1, <2>2
<1> QED BY <1>1, <1>2 DEF Shifted

\* Every step keeps the balance of every pool.
LEMMA BalanceStep ==
    ASSUME TypeOK, References, NoAuditBeforeCreate, TypeOK', References', [Next]_vars,
           NEW q \in Pools, Balanced(q)
    PROVE  Balanced(q)'
<1>1. pool[q] \in Pool /\ pool[q].locked \in Int
  BY DEF TypeOK, Pool
<1>2. ASSUME UNCHANGED <<policy, releases>>
      PROVE  Shifted(Reserved(q), Reserved(q)', MaxPolicies, 0)
  BY <1>2, NoShift, ReservedKept
<1>3. ASSUME \A c \in ClaimIds : /\ verdicts'[c].reject = verdicts[c].reject
                                 /\ verdicts'[c].payout = verdicts[c].payout
      PROVE  Shifted(Settled(q), Settled(q)', MaxClaims, 0)
  BY <1>3, NoShift, SettledKept
<1>4. ASSUME UNCHANGED <<policy, releases, verdicts>>,
             pool'[q].locked = pool[q].locked
      PROVE  Balanced(q)'
  <2>1. pool'[q].locked = pool[q].locked + 0 - 0
    BY <1>1, <1>4
  <2> QED BY <1>2, <1>3, <1>4, <2>1, BalanceByShift
<1>5. ASSUME NEW r \in Reqs, Quiet(r) PROVE Balanced(q)'
  BY <1>4, <1>5, QuietRows DEF rows
<1>6. ASSUME NEW r \in Reqs, CommitPurchase(r) PROVE Balanced(q)'
  <2> DEFINE k == txn[r].coverage
             dr == IF txn[r].pool = q THEN k ELSE 0
  <2>1. txn[r] \in PurchaseTx
    BY <1>6, TxnFields DEF CommitPurchase
  <2>2. k \in Int
    <3>1. k \in Coverages
      BY <2>1 DEF PurchaseTx
    <3> HIDE DEF k
    <3> QED BY <3>1, AmountsAssumption
  <2>3. PICK p \in PolicyIds :
          /\ ~PolicyExists(p)
          /\ policy' = [policy EXCEPT ![p] =
                [status |-> "ACTIVE", user |-> txn[r].user, pool |-> txn[r].pool,
                 coverage |-> txn[r].coverage, deleted |-> FALSE]]
    BY <1>6 DEF CommitPurchase
  <2>4. releases' = releases /\ verdicts' = verdicts
    BY <1>6 DEF CommitPurchase
  <2>5. releases[p] = 0
    BY <2>3 DEF NoAuditBeforeCreate
  <2>6. Reserved(q)[p] = 0
    <3>1. policy[p].coverage = 0
      BY <2>3 DEF TypeOK, PolicyExists, Policy, NoPolicy, OpenStatus, ClosedStatus
    <3> QED BY <2>5, <3>1 DEF Reserved
  <2>7. Reserved(q)'[p] = dr
    <3>1. policy'[p].pool = txn[r].pool /\ policy'[p].coverage = k
      BY <2>3 DEF TypeOK
    <3>2. Reserved(q)'[p] = IF policy'[p].pool = q
                        THEN policy'[p].coverage - policy'[p].coverage * releases'[p] ELSE 0
      BY DEF Reserved
    <3> HIDE DEF k
    <3>3. k - k * 0 = k
      BY <2>2
    <3> QED BY <2>4, <2>5, <3>1, <3>2, <3>3
  <2>8. ASSUME NEW i \in PolicyIds, i # p PROVE Reserved(q)'[i] = Reserved(q)[i]
    <3>1. policy'[i] = policy[i]
      BY <2>3, <2>8 DEF TypeOK
    <3> QED BY <2>4, <3>1, ReservedKept
  <2>9. dr \in Int
    <3> HIDE DEF k
    <3> QED BY <2>2
  <2>10. Shifted(Reserved(q), Reserved(q)', MaxPolicies, dr)
    <3> HIDE DEF dr
    <3>1. Reserved(q)'[p] = Reserved(q)[p] + dr
      BY <2>6, <2>7, <2>9
    <3> QED BY <2>8, <3>1 DEF Shifted, PolicyIds
  <2>11. pool'[q].locked = pool[q].locked + dr - 0
    <3>1. pool' = [pool EXCEPT ![txn[r].pool].locked = @ + k]
      BY <1>6 DEF CommitPurchase, LockCapital
    <3> HIDE DEF k
    <3> QED BY <1>1, <2>2, <3>1 DEF TypeOK, Pool
  <2>12. Shifted(Settled(q), Settled(q)', MaxClaims, 0)
    BY <1>3, <2>4
  <2> HIDE DEF dr
  <2> QED BY <2>9, <2>10, <2>11, <2>12, BalanceByShift
<1>7. ASSUME NEW r \in Reqs, CommitRelease(r) PROVE Balanced(q)'
  <2>1. txn[r] \in ReleaseTx
    BY <1>7, TxnFields DEF CommitRelease
  <2>2. PICK p \in PolicyIds : p = txn[r].policy
    BY <2>1 DEF ReleaseTx
  <2> DEFINE k == policy[p].coverage
             n == releases[p]
             dr == IF policy[p].pool = q THEN -k ELSE 0
  <2>3. PolicyExists(p) /\ policy[p] \in Policy
    BY <1>7, <2>2, RowFields DEF CommitRelease, LivePolicy
  <2>4. k \in Int
    <3>1. k \in Coverages
      BY <2>3 DEF Policy
    <3> HIDE DEF k
    <3> QED BY <3>1, AmountsAssumption
  <2>5. n \in Int /\ releases'[p] = n + 1 /\ verdicts' = verdicts
        /\ \A i \in PolicyIds : i # p => releases'[i] = releases[i]
    BY <1>7, <2>2 DEF CommitRelease, TypeOK
  <2>6. Reserved(q)[p] = IF policy[p].pool = q THEN k - k * n ELSE 0
    BY DEF Reserved
  <2>7. Reserved(q)'[p] = IF policy[p].pool = q THEN k - k * (n + 1) ELSE 0
    <3>1. Reserved(q)'[p] = IF policy'[p].pool = q
                        THEN policy'[p].coverage - policy'[p].coverage * releases'[p] ELSE 0
      BY DEF Reserved
    <3>2. policy'[p].pool = policy[p].pool /\ policy'[p].coverage = k
      BY <2>3, RowsPersist
    <3> HIDE DEF k, n
    <3> QED BY <2>5, <3>1, <3>2
  <2>8. ASSUME NEW i \in PolicyIds, i # p PROVE Reserved(q)'[i] = Reserved(q)[i]
    <3>1. policy'[i] = policy[i]
      BY <1>7, <2>2, <2>8 DEF CommitRelease, TypeOK
    <3> QED BY <2>5, <2>8, <3>1, ReservedKept
  <2>9. dr \in Int
    <3> HIDE DEF k
    <3> QED BY <2>4
  <2>10. Reserved(q)'[p] = Reserved(q)[p] + dr
    <3> HIDE DEF k, n
    <3>1. k * (n + 1) = k * n + k /\ k * n \in Int
      BY <2>4, <2>5
    <3> QED BY <2>4, <2>6, <2>7, <3>1
  <2>11. Shifted(Reserved(q), Reserved(q)', MaxPolicies, dr)
    <3> HIDE DEF dr
    <3> QED BY <2>8, <2>10 DEF Shifted, PolicyIds
  <2>12. pool'[q].locked = pool[q].locked + dr - 0
    <3>1. pool' = [pool EXCEPT ![policy[p].pool].locked = @ - k]
      BY <1>7, <2>2 DEF CommitRelease, UnlockCapital
    <3> HIDE DEF k
    <3> QED BY <1>1, <2>4, <3>1 DEF TypeOK, Pool
  <2>13. Shifted(Settled(q), Settled(q)', MaxClaims, 0)
    BY <1>3, <2>5
  <2> HIDE DEF dr
  <2> QED BY <2>9, <2>11, <2>12, <2>13, BalanceByShift
<1>8. ASSUME NEW r \in Reqs, CommitCreateClaim(r) PROVE Balanced(q)'
  BY <1>4, <1>8 DEF CommitCreateClaim
<1>9. ASSUME NEW r \in Reqs, CommitPay(r) \/ CommitReject(r) PROVE Balanced(q)'
  <2>1. txn[r].claim \in ClaimIds /\ ClaimExists(txn[r].claim)
    BY <1>9, TxnFields DEF CommitPay, CommitReject, AssessAt, PayTx, AssessTx, References
  <2>2. PICK c \in ClaimIds : c = txn[r].claim
    BY <2>1
  <2> DEFINE a == claim[c].amount
             ds == IF PolicyOf(c).pool = q THEN a ELSE 0
  <2>3. ClaimExists(c) /\ a \in Int
    BY <2>1, <2>2, ClaimFields
  <2>4. /\ UNCHANGED <<policy, releases>>
        /\ pool' = [pool EXCEPT ![PolicyOf(c).pool].locked = @ - a]
    BY <1>9, <2>2 DEF CommitPay, CommitReject, UnlockCapital
  <2>5. /\ verdicts'[c].reject + verdicts'[c].payout
             = verdicts[c].reject + verdicts[c].payout + 1
        /\ \A d \in ClaimIds : d # c => verdicts'[d] = verdicts[d]
    <3>1. CASE CommitPay(r)
      BY <3>1, <2>2 DEF CommitPay, TypeOK, Verdicts
    <3>2. CASE CommitReject(r)
      BY <3>2, <2>2 DEF CommitReject, TypeOK, Verdicts
    <3> QED BY <1>9, <3>1, <3>2
  <2>6. Settled(q)'[c] = Settled(q)[c] + ds
    BY <2>3, <2>5, SettledOnceMore
  <2>7. \A d \in ClaimIds : d # c => Settled(q)'[d] = Settled(q)[d]
    BY <2>5, SettledKept
  <2>8. ds \in Int
    <3> HIDE DEF a
    <3> QED BY <2>3
  <2>9. pool'[q].locked = pool[q].locked + 0 - ds
    <3> HIDE DEF a
    <3> QED BY <1>1, <2>3, <2>4 DEF TypeOK, Pool
  <2>10. Shifted(Reserved(q), Reserved(q)', MaxPolicies, 0)
    BY <1>2, <2>4
  <2> HIDE DEF ds
  <2>11. Shifted(Settled(q), Settled(q)', MaxClaims, ds)
    BY <2>6, <2>7 DEF Shifted, ClaimIds
  <2> QED BY <2>8, <2>9, <2>10, <2>11, BalanceByShift
<1>10. ASSUME NEW r \in Reqs, CommitApprove(r) PROVE Balanced(q)'
  <2>1. \A c \in ClaimIds : /\ verdicts'[c].reject = verdicts[c].reject
                            /\ verdicts'[c].payout = verdicts[c].payout
    BY <1>10 DEF CommitApprove, TypeOK, Verdicts
  <2>2. UNCHANGED <<pool, policy, releases>>
    BY <1>10 DEF CommitApprove
  <2>3. pool'[q].locked = pool[q].locked + 0 - 0
    BY <1>1, <2>2
  <2>4. Shifted(Reserved(q), Reserved(q)', MaxPolicies, 0)
    BY <1>2, <2>2
  <2>5. Shifted(Settled(q), Settled(q)', MaxClaims, 0)
    BY <1>3, <2>1
  <2>6. 0 \in Int
    OBVIOUS
  <2> QED BY <2>3, <2>4, <2>5, <2>6, BalanceByShift
<1>11. ASSUME NEW b \in Pools, NEW a \in TopUps, AddCapital(b, a) PROVE Balanced(q)'
  <2>1. pool'[q].locked = pool[q].locked
    BY <1>11 DEF AddCapital, TypeOK, Pool
  <2> QED BY <1>4, <1>11, <2>1 DEF AddCapital
<1>12. ASSUME NEW u \in Users, DeleteUser(u) PROVE Balanced(q)'
  <2>1. UNCHANGED <<pool, releases, verdicts>>
    BY <1>12 DEF DeleteUser
  <2>2. \A p \in PolicyIds : PolicyExists(p) \/ policy'[p] = policy[p]
    BY <1>12 DEF DeleteUser
  <2>3. Shifted(Reserved(q), Reserved(q)', MaxPolicies, 0)
    BY <2>1, <2>2, ReservedKept, NoShift
  <2>4. pool'[q].locked = pool[q].locked + 0 - 0
    BY <1>1, <2>1
  <2>5. Shifted(Settled(q), Settled(q)', MaxClaims, 0)
    BY <1>3, <2>1
  <2>6. 0 \in Int
    OBVIOUS
  <2> QED BY <2>3, <2>4, <2>5, <2>6, BalanceByShift
<1>13. CASE UNCHANGED vars
  BY <1>4, <1>13 DEF vars
<1> QED BY <1>5, <1>6, <1>7, <1>8, <1>9, <1>10, <1>11, <1>12, <1>13, NextCases

-----------------------------------------------------------------------------
\* The initial state has the types and dangles nowhere.
LEMMA InitTypes ==
    ASSUME Init
    PROVE  TypeOK /\ References
<1>1. TypeOK
  BY AmountsAssumption, BoundsAssumption, ScoreAssumption
  DEF Init, TypeOK, Pool, Score, Verdicts, Txn
<1>2. References
  BY DEF Init, References, Idle, ClaimExists, NoClaim
<1> QED BY <1>1, <1>2

\* The rows, the audit counts and the open transactions always have their
\* types, whatever requests interleave: in particular every score stays within
\* 0..1000 and a payout is a claimed amount.
THEOREM TypeCorrect == Spec => []TypeOK
<1>1. Init => TypeOK /\ References
  BY InitTypes
<1>2. TypeOK /\ References /\ [Next]_vars => (TypeOK /\ References)'
  BY TypeStep, ReferencesStep
<1> QED BY <1>1, <1>2, PTL DEF Spec

\* No interleaving of purchases, cancellations, expiries, assessments, payouts,
\* user deletions and aborted transactions makes lockedCapital differ from what
\* the audit trail says was locked and unlocked.
THEOREM PoolBalanced == Spec => []PoolBalance
<1>1. Init => IInv
  <2> SUFFICES ASSUME Init PROVE IInv
    OBVIOUS
  <2>1. TypeOK
    BY InitTypes
  <2>2. References
    BY InitTypes
  <2>3. NoAuditBeforeCreate
    BY DEF Init, NoAuditBeforeCreate
  <2>4. ASSUME NEW q \in Pools
        PROVE pool[q].locked = SumTo(Reserved(q), MaxPolicies) - SumTo(Settled(q), MaxClaims)
    <3>1. Reserved(q) = [i \in 1..MaxPolicies |-> 0]
      BY DEF Init, Reserved, PolicyIds, NoPolicy
    <3>2. Settled(q) = [i \in 1..MaxClaims |-> 0]
      BY DEF Init, Settled, ClaimIds, NoClaim, ClaimExists
    <3>3. SumTo(Reserved(q), MaxPolicies) = 0 /\ SumTo(Settled(q), MaxClaims) = 0
      BY <3>1, <3>2, SumToZero, BoundsAssumption
    <3> QED BY <3>3 DEF Init
  <2> QED BY <2>1, <2>2, <2>3, <2>4 DEF IInv, PoolBalance
<1>2. IInv /\ [Next]_vars => IInv'
  <2> SUFFICES ASSUME IInv, [Next]_vars PROVE IInv'
    OBVIOUS
  <2>1. TypeOK' /\ References' /\ NoAuditBeforeCreate'
    BY TypeStep, ReferencesStep, NoAuditStep DEF IInv
  <2>2. ASSUME NEW q \in Pools PROVE Balanced(q)'
    BY <2>1, BalanceStep DEF IInv, PoolBalance, Balanced
  <2> QED BY <2>1, <2>2 DEF IInv, PoolBalance, Balanced
<1>3. IInv => PoolBalance
  BY DEF IInv
<1> QED BY <1>1, <1>2, <1>3, PTL DEF Spec

\* No step reopens a cancelled or expired policy or changes what it covered,
\* although cancelPolicy and expirePolicy decide on a status they read before.
THEOREM ClosedPoliciesStay == Spec => ClosedStaysClosed
<1>1. TypeOK /\ References /\ [Next]_vars =>
        [\A p \in PolicyIds : policy[p].status \in ClosedStatus
          => /\ policy'[p].status \in ClosedStatus
             /\ policy'[p].pool = policy[p].pool
             /\ policy'[p].coverage = policy[p].coverage]_vars
  <2> SUFFICES ASSUME TypeOK, References, [Next]_vars,
                      NEW p \in PolicyIds, policy[p].status \in ClosedStatus
               PROVE  /\ policy'[p].status \in ClosedStatus
                      /\ policy'[p].pool = policy[p].pool
                      /\ policy'[p].coverage = policy[p].coverage
    OBVIOUS
  <2>1. PolicyExists(p) /\ policy[p] \in Policy
    BY RowFields DEF PolicyExists, ClosedStatus
  <2>2. policy'[p].status \in ClosedStatus
    <3>1. ASSUME NEW r \in Reqs, Quiet(r) PROVE policy' = policy
      BY <3>1, QuietRows DEF rows
    <3>2. ASSUME NEW r \in Reqs, CommitPurchase(r) PROVE policy'[p] = policy[p]
      BY <2>1, <3>2 DEF CommitPurchase, TypeOK
    <3>3. ASSUME NEW r \in Reqs, CommitRelease(r) PROVE policy'[p].status \in ClosedStatus
      <4>1. txn[r] \in ReleaseTx
        BY <3>3, TxnFields DEF CommitRelease
      <4>2. txn[r].to \in ClosedStatus
        BY <4>1 DEF ReleaseTx
      <4>3. policy' = [policy EXCEPT ![txn[r].policy].status = txn[r].to]
        BY <3>3 DEF CommitRelease
      <4>4. CASE p = txn[r].policy
        BY <2>1, <4>2, <4>3, <4>4 DEF TypeOK, Policy
      <4>5. CASE p # txn[r].policy
        BY <4>3, <4>5 DEF TypeOK
      <4> QED BY <4>4, <4>5
    <3>4. ASSUME NEW u \in Users, DeleteUser(u) PROVE policy'[p].status = policy[p].status
      BY <2>1, <3>4 DEF DeleteUser, Policy
    <3>5. ASSUME \/ \E r \in Reqs : \/ CommitCreateClaim(r) \/ CommitPay(r)
                                    \/ CommitApprove(r) \/ CommitReject(r)
                 \/ \E q \in Pools, a \in TopUps : AddCapital(q, a)
                 \/ UNCHANGED vars
          PROVE  policy' = policy
      BY <3>5 DEF CommitCreateClaim, CommitPay, CommitApprove, CommitReject, AddCapital, vars
    <3> QED BY <3>1, <3>2, <3>3, <3>4, <3>5, NextCases
  <2> QED BY <2>1, <2>2, RowsPersist
<1>2. Init => TypeOK /\ References
  BY InitTypes
<1>3. TypeOK /\ References /\ [Next]_vars => (TypeOK /\ References)'
  BY TypeStep, ReferencesStep
<1> QED BY <1>1, <1>2, <1>3, PTL DEF Spec, ClosedStaysClosed

-----------------------------------------------------------------------------
\* Payouts.

\* assessClaim approves only what the policy covers, and neither the amount of a
\* claim nor the coverage of its policy changes before the approval commits.
ApprovedWithin ==
    \A r \in Reqs : txn[r].op = "assess" /\ txn[r].verdict = "APPROVED" => WithinCoverage(txn[r].claim)

\* What an assessment asks about its claim stays what it was.
LEMMA CoverageKept ==
    ASSUME TypeOK, References, [Next]_vars, NEW c \in ClaimIds, ClaimExists(c)
    PROVE  /\ claim'[c].policy = claim[c].policy /\ claim'[c].amount = claim[c].amount
           /\ PolicyOf(c)'.coverage = PolicyOf(c).coverage /\ OwnerOf(c)' = OwnerOf(c)
           /\ WithinCoverage(c)' <=> WithinCoverage(c)
<1>1. claim'[c].policy = claim[c].policy /\ claim'[c].amount = claim[c].amount
  BY RowsPersist
<1>2. claim[c].policy \in PolicyIds /\ PolicyExists(claim[c].policy)
  BY ClaimFields DEF References
<1>3. /\ policy'[claim[c].policy].coverage = policy[claim[c].policy].coverage
      /\ policy'[claim[c].policy].user = policy[claim[c].policy].user
  BY <1>2, RowsPersist
<1> QED BY <1>1, <1>3 DEF PolicyOf, OwnerOf, WithinCoverage

\* An open assessment was open before the step, for the same claim, or begins.
LEMMA AssessmentBefore ==
    ASSUME TypeOK, [Next]_vars, NEW s \in Reqs, txn'[s].op = "assess"
    PROVE  \/ txn'[s] = txn[s]
           \/ \E c \in ClaimIds : BeginAssess(s, c)
           \/ FraudRead(s) \/ FraudWrite(s) \/ VerifyOracle(s) \/ UpdateClaim(s) \/ ReadScore(s)
<1>1. ASSUME NEW r \in Reqs, r # s,
             \/ Quiet(r)
             \/ CommitPurchase(r) \/ CommitRelease(r)
             \/ CommitCreateClaim(r) \/ CommitPay(r)
             \/ CommitApprove(r) \/ CommitReject(r)
      PROVE  txn'[s] = txn[s]
  BY <1>1 DEF TypeOK, Quiet, BeginPurchase, BeginRelease, BeginCreateClaim, BeginPay, BeginAssess, Start,
              FraudRead, FraudWrite, VerifyOracle, UpdateClaim, ReadScore, Abort, CommitPurchase,
              CommitRelease, CommitCreateClaim, CommitPay, CommitApprove, CommitReject, Finish
<1>2. ASSUME \/ \E u \in Users, q \in Pools, a \in Coverages : BeginPurchase(s, u, q, a)
             \/ \E p \in PolicyIds, to \in ClosedStatus : BeginRelease(s, p, to)
             \/ \E p \in PolicyIds, a \in Amounts : BeginCreateClaim(s, p, a)
             \/ \E c \in ClaimIds : BeginPay(s, c)
             \/ Abort(s)
             \/ CommitPurchase(s) \/ CommitRelease(s)
             \/ CommitCreateClaim(s) \/ CommitPay(s)
             \/ CommitApprove(s) \/ CommitReject(s)
      PROVE  FALSE
  BY <1>2 DEF TypeOK, BeginPurchase, BeginRelease, BeginCreateClaim, BeginPay, Start, Abort, CommitPurchase,
              CommitRelease, CommitCreateClaim, CommitPay, CommitApprove, CommitReject, Finish, Idle
<1>3. ASSUME \/ \E q \in Pools, a \in TopUps : AddCapital(q, a)
             \/ \E u \in Users : DeleteUser(u)
             \/ UNCHANGED vars
      PROVE  txn' = txn
  BY <1>3 DEF AddCapital, DeleteUser, vars
<1> QED BY <1>1, <1>2, <1>3, NextCases DEF Quiet

LEMMA ApprovedStep ==
    ASSUME TypeOK, References, ApprovedWithin, [Next]_vars
    PROVE  ApprovedWithin'
<1> SUFFICES ASSUME NEW s \in Reqs, txn'[s].op = "assess", txn'[s].verdict = "APPROVED"
             PROVE  WithinCoverage(txn[s].claim)' 
  BY DEF ApprovedWithin
<1>1. /\ txn[s].op = "assess" /\ txn'[s].claim = txn[s].claim
      /\ txn[s].verdict = "APPROVED" \/ WithinCoverage(txn[s].claim)
  <2>1. CASE \E c \in ClaimIds : BeginAssess(s, c)
    <3>1. txn'[s].verdict = "REJECTED"
      BY <2>1 DEF BeginAssess, Start, Assessment, TypeOK
    <3> QED BY <3>1
  <2>2. CASE FraudRead(s) \/ FraudWrite(s) \/ UpdateClaim(s) \/ ReadScore(s)
    <3>1. txn[s] \in AssessTx
      BY <2>2, TxnFields DEF FraudRead, FraudWrite, UpdateClaim, ReadScore, AssessAt
    <3> QED BY <2>2, <3>1 DEF FraudRead, FraudWrite, UpdateClaim, ReadScore, AssessAt, AssessTx, TypeOK
  <2>3. CASE VerifyOracle(s)
    <3>1. txn[s] \in AssessTx
      BY <2>3, TxnFields DEF VerifyOracle, AssessAt
    <3> QED BY <2>3, <3>1 DEF VerifyOracle, AssessAt, AssessTx, TypeOK
  <2>4. CASE txn'[s] = txn[s]
    BY <2>4
  <2> QED BY <2>1, <2>2, <2>3, <2>4, AssessmentBefore
<1>2. PICK c : c = txn[s].claim
  OBVIOUS
<1>3. c \in ClaimIds /\ ClaimExists(c)
  BY <1>1, <1>2, TxnFields DEF References, AssessTx
<1>4. WithinCoverage(c)
  BY <1>1, <1>2 DEF ApprovedWithin
<1>5. WithinCoverage(c)'
  BY <1>3, <1>4, CoverageKept
<1> QED BY <1>1, <1>2, <1>5 DEF WithinCoverage, PolicyOf

\* The payout of claim c is the claimed amount, covered and audited.
PaidWithin(c) ==
    claim[c].payout # 0 => /\ claim[c].payout = claim[c].amount
                           /\ claim[c].payout <= PolicyOf(c).coverage
                           /\ verdicts[c].approve > 0

LEMMA PayoutStep ==
    ASSUME TypeOK, References, ApprovedWithin, [Next]_vars, NEW c \in ClaimIds, PaidWithin(c)
    PROVE  PaidWithin(c)'
<1>1. claim[c].payout = 0 \/ ClaimExists(c)
  BY DEF TypeOK, ClaimExists, NoClaim, Claim, ClaimStatus
<1>2. ClaimExists(c) => claim'[c].amount = claim[c].amount /\ PolicyOf(c)'.coverage = PolicyOf(c).coverage
  BY CoverageKept
<1>3. verdicts[c] \in Verdicts
  BY DEF TypeOK
<1>4. ASSUME claim'[c].payout = claim[c].payout, verdicts'[c].approve = verdicts[c].approve
      PROVE  PaidWithin(c)'
  BY <1>1, <1>2, <1>4 DEF PaidWithin
<1>5. ASSUME NEW r \in Reqs, Quiet(r) PROVE PaidWithin(c)'
  BY <1>4, <1>5, QuietRows DEF rows
<1>6. ASSUME \/ \E r \in Reqs : CommitPurchase(r) \/ CommitRelease(r)
             \/ \E q \in Pools, a \in TopUps : AddCapital(q, a)
             \/ UNCHANGED vars
      PROVE  PaidWithin(c)'
  BY <1>4, <1>6 DEF CommitPurchase, CommitRelease, AddCapital, vars
<1>7. ASSUME NEW r \in Reqs, CommitCreateClaim(r) PROVE PaidWithin(c)'
  <2>1. claim'[c] = claim[c] \/ claim'[c].payout = 0
    BY <1>7 DEF CommitCreateClaim, TypeOK
  <2>2. verdicts' = verdicts
    BY <1>7 DEF CommitCreateClaim
  <2>3. CASE claim'[c] = claim[c]
    BY <1>4, <2>2, <2>3
  <2>4. CASE claim'[c].payout = 0
    BY <2>4 DEF PaidWithin
  <2> QED BY <2>1, <2>3, <2>4
<1>8. ASSUME NEW r \in Reqs, CommitPay(r) \/ CommitReject(r) PROVE PaidWithin(c)'
  <2>1. PICK d : d = txn[r].claim
    OBVIOUS
  <2>2. d \in ClaimIds /\ ClaimExists(d)
    BY <1>8, <2>1, TxnFields DEF CommitPay, CommitReject, AssessAt, PayTx, AssessTx, References
  <2>3. claim[d] \in Claim /\ verdicts[d] \in Verdicts
    BY <2>2, RowFields DEF TypeOK
  <2>4. claim'[c].payout = claim[c].payout
    BY <1>8, <2>1, <2>2, <2>3 DEF CommitPay, CommitReject, TypeOK, Claim
  <2>5. verdicts'[c].approve = verdicts[c].approve
    <3>1. CASE CommitPay(r)
      <4>1. verdicts' = [verdicts EXCEPT ![d].payout = @ + 1]
        BY <2>1, <3>1 DEF CommitPay
      <4> QED BY <1>3, <2>2, <2>3, <4>1 DEF TypeOK, Verdicts
    <3>2. CASE CommitReject(r)
      <4>1. verdicts' = [verdicts EXCEPT ![d].reject = @ + 1]
        BY <2>1, <3>2 DEF CommitReject
      <4> QED BY <1>3, <2>2, <2>3, <4>1 DEF TypeOK, Verdicts
    <3> QED BY <1>8, <3>1, <3>2
  <2> QED BY <1>4, <2>4, <2>5
<1>9. ASSUME NEW r \in Reqs, CommitApprove(r) PROVE PaidWithin(c)'
  <2>1. PICK d : d = txn[r].claim
    OBVIOUS
  <2>2. d \in ClaimIds /\ ClaimExists(d) /\ WithinCoverage(d)
    BY <1>9, <2>1, TxnFields DEF CommitApprove, AssessAt, AssessTx, References, ApprovedWithin
  <2>3. claim[d] \in Claim /\ verdicts[d] \in Verdicts /\ verdicts[d].approve \in Nat
    BY <2>2, RowFields DEF TypeOK, Verdicts
  <2>4. /\ claim' = [claim EXCEPT ![d].status = "APPROVED", ![d].payout = claim[d].amount]
        /\ verdicts' = [verdicts EXCEPT ![d].approve = @ + 1]
    BY <1>9, <2>1 DEF CommitApprove
  <2>5. CASE c # d
    <3>1. claim'[c] = claim[c] /\ verdicts'[c] = verdicts[c]
      BY <2>4, <2>5 DEF TypeOK
    <3> QED BY <1>4, <3>1
  <2>6. CASE c = d
    <3>1. claim'[c].payout = claim[c].amount
      BY <2>2, <2>3, <2>4, <2>6 DEF TypeOK, Claim
    <3>2. verdicts'[c].approve > 0
      BY <2>2, <2>3, <2>4, <2>6 DEF TypeOK, Verdicts
    <3> QED BY <1>2, <2>2, <2>6, <3>1, <3>2 DEF PaidWithin, WithinCoverage
  <2> QED BY <2>5, <2>6
<1>10. ASSUME NEW u \in Users, DeleteUser(u) PROVE PaidWithin(c)'
  <2>1. claim'[c].payout = claim[c].payout
    BY <1>10, RowFields DEF DeleteUser, Claim
  <2> QED BY <1>4, <1>10, <2>1 DEF DeleteUser
<1> QED BY <1>5, <1>6, <1>7, <1>8, <1>9, <1>10, NextCases

\* An approved claim is paid out with what it claims and never with more than
\* its policy covers, although assessClaim checks the limit on rows that it read
\* earlier and locks none of them.
THEOREM PayoutsCovered == Spec => []PayoutWithinCoverage
<1> DEFINE Inv == TypeOK /\ References /\ ApprovedWithin /\ \A c \in ClaimIds : PaidWithin(c)
<1>1. Init => Inv
  <2> SUFFICES ASSUME Init PROVE Inv
    OBVIOUS
  <2>1. ApprovedWithin
    BY DEF Init, ApprovedWithin, Idle
  <2>2. \A c \in ClaimIds : PaidWithin(c)
    BY DEF Init, PaidWithin, NoClaim
  <2> QED BY <2>1, <2>2, InitTypes
<1>2. Inv /\ [Next]_vars => Inv'
  <2> SUFFICES ASSUME Inv, [Next]_vars PROVE Inv'
    OBVIOUS
  <2>1. TypeOK' /\ References' /\ ApprovedWithin'
    BY TypeStep, ReferencesStep, ApprovedStep
  <2>2. \A c \in ClaimIds : PaidWithin(c)'
    BY PayoutStep
  <2> QED BY <2>1, <2>2 DEF ClaimIds
<1>3. Inv => PayoutWithinCoverage
  BY DEF PayoutWithinCoverage, PaidWithin
<1> QED BY <1>1, <1>2, <1>3, PTL DEF Spec

-----------------------------------------------------------------------------
\* How often a row is settled.  The requests that may still settle a row count
\* against the same budget as those that did.

N == Cardinality(Reqs)
Releasing(p) == {r \in Reqs : txn[r].op = "release" /\ txn[r].policy = p}
Assessing(c) == {r \in Reqs : txn[r].op = "assess" /\ txn[r].claim = c}
Paying(c) == {r \in Reqs : txn[r].op = "pay" /\ txn[r].claim = c}
Settling(c) == {r \in Reqs : txn[r].op \in {"pay", "assess"} /\ txn[r].claim = c}
Decided(c) == verdicts[c].approve + verdicts[c].reject

ReleaseBudget(p) ==
    /\ releases[p] + Cardinality(Releasing(p)) <= N
    /\ policy[p].status \notin ClosedStatus => releases[p] = 0

DecideBudget(c) ==
    /\ Decided(c) + Cardinality(Assessing(c)) <= N
    /\ claim[c].status \in {"NONE", "PENDING"} => Decided(c) = 0

\* A claim that is PAID lets neither a payout nor an assessment start, until a
\* verdict overwrites it, by a request that then does not pay.
PayBudget(c) ==
    LET before == (N - 1) * Decided(c) IN
    /\ claim[c].status # "PAID" => verdicts[c].payout <= before
    /\ claim[c].status = "PAID" => verdicts[c].payout + Cardinality(Settling(c)) <= before + N

\* A set of requests is finite and no larger than all of them; removing one of
\* its members makes it smaller.
LEMMA RequestSets ==
    /\ N \in Nat
    /\ \A S \in SUBSET Reqs :
          /\ Cardinality(S) \in Nat /\ Cardinality(S) <= N
          /\ \A T \in SUBSET S : Cardinality(T) <= Cardinality(S)
          /\ \A T \in SUBSET S : \A r \in S \ T : Cardinality(T) + 1 <= Cardinality(S)
<1>1. IsFiniteSet(Reqs)
  BY ReqsAssumption DEF ReqsAssumption
<1>2. N \in Nat
  BY <1>1, FS_CardinalityType DEF N
<1>3. ASSUME NEW S \in SUBSET Reqs
      PROVE  /\ IsFiniteSet(S) /\ Cardinality(S) \in Nat /\ Cardinality(S) <= N
             /\ \A T \in SUBSET S : IsFiniteSet(T) /\ Cardinality(T) \in Nat
                                   /\ Cardinality(T) <= Cardinality(S)
  BY <1>1, FS_Subset, FS_CardinalityType DEF N
<1>4. ASSUME NEW S \in SUBSET Reqs, NEW T \in SUBSET S, NEW r \in S \ T
      PROVE  Cardinality(T) + 1 <= Cardinality(S)
  <2>1. IsFiniteSet(T) /\ Cardinality(T) \in Nat
    BY <1>3
  <2>2. Cardinality(T \cup {r}) = Cardinality(T) + 1
    BY <2>1, FS_AddElement
  <2>3. T \cup {r} \in SUBSET S
    OBVIOUS
  <2> QED BY <1>3, <2>2, <2>3
<1> QED BY <1>2, <1>3, <1>4

\* What a request reads before its transaction changes.
Began(t) ==
    \/ t.op \in {"purchase", "create"}
    \/ t.op = "release" /\ policy[t.policy].status \notin ClosedStatus
    \/ t.op = "pay" /\ claim[t.claim].status # "PAID"
    \/ t.op = "assess" /\ claim[t.claim].status = "PENDING"

\* A transaction of a request changes when it ends, when it begins, with what it
\* reads then, and when an assessment goes on.
LEMMA TxnChange ==
    ASSUME TypeOK, [Next]_vars, NEW s \in Reqs
    PROVE  \/ txn'[s] = txn[s]
           \/ txn'[s] = Idle
           \/ /\ UNCHANGED rows
              /\ \E t : txn'[s] = t /\ Began(t)
           \/ /\ txn[s].op = "assess" /\ txn'[s].op = "assess"
              /\ txn'[s].claim = txn[s].claim
<1>1. ASSUME NEW r \in Reqs, CommitPurchase(r) \/ CommitRelease(r) \/ CommitCreateClaim(r)
                             \/ CommitPay(r) \/ CommitApprove(r) \/ CommitReject(r) \/ Abort(r)
      PROVE  txn'[s] = txn[s] \/ txn'[s] = Idle
  <2>1. txn' = [txn EXCEPT ![r] = Idle]
    BY <1>1 DEF CommitPurchase, CommitRelease, CommitCreateClaim, CommitPay, CommitApprove,
                CommitReject, Abort, Finish
  <2> QED BY <2>1 DEF TypeOK
<1>2. ASSUME NEW r \in Reqs, NEW t, Began(t), UNCHANGED rows, Start(r, t)
      PROVE  \/ txn'[s] = txn[s]
             \/ UNCHANGED rows /\ \E u : txn'[s] = u /\ Began(u)
  <2>1. txn' = [txn EXCEPT ![r] = t]
    BY <1>2 DEF Start
  <2>2. txn'[s] = txn[s] \/ txn'[s] = t
    BY <2>1 DEF TypeOK
  <2> QED BY <1>2, <2>2
<1>3. ASSUME NEW r \in Reqs, NEW u \in Users, NEW q \in Pools, NEW a \in Coverages,
             BeginPurchase(r, u, q, a)
      PROVE  \/ txn'[s] = txn[s]
             \/ UNCHANGED rows /\ \E t : txn'[s] = t /\ Began(t)
  <2>1. PICK t : t = [op |-> "purchase", user |-> u, pool |-> q, coverage |-> a]
    OBVIOUS
  <2>2. Began(t) /\ UNCHANGED rows /\ Start(r, t)
    BY <1>3, <2>1 DEF BeginPurchase, Began
  <2> QED BY <1>2, <2>2
<1>4. ASSUME NEW r \in Reqs, NEW p \in PolicyIds, NEW a \in Amounts, BeginCreateClaim(r, p, a)
      PROVE  \/ txn'[s] = txn[s]
             \/ UNCHANGED rows /\ \E t : txn'[s] = t /\ Began(t)
  <2>1. PICK t : t = [op |-> "create", policy |-> p, amount |-> a]
    OBVIOUS
  <2>2. Began(t) /\ UNCHANGED rows /\ Start(r, t)
    BY <1>4, <2>1 DEF BeginCreateClaim, Began
  <2> QED BY <1>2, <2>2
<1>5. ASSUME NEW r \in Reqs, NEW p \in PolicyIds, NEW to \in ClosedStatus, BeginRelease(r, p, to)
      PROVE  \/ txn'[s] = txn[s]
             \/ UNCHANGED rows /\ \E t : txn'[s] = t /\ Began(t)
  <2>1. PICK t : t = [op |-> "release", policy |-> p, to |-> to]
    OBVIOUS
  <2>2. Began(t) /\ UNCHANGED rows /\ Start(r, t)
    BY <1>5, <2>1 DEF BeginRelease, Began
  <2> QED BY <1>2, <2>2
<1>6. ASSUME NEW r \in Reqs, NEW c \in ClaimIds, BeginPay(r, c)
      PROVE  \/ txn'[s] = txn[s]
             \/ UNCHANGED rows /\ \E t : txn'[s] = t /\ Began(t)
  <2>1. PICK t : t = [op |-> "pay", claim |-> c]
    OBVIOUS
  <2>2. Began(t) /\ UNCHANGED rows /\ Start(r, t)
    BY <1>6, <2>1 DEF BeginPay, Began
  <2> QED BY <1>2, <2>2
<1>7. ASSUME NEW r \in Reqs, NEW c \in ClaimIds, BeginAssess(r, c)
      PROVE  \/ txn'[s] = txn[s]
             \/ UNCHANGED rows /\ \E t : txn'[s] = t /\ Began(t)
  <2>1. PICK t : t.op = "assess" /\ t.claim = c /\ Start(r, t)
    BY <1>7 DEF BeginAssess, Assessment
  <2>2. Began(t) /\ UNCHANGED rows
    BY <1>7, <2>1 DEF BeginAssess, Began
  <2> QED BY <1>2, <2>1, <2>2
<1>8. ASSUME NEW r \in Reqs,
             FraudRead(r) \/ FraudWrite(r) \/ VerifyOracle(r) \/ UpdateClaim(r) \/ ReadScore(r)
      PROVE  \/ txn'[s] = txn[s]
             \/ /\ txn[s].op = "assess" /\ txn'[s].op = "assess"
                /\ txn'[s].claim = txn[s].claim
  <2>1. txn[r] \in AssessTx /\ txn[r].op = "assess"
    BY <1>8, TxnFields DEF FraudRead, FraudWrite, VerifyOracle, UpdateClaim, ReadScore, AssessAt
  <2> QED BY <1>8, <2>1 DEF FraudRead, FraudWrite, VerifyOracle, UpdateClaim, ReadScore, AssessTx, TypeOK
<1>9. ASSUME \/ \E q \in Pools, a \in TopUps : AddCapital(q, a)
             \/ \E u \in Users : DeleteUser(u)
             \/ UNCHANGED vars
      PROVE  txn'[s] = txn[s]
  BY <1>9 DEF AddCapital, DeleteUser, vars
<1> QED BY <1>1, <1>3, <1>4, <1>5, <1>6, <1>7, <1>8, <1>9, NextCases DEF Quiet

\* A closed policy stays closed, whatever the step.
LEMMA ClosedStep ==
    ASSUME TypeOK, References, [Next]_vars, NEW p \in PolicyIds, policy[p].status \in ClosedStatus
    PROVE  policy'[p].status \in ClosedStatus
<1>1. policy[p] \in Policy
  BY RowFields DEF PolicyExists, ClosedStatus
<1>2. ASSUME NEW r \in Reqs, CommitPurchase(r) PROVE policy'[p] = policy[p]
  BY <1>2 DEF CommitPurchase, PolicyExists, ClosedStatus, TypeOK
<1>3. ASSUME NEW r \in Reqs, CommitRelease(r) PROVE policy'[p].status \in ClosedStatus
  <2>1. txn[r].to \in ClosedStatus
    BY <1>3, TxnFields DEF CommitRelease, ReleaseTx
  <2>2. policy' = [policy EXCEPT ![txn[r].policy].status = txn[r].to]
    BY <1>3 DEF CommitRelease
  <2> QED BY <1>1, <2>1, <2>2 DEF TypeOK, Policy
<1>4. ASSUME NEW u \in Users, DeleteUser(u) PROVE policy'[p].status = policy[p].status
  BY <1>1, <1>4 DEF DeleteUser, Policy
<1>5. ASSUME \/ \E r \in Reqs : \/ Quiet(r) \/ CommitCreateClaim(r) \/ CommitPay(r)
                                \/ CommitApprove(r) \/ CommitReject(r)
             \/ \E q \in Pools, a \in TopUps : AddCapital(q, a)
             \/ UNCHANGED vars
      PROVE  policy' = policy
  BY <1>5, QuietRows DEF CommitCreateClaim, CommitPay, CommitApprove, CommitReject, AddCapital, vars, rows
<1> QED BY <1>2, <1>3, <1>4, <1>5, NextCases

LEMMA ReleaseBudgetStep ==
    ASSUME TypeOK, References, [Next]_vars, NEW p \in PolicyIds, ReleaseBudget(p)
    PROVE  ReleaseBudget(p)'
<1> DEFINE S == Releasing(p)
           T == {r \in Reqs : txn'[r].op = "release" /\ txn'[r].policy = p}
<1>1. Releasing(p)' = T /\ S \in SUBSET Reqs /\ T \in SUBSET Reqs
  BY DEF Releasing
<1>2. /\ releases[p] \in Nat /\ N \in Nat /\ Cardinality(S) \in Nat /\ Cardinality(T) \in Nat
      /\ Cardinality(T) <= N
  BY <1>1, RequestSets DEF TypeOK
<1>3. N' = N
  BY DEF N
<1>4. \/ T \subseteq S
      \/ policy[p].status \notin ClosedStatus /\ UNCHANGED rows
  <2> SUFFICES ASSUME NEW s \in Reqs, txn'[s].op = "release", txn'[s].policy = p, s \notin S
               PROVE  policy[p].status \notin ClosedStatus /\ UNCHANGED rows
    BY DEF Releasing
  <2>1. txn'[s] # txn[s]
    BY DEF Releasing
  <2> QED BY <2>1, TxnChange DEF Began, Idle
<1>5. CASE policy[p].status \notin ClosedStatus /\ UNCHANGED rows
  <2>1. releases'[p] = 0 /\ policy' = policy
    BY <1>5 DEF rows, ReleaseBudget
  <2> QED BY <1>1, <1>2, <1>3, <2>1 DEF ReleaseBudget
<1>6. ASSUME T \subseteq S, releases'[p] = releases[p] PROVE ReleaseBudget(p)'
  <2>1. Cardinality(T) <= Cardinality(S)
    BY <1>1, <1>6, RequestSets
  <2>2. releases'[p] + Cardinality(T) <= N
    BY <1>2, <1>6, <2>1 DEF ReleaseBudget
  <2>3. policy'[p].status \notin ClosedStatus => releases'[p] = 0
    BY <1>6, ClosedStep DEF ReleaseBudget
  <2> QED BY <1>1, <1>3, <2>2, <2>3 DEF ReleaseBudget, ClosedStatus
<1>7. ASSUME T \subseteq S, NEW r \in Reqs, CommitRelease(r), txn[r].policy = p
      PROVE  ReleaseBudget(p)'
  <2>1. r \in S /\ r \notin T
    BY <1>7 DEF Releasing, CommitRelease, Finish, Idle, TypeOK
  <2>2. Cardinality(T) + 1 <= Cardinality(S)
    BY <1>1, <1>7, <2>1, RequestSets
  <2>3. releases'[p] = releases[p] + 1
    BY <1>7 DEF CommitRelease, TypeOK
  <2>4. releases'[p] + Cardinality(T) <= N
    BY <1>2, <2>2, <2>3 DEF ReleaseBudget
  <2>5. policy'[p].status \in ClosedStatus
    <3>1. txn[r].to \in ClosedStatus
      BY <1>7, TxnFields DEF CommitRelease, ReleaseTx
    <3>2. policy[p] \in Policy
      BY <1>7, RowFields DEF CommitRelease, LivePolicy
    <3> QED BY <1>7, <3>1, <3>2 DEF CommitRelease, TypeOK, Policy
  <2> QED BY <1>1, <1>3, <2>4, <2>5 DEF ReleaseBudget, ClosedStatus
<1>8. ASSUME ~\E r \in Reqs : CommitRelease(r) /\ txn[r].policy = p
      PROVE  releases'[p] = releases[p]
  <2>1. ASSUME NEW r \in Reqs, CommitRelease(r) PROVE releases'[p] = releases[p]
    <3>1. PICK o : o = txn[r].policy
      OBVIOUS
    <3>2. o # p
      BY <1>8, <2>1, <3>1
    <3>3. releases' = [releases EXCEPT ![o] = @ + 1]
      BY <2>1, <3>1 DEF CommitRelease
    <3> QED BY <3>2, <3>3 DEF TypeOK
  <2>2. ASSUME NEW r \in Reqs, Quiet(r) PROVE releases' = releases
    BY <2>2, QuietRows DEF rows
  <2>3. ASSUME NEW r \in Reqs, \/ CommitPurchase(r) \/ CommitCreateClaim(r) \/ CommitPay(r)
                               \/ CommitApprove(r) \/ CommitReject(r)
        PROVE  releases' = releases
    BY <2>3 DEF CommitPurchase, CommitCreateClaim, CommitPay, CommitApprove, CommitReject
  <2>4. ASSUME \/ \E q \in Pools, a \in TopUps : AddCapital(q, a)
               \/ \E u \in Users : DeleteUser(u)
               \/ UNCHANGED vars
        PROVE  releases' = releases
    BY <2>4 DEF AddCapital, DeleteUser, vars
  <2> QED BY <2>1, <2>2, <2>3, <2>4, NextCases
<1> QED BY <1>4, <1>5, <1>6, <1>7, <1>8

\* What a step does to a claim: nothing, its creation, its deletion, a payout or
\* a verdict, by a request that ends with it.
LEMMA ClaimChange ==
    ASSUME TypeOK, References, [Next]_vars, NEW c \in ClaimIds
    PROVE  \/ claim'[c].status = claim[c].status /\ verdicts'[c] = verdicts[c]
           \/ claim[c].status = "NONE" /\ claim'[c].status = "PENDING" /\ verdicts'[c] = verdicts[c]
           \/ \E r \in Paying(c) :
                 /\ txn' = [txn EXCEPT ![r] = Idle]
                 /\ claim'[c].status = "PAID" /\ claim[c].status # "NONE"
                 /\ verdicts'[c].payout = verdicts[c].payout + 1
                 /\ Decided(c)' = Decided(c)
           \/ \E r \in Assessing(c) :
                 /\ txn' = [txn EXCEPT ![r] = Idle]
                 /\ claim'[c].status \in {"APPROVED", "REJECTED"} /\ claim[c].status # "NONE"
                 /\ verdicts'[c].payout = verdicts[c].payout
                 /\ Decided(c)' = Decided(c) + 1
<1>1. /\ verdicts[c] \in Verdicts
      /\ verdicts[c].approve \in Nat /\ verdicts[c].reject \in Nat /\ verdicts[c].payout \in Nat
  BY DEF TypeOK, Verdicts
<1>2. ASSUME NEW r \in Reqs, CommitCreateClaim(r)
      PROVE  /\ verdicts'[c] = verdicts[c]
             /\ \/ claim'[c].status = claim[c].status
                \/ claim[c].status = "NONE" /\ claim'[c].status = "PENDING"
  BY <1>2 DEF CommitCreateClaim, ClaimExists, TypeOK
<1>3. ASSUME NEW r \in Reqs, CommitPay(r) \/ CommitApprove(r) \/ CommitReject(r), txn[r].claim # c
      PROVE  claim'[c].status = claim[c].status /\ verdicts'[c] = verdicts[c]
  BY <1>3 DEF CommitPay, CommitApprove, CommitReject, TypeOK
<1>4. ASSUME NEW r \in Reqs, c = txn[r].claim, CommitPay(r)
      PROVE  /\ r \in Paying(c) /\ txn' = [txn EXCEPT ![r] = Idle]
             /\ claim'[c].status = "PAID" /\ claim[c].status # "NONE"
             /\ verdicts'[c].payout = verdicts[c].payout + 1
             /\ Decided(c)' = Decided(c)
  <2>1. claim[c] \in Claim /\ claim[c].status # "NONE"
    BY <1>4, RowFields DEF CommitPay, LiveClaim, ClaimExists
  <2>2. claim'[c].status = "PAID"
    BY <1>4, <2>1 DEF CommitPay, TypeOK, Claim
  <2>3. /\ verdicts'[c].payout = verdicts[c].payout + 1
        /\ verdicts'[c].approve = verdicts[c].approve /\ verdicts'[c].reject = verdicts[c].reject
    BY <1>1, <1>4 DEF CommitPay, TypeOK, Verdicts
  <2> QED BY <1>4, <2>1, <2>2, <2>3 DEF CommitPay, Finish, Paying, Decided
<1>5. ASSUME NEW r \in Reqs, c = txn[r].claim, CommitApprove(r) \/ CommitReject(r)
      PROVE  /\ r \in Assessing(c) /\ txn' = [txn EXCEPT ![r] = Idle]
             /\ claim'[c].status \in {"APPROVED", "REJECTED"} /\ claim[c].status # "NONE"
             /\ verdicts'[c].payout = verdicts[c].payout
             /\ Decided(c)' = Decided(c) + 1
  <2>1. claim[c] \in Claim /\ claim[c].status # "NONE"
    BY <1>5, RowFields DEF CommitApprove, CommitReject, AssessAt, References, ClaimExists
  <2>2. CASE CommitApprove(r)
    <3>1. claim'[c].status = "APPROVED"
      BY <1>5, <2>1, <2>2 DEF CommitApprove, TypeOK, Claim
    <3>2. /\ verdicts'[c].approve = verdicts[c].approve + 1
          /\ verdicts'[c].payout = verdicts[c].payout /\ verdicts'[c].reject = verdicts[c].reject
      BY <1>1, <1>5, <2>2 DEF CommitApprove, TypeOK, Verdicts
    <3>3. Decided(c)' = Decided(c) + 1
      BY <1>1, <3>2 DEF Decided
    <3> QED BY <1>5, <2>1, <2>2, <3>1, <3>2, <3>3 DEF CommitApprove, AssessAt, Finish, Assessing
  <2>3. CASE CommitReject(r)
    <3>1. claim'[c].status = "REJECTED"
      BY <1>5, <2>1, <2>3 DEF CommitReject, TypeOK, Claim
    <3>2. /\ verdicts'[c].reject = verdicts[c].reject + 1
          /\ verdicts'[c].payout = verdicts[c].payout /\ verdicts'[c].approve = verdicts[c].approve
      BY <1>1, <1>5, <2>3 DEF CommitReject, TypeOK, Verdicts
    <3>3. Decided(c)' = Decided(c) + 1
      BY <1>1, <3>2 DEF Decided
    <3> QED BY <1>5, <2>1, <2>3, <3>1, <3>2, <3>3 DEF CommitReject, AssessAt, Finish, Assessing
  <2> QED BY <1>5, <2>2, <2>3
<1>6. ASSUME NEW u \in Users, DeleteUser(u)
      PROVE  claim'[c].status = claim[c].status /\ verdicts'[c] = verdicts[c]
  BY <1>6, RowFields DEF DeleteUser, Claim
<1>7. ASSUME \/ \E r \in Reqs : Quiet(r) \/ CommitPurchase(r) \/ CommitRelease(r)
             \/ \E q \in Pools, a \in TopUps : AddCapital(q, a)
             \/ UNCHANGED vars
      PROVE  claim' = claim /\ verdicts' = verdicts
  BY <1>7, QuietRows DEF CommitPurchase, CommitRelease, AddCapital, vars, rows
<1> QED BY <1>2, <1>3, <1>4, <1>5, <1>6, <1>7, NextCases

LEMMA DecideBudgetStep ==
    ASSUME TypeOK, References, [Next]_vars, NEW c \in ClaimIds, DecideBudget(c)
    PROVE  DecideBudget(c)'
<1> DEFINE S == Assessing(c)
           T == {r \in Reqs : txn'[r].op = "assess" /\ txn'[r].claim = c}
<1>1. Assessing(c)' = T /\ S \in SUBSET Reqs /\ T \in SUBSET Reqs
  BY DEF Assessing
<1>2. /\ Decided(c) \in Nat /\ N \in Nat /\ Cardinality(S) \in Nat /\ Cardinality(T) \in Nat
      /\ Cardinality(T) <= N
  BY <1>1, RequestSets DEF TypeOK, Verdicts, Decided
<1>3. N' = N
  BY DEF N
<1>4. \/ T \subseteq S
      \/ claim[c].status = "PENDING" /\ UNCHANGED rows
  <2> SUFFICES ASSUME NEW s \in Reqs, txn'[s].op = "assess", txn'[s].claim = c, s \notin S
               PROVE  claim[c].status = "PENDING" /\ UNCHANGED rows
    BY DEF Assessing
  <2>1. txn'[s] # txn[s] /\ ~(txn[s].op = "assess" /\ txn[s].claim = c)
    BY DEF Assessing
  <2> QED BY <2>1, TxnChange DEF Began, Idle
<1>5. CASE claim[c].status = "PENDING" /\ UNCHANGED rows
  <2>1. Decided(c)' = 0 /\ claim' = claim
    BY <1>5 DEF rows, DecideBudget, Decided
  <2> QED BY <1>1, <1>2, <1>3, <2>1 DEF DecideBudget
<1>6. ASSUME T \subseteq S, Decided(c)' = Decided(c),
             claim'[c].status \in {"NONE", "PENDING"} => claim[c].status \in {"NONE", "PENDING"}
      PROVE  DecideBudget(c)'
  <2>1. Cardinality(T) <= Cardinality(S)
    BY <1>1, <1>6, RequestSets
  <2>2. Decided(c)' + Cardinality(T) <= N
    BY <1>2, <1>6, <2>1 DEF DecideBudget
  <2> QED BY <1>1, <1>3, <1>6, <2>2 DEF DecideBudget
<1>7. ASSUME T \subseteq S, NEW r \in Assessing(c), txn' = [txn EXCEPT ![r] = Idle],
             claim'[c].status \in {"APPROVED", "REJECTED"}, Decided(c)' = Decided(c) + 1
      PROVE  DecideBudget(c)'
  <2>1. r \in S /\ r \notin T
    BY <1>7 DEF Assessing, Idle, TypeOK
  <2>2. Cardinality(T) + 1 <= Cardinality(S)
    BY <1>1, <1>7, <2>1, RequestSets
  <2>3. Decided(c)' + Cardinality(T) <= N
    BY <1>2, <1>7, <2>2 DEF DecideBudget
  <2> QED BY <1>1, <1>3, <1>7, <2>3 DEF DecideBudget
<1>8. ASSUME verdicts'[c] = verdicts[c] PROVE Decided(c)' = Decided(c)
  BY <1>8 DEF Decided
<1> QED BY <1>4, <1>5, <1>6, <1>7, <1>8, ClaimChange

LEMMA PayBudgetStep ==
    ASSUME TypeOK, References, [Next]_vars, NEW c \in ClaimIds, PayBudget(c)
    PROVE  PayBudget(c)'
<1> DEFINE S == Settling(c)
           T == {r \in Reqs : txn'[r].op \in {"pay", "assess"} /\ txn'[r].claim = c}
           B == (N - 1) * Decided(c)
<1>1. Settling(c)' = T /\ S \in SUBSET Reqs /\ T \in SUBSET Reqs
  BY DEF Settling
<1>2. /\ Decided(c) \in Nat /\ verdicts[c].payout \in Nat /\ N \in Nat
      /\ Cardinality(S) \in Nat /\ Cardinality(T) \in Nat
      /\ Cardinality(S) <= N /\ Cardinality(T) <= N
  BY <1>1, RequestSets DEF TypeOK, Verdicts, Decided
<1>3. N' = N
  BY DEF N
<1>4. B \in Int /\ (N - 1) * (Decided(c) + 1) = B + (N - 1)
  BY <1>2
<1>5. /\ claim[c].status # "PAID" => verdicts[c].payout <= B
      /\ claim[c].status = "PAID" => verdicts[c].payout + Cardinality(S) <= B + N
  BY DEF PayBudget
<1> HIDE DEF B, S, T
<1>6. \/ T \subseteq S
      \/ claim[c].status # "PAID" /\ UNCHANGED rows
  <2> SUFFICES ASSUME NEW s \in T, s \notin S
               PROVE  claim[c].status # "PAID" /\ UNCHANGED rows
    OBVIOUS
  <2>1. /\ s \in Reqs /\ txn'[s].op \in {"pay", "assess"} /\ txn'[s].claim = c
        /\ ~(txn[s].op \in {"pay", "assess"} /\ txn[s].claim = c)
    BY DEF S, T, Settling
  <2>2. txn'[s] # txn[s] /\ txn'[s] # Idle
    BY <2>1 DEF Idle
  <2> QED BY <2>1, <2>2, TxnChange DEF Began
<1>7. CASE claim[c].status # "PAID" /\ UNCHANGED rows
  <2>1. Decided(c)' = Decided(c) /\ claim' = claim /\ verdicts' = verdicts
    BY <1>7 DEF rows, Decided
  <2> QED BY <1>3, <1>5, <1>7, <2>1 DEF PayBudget, B
<1>8. ASSUME T \subseteq S, verdicts'[c] = verdicts[c],
             (claim'[c].status = "PAID") <=> (claim[c].status = "PAID")
      PROVE  PayBudget(c)'
  <2>1. Cardinality(T) <= Cardinality(S)
    BY <1>1, <1>8, RequestSets
  <2>2. Decided(c)' = Decided(c)
    BY <1>8 DEF Decided
  <2>3. claim[c].status = "PAID" => verdicts[c].payout + Cardinality(T) <= B + N
    BY <1>2, <1>4, <1>5, <2>1
  <2> QED BY <1>1, <1>3, <1>5, <1>8, <2>2, <2>3 DEF PayBudget, B
<1>9. ASSUME T \subseteq S, NEW r \in Paying(c), txn' = [txn EXCEPT ![r] = Idle],
             claim'[c].status = "PAID", verdicts'[c].payout = verdicts[c].payout + 1,
             Decided(c)' = Decided(c)
      PROVE  PayBudget(c)'
  <2>1. r \in S /\ r \notin T
    BY <1>9 DEF Paying, Settling, Idle, TypeOK, S, T
  <2>2. Cardinality(T) + 1 <= Cardinality(S)
    BY <1>1, <1>9, <2>1, RequestSets
  <2>3. verdicts'[c].payout + Cardinality(T) <= B + N
    BY <1>2, <1>4, <1>5, <1>9, <2>2
  <2> QED BY <1>1, <1>3, <1>9, <2>3 DEF PayBudget, B
<1>10. ASSUME NEW r \in Assessing(c), claim'[c].status \in {"APPROVED", "REJECTED"},
              verdicts'[c].payout = verdicts[c].payout, Decided(c)' = Decided(c) + 1
       PROVE  PayBudget(c)'
  <2>1. r \in S
    BY DEF Assessing, Settling, S
  <2>2. {} \in SUBSET S /\ r \in S \ {} /\ Cardinality({}) = 0
    BY <2>1, FS_EmptySet
  <2>3. 1 <= Cardinality(S)
    BY <1>1, <2>2, RequestSets
  <2>4. verdicts[c].payout <= B + (N - 1)
    BY <1>2, <1>4, <1>5, <2>3
  <2> QED BY <1>3, <1>4, <1>10, <2>4 DEF PayBudget
<1> QED BY <1>6, <1>7, <1>8, <1>9, <1>10, ClaimChange

\* For any number of requests under way at once, a policy is released, and a
\* claim decided, at most that many times: each repetition needs a request that
\* had read the row before the first commit.  A claim is paid once more for each
\* of the others when a verdict overwrites PAID, and once in all when nothing
\* overlaps.
THEOREM SettlesPerOverlap == Spec => []SettledPerOverlap
<1> DEFINE Inv == /\ TypeOK /\ References
                  /\ \A p \in PolicyIds : ReleaseBudget(p)
                  /\ \A c \in ClaimIds : DecideBudget(c) /\ PayBudget(c)
<1>1. Init => Inv
  <2> SUFFICES ASSUME Init PROVE Inv
    OBVIOUS
  <2>1. /\ \A p \in PolicyIds : Cardinality(Releasing(p)) \in Nat /\ Cardinality(Releasing(p)) <= N
        /\ \A c \in ClaimIds : Cardinality(Assessing(c)) \in Nat /\ Cardinality(Assessing(c)) <= N
        /\ N \in Nat
    BY RequestSets DEF Releasing, Assessing
  <2>2. \A p \in PolicyIds : ReleaseBudget(p)
    BY <2>1 DEF Init, ReleaseBudget
  <2>3. \A c \in ClaimIds : Decided(c) = 0 /\ verdicts[c].payout = 0 /\ claim[c].status = "NONE"
    BY DEF Init, Decided, NoClaim
  <2>4. \A c \in ClaimIds : DecideBudget(c) /\ PayBudget(c)
    BY <2>1, <2>3 DEF DecideBudget, PayBudget
  <2> QED BY <2>2, <2>4, InitTypes
<1>2. Inv /\ [Next]_vars => Inv'
  <2> SUFFICES ASSUME Inv, [Next]_vars PROVE Inv'
    OBVIOUS
  <2>1. TypeOK' /\ References'
    BY TypeStep, ReferencesStep
  <2>2. \A p \in PolicyIds : ReleaseBudget(p)'
    BY ReleaseBudgetStep
  <2>3. \A c \in ClaimIds : DecideBudget(c)' /\ PayBudget(c)'
    BY DecideBudgetStep, PayBudgetStep
  <2> QED BY <2>1, <2>2, <2>3 DEF ClaimIds, PolicyIds
<1>3. Inv => SettledPerOverlap
  <2> SUFFICES ASSUME Inv PROVE SettledPerOverlap
    OBVIOUS
  <2>1. ASSUME NEW p \in PolicyIds PROVE releases[p] <= N
    <3>1. releases[p] \in Nat /\ Cardinality(Releasing(p)) \in Nat /\ N \in Nat
      BY RequestSets DEF TypeOK, Releasing
    <3> QED BY <3>1 DEF ReleaseBudget
  <2>2. ASSUME NEW c \in ClaimIds
        PROVE  Decided(c) <= N /\ verdicts[c].payout <= N + (N - 1) * Decided(c)
    <3>1. /\ Decided(c) \in Nat /\ verdicts[c].payout \in Nat /\ N \in Nat
          /\ Cardinality(Assessing(c)) \in Nat /\ Cardinality(Settling(c)) \in Nat
      BY RequestSets DEF TypeOK, Verdicts, Decided, Assessing, Settling
    <3>2. PICK b \in Int : b = (N - 1) * Decided(c)
      BY <3>1
    <3>3. Decided(c) <= N
      BY <3>1 DEF DecideBudget
    <3>4. verdicts[c].payout <= b \/ verdicts[c].payout + Cardinality(Settling(c)) <= b + N
      BY <3>2 DEF PayBudget
    <3>5. verdicts[c].payout <= N + b
      BY <3>1, <3>2, <3>4
    <3> QED BY <3>2, <3>3, <3>5
  <2> QED BY <2>1, <2>2 DEF SettledPerOverlap, N, Decided
<1> QED BY <1>1, <1>2, <1>3, PTL DEF Spec
=============================================================================
