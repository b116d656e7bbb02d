----------------------------- MODULE Insurance -----------------------------
(***************************************************************************)
(* Pools, policies, claims and the reputation of their owners, as the      *)
(* services under src/src/insurance/ keep them in PostgreSQL.              *)
(*                                                                         *)
(* Every operation runs in one prisma.$transaction with no isolation       *)
(* level, so at READ COMMITTED.  An operation is therefore a Begin action  *)
(* (its first read, taken from what is committed then, with its early      *)
(* returns) and a Commit action (its writes, which take row locks, so that *)
(* increments and the soft-delete middleware's "deletedAt IS NULL" see the *)
(* rows of that moment).  assessClaim reads again between its writes and   *)
(* has one action per such point; the rows that it keeps locked while it   *)
(* reads are ClaimLocked, PoolLocked and UserLocked.                       *)
(* Abort is any rollback: an exception, a failed unlock check, a deadlock  *)
(* that PostgreSQL breaks, the transaction timeout or a crash.             *)
(***************************************************************************)
EXTENDS Sums, FiniteSets

CONSTANTS
    Users,          \* wallet owners
    Pools,          \* insurance pools, created outside the application
    Reqs,           \* requests the service works on at the same time
    Coverages,      \* coverage amounts a purchase may ask for
    Amounts,        \* claim amounts, accepted by CreateClaimDto: positive
    TopUps,         \* amounts of addCapital
    InitCapital,    \* capital of every pool at the start
    InitScore,      \* reputation of every user at the start
    MaxCapital,     \* bound: no addCapital beyond it
    MaxPolicies,    \* bound: policies ever created
    MaxClaims       \* bound: claims ever created

ASSUME AmountsAssumption ==
    /\ Coverages \subseteq Nat \ {0}
    /\ Amounts \subseteq Nat \ {0}
    /\ TopUps \subseteq Nat \ {0}
    /\ InitCapital \in Nat
    /\ MaxCapital \in Nat

ASSUME BoundsAssumption == MaxPolicies \in Nat /\ MaxClaims \in Nat

ASSUME ReqsAssumption == IsFiniteSet(Reqs)

ASSUME ScoreAssumption == InitScore \in 0..1000

VARIABLES
    pool,           \* InsurancePool rows: capital and lockedCapital
    policy,         \* InsurancePolicy rows
    claim,          \* Claim rows
    score,          \* User.reputationScore
    deletedUsers,   \* users whose row is soft-deleted
    history,        \* sum of the user's ReputationHistory.scoreChange
    releases,       \* UPDATE audit rows of a policy (cancel, expire)
    verdicts,       \* APPROVE, REJECT and PAYOUT audit rows of a claim
    txn             \* the open transaction of every request

rows == <<pool, policy, claim, score, deletedUsers, history, releases, verdicts>>
vars == <<pool, policy, claim, score, deletedUsers, history, releases, verdicts, txn>>

-----------------------------------------------------------------------------
\* Rows

PolicyIds == 1..MaxPolicies
ClaimIds == 1..MaxClaims

\* PolicyStatus; no code of the repository stores PENDING.
ClosedStatus == {"CANCELLED", "EXPIRED"}
OpenStatus == {"ACTIVE", "PENDING"}

NoPolicy == [status |-> "NONE", user |-> "none", pool |-> "none",
             coverage |-> 0, deleted |-> FALSE]
Policy == [status: OpenStatus \cup ClosedStatus, user: Users, pool: Pools,
           coverage: Coverages, deleted: BOOLEAN]

ClaimStatus == {"PENDING", "APPROVED", "REJECTED", "PAID"}

\* payout is 0 while payoutAmount is NULL.
NoClaim == [status |-> "NONE", policy |-> 0, amount |-> 0, payout |-> 0,
            deleted |-> FALSE]
Claim == [status: ClaimStatus, policy: PolicyIds, amount: Amounts,
          payout: Amounts \cup {0}, deleted: BOOLEAN]

Pool == [capital: Nat, locked: Int]
Score == 0..1000
Verdicts == [approve: Nat, reject: Nat, payout: Nat]

PolicyExists(p) == policy[p].status # "NONE"
ClaimExists(c) == claim[c].status # "NONE"
LivePolicy(p) == PolicyExists(p) /\ ~policy[p].deleted
LiveClaim(c) == ClaimExists(c) /\ ~claim[c].deleted

\* `include: { policy: true }` is not filtered by the soft-delete middleware.
PolicyOf(c) == policy[claim[c].policy]
OwnerOf(c) == PolicyOf(c).user

-----------------------------------------------------------------------------
\* Transactions

Idle == [op |-> "idle"]
PurchaseTx == [op: {"purchase"}, user: Users, pool: Pools, coverage: Coverages]
ReleaseTx == [op: {"release"}, policy: PolicyIds, to: ClosedStatus]
CreateTx == [op: {"create"}, policy: PolicyIds, amount: Amounts]
PayTx == [op: {"pay"}, claim: ClaimIds]

\* Where assessClaim stands: "fraud" and "fraudRead" around the fraud penalty,
\* "oracle" before the second read of the claim, "decided" with a verdict,
\* "updated" with the claim row written, "scored" with the score read again.
AssessStep == {"fraud", "fraudRead", "oracle", "decided", "updated", "scored"}
AssessTx == [op: {"assess"}, claim: ClaimIds, step: AssessStep, fraud: BOOLEAN,
             verdict: {"APPROVED", "REJECTED"}, score: Score]

Txn == {Idle} \cup PurchaseTx \cup ReleaseTx \cup CreateTx \cup PayTx \cup AssessTx

\* Another transaction holds the claim row between its update and its commit.
ClaimLocked(c, r) ==
    \E s \in Reqs \ {r} :
        /\ txn[s].op = "assess"
        /\ txn[s].claim = c
        /\ txn[s].step \in {"updated", "scored"}

\* A rejection unlocks capital before it reads the score.
PoolLocked(q, r) ==
    \E s \in Reqs \ {r} :
        /\ txn[s].op = "assess"
        /\ txn[s].verdict = "REJECTED"
        /\ txn[s].step \in {"updated", "scored"}
        /\ PolicyOf(txn[s].claim).pool = q

\* Another transaction wrote a fraud penalty on the user row, not committed.
UserLocked(u, r) ==
    \E s \in Reqs \ {r} :
        /\ txn[s].op = "assess"
        /\ txn[s].fraud
        /\ txn[s].step \in {"oracle", "decided", "updated", "scored"}
        /\ OwnerOf(txn[s].claim) = u

Start(r, t) == txn[r] = Idle /\ txn' = [txn EXCEPT ![r] = t]
Finish(r) == txn' = [txn EXCEPT ![r] = Idle]

Abort(r) ==
    /\ txn[r] # Idle
    /\ Finish(r)
    /\ UNCHANGED rows

-----------------------------------------------------------------------------
\* Pool operations, each inside the transaction of its caller

\* No check that the pool can back the new coverage.
LockCapital(r, q, amount) ==
    /\ ~PoolLocked(q, r)
    /\ pool' = [pool EXCEPT ![q].locked = @ + amount]

\* Refused, with everything the transaction did, when the pool would still be
\* committed beyond its capital after the decrement.
UnlockCapital(r, q, amount) ==
    /\ ~PoolLocked(q, r)
    /\ pool[q].capital - (pool[q].locked - amount) >= 0
    /\ pool' = [pool EXCEPT ![q].locked = @ - amount]

AddCapital(q, amount) ==
    /\ ~PoolLocked(q, "none")
    /\ pool[q].capital + amount <= MaxCapital
    /\ pool' = [pool EXCEPT ![q].capital = @ + amount]
    /\ UNCHANGED <<policy, claim, score, deletedUsers, history, releases,
                   verdicts, txn>>

-----------------------------------------------------------------------------
\* InsuranceService

\* The lookup of an open policy of the same user and pool found none.
BeginPurchase(r, u, q, amount) ==
    /\ ~\E p \in PolicyIds :
          /\ LivePolicy(p)
          /\ policy[p].user = u
          /\ policy[p].pool = q
          /\ policy[p].status \in OpenStatus
    /\ Start(r, [op |-> "purchase", user |-> u, pool |-> q, coverage |-> amount])
    /\ UNCHANGED rows

CommitPurchase(r) ==
    /\ txn[r].op = "purchase"
    /\ \E p \in PolicyIds :
          /\ ~PolicyExists(p)
          /\ \A i \in 1..(p - 1) : PolicyExists(i)
          /\ policy' = [policy EXCEPT ![p] =
                [status |-> "ACTIVE", user |-> txn[r].user, pool |-> txn[r].pool,
                 coverage |-> txn[r].coverage, deleted |-> FALSE]]
    /\ LockCapital(r, txn[r].pool, txn[r].coverage)
    /\ Finish(r)
    /\ UNCHANGED <<claim, score, deletedUsers, history, releases, verdicts>>

\* Mutant: a closed policy is not returned early.
BeginReleaseAgain(r, p, to) ==
    /\ LivePolicy(p)
    /\ Start(r, [op |-> "release", policy |-> p, to |-> to])
    /\ UNCHANGED rows

\* cancelPolicy (to = CANCELLED) and expirePolicy (to = EXPIRED).
BeginRelease(r, p, to) ==
    /\ LivePolicy(p)
    /\ policy[p].status \notin ClosedStatus
    /\ Start(r, [op |-> "release", policy |-> p, to |-> to])
    /\ UNCHANGED rows

CommitRelease(r) ==
    /\ txn[r].op = "release"
    /\ LET p == txn[r].policy IN
          /\ LivePolicy(p)
          /\ policy' = [policy EXCEPT ![p].status = txn[r].to]
          /\ UnlockCapital(r, policy[p].pool, policy[p].coverage)
          /\ releases' = [releases EXCEPT ![p] = @ + 1]
    /\ Finish(r)
    /\ UNCHANGED <<claim, score, deletedUsers, history, verdicts>>

-----------------------------------------------------------------------------
\* ClaimService: submission and payout

\* The policy is looked up, its status is not.
BeginCreateClaim(r, p, amount) ==
    /\ LivePolicy(p)
    /\ Start(r, [op |-> "create", policy |-> p, amount |-> amount])
    /\ UNCHANGED rows

CommitCreateClaim(r) ==
    /\ txn[r].op = "create"
    /\ \E c \in ClaimIds :
          /\ ~ClaimExists(c)
          /\ \A i \in 1..(c - 1) : ClaimExists(i)
          /\ claim' = [claim EXCEPT ![c] =
                [status |-> "PENDING", policy |-> txn[r].policy,
                 amount |-> txn[r].amount, payout |-> 0, deleted |-> FALSE]]
    /\ Finish(r)
    /\ UNCHANGED <<pool, policy, score, deletedUsers, history, releases, verdicts>>

\* Every status but PAID goes on to the payout.
BeginPay(r, c) ==
    /\ LiveClaim(c)
    /\ claim[c].status # "PAID"
    /\ Start(r, [op |-> "pay", claim |-> c])
    /\ UNCHANGED rows

\* Mutant: the payout unlocks the whole coverage.
CommitPayCoverage(r) ==
    /\ txn[r].op = "pay"
    /\ LET c == txn[r].claim IN
          /\ LiveClaim(c)
          /\ ~ClaimLocked(c, r)
          /\ claim' = [claim EXCEPT ![c].status = "PAID"]
          /\ UnlockCapital(r, PolicyOf(c).pool, PolicyOf(c).coverage)
          /\ verdicts' = [verdicts EXCEPT ![c].payout = @ + 1]
    /\ Finish(r)
    /\ UNCHANGED <<policy, score, deletedUsers, history, releases>>

CommitPay(r) ==
    /\ txn[r].op = "pay"
    /\ LET c == txn[r].claim IN
          /\ LiveClaim(c)
          /\ ~ClaimLocked(c, r)
          /\ claim' = [claim EXCEPT ![c].status = "PAID"]
          /\ UnlockCapital(r, PolicyOf(c).pool, claim[c].amount)
          /\ verdicts' = [verdicts EXCEPT ![c].payout = @ + 1]
    /\ Finish(r)
    /\ UNCHANGED <<policy, score, deletedUsers, history, releases>>

-----------------------------------------------------------------------------
\* ClaimService: assessment

CLAIM_APPROVED == 10
CLAIM_REJECTED == -5
FRAUD_DETECTED == -20

\* Mutant: the floor is missing.
ClampAbove(x) == IF x > 1000 THEN 1000 ELSE x

Clamp(x) == IF x < 0 THEN 0 ELSE IF x > 1000 THEN 1000 ELSE x

\* adjustReputation's read: a soft-deleted user counts as 0.
FindUserScore(u) == IF u \in deletedUsers THEN 0 ELSE score[u]

\* Two of: the same amount claimed on the policy by a claim not rejected, three
\* claims on the policy, an unusual hour.  The age of the claims and the hour
\* are not in the model, so FALSE is always an outcome.
\* The counts are taken with assessClaim's first read: a claim created between
\* the two might as well have been there before it.
FraudOutcomes(c) ==
    LET siblings == {d \in ClaimIds : LiveClaim(d) /\ claim[d].policy = claim[c].policy}
        duplicates == {d \in siblings \ {c} : /\ claim[d].amount = claim[c].amount
                                              /\ claim[d].status # "REJECTED"}
    IN {FALSE} \cup
       (IF duplicates # {} \/ Cardinality(siblings) >= 3 THEN {TRUE} ELSE {})

\* Mutant: off by one at the limit.
WithinCoverageOffByOne(c) == claim[c].amount <= PolicyOf(c).coverage + 1

WithinCoverage(c) == claim[c].amount <= PolicyOf(c).coverage

Assessment(c, step, fraud, verdict, s) ==
    [op |-> "assess", claim |-> c, step |-> step, fraud |-> fraud,
     verdict |-> verdict, score |-> s]

BeginAssess(r, c) ==
    /\ LiveClaim(c)
    /\ claim[c].status = "PENDING"
    /\ IF PolicyOf(c).status # "ACTIVE" \/ ~WithinCoverage(c)
       THEN Start(r, Assessment(c, "decided", FALSE, "REJECTED", 0))
       ELSE \E fraud \in FraudOutcomes(c) :
               Start(r, Assessment(c, IF fraud THEN "fraud" ELSE "oracle",
                                   fraud, "REJECTED", 0))
    /\ UNCHANGED rows

\* The request stands at this step of assessClaim.
AssessAt(r, step) == txn[r].op = "assess" /\ txn[r].step = step

\* adjustReputation(FRAUD_DETECTED), read and write.
FraudRead(r) ==
    /\ AssessAt(r, "fraud")
    /\ txn' = [txn EXCEPT ![r].step = "fraudRead",
                          ![r].score = FindUserScore(OwnerOf(txn[r].claim))]
    /\ UNCHANGED rows

FraudWrite(r) ==
    /\ AssessAt(r, "fraudRead")
    /\ OwnerOf(txn[r].claim) \notin deletedUsers
    /\ ~UserLocked(OwnerOf(txn[r].claim), r)
    /\ txn' = [txn EXCEPT ![r].step = "oracle",
                          ![r].score = Clamp(txn[r].score + FRAUD_DETECTED)]
    /\ UNCHANGED rows

VerifyOracle(r) ==
    /\ AssessAt(r, "oracle")
    /\ LET c == txn[r].claim
           ok == /\ LiveClaim(c)
                 /\ PolicyOf(c).status = "ACTIVE"
                 /\ WithinCoverage(c)
       IN txn' = [txn EXCEPT ![r].step = "decided",
                             ![r].verdict = IF ok THEN "APPROVED" ELSE "REJECTED"]
    /\ UNCHANGED rows

\* The claim row is written, and for a rejection the pool row; both are locked
\* until the commit.
UpdateClaim(r) ==
    /\ AssessAt(r, "decided")
    /\ LiveClaim(txn[r].claim)
    /\ ~ClaimLocked(txn[r].claim, r)
    /\ txn[r].verdict = "REJECTED" => ~PoolLocked(PolicyOf(txn[r].claim).pool, r)
    /\ txn' = [txn EXCEPT ![r].step = "updated"]
    /\ UNCHANGED rows

\* adjustReputation's read; after a fraud penalty it sees its own write.
ReadScore(r) ==
    /\ AssessAt(r, "updated")
    /\ txn' = [txn EXCEPT ![r].step = "scored",
                          ![r].score = IF txn[r].fraud THEN txn[r].score
                                       ELSE FindUserScore(OwnerOf(txn[r].claim))]
    /\ UNCHANGED rows

\* adjustReputation's write of an absolute score, and its history rows.
AdjustReputation(r, delta) ==
    LET u == OwnerOf(txn[r].claim) IN
    /\ u \notin deletedUsers
    /\ ~UserLocked(u, r)
    /\ score' = [score EXCEPT ![u] = Clamp(txn[r].score + delta)]
    /\ history' = [history EXCEPT ![u] =
                      @ + delta + (IF txn[r].fraud THEN FRAUD_DETECTED ELSE 0)]

\* Mutant: the approval writes back the policy row as assessClaim read it.
CommitApproveWriteBack(r) ==
    /\ AssessAt(r, "scored")
    /\ txn[r].verdict = "APPROVED"
    /\ LET c == txn[r].claim IN
          /\ claim' = [claim EXCEPT ![c].status = "APPROVED", ![c].payout = claim[c].amount]
          /\ policy' = [policy EXCEPT ![claim[c].policy].status = "ACTIVE"]
          /\ verdicts' = [verdicts EXCEPT ![c].approve = @ + 1]
    /\ AdjustReputation(r, CLAIM_APPROVED)
    /\ Finish(r)
    /\ UNCHANGED <<pool, deletedUsers, releases>>

CommitApprove(r) ==
    /\ AssessAt(r, "scored")
    /\ txn[r].verdict = "APPROVED"
    /\ LET c == txn[r].claim IN
          /\ claim' = [claim EXCEPT ![c].status = "APPROVED", ![c].payout = claim[c].amount]
          /\ verdicts' = [verdicts EXCEPT ![c].approve = @ + 1]
    /\ AdjustReputation(r, CLAIM_APPROVED)
    /\ Finish(r)
    /\ UNCHANGED <<pool, policy, deletedUsers, releases>>

\* rejectClaim: it unlocks the claim's amount, which no claim ever locked.
CommitReject(r) ==
    /\ AssessAt(r, "scored")
    /\ txn[r].verdict = "REJECTED"
    /\ LET c == txn[r].claim IN
          /\ claim' = [claim EXCEPT ![c].status = "REJECTED"]
          /\ UnlockCapital(r, PolicyOf(c).pool, claim[c].amount)
          /\ verdicts' = [verdicts EXCEPT ![c].reject = @ + 1]
    /\ AdjustReputation(r, CLAIM_REJECTED)
    /\ Finish(r)
    /\ UNCHANGED <<policy, deletedUsers, releases>>

-----------------------------------------------------------------------------
\* UserService.delete: one batch transaction over the user's rows.  The locked
\* capital of the policies stays as it is.
DeleteUser(u) ==
    /\ u \notin deletedUsers
    /\ ~UserLocked(u, "none")
    /\ \A c \in ClaimIds : ClaimExists(c) /\ OwnerOf(c) = u => ~ClaimLocked(c, "none")
    /\ deletedUsers' = deletedUsers \cup {u}
    /\ policy' = [p \in PolicyIds |->
                    IF PolicyExists(p) /\ policy[p].user = u
                    THEN [policy[p] EXCEPT !.deleted = TRUE] ELSE policy[p]]
    /\ claim' = [c \in ClaimIds |->
                    IF ClaimExists(c) /\ OwnerOf(c) = u
                    THEN [claim[c] EXCEPT !.deleted = TRUE] ELSE claim[c]]
    /\ UNCHANGED <<pool, score, history, releases, verdicts, txn>>

-----------------------------------------------------------------------------
Init ==
    /\ pool = [q \in Pools |-> [capital |-> InitCapital, locked |-> 0]]
    /\ policy = [p \in PolicyIds |-> NoPolicy]
    /\ claim = [c \in ClaimIds |-> NoClaim]
    /\ score = [u \in Users |-> InitScore]
    /\ deletedUsers = {}
    /\ history = [u \in Users |-> 0]
    /\ releases = [p \in PolicyIds |-> 0]
    /\ verdicts = [c \in ClaimIds |-> [approve |-> 0, reject |-> 0, payout |-> 0]]
    /\ txn = [r \in Reqs |-> Idle]

PolicyStep(r) ==
    \/ \E u \in Users, q \in Pools, a \in Coverages : BeginPurchase(r, u, q, a)
    \/ CommitPurchase(r)
    \/ \E p \in PolicyIds, to \in ClosedStatus : BeginRelease(r, p, to)
    \/ CommitRelease(r)

ClaimStep(r) ==
    \/ \E p \in PolicyIds, a \in Amounts : BeginCreateClaim(r, p, a)
    \/ CommitCreateClaim(r)
    \/ \E c \in ClaimIds : BeginPay(r, c)
    \/ CommitPay(r)

AssessmentStep(r) ==
    \/ \E c \in ClaimIds : BeginAssess(r, c)
    \/ FraudRead(r)
    \/ FraudWrite(r)
    \/ VerifyOracle(r)
    \/ UpdateClaim(r)
    \/ ReadScore(r)
    \/ CommitApprove(r)
    \/ CommitReject(r)

Next ==
    \/ \E r \in Reqs : PolicyStep(r) \/ ClaimStep(r) \/ AssessmentStep(r) \/ Abort(r)
    \/ \E q \in Pools, a \in TopUps : AddCapital(q, a)
    \/ \E u \in Users : DeleteUser(u)

Spec == Init /\ [][Next]_vars

-----------------------------------------------------------------------------
\* Properties

\* The rows, the audit counts and the open transactions have their types.
TypeOK ==
    /\ pool \in [Pools -> Pool]
    /\ policy \in [PolicyIds -> Policy \cup {NoPolicy}]
    /\ claim \in [ClaimIds -> Claim \cup {NoClaim}]
    /\ score \in [Users -> Score]
    /\ deletedUsers \subseteq Users
    /\ history \in [Users -> Int]
    /\ releases \in [PolicyIds -> Nat]
    /\ verdicts \in [ClaimIds -> Verdicts]
    /\ txn \in [Reqs -> Txn]

\* What policy p contributes to lockedCapital of pool q: its coverage, minus
\* its coverage once for every cancellation or expiry that committed.
Reserved(q) ==
    [p \in PolicyIds |-> IF policy[p].pool = q
                         THEN policy[p].coverage - policy[p].coverage * releases[p]
                         ELSE 0]

\* What was unlocked from pool q for claim c: its amount, once for every
\* rejection and every payout that committed.
Settled(q) ==
    [c \in ClaimIds |-> IF ClaimExists(c) /\ PolicyOf(c).pool = q
                        THEN claim[c].amount * (verdicts[c].reject + verdicts[c].payout)
                        ELSE 0]

\* lockedCapital is, at every moment and whatever transactions interleave,
\* abort or repeat, exactly what the audit trail says was locked and unlocked
\* (incrementLockedCapital and decrementLockedCapital are relative updates in
\* the transaction that writes the policy or the claim and its audit row).
PoolBalance ==
    \A q \in Pools :
        pool[q].locked = SumTo(Reserved(q), MaxPolicies) - SumTo(Settled(q), MaxClaims)

\* An approved payout is the claimed amount and never exceeds the coverage of
\* the policy, even when the claim was paid, the policy closed or its owner
\* deleted while assessClaim was between its two reads.
PayoutWithinCoverage ==
    \A c \in ClaimIds :
        claim[c].payout # 0 => /\ claim[c].payout = claim[c].amount
                               /\ claim[c].payout <= PolicyOf(c).coverage
                               /\ verdicts[c].approve > 0

\* A cancelled or expired policy never takes effect again: concurrent cancel
\* and expire requests may overwrite one another but none reopens the policy,
\* and no later step changes what it covered.
ClosedStaysClosed ==
    [][\A p \in PolicyIds : policy[p].status \in ClosedStatus
          => /\ policy'[p].status \in ClosedStatus
             /\ policy'[p].pool = policy[p].pool
             /\ policy'[p].coverage = policy[p].coverage]_vars

\* However requests overlap, nothing is settled more often than requests can be
\* under way at once: cancelPolicy and expirePolicy return early on a closed
\* policy and assessClaim refuses a claim that is not PENDING, so only requests
\* that had read the row before the first commit can still repeat its effect.
\* payClaim returns early on PAID, which an overlapping assessment can undo; that
\* is one of the requests, so a verdict lets the others pay once more.  With one
\* request at a time a policy is released, and a claim decided and paid, once.
SettledPerOverlap ==
    LET N == Cardinality(Reqs) IN
    /\ \A p \in PolicyIds : releases[p] <= N
    /\ \A c \in ClaimIds :
          LET decided == verdicts[c].approve + verdicts[c].reject IN
          /\ decided <= N
          /\ verdicts[c].payout <= N + (N - 1) * decided

\* The availableCapital invariant that unlockCapital enforces: what is locked in
\* a pool never exceeds its capital.  lockCapital does not look at it.
AvailableCapital == \A q \in Pools : pool[q].capital - pool[q].locked >= 0

\* The score is read and updated atomically: every change of it is the clamped
\* application, to the score it replaces, of the changes that adjustReputation
\* wrote to the user's history in the same transaction.
ScoreUpdateAtomic ==
    [][\A u \in Users : history'[u] # history[u]
          => \/ score'[u] = Clamp(score[u] + (history'[u] - history[u]))
             \/ score'[u] = Clamp(Clamp(score[u] + FRAUD_DETECTED)
                                  + (history'[u] - history[u] - FRAUD_DETECTED))]_vars

\* A paid claim stays paid.
PaidIsFinal ==
    [][\A c \in ClaimIds : claim[c].status = "PAID" => claim'[c].status = "PAID"]_vars
=============================================================================
