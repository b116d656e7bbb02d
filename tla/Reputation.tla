----------------------------- MODULE Reputation -----------------------------
(***************************************************************************)
(* The trust score of a user, as calculateTrustScore computes it from the  *)
(* user's projects and their milestones.                                   *)
(***************************************************************************)
EXTENDS Integers, FiniteSets, Functions

\* Math.round of a / b for natural a and positive b: halves are rounded up.
Round(a, b) == (2 * a + b) \div (2 * b)

\* A milestone counts as completed on time when it is approved and was funded
\* no later than its row was created.
OnTime(m) == m.status = "APPROVED" /\ m.completion # 0 /\ m.completion <= m.createdAt

\* The share of the goals that was raised is worth up to 200 points, and more
\* when a project is overfunded.
FundsScore(projects) ==
    LET totalRaised == SumFunction([p \in projects |-> p.goal])
        totalDistributed == SumFunction([p \in projects |-> p.funds])
    IN IF totalRaised > 0 THEN Round(200 * totalDistributed, totalRaised) ELSE 0

\* projects and milestones are sets of rows with an id; a milestone row stands
\* for count equal rows.
CalculateTrustScore(projects, milestones) ==
    LET successfulProjects == Cardinality({p \in projects : p.status = "COMPLETED"})
        Count(S) == SumFunction([m \in S |-> m.count])
        completedOnTime == Count({m \in milestones : OnTime(m)})
        failedMilestones == Count({m \in milestones : m.status = "REJECTED"})
        points == 500 + 100 * successfulProjects + 50 * completedOnTime
                      - 75 * failedMilestones + FundsScore(projects)
    IN IF points < 0 THEN 0 ELSE IF points > 1000 THEN 1000 ELSE points
=============================================================================
