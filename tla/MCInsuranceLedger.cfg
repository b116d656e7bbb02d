\* One policy and two claims on it, within the coverage and beyond it, in a pool that
\* may become solvent; two overlapping requests.
SPECIFICATION Spec
CONSTANTS
    Users = {u1}
    Pools = {q1}
    Reqs = {r1, r2}
    Coverages = {3}
    Amounts = {1, 4}
    TopUps = {1}
    InitCapital = 1
    InitScore = 3
    MaxCapital = 2
    MaxPolicies = 1
    MaxClaims = 2
SYMMETRY ReqSymmetry
INVARIANTS
    TypeOK
    PoolBalance
    PayoutWithinCoverage
    SettledPerOverlap
PROPERTIES
    ClosedStaysClosed
