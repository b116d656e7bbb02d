\* Two assessments of claims of one user: both read the score before either writes it.
SPECIFICATION Spec
CONSTANTS
    Users = {u1}
    Pools = {q1}
    Reqs = {r1, r2}
    Coverages = {2}
    Amounts = {1, 2}
    TopUps = {}
    InitCapital = 3
    InitScore = 15
    MaxCapital = 3
    MaxPolicies = 1
    MaxClaims = 2
PROPERTY
    ScoreUpdateAtomic
