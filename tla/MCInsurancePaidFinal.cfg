\* A payout overtaken by an assessment that read the claim before it.
SPECIFICATION Spec
CONSTANTS
    Users = {u1}
    Pools = {q1}
    Reqs = {r1, r2}
    Coverages = {2}
    Amounts = {1}
    TopUps = {}
    InitCapital = 3
    InitScore = 15
    MaxCapital = 3
    MaxPolicies = 1
    MaxClaims = 1
PROPERTY
    PaidIsFinal
