\* A purchase beyond the capital of the pool.
SPECIFICATION Spec
CONSTANTS
    Users = {u1}
    Pools = {q1}
    Reqs = {r1}
    Coverages = {2}
    Amounts = {1}
    TopUps = {}
    InitCapital = 1
    InitScore = 15
    MaxCapital = 1
    MaxPolicies = 1
    MaxClaims = 1
INVARIANT
    AvailableCapital
