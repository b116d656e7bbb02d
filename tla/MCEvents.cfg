SPECIFICATION Spec
CONSTANTS
    Chains <- MCChains
    Milestones <- MCMilestones
    Event = {1, 2, 3, 4}
    ProjectIds = {0, 1, 4, 8}
    MaxSafe = 4
    Spacings = {1, 2, 4}
    MaxRuns = 2
    MaxFaults = 1
    MaxDay = 1
INVARIANTS
    TypeOK
    DecodedAsDeclared
    ContributionsKept
    ProjectsCurrent
    TrustScoreFresh
    AlertsReachInvestors
PROPERTIES
    TouchesNamedProject
CHECK_DEADLOCK FALSE
