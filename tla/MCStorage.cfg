SPECIFICATION FairSpec
CONSTANTS
    Caller = {1, 2}
    Dependency = {"s3", "ipfs", "queue", "webPush"}
    Roles <- MCRoles
    Stamps = {1, 2}
    VolumeThreshold = 2
    MaxFaults = 3
    MaxRuns = 2
INVARIANTS
    TypeOK
    BucketMatchesAnswers
    CompletedWasDone
    RepeatsExplained
    HalfOpenIsProbing
PROPERTIES
    EverythingSettles
CHECK_DEADLOCK FALSE
