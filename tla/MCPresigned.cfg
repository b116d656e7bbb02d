\* The groups of MCStorage.cfg, for what the API says of presigned URLs.
SPECIFICATION Spec
CONSTANTS
    Caller = {1, 2}
    Dependency = {"s3", "ipfs", "queue", "webPush"}
    Roles <- MCRoles
    Stamps = {1, 2}
    VolumeThreshold = 2
    MaxFaults = 3
    MaxRuns = 1
INVARIANTS
    PresignedUrlIsGet
CHECK_DEADLOCK FALSE
