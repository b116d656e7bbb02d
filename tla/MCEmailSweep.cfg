\* As MCEmailOutbox.cfg, for what the comment of the sweep says.
CONSTANTS
    Emails = {e1, e2}
    Invalid = {}
    Jobs = {j1, j2}
    MaxAttempts = 2
    MaxQueued = 24
    MaxFaults = 2
    e1 = e1
    e2 = e2
    j1 = j1
    j2 = j2
SPECIFICATION FairSpec
CHECK_DEADLOCK FALSE

PROPERTIES
    SweepTakesFailed
