\* Two workers, an email that can be sent and one that cannot.  MaxQueued is never
\* met: only a fault makes a settled row PENDING.
CONSTANTS
    Emails = {e1, e2}
    Invalid = {e2}
    Jobs = {j1, j2}
    MaxAttempts = 2
    MaxQueued = 24
    MaxFaults = 2
    e1 = e1
    e2 = e2
    j1 = j1
    j2 = j2
SPECIFICATION FairSpec
CHECK_DEADLOCK FALSE
INVARIANTS
    TypeOK
    DeliveriesExplained
    OutboxIsHonest
PROPERTIES
    EventuallySettled
