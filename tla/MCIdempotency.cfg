\* Two concurrent requests and every fault, over expiry and cleanup.
CONSTANTS
    Reqs = {r1, r2}
    Objects = {"a", "b"}
    Orders = {"jsonb", "client"}
    Jsonb = "jsonb"
    Faults = {"crash", "read", "mark", "handler"}
    MaxSends = 4
    MaxFaults = 2
    MaxDays = 4
SPECIFICATION Spec
CHECK_DEADLOCK FALSE
SYMMETRY ReqSymmetry
INVARIANTS
    TypeOK
    CommitBound
PROPERTIES
    ReplayIsOfCommitted
