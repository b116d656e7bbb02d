\* No faults; a retry with the same body.
CONSTANTS
    Reqs = {r1}
    Objects = {"a"}
    Orders = {"jsonb", "client"}
    Jsonb = "jsonb"
    Faults = {}
    MaxSends = 2
    MaxFaults = 0
    MaxDays = 0
SPECIFICATION Spec
CHECK_DEADLOCK FALSE
PROPERTIES
    MismatchMeansDifferent
