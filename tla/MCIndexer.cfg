\* Three events in three ledgers, two faults, a fetch that stops after two events.
CONSTANTS
    FetchLimit = 2
    ConfiguredStart = 0
    MaxLedger = 3
    MaxEvents = 3
    MaxFaults = 2
SPECIFICATION FairSpec
CHECK_DEADLOCK FALSE
INVARIANTS
    TypeOK
    HandledOncePerMark
    SkippedIsExplained
PROPERTIES
    EventuallySettled
    DeliversInOrder
