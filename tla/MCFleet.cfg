SPECIFICATION FairSpec
CONSTANTS
    Tasks = {t1}
    Operators = {o1}
    NoTask = NoTask
    MaxWorkers = 1
    MaxAttempts = 2
    StaleAfter = 0
    MaxTime = 1
    MaxCalls = 2
    MaxSeq = 3
    MaxFaults = 1
CHECK_DEADLOCK FALSE
INVARIANTS
    FleetTypeOK
    OneProcess
    LeaseHasRecord
    OutcomeTrue
PROPERTIES
    OutcomeFinal
    FleetSettles
