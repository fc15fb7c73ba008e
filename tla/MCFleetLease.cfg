SPECIFICATION Spec
CONSTANTS
    Tasks = {t1}
    Operators = {o1}
    NoTask = NoTask
    MaxWorkers = 1
    MaxAttempts = 2
    StaleAfter = 0
    MaxTime = 0
    MaxCalls = 0
    MaxSeq = 3
    MaxFaults = 1
CHECK_DEADLOCK FALSE
PROPERTIES
    LaunchPersisted
