SPECIFICATION FairSpec
CONSTANTS
    Procs = {p}
    Capacity = 2
    MaxBatch = 2
    MaxInflight = 1
    Webhook = TRUE
    MaxEmits = 4
    MaxFlushes = 1
    MaxGen = 2
    MaxFaults = 2
CHECK_DEADLOCK FALSE
INVARIANTS
    OutboxTypeOK
    FlushBarrier
    RecordOrder
PROPERTIES
    AppendsGoOn
