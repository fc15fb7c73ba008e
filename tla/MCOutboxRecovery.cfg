SPECIFICATION Spec
CONSTANTS
    Procs = {p}
    Capacity = 2
    MaxBatch = 2
    MaxInflight = 1
    Webhook = FALSE
    MaxEmits = 3
    MaxFlushes = 0
    MaxGen = 3
    MaxFaults = 1
CHECK_DEADLOCK FALSE
INVARIANTS
    TornLineIgnored
