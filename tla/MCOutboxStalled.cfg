SPECIFICATION StalledSpec
CONSTANTS
    Procs = {p}
    Capacity = 2
    MaxBatch = 2
    MaxInflight = 8
    Webhook = TRUE
    MaxEmits = 2
    MaxFlushes = 1
    MaxGen = 1
    MaxFaults = 0
CHECK_DEADLOCK FALSE
PROPERTIES
    AppendsGoOn
