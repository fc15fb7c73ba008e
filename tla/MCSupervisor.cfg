SPECIFICATION Spec
CONSTANTS
    WallTime = 5
    IdleProgress = 3
    CancelGrace = 1
    PersistDebounce = 3
    Refresh = 2
    BusyRetry = 2
    ApprovalWindow = 4
    ChannelCap = 2
    Destination = FALSE
    JournalKinds <- Work
    MaxJournal = 1
    MaxRequests = 1
    MaxFaults = 1
    MaxStalls = 1
    Horizon = 10
CHECK_DEADLOCK FALSE
INVARIANTS
    SupervisorTypeOK
    Deadline
    CancelPrompt
    DebouncedWrite
    EventOrder
PROPERTIES
    IdleHonest
