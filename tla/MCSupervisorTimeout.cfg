SPECIFICATION Spec
CONSTANTS
    WallTime = 5
    IdleProgress = 3
    CancelGrace = 1
    PersistDebounce = 2
    Refresh = 1
    BusyRetry = 2
    ApprovalWindow = 4
    ChannelCap = 2
    Destination = FALSE
    JournalKinds <- Completion
    MaxJournal = 1
    MaxRequests = 0
    MaxFaults = 0
    MaxStalls = 0
    Horizon = 10
CHECK_DEADLOCK FALSE
INVARIANTS
    CanceledWasAsked
