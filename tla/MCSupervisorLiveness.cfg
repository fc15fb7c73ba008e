SPECIFICATION FairSpec
CONSTANTS
    WallTime = 3
    IdleProgress = 2
    CancelGrace = 1
    PersistDebounce = 2
    Refresh = 1
    BusyRetry = 2
    ApprovalWindow = 4
    ChannelCap = 2
    Destination = TRUE
    JournalKinds <- Waits
    MaxJournal = 2
    MaxRequests = 1
    MaxFaults = 1
    MaxStalls = 0
    Horizon = 10
CHECK_DEADLOCK FALSE
PROPERTIES
    Finishes
