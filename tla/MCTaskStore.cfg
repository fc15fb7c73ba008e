SPECIFICATION FairSpec
CONSTANTS
    Scopes = {a, b}
    Tasks = {t1}
    Workers = {w1}
    None = None
    MaxGen = 3
    MaxFaults = 2
    MaxEvents = 3
    MaxCancels = 1
    PendingCap = 2
    ExecOutcomes <- MCOutcomes
CHECK_DEADLOCK FALSE
INVARIANTS
    TypeOK
    AtMostOnce
    WorkerOwns
    RunningIsAttended
    CancelWins
    EventsExactlyOnce
    StoreInv
PROPERTIES
    TerminalFinal
    ImplementsLifecycle
    Settles
