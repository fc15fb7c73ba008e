SPECIFICATION FairSpec
CONSTANTS
    c1 = c1
    c2 = c2
    c3 = c3
    o = o
    Children = {c1, c2, c3}
    Owners = {o}
    Fleet = Fleet
    None = None
    OwnerOf <- MCOwnerOf
    Concurrency = {1, 2}
    Window = 1
    ThrottleEvents = 1
    PauseEvents = 2
    SuccessStep = 1
    MaxCalls = 2
    MaxConfigs = 1
CHECK_DEADLOCK FALSE
INVARIANTS
    GovernorTypeOK
    SlotsCounted
PROPERTIES
    NoOvertaking
    PauseAdmitsNobody
    EveryWaitEnds
