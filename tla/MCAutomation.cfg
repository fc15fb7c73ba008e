SPECIFICATION FairSpec
CONSTANTS
    Scopes = {p}
    Automations = {a}
    Triggers = {g}
    Tasks = {t1, t2, t3}
    None = None
    OnceAt = 2
    ArchiveCap = 1
    MaxTime = 2
    MaxEdits = 1
    MaxFaults = 1
INVARIANTS
    AutomationTypeOK
    SlotOnce
    NoOverlap
    ReceiptTrue
    CanceledNeverFires
PROPERTIES
    OwedSlotKept
    SchedulesServed
    TriggersFire
