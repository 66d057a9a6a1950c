CONSTANTS
    a = a
    b = b
    i = i
    d = d
    None = None
    MaxSignals = 2
    MaxFaults = 2
    Accounts <- AccountsDef
    Incapable <- IncapableDef
    Disallowed <- DisallowedDef
    Cap = 2
SPECIFICATION FairSpec
INVARIANTS
    TypeOK
    FinishedCallLeavesNothing
PROPERTIES
    OnlyFitAccountServes
    KillsInOrder
    CallsEnd
CHECK_DEADLOCK FALSE
