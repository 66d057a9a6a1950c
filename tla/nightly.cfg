CONSTANTS
    f1 = f1
    n1 = n1
    n2 = n2
    w1 = w1
    w2 = w2
    j1 = j1
    None = None
    Files = {f1}
    Runs = {n1, n2}
    Workers = {w1, w2}
    Job = j1
    MaxWrites = 2
    MaxFaults = 1
    MaxCommands = 1
SYMMETRY RunSymmetry
SPECIFICATION Spec
INVARIANTS
    TypeOK
    IncidentOncePerLine
    ConsumedIsDetected
    LeftQueueWithOneReceipt
    MinedHasLearning
PROPERTIES
    LiveRunIsNotAbandoned
CHECK_DEADLOCK FALSE
