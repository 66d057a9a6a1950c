CONSTANTS
    s1 = s1
    s2 = s2
    w1 = w1
    w2 = w2
    None = None
    NoWorker = NoWorker
    Jobs = {1, 2}
    Kind <- GateKind
    Subjects = {s1}
    SubjectOf <- GateSubject
    Scenarios = 2
    Trials = 1
    MinFailures = 1
    Workers = {w1}
    MaxFaults = 2
    MaxResumes = 1
    MaxChanges = 1
    MaxUpgrades = 0
SPECIFICATION FairSpec
INVARIANTS
    PaidOnce
    EvidenceOncePerScenario
PROPERTIES
    DecisionStands
    JobsSettle
CHECK_DEADLOCK FALSE
