CONSTANTS
    s1 = s1
    s2 = s2
    w1 = w1
    w2 = w2
    None = None
    NoWorker = NoWorker
    Jobs = {1, 2, 3}
    Kind <- MiningKind
    Subjects = {s1, s2}
    SubjectOf <- MiningSubject
    Scenarios = 1
    Trials = 1
    MinFailures = 1
    Workers = {w1, w2}
    MaxFaults = 2
    MaxResumes = 1
    MaxChanges = 1
    MaxUpgrades = 1
SYMMETRY WorkerSymmetry
SPECIFICATION Spec
INVARIANTS
    CompletedOnce
    IncidentHandledOnce
PROPERTIES
    CancelStopsSpending
    CancelledDraftIsNotSaved
CHECK_DEADLOCK FALSE
