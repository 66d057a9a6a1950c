CONSTANTS
    p1 = p1
    p2 = p2
    p3 = p3
    d1 = d1
    d2 = d2
    g1 = g1
    g2 = g2
    r1 = r1
    w1 = w1
    w2 = w2
    t1 = t1
    t2 = t2
    lesson = lesson
    other = other
    None = None
    NoWorker = NoWorker
    Proposals = {p1, p2, p3}
    Dests = {d1, d2}
    GitDests = {}
    ResourceOf <- FileResourceOf
    DestOf <- FileDestOf
    LessonOf <- FileLessonOf
    Texts = {t1}
    MaxExternal = 1
    Commands = {1, 2}
    Workers = {w1, w2}
    MaxFaults = 1
    MaxRetries = 1
SYMMETRY WorkerSymmetry
SPECIFICATION Spec
INVARIANTS
    OneUnreconciledPerResource
    ApprovalHasOneRow
    RestingCommandHasNoOpenRow
    IndInv
PROPERTIES
    OutcomesStand
    WriteHasAuthority
    KeepsPromise
CHECK_DEADLOCK FALSE
