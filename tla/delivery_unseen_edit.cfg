CONSTANTS
    p1 = p1
    p2 = p2
    p3 = p3
    d1 = d1
    d2 = d2
    g1 = g1
    g2 = g2
    r1 = r1
    w1 = w1
    w2 = w2
    t1 = t1
    t2 = t2
    lesson = lesson
    other = other
    None = None
    NoWorker = NoWorker
    Proposals = {p1, p2}
    Dests = {d1}
    GitDests = {}
    ResourceOf <- OneFileResourceOf
    DestOf <- OneFileDestOf
    LessonOf <- OneFileLessonOf
    Texts = {t1, t2}
    MaxExternal = 1
    Commands = {1, 2}
    Workers = {w1}
    MaxFaults = 0
    MaxRetries = 0
SPECIFICATION FairSpec
PROPERTIES
    NoUnseenEditOverwritten
CHECK_DEADLOCK FALSE
