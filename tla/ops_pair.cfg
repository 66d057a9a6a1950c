CONSTANTS
    p1 = p1
    p2 = p2
    d1 = d1
    g1 = g1
    g2 = g2
    r1 = r1
    w1 = w1
    t1 = t1
    t2 = t2
    lesson = lesson
    None = None
    NoWriter = NoWriter
    Proposals = {p1, p2}
    Dests = {g1, g2}
    GitDests = {g1, g2}
    ResourceOf <- GitResourceOf
    DestOf <- GitDestOf
    LessonOf <- LessonsOf
    Texts = {t1}
    MaxExternal = 1
    Ops <- OneOp
    Writers = {w1}
    MaxEvals = 0
    MaxEvents = 0
SPECIFICATION Spec
INVARIANTS
    OneOpenWritePerResource
CHECK_DEADLOCK FALSE
