SPECIFICATION Spec
CONSTANTS
    m1 = m1
    m2 = m2
    c1 = c1
    c2 = c2
    c3 = c3
    p1 = p1
    p2 = p2
    s1 = s1
    s2 = s2
    None = None
    Sessions <- TwoSessions
    Pages <- TwoPages
    Panels <- SecondIsPanel
    Home <- OneEach
    Streams <- TwoSlots
    Workers <- OneWorker
    QueueMax = 2
    MaxVersion = 2
    Failures <- AllFailures
    MaxLosses = 0
SYMMETRY AnySlot
INVARIANTS
    TypeOK
    Scoped
    EndsInLatest
CHECK_DEADLOCK FALSE
