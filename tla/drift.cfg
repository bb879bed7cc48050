SPECIFICATION Spec
CONSTANTS
    m1 = m1
    m2 = m2
    c1 = c1
    c2 = c2
    c3 = c3
    p1 = p1
    p2 = p2
    s1 = s1
    s2 = s2
    None = None
    Sessions <- OneSession
    Pages <- OnePage
    Panels <- NoPanel
    Home <- AllHome
    Streams <- ThreeSlots
    Workers <- OneWorker
    QueueMax = 2
    MaxVersion = 1
    Failures <- AllFailures
    MaxLosses = 0
INVARIANTS
    NoDrift
CHECK_DEADLOCK FALSE
