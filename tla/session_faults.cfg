SPECIFICATION FairSpec
CONSTANTS
    h1 = h1
    h2 = h2
    s1 = s1
    s2 = s2
    None = None
    Handlers <- MCHandlers
    Sessions <- OneSession
    LastStep = 1
    ModelSteps = {}
    Routes = {"start", "advance", "end", "sweep"}
    Faults = {"write", "crash"}
    Presses <- BarePresses
    MaxRows = 3
PROPERTIES
    EndedStaysEnded
    LockReleased
    ImplementsLifecycle
CHECK_DEADLOCK FALSE
