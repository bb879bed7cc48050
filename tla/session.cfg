SPECIFICATION Spec
CONSTANTS
    h1 = h1
    h2 = h2
    s1 = s1
    s2 = s2
    None = None
    Handlers <- MCHandlers
    Sessions <- OneSession
    LastStep = 2
    ModelSteps = {1}
    Routes <- AllRoutes
    Faults = {}
    Presses <- PagePresses
    MaxRows = 4
SYMMETRY AnyHandler
INVARIANTS
    TypeOK
    SeqIsPosition
    AdvancesChain
    RendersFollowAdvances
    OneEnd
    EndLogged
PROPERTIES
    PressMovesOnce
CHECK_DEADLOCK FALSE
