SPECIFICATION Spec
CONSTANTS
    mug = mug
    cube = cube
    top = top
    front = front
    Models = {mug, cube}
    FirstModel = mug
    Pages = {p1}
    ViewOrder <- MCViewOrder
    Startup <- MCStartup
    Capacity = 1
    Attempts = 2
    RetryLimit = 1
    MaxBuilt = 3
    MaxPresses = 1
    MaxEdits = 2
    MaxFailures = 1
    WarmUp = WarmUp
    None = None
INVARIANTS
    DataIsOfItsMesh
    FlatIsWatched
    WarmUpIsWoken
CHECK_DEADLOCK FALSE
