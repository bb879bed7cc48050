SPECIFICATION Spec
CONSTANTS
    p1 = p1
    p2 = p2
    m1 = m1
    m2 = m2
    v1 = v1
    v2 = v2
    None = None
    Pages <- OnePage
    Pads <- OnePage
    Models <- TwoModels
    Views <- TwoViews
    FirstModel = m1
    FirstView = v1
    RetryLimit = 1
    PollFailures = 2
    MaxPresses = 2
    MaxOutages = 1
    MaxDrops = 1
INVARIANTS
    TypeOK
    ShowsItsState
    ResponseIsOfItsKey
    PansAtMostOnce
    OwedIsOnItsWay
CHECK_DEADLOCK FALSE
