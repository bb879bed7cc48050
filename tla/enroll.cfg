SPECIFICATION Spec
CONSTANTS
    p1 = p1
    Panels <- OnePanel
    Study <- MCStudy
    HandCodes <- SecondByHand
    Letters = 2
    Numbers = {1, 2}
    Failures = TRUE
    MaxSessions = 4
INVARIANTS
    TypeOK
    NobodyWithoutSession
    NextCodeIsFree
    SetsAreUsedEvenly
CHECK_DEADLOCK FALSE
