SPECIFICATION Spec
CONSTANTS
    NSessions = 1
    Faults <- AnyFault
    MaxCalls = 4
    MaxFaults = 2
INVARIANTS
    TypeOK
    LogIsInOrder
    ArchiveIsWhole
    ChecksFindWhatWentWrong
CHECK_DEADLOCK FALSE
