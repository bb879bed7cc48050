SPECIFICATION Spec
CONSTANTS
    Table <- MCTable
    Offered <- MCOffered
    Browser = {}
INVARIANTS
    TypeOK
    ResumesWhereLeft
    PatternStaysInItsStep
PROPERTY OnePressOneStep
