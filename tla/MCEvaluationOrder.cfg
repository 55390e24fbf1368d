SPECIFICATION FairSpec
CONSTANTS
    N = 4
    Names <- MCNames
    Nodes <- MCNodes
INVARIANTS
    TypeOK
    ReadsComeAfterDefinitions
    OrderIsComplete
    VerdictIsExact
    LoopComputesOrderOf
PROPERTY Terminates
CHECK_DEADLOCK FALSE
