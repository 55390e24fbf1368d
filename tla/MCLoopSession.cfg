SPECIFICATION FairSpec
CONSTANTS
    a = a
    b = b
    bad = bad
    late = late
    Inputs <- MCInputs
    FailEarly <- MCFailEarly
    FailLate <- MCNone
    ObserverFails <- MCNone
    HistoryMax = 3
    MaxCycles = 4
INVARIANTS
    TypeOK
    ComparesSameState
    AttachedInStep
    HistoryReplays
    HandleInStep
PROPERTY CommandsAreAnswered
