SPECIFICATION Spec
CONSTANTS
    a = a
    b = b
    bad = bad
    late = late
    Inputs <- ErrorInputs
    FailEarly <- MCNone
    FailLate <- ErrorFailLate
    ObserverFails <- ErrorObserverFails
    HistoryMax = 3
    MaxCycles = 3
INVARIANT AttachedInStep
