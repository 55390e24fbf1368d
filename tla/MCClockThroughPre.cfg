SPECIFICATION Spec
CONSTANTS
    Inputs <- LateInputs
    Vars <- LateVars
    Outputs <- LateOutputs
    Val <- LateVal
    Zero = 0
    InputRows <- LateRows
    Order <- LateOrder
    FlatOrder <- LateFlatOrder
    ClockOf <- LateClockOf
    Chains <- LateChains
    Sites <- LateSites
    Reads <- LateReads
    Pres <- LatePres
    Apply <- LateApply
    Fails <- LateFails
INVARIANT OutputsAgree
CHECK_DEADLOCK FALSE
