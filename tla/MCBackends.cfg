SPECIFICATION Spec
CONSTANTS
    Inputs <- MCInputs
    Vars <- MCVars
    Outputs <- MCOutputs
    Val <- MCVal
    Zero = 0
    InputRows <- MCRows
    Order <- MCOrder
    FlatOrder <- MCFlatOrder
    ClockOf <- MCClockOf
    Chains <- MCChains
    Sites <- MCSites
    Reads <- MCReads
    Pres <- MCPres
    Apply <- MCApply
    Fails <- MCFails
INVARIANTS
    TypeOK
    SimAgreesWithC
    TracesAgree
PROPERTIES
    SimImplements
    CImplements
    FlatImplements
CHECK_DEADLOCK FALSE
