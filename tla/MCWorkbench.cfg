SPECIFICATION Spec
CONSTANTS
    Sessions <- MCSessions
    MaxEdits = 3
    RenameVar <- Renamed
    RenameInStates <- RenamedStates
    CanLower <- Lowers
    FreeVarsOf <- FreeVars
    OperandsOf <- FlatOperands
    InferInNode <- TypeInNode
    OwnerErrors <- OwnerTypeErrors
    ContractErrors <- ContractErrorsOf
INVARIANTS
    TypeOK
    LayoutFollows
    ContractInStep
    SliceClosed
    RenameKeepsVerdict
    EditsStayLocal
    DropsMissOnlyPins
CHECK_DEADLOCK FALSE
