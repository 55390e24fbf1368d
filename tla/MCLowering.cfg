SPECIFICATION Spec
CONSTANTS
    Operators <- MCOperators
    MachineByName <- MCMachineByName
INVARIANTS
    TypeOK
    LoweringIsWellClocked
    NothingAbsentIsRead
PROPERTIES
    ConstructsKeepTheirPromise
CHECK_DEADLOCK FALSE
