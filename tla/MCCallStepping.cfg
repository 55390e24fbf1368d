SPECIFICATION Spec
CONSTANTS
    Programs <- MCPrograms
    Height <- MCHeight
    Modulus = 3
    Paths <- MCPaths
    MaxCycles = 5
INVARIANTS
    TypeOK
    InstancesAgree
    EveryCallEveryCycle
CHECK_DEADLOCK FALSE
