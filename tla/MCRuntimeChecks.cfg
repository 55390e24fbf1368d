SPECIFICATION Spec
CONSTANTS
    Projects <- MCProjects
    MaxCycles = 3
INVARIANTS
    TypeOK
    ChecksCoverFaults
    ChecksNameFaults
CHECK_DEADLOCK FALSE
