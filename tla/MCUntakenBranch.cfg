SPECIFICATION Spec
CONSTANTS
    Programs <- UntakenPrograms
    Height <- UntakenHeight
    Modulus = 3
    Paths <- UntakenPaths
    MaxCycles = 3
INVARIANTS
    InstancesAgree
CHECK_DEADLOCK FALSE
