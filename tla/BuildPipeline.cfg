SPECIFICATION AllSpec
CONSTANTS
    MaxEvents = 2
    PageLimit = 1
    BatchSize = 1
    MaxFaults = 2
INVARIANTS
    
    BuildOutputIsWhole
    HostIsLeftClean
PROPERTIES
    SuccessIsCurrent
CHECK_DEADLOCK FALSE
