SPECIFICATION AllSpec
CONSTANTS
    Mixes <- Meetings
    MaxRepeats = 1
INVARIANTS
    
    LockOrderIsKept
CHECK_DEADLOCK FALSE
