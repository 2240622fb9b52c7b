SPECIFICATION AllSpec
CONSTANTS
    NCopies = 3
    Loc <- FileOfEach
    Restored = {1}
    Uploaded = {}
    MaxChanges = 0
    MaxLosses = 1
INVARIANTS
    
    WritersAreOwed
PROPERTIES
    
    DeletionsSpareTheRest
CHECK_DEADLOCK FALSE
