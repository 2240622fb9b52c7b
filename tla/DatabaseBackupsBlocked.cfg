SPECIFICATION FairSpec
CONSTANTS
    Backups = {b1}
    Restores = {}
    Source = s
    Generic = g
    MaxFaults = 1
    MaxChanges = 0
PROPERTY
    OtherWorkIsClaimed
CHECK_DEADLOCK FALSE
