SPECIFICATION AllSpec
CONSTANTS
    Backups = {"b1", "b2"}
    Restores = {"r1"}
    Source = "s"
    Generic = "g"
    MaxFaults = 2
    MaxChanges = 1
INVARIANTS
    DatabaseHoldsFollowEffects
    TransfersAreWhole
    SchedulesRunOnce
PROPERTIES
    BackupDecisionsStand
CHECK_DEADLOCK FALSE
