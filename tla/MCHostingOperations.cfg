SPECIFICATION MCSpec
CONSTANTS
    Op = {1, 2, 3, 4}
    Binding = {1, 2}
    NoOp = 0
    NoBinding = 0
    Port = {1, 2}
    MaxAttempts = 2
    MaxObservations = 1
    Events = {"route", "grant", "runner", "cancel", "observe", "lapse", "restore"}
CONSTRAINT
    Explored
INVARIANTS
    MutationIsExclusive
    HealthyIsInLedger
    ReferencedReleasesRun
    PortsAreExclusive
PROPERTIES
    OnlyHolderEndsHold
CHECK_DEADLOCK FALSE
