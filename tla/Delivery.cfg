SPECIFICATION AllSpec
INVARIANTS
    BuildsFollowTheBranch
    
    ProxyServesItsRecord
PROPERTIES
    PushStepsAreAuthorized
    AdmissionsAreCurrent
CHECK_DEADLOCK FALSE
