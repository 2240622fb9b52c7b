CONSTANTS
    r1 = r1
    r2 = r2
    d1 = d1
    d2 = d2
    n1 = n1
    n2 = n2
    k1 = k1
    k2 = k2
    Run = {r1, r2, d1, d2}
    TypedRun = {r2, d1, d2}
    BuildRun = {r2}
    Runner = {n1, n2}
    Key = {k1, k2}
    NoRunner = NoRunner
    NoKey = NoKey
    TTL = 2
    MaxAttempt = 2
    Eligible <- OneExcluded
CONSTRAINT OnePair
SYMMETRY KeySymmetry
SPECIFICATION Spec
INVARIANTS AuthorityIsCurrent ApprovalGatesExecution
PROPERTIES ImplementsAuthority
CHECK_DEADLOCK FALSE
