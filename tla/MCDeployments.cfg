SPECIFICATION MCSpec
CONSTANTS
    d1 = d1
    d2 = d2
    c1 = c1
    c2 = c2
    env = env
    v1 = v1
    v2 = v2
    n1 = n1
    n2 = n2
    t1 = t1
    Root = {d1, d2}
    Child = {c1, c2}
    Run = {d1, d2, c1, c2}
    TypedRun = {d1, d2, c1, c2}
    BuildRun = {}
    RollbackOf <- OneRollbackEach
    Env = {env}
    EnvOf <- OneEnvironment
    Tag = {}
    RunnerTags <- NoTags
    Selector <- NoSelector
    Revision = {v1, v2}
    NoRevision = NoRevision
    Runner = {n1}
    Eligible <- EveryRunner
    Key = {k1}
    NoRunner = NoRunner
    NoKey = NoKey
    TTL = 1
    MaxAttempt = 2
CONSTRAINT NobodyDead
SYMMETRY Symmetry
INVARIANTS
    OneActorPerEnvironment
    AppliedIsNotDiscarded
    DeploymentMatchesRun
PROPERTIES
    OnlySuccessMovesHealthy
CHECK_DEADLOCK FALSE
