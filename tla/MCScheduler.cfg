CONSTANTS
    Executors <- PlanExecutors
    Kind <- PlanKind
    Deps <- PlanDeps
    Bodies <- PlanBodies
    Root = "go0"
    QueryInst = "query"
    Depth <- PlanDepth
    Block <- PlanBlock
    Faulty <- PlanFaulty
    MaxRounds = 3
SPECIFICATION FairSpec
INVARIANTS
    FreshInputs
    PromiseSetOnce
    RoundsDoNotOverlap
    SuccessIsQuiescent
    ErrorsReported
PROPERTY
    QueryAnswered
\* The query ends with its answer.
CHECK_DEADLOCK FALSE
