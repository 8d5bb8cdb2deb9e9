CONSTANTS
    Executors <- PlanExecutors
    Kind <- PlanKind
    Deps <- PlanDeps
    Bodies <- PlanBodies
    Root = "go0"
    QueryInst = "query"
    Depth <- PlanDepth
    Block <- PlanBlock
    Faulty <- PlanFaulty
    MaxRounds = 2
SPECIFICATION Spec
INVARIANT
    ReleaseIsSafe
CHECK_DEADLOCK FALSE
