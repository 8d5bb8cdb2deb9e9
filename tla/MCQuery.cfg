SPECIFICATION Spec
CONSTANTS
    Edges = {"e", "f", "g"}
    Schema <- MCSchema
    EdgeTypes <- MCEdgeTypes
    Limits <- MCLimits
    Indexes <- MCIndexes
    SearchTries = 3
    SearchAnswers <- MCSearch
    MaxExplorationRound = 8
    MaxAllowedStatements = 3
    Graph <- MCGraph
    Queries <- MCQueries
    RuleOrders <- MCRuleOrders
    Ties = {"first", "last"}
    AcceptPartial = FALSE
    Validated <- ValidateQuery
    BestPlan <- FindBestPlan
    Means <- QueryMeaning
INVARIANTS
    AnswerIsMeaning
    AcceptedRuns
    ReadsAreWritten
    NoConflicts
    NothingMovedIsRead
    OnlyPassThroughShared
    ExplorationEnds
    OutputsAreDeclared
PROPERTIES
    QueryEnds
