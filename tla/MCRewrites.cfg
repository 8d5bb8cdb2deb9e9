SPECIFICATION Spec
CONSTANTS
    Edges = {"e"}
    Schema <- MCSchema
    EdgeTypes <- MCEdgeTypes
    Limits <- MCLimits
    Indexes <- MCIndexes
    SearchTries = 3
    SearchAnswers <- MCSearch
    MaxExplorationRound = 8
    MaxAllowedStatements = 3
    Graph <- MCGraph
    Exprs <- MCExprs
    Bindings <- MCBindings
    Types <- MCTypes
    Scans <- MCScans
    BoundTypes = {"INT", "FLOAT", "STRING", "DATE", "TIME", "DATETIME"}
    Definitions <- MCDefinitions
    Alters <- MCAlters
    IntBits = 8
    Ties = {"first", "last"}
    MaxSteps = 3
INVARIANTS
    ValueKept
    TypeIsSound
    ScanIsExact
    BoundIsTight
    ShowCreateRecreates
