CONSTANTS
    NoEdge = NoEdge
    Queries <- MCQueries
SPECIFICATION Spec
INVARIANTS
    LevelsAreDistances
    LevelsAreTrails
    NeverWorse
    AnswerIsSound
    AnswerIsExact
    FoundOnce
PROPERTY
    Terminates
\* The query ends with its answer.
CHECK_DEADLOCK FALSE
