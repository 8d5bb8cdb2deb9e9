CONSTANTS
    NoEdge = NoEdge
    Queries <- TestQueries
SPECIFICATION Spec
INVARIANT
    EveryStartRecorded
\* The query ends with its answer.
CHECK_DEADLOCK FALSE
