CONSTANTS
    Vids <- MCVids
    PartOf <- MCPartOf
    TagSchema <- MCTags
    EdgeSchema <- MCEdges
    EdgeTypeOf <- MCTypes
    Numbers = {0, 1, 2}
    Null = Null
    BadValue = BadValue
    NotConstant = NotConstant
    WrongVid = WrongVid
    NoName = NoName
    Default = 0
    Requests = {r1, r2}
    Sentences <- MCSentences
    Graphs <- MCGraphs
    MaxWrites = 2
SYMMETRY Symmetry
SPECIFICATION Spec
INVARIANTS DeletedIsGone CopiesAgree AloneIsAtomic
