SPECIFICATION Spec
CONSTANTS
    Names = {"a", "b"}
    Schemas = {"t"}
    Indexes = {"i"}
    Sessions = {s1, s2}
    Requests = {r1, r2}
    Texts <- MCTexts
    MaxSpaces = 2
SYMMETRY Symmetry
INVARIANTS
    RightSpace
    RunsAsValidated
    OwnDropForgotten
