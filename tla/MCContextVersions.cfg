CONSTANTS
    Names = {x, y}
    Results = {a, b}
    Empty = empty
    Moved = moved
    SizeT = 16
    MaxVersions = 4
SPECIFICATION Spec
INVARIANT
    CountsForward
PROPERTY
    ReadsAsPromised
