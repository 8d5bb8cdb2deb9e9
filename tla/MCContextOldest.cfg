CONSTANTS
    Names = {x}
    Results = {a, b}
    Empty = empty
    Moved = moved
    SizeT = 16
    MaxVersions = 2
SPECIFICATION Spec
INVARIANT
    OldestIsVersionOne
