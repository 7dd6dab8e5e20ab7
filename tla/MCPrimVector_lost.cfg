CONSTANTS
    Type = {"i8", "u8", "i16"}
    Signed = {"i8", "i16"}
    Unsigned = {"u8"}
    FirstType = "i8"
    NoType = "none"
    Size <- SmallSize
    Fits <- SmallFits
    Number <- SmallNumber
    Word = 1000
    MaxAlloc = 2
    MaxBulk = 2
    MaxKeys = 1
    View = {v1, v2}
    Iter = {i1}
    Caller = {c1, c2}
SYMMETRY Symmetry
SPECIFICATION Spec
INVARIANTS NoViewIsLost
