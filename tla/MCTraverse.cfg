CONSTANTS
    Obj = {o1, o2, o3}
    First = o1
    Val = {vector, map, set, text, number}
    FileKind <- SmallKind
    FileKids <- SmallKids
    ViewOf = {vector, set}
    vector = vector
    map = map
    set = set
    text = text
    number = number
    MaxKids = 2
    MaxDepth = 3
    None = None
SYMMETRY Symmetry
SPECIFICATION Spec
CHECK_DEADLOCK FALSE
INVARIANTS HandlesMirrorObjects OutcomeIsReported RecursionIsBounded
