CONSTANTS
    File = {"f1"}
    Root <- SmallRoot
    Kind <- SmallKind
    Cells <- SmallCells
    Vals <- SmallVals
    Empty = Empty
    vector = vector
    numbers = numbers
    map = map
    set = set
    Thread = {t1, t2}
    View = {w1, w2}
    Iter = {k1}
    Buffer = {b1}
    MaxMaps = 2
    MaxInits = 2
    Index <- SmallIndex
CONSTRAINT FewRaised
SYMMETRY Symmetry
SPECIFICATION Spec
INVARIANTS ViewsAreBacked NothingLeaks IterationIsExact
