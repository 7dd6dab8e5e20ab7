SPECIFICATION Spec
CONSTANTS
    Writer = {w1, w2}
    Reader = {r1}
    Inode = {i1, i2, i3}
    None = None
    Chunks = 2
SYMMETRY Symmetry
INVARIANTS PublishedIsWhole OpenIsWhole ClosedOnce
PROPERTIES MappedNeverChanges ImplementsAtomicFile
