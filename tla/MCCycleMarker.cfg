CONSTANTS
    Container = {1, 2, 3, 4, 5}
    Leaf = {0}
    MaxDepth = 7
    NNodes = 5
    MaxChildren = 2
    Graphs <- AllGraphs
    Roots = {0, 1}
SPECIFICATION FairSpec
CHECK_DEADLOCK FALSE
INVARIANTS MarksAreOnCycles CyclesAreBroken SearchInv DepthLimit
PROPERTIES Terminates
