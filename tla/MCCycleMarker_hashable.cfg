CONSTANTS
    Container = {1, 2, 3}
    Leaf = {0}
    MaxDepth = 512
    NNodes = 3
    MaxChildren = 2
    Graphs <- SmallGraphs
    Roots = {0, 1}
SPECIFICATION Spec
CHECK_DEADLOCK FALSE
INVARIANTS HashableNotOnCycle
