--------------------------- MODULE MCCycleMarker ---------------------------
(* Instances of CycleMarker for TLC: families of value graphs. *)
EXTENDS CycleMarker

CONSTANTS MaxChildren  \* bound on the length of a child list

\* Every graph of three containers whose child lists have at most MaxChildren
\* entries: repeated children, self loops and leaves included.
SmallGraphs ==
    {[c \in Container |-> IF c \in 1..3 THEN g[c] ELSE <<>>]
        : g \in [1..3 -> BoundedSeq(0..3, MaxChildren)]}

\* A path 1, 2, ..., N-1 with any backward edges, and a second child N of 1
\* that is visited last and has any edges into the path: where two nodes of
\* the same nesting level meet in one component.
N == Cardinality(Container)
Ascending(S) == SetToSortSeq(S, LAMBDA a, b : a < b)
PathGraphs ==
    LET back == {b \in [2..(N - 1) -> SUBSET (1..(N - 2))] :
                    \A k \in 2..(N - 1) : \A x \in b[k] : x < k}
    IN  {[c \in Container |->
            IF c = 1 THEN <<2, N>>
            ELSE IF c = N THEN Ascending(cross)
            ELSE IF c = N - 1 THEN Ascending(b[c])
            ELSE <<c + 1>> \o Ascending(b[c])]
          : b \in back, cross \in SUBSET (1..(N - 1))}

\* The paths of 1 to N containers, the longest of which is too deep.
ChainGraphs == {[c \in Container |-> IF c < n THEN <<c + 1>> ELSE <<>>] : n \in 1..N}

AllGraphs == SmallGraphs \cup PathGraphs \cup ChainGraphs
=============================================================================
