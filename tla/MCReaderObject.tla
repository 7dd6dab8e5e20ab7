--------------------------- MODULE MCReaderObject ---------------------------
(* Instances of ReaderObject for TLC: a file whose root is a vector that   *)
(* holds a map, which holds a set, and a vector of numbers.                 *)
EXTENDS ReaderObject, TLC

CONSTANTS vector, numbers, map, set

Symmetry == Permutations(View) \cup Permutations(Thread)

SmallRoot == [f \in File |-> vector]
SmallKind == vector :> "values" @@ numbers :> "numbers" @@ map :> "map" @@ set :> "set"
SmallCells == vector :> <<map, numbers>>
           @@ numbers :> <<0, 1, 1>>
           @@ map :> <<Empty, 1, Empty>> @@ set :> <<2, Empty, 0>>
SmallVals == map :> <<0, set, 0>>
SmallIndex == {-1, 1}

\* A next() of each iterator raises once.
FewRaised == \A k \in Iter : Cardinality(iters[k].raised) <= 1
=============================================================================
