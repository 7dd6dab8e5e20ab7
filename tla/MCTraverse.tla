----------------------------- MODULE MCTraverse -----------------------------
(* Instances of Traverse for TLC: the file is a vector that holds itself,  *)
(* twice a map, which maps a string to the vector, a set and a number.     *)
EXTENDS Traverse, TLC

CONSTANTS vector, map, set, text, number

Symmetry == Permutations(Obj \ {First})

SmallKind == vector :> "list" @@ map :> "dict" @@ set :> "set" @@ text :> "text" @@ number :> "int"
SmallKids == vector :> <<map, vector, map>> @@ map :> <<text, vector, number, set>>
          @@ set :> <<text, number>> @@ text :> <<>> @@ number :> <<>>
=============================================================================
