---------------------------- MODULE MCPrimVector ----------------------------
(* Instances of PrimVector for TLC: one type of each kind that matters. *)
EXTENDS PrimVector, TLC

Symmetry == Permutations(View) \cup Permutations(Caller)

\* The ranges are those of numbers of one bit and of two.
SmallSize == [t \in Type |-> IF t = "i16" THEN 2 ELSE 1]
SmallNumber == -1..1
SmallFits == [t \in Type |-> CASE t = "i8" -> {-1, 0}
                               [] t = "u8" -> {0, 1}
                               [] t = "i16" -> {-1, 0, 1}]
=============================================================================
