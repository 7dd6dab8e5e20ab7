------------------------------- MODULE MCJudy -------------------------------
(***************************************************************************)
(* Indexes of four digits in base 6: four share all but the last digit,    *)
(* three more part from them at the third digit, so that there are linear, *)
(* bitmap and uncompressed branches, one at the second and one at the      *)
(* first. The thresholds are scaled down in the order the real ones have.  *)
(***************************************************************************)
EXTENDS Judy


MCImmedMax == <<2, 1, 1>>
MCLeafMax == <<3, 4, 3>>

\* The index of the digits a b c d.
At(a, b, c, d) == ((a * 6 + b) * 6 + c) * 6 + d

MCKeys == {At(1, 2, 3, i) : i \in {0, 1, 3, 4}} \cup {At(1, 2, 1, 0), At(1, 2, 1, 1), At(1, 2, 5, 0), At(1, 4, 0, 0), At(5, 5, 5, 5)}
MCProbes == {0, At(1, 2, 2, 2), At(1, 2, 3, 1), At(1, 2, 3, 2), At(1, 3, 3, 1), At(2, 2, 3, 1), At(5, 5, 5, 5)}
=============================================================================
