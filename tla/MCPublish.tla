----------------------------- MODULE MCPublish -----------------------------
(* A small file system for model checking Publish. *)
EXTENDS Publish, TLC

Symmetry == Permutations(Writer) \cup Permutations(Reader) \cup Permutations(Inode)
=============================================================================
