------------------------------ MODULE IndexMap ------------------------------
(***************************************************************************)
(* What JudyL promises its callers: a map from indexes to values. Running  *)
(* out of memory changes nothing that the caller can see, or it breaks the *)
(* array, after which only freeing it is defined.                          *)
(***************************************************************************)
CONSTANT Index

VARIABLES map, broken, ret

mapVars == <<map, broken, ret>>

Init == map = {} /\ broken = FALSE /\ ret = "ok"

\* The caller's value of an index is the index.
Insert(i) == ~broken /\ map' = map \cup {<<i, i>>} /\ broken' = FALSE /\ ret' = "ok"

Delete(i) == ~broken /\ map' = map \ {<<i, i>>} /\ broken' = FALSE /\ ret' = "ok"

NoMemory ==
  /\ ~broken /\ ret' = "nomem"
  /\ \/ UNCHANGED <<map, broken>>
     \/ map' = {} /\ broken' = TRUE

FreeAll == map' = {} /\ broken' = FALSE /\ ret' = "ok"

Next == NoMemory \/ FreeAll \/ \E i \in Index : Insert(i) \/ Delete(i)

Spec == Init /\ [][Next]_mapVars
=============================================================================
