---------------------------- MODULE MCHashTable ----------------------------
(* An instance of HashTable for TLC. *)
EXTENDS HashTable, SequencesExt

\* A key for every hash there is in a word, to see every probe sequence, and more
\* keys with the hash of key 1, which is also the hash of an empty slot: one that
\* compares equal to it, one that does not, and one that is not hashable; a NaN; a
\* key of another kind, which the writer fails to compare with key 1; an empty
\* vector, which the writer takes for key 6 when it compares them and hashes as
\* neither; and a key that is nested too deeply to be compared with itself, which
\* no table that can be reached from the root holds: the cycle marker refuses it.
Equal == 17
Other == 18
Unhashable == 19
NaN == 20
Kind == 21
EmptyVector == 22
Deep == 23

MCCreateHash == [k \in Key |-> IF k <= WordSize THEN k - 1 ELSE 0]
MCReadHash == [k \in Key |-> IF k = EmptyVector THEN 1 ELSE MCCreateHash[k]]

Same(k, l) == k = l \/ {k, l} = {1, Equal}
Confused(k, l) == {k, l} = {6, EmptyVector}
MCCreateCmp == [kl \in Key \X Key |->
    CASE {kl[1], kl[2]} \in {{1, Kind}, {Deep}} -> "error"
      [] Confused(kl[1], kl[2]) -> "equal"
      [] Same(kl[1], kl[2]) /\ kl[1] \notin {NaN, Deep} -> "equal"
      [] OTHER -> "differ"]
MCReadCmp == [kl \in Key \X Key |->
    CASE {kl[1], kl[2]} = {Deep} -> "error"
      [] Same(kl[1], kl[2]) /\ kl[1] \notin {NaN, Deep} -> "equal"
      [] OTHER -> "differ"]

\* Keys that want the same bucket of a small table, for the most part.
Colliding == {1, 2, 5, 9, 13, 16} \cup 17..23

\* All key vectors of up to two keys; three keys that collide, which fill a table up
\* to the one empty slot it must have; and three or four keys of different hashes.
MCKeyLists ==
    BoundedSeq(Key, 2) \cup [1..3 -> Colliding]
    \cup {ks \in [1..3 -> 1..WordSize] : ks[1] < ks[2] /\ ks[2] < ks[3]}
    \cup {ks \in [1..4 -> 1..WordSize] : ks[1] < ks[2] /\ ks[2] < ks[3] /\ ks[3] < ks[4]}
=============================================================================
