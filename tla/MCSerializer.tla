---------------------------- MODULE MCSerializer ----------------------------
(* Instances of Serializer for TLC: what the clients create. *)
EXTENDS Serializer

I32(n) == [type |-> "i32", data |-> n]
U32(n) == [type |-> "u32", data |-> n]
Float(n) == [type |-> "float", data |-> n]
Null == [type |-> "null", data |-> 0]

\* Numbers for the widths there are with Base = 4, where a byte is 0..3 or -2..1, one that
\* does not compress, and one that is cached.
CachedNumbers == {I32(-1)}
Numbers == {I32(-1), U32(3), U32(200), Float(1), Null}
NoNumbers == {}

Texts == {[type |-> "STRING", len |-> 2], [type |-> "UNICODE", len |-> 1],
          [type |-> "BITVECTOR", len |-> 33]}
NoTexts == {}

\* Clients that use every kind of value create two of them, those that have all numbers
\* in vectors three; those that create tables put the cached number and vectors into them,
\* or one vector that holds another, for which they need a third item.
Kinds == {object[h].kind : h \in Mine}
OnlyCached ==
    \A h \in Mine : object[h].kind = "inline" => Range(object[h].holds) \subseteq CachedNumbers
OneOfEach == \A g, h \in Mine : object[g].kind = object[h].kind => g = h
Nested ==
    /\ OneOfEach /\ Kinds \subseteq {"native", "vector", "set"}
    /\ \A h \in Mine : object[h].kind = "native" => Len(object[h].holds) = 1
FewOrTables ==
    \/ /\ Items <= 2
       /\ \/ Len(values) <= 2
          \/ Len(values) <= 3 /\ Kinds \subseteq {"inline", "vector"}
          \/ OnlyCached /\ Kinds \subseteq {"inline", "vector", "set", "map"}
    \/ Nested
=============================================================================
