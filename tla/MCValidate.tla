---------------------------- MODULE MCValidate ----------------------------
(* Instances of Validate for TLC. *)
EXTENDS Validate

V(t, k) == [type |-> t, data |-> k]

Vec(items, room) == [items |-> items, room |-> room]
Table(items, room, wrong) == [items |-> items, room |-> room, wrong |-> wrong]
Blob(room, terminated) == [bytes |-> 2, room |-> room, terminated |-> terminated]

File(root, vectors, sets, maps, blobs) ==
    [version |-> "64_newhash", extent |-> "offsets", root |-> root, vectors |-> vectors,
     sets |-> sets, maps |-> maps, blobs |-> blobs]

\* Graphs of two vectors and a set, connected in every way that two items of the
\* one and one of the other can connect them; a reference out of bounds, and one
\* to a vector that is too large for its tag.
Refs == {V("value", 1), V("hashable", 1), V("hashable", 2), V("u8", 2), V("value", 3),
         V("set", 1), V("inline", 1)}
GraphFiles ==
    {File(V("value", 1), <<Vec(a, 20), Vec(b, 5)>>, <<Table(<<V("u32", 2), k>>, 24, {})>>, <<>>, <<>>)
        : a \in BoundedSeq(Refs, 2), b \in BoundedSeq(Refs, 1) , k \in {V("hashable", 1), V("hashable", 2)}}
    \cup
    {File(V("value", 1), <<Vec(a, 20), Vec(<<b>>, 20)>>, <<Table(<<V("u32", 2), k>>, 24, {})>>, <<>>, <<>>)
        : a \in BoundedSeq(Refs, 2), b \in Refs, k \in {V("hashable", 1), V("hashable", 2)}}

\* A set and a map next to each other that share their vectors, with one or
\* more things wrong.
BrokenFiles ==
    {File(V(tag, 1), <<Vec(<<V("set", 1), V("map", 1)>>, 20), Vec(<<V("inline", n), V("blob", 1)>>, 20)>>,
          <<Table(<<V(hash, 2), V("hashable", 2)>>, setRoom, wrong)>>,
          <<Table(<<V("u32", 2), V("hashable", 2), V(vals, 1)>>, mapRoom, {})>>,
          <<Blob(blobRoom, ends)>>)
        : tag \in {"value", "hashable"}, n \in 1..2, hash \in {"u32", "u8"}, setRoom \in {23, 24},
          wrong \in {{}, {0}, {1}}, vals \in {"value", "u32"}, mapRoom \in {31, 32}, blobRoom \in {5, 6},
          ends \in BOOLEAN}

\* Tables whose vectors differ in length.
UnevenFiles ==
    {File(V("map", 1), <<Vec(<<>>, 4), Vec(<<V("inline", 1)>>, 12)>>, <<>>,
          <<Table(<<V("u32", h), V("hashable", k), V("value", v)>>, 32, {})>>, <<>>)
        : h \in 1..2, k \in 1..2, v \in 1..2}

\* Keys that are hashable vectors: on a cycle, with a value that is not hashable, or not;
\* and tables in which a fault is found before or after they are hashed.
KeyFiles ==
    {File(V(root, 1), <<Vec(<<first, V("set", 1)>>, 20), Vec(<<key>>, 20)>>,
          <<Table(<<V("u32", 2), V("hashable", 2)>>, 24, wrong)>>, <<>>, <<>>)
        : root \in {"value", "hashable"}, first \in {V("value", 2), V("hashable", 2), V("inline", 1)},
          key \in {V("hashable", 1), V("hashable", 2), V("value", 1), V("inline", 1)},
          wrong \in {{}, {0}, {1}}}

\* Containers nested until the limit is met, or cut short by a leaf.
DeepFiles ==
    {File(V("value", 1), <<Vec(<<V("set", 1)>>, 20), Vec(<<v>>, 20)>>,
          <<Table(<<V("u32", 2), V("hashable", 2)>>, 24, {})>>,
          <<Table(<<V("u32", 1), V("hashable", 1), V("value", 2)>>, 32, {})>>, <<>>)
        : v \in {V("map", 1), V("inline", 1), V("value", 1)}}

\* Headers.
FormatFiles ==
    {[File(root, <<>>, <<>>, <<>>, <<>>) EXCEPT !.version = version, !.extent = extent]
        : root \in {V("inline", 1), V("inline", 2), V("blob", 1), V("unknown", 1)},
          version \in {"32_oldhash", "32_newhash", "64_newhash", "other"},
          extent \in {"nothing", "header", "offsets"}}

AllFiles == GraphFiles \cup BrokenFiles \cup UnevenFiles \cup KeyFiles \cup DeepFiles \cup FormatFiles
=============================================================================
