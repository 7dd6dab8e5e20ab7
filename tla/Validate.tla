----------------------------- MODULE Validate -----------------------------
(***************************************************************************)
(* Opening a file: pointless_init and the validator it runs.  Three walks  *)
(* (pointless_walk.c) start at the root and visit a container once each,   *)
(* by a bitmap per kind of container.  The first checks that references    *)
(* and objects lie within the file, the second that no hashable vector is  *)
(* marked by the cycle marker, which runs between the two, and the third   *)
(* that the tables of sets and maps can be probed.                         *)
(*                                                                         *)
(* A file is a record of what its bytes say.  Objects overlap and lie      *)
(* about their size as they please: an object has the room between its     *)
(* offset and the end of the heap, and the number of items it claims.  The *)
(* tag of a vector is part of each reference to it, and two references may *)
(* disagree.                                                               *)
(***************************************************************************)
EXTENDS Naturals, FiniteSets, SequencesExt

CONSTANTS
    Files,      \* the files considered
    MaxObjects, \* how many vectors, sets or maps a file may have
    MaxDepth    \* POINTLESS_MAX_DEPTH

VARIABLES
    file,       \* the bytes, fixed
    pass,       \* state.pass
    path,       \* the activations of pointless_walk_priv
    visited,    \* the bits set in state.vector, state.set and state.map
    marked,     \* the bits set in state.cycle_marker
    status      \* how far pointless_init is, its error, or its success

vars == <<file, pass, path, visited, marked, status>>

-----------------------------------------------------------------------------
(* Values and what they refer to *)

\* POINTLESS_VECTOR_U32 and _U8 stand for all vectors of numbers, "blob" for
\* texts and bitvectors on the heap, "inline" for what has no object.
Vector == {"value", "hashable", "u32", "u8"}
Container == {"value", "hashable", "set", "map"}
Type == Vector \cup Container \cup {"blob", "inline"}

Value == [type : Type \cup {"unknown"}, data : Nat]

VectorObject == [items : Seq(Value), room : Nat]
\* What is wrong with a table: 0 if its buckets do not agree with its number of items or
\* none is free, a bucket if the hash in it is wrong or probing for its key ends elsewhere.
TableObject == [items : Seq(Value), room : Nat, wrong : SUBSET Nat]
BlobObject == [bytes : Nat, room : Nat, terminated : BOOLEAN]

FileType ==
    [version : {"32_oldhash", "32_newhash", "64_newhash", "other"},
     extent : {"nothing", "header", "offsets"}, root : Value,
     vectors : Seq(VectorObject), sets : Seq(TableObject), maps : Seq(TableObject),
     blobs : Seq(BlobObject)]

ASSUME FilesAssumption ==
    /\ MaxObjects \in Nat /\ MaxDepth \in Nat
    /\ \A f \in Files :
          /\ f \in FileType
          /\ \A o \in Range(f.sets) : Len(o.items) = 2     \* hashes and keys
          /\ \A o \in Range(f.maps) : Len(o.items) = 3     \* and values
          /\ \A s \in {f.vectors, f.sets, f.maps} : Len(s) <= MaxObjects

\* What is in the file's header is the one child of this value.
Header == [type |-> "header", data |-> 1]

\* The objects a value of a type refers to.
Objects(t) ==
    IF t \in Vector THEN file.vectors
    ELSE IF t = "set" THEN file.sets
    ELSE IF t = "map" THEN file.maps
    ELSE IF t = "blob" THEN file.blobs
    ELSE <<>>

InBounds(v) == v.data \in DOMAIN Objects(v.type)
ObjectOf(v) == Objects(v.type)[v.data]

\* pointless_container_id; the tag of a vector does not matter to it.
IdOf(v) == <<IF v.type \in Vector THEN "vector" ELSE v.type, v.data>>

IsContainer(v) == v.type \in Container

Children(v) ==
    IF v = Header THEN <<file.root>>
    ELSE IF IsContainer(v) /\ InBounds(v) THEN ObjectOf(v).items
    ELSE <<>>

\* The values in the file, and those that can be reached from its header.
Values ==
    {Header, file.root} \cup
    UNION {Range(o.items) : o \in Range(file.vectors) \cup Range(file.sets) \cup Range(file.maps)}

Reachable ==
    {v \in Values : \A T \in SUBSET Values :
        (Header \in T /\ \A u \in T : Range(Children(u)) \subseteq T) => v \in T}

\* pointless_validate_heap_ref
RefOK(v) == v.type \in Type /\ (v.type # "inline" => InBounds(v))

\* pointless_validate_inline_invariants; data is 1 when the value is in range.
InlineOK(v) == v.type = "inline" => v.data = 1

ItemSize == [value |-> 8, hashable |-> 8, u32 |-> 4, u8 |-> 1]

\* pointless_validate_heap_value: the object ends within the heap, a text ends
\* where it should, and a table consists of vectors of the right types.
HeapOK(v) ==
    LET o == ObjectOf(v) IN
    CASE v.type \in Vector -> 4 + ItemSize[v.type] * Len(o.items) <= o.room
      [] v.type = "blob" -> 4 + o.bytes <= o.room /\ o.terminated
      [] v.type = "set" -> 24 <= o.room /\ o.items[1].type = "u32" /\ o.items[2].type = "hashable"
      [] v.type = "map" -> /\ 32 <= o.room /\ o.items[1].type = "u32"
                           /\ o.items[2].type = "hashable"
                           /\ o.items[3].type \in {"value", "hashable"}
      [] OTHER -> TRUE

\* pointless_validate_set_complicated and pointless_validate_map_complicated:
\* vectors of one length, and what pointless_hash_table_validate finds.
Unhashable == {"value", "set", "map"}
Keys(v) == ObjectOf(ObjectOf(v).items[2]).items
SameLength(v) ==
    \A part \in Range(ObjectOf(v).items) : Len(ObjectOf(part).items) = Len(Keys(v))

TableOK(v) ==
    SameLength(v) /\ ObjectOf(v).wrong = {} /\ \A key \in Range(Keys(v)) : key.type \notin Unhashable

\* The keys that it hashes before it finds a fault.
HashedKeys(v) ==
    {Keys(v)[k] : k \in {j \in DOMAIN Keys(v) :
        /\ SameLength(v) /\ 0..(j - 1) \cap ObjectOf(v).wrong = {}
        /\ \A n \in 1..j : Keys(v)[n].type \notin Unhashable}}

\* What pointless_hash_reader_32 gets to from v: it recurses into hashable vectors.
HashReach(v) ==
    {u \in Values : \A T \in SUBSET Values :
        (v \in T /\ \A w \in T : w.type = "hashable" => Range(Children(w)) \subseteq T) => u \in T}

\* It returns: it has not called the null pointer that there is for a value that is not
\* hashable, nor does it recurse until the stack is full.
HashReturns(v) ==
    \A u \in HashReach(v) :
        /\ u.type \notin Unhashable
        /\ u.type = "hashable" => \A w \in Range(Children(u)) : u \notin HashReach(w)

-----------------------------------------------------------------------------
(* pointless_init *)

Init ==
    /\ file \in Files
    /\ pass = 1
    /\ path = <<>> /\ visited = {} /\ marked = {}
    /\ status = "init"

Top == path[Len(path)]
WalkFrom(v) == path' = <<[v |-> v, i |-> 1]>>

\* Neither of the two old versions nor an unknown one is supported; the case of
\* the second breaks out of the switch all the same.
VersionPasses == file.version \in {"32_newhash", "64_newhash"}

\* The header, the version and the offset vectors, then the walk of pass 1.
Open ==
    /\ status = "init"
    /\ file.extent = "offsets" /\ VersionPasses
    /\ \/ status' = "walk" /\ WalkFrom(Header)
       \/ status' = "unchecked" /\ UNCHANGED path   \* do_validate is 0
       \/ status' = "oom" /\ UNCHANGED path         \* no memory for the bitmaps
    /\ UNCHANGED <<file, pass, visited, marked>>

OpenFails ==
    /\ status = "init"
    /\ file.extent # "offsets" \/ ~VersionPasses
    /\ status' = "format"
    /\ UNCHANGED <<file, pass, path, visited, marked>>

-----------------------------------------------------------------------------
(* pointless_walk_priv with pointless_validate_pass_cb *)

\* v is the next value to be visited; path has the header at its bottom, so
\* that the root is at depth 0.
Visiting(v) ==
    /\ status = "walk" /\ path # <<>>
    /\ Top.i <= Len(Children(Top.v))
    /\ v = Children(Top.v)[Top.i]

NextVisit == path' = [path EXCEPT ![Len(path)].i = @ + 1]
Stop(error) == status' = error /\ UNCHANGED <<file, pass, path, marked>>

DepthOK == Len(path) - 1 < MaxDepth

TooDeep(v) ==
    /\ Visiting(v) /\ ~DepthOK
    /\ Stop("depth") /\ UNCHANGED visited

Allowed(v) == Visiting(v) /\ DepthOK
Seen(v) == IsContainer(v) /\ IdOf(v) \in visited

BadReference(v) ==
    /\ Allowed(v)
    /\ pass = 1 /\ ~RefOK(v)
    /\ Stop("reference") /\ UNCHANGED visited

\* Faulty variant: the loop does not move on.
MoveUpStuck(v) ==
    /\ Allowed(v)
    /\ pass = 1 => RefOK(v)
    /\ Seen(v)
    /\ UNCHANGED vars

MoveUp(v) ==
    /\ Allowed(v)
    /\ pass = 1 => RefOK(v)
    /\ Seen(v)
    /\ NextVisit
    /\ UNCHANGED <<file, pass, visited, marked, status>>

\* Faulty variant: the objects of containers are left to their children.
PassesUnchecked(n, v) ==
    CASE n = 1 -> InlineOK(v) /\ (IsContainer(v) \/ HeapOK(v))
      [] n = 2 -> v.type = "hashable" => IdOf(v) \notin marked
      [] n = 3 -> v.type \in {"set", "map"} => TableOK(v)

\* Faulty variant: pass 2 checks nothing.
PassesCycles(n, v) ==
    CASE n = 1 -> InlineOK(v) /\ HeapOK(v)
      [] n = 2 -> TRUE
      [] n = 3 -> v.type \in {"set", "map"} => TableOK(v)

\* What the passes ask of a value that they have not seen yet.
Passes(n, v) ==
    CASE n = 1 -> InlineOK(v) /\ HeapOK(v)
      [] n = 2 -> v.type = "hashable" => IdOf(v) \notin marked
      [] n = 3 -> v.type \in {"set", "map"} => TableOK(v)

\* Faulty variant: no bit is set.
FreshUnset(v) ==
    /\ Allowed(v)
    /\ pass = 1 => RefOK(v)
    /\ ~Seen(v)
    /\ UNCHANGED visited

Fresh(v) ==
    /\ Allowed(v)
    /\ pass = 1 => RefOK(v)
    /\ ~Seen(v)
    /\ visited' = IF IsContainer(v) THEN visited \cup {IdOf(v)} ELSE visited

\* Pass 3 hashes the keys of a set or map, with what recursion that takes.
Answers(v) ==
    pass = 3 /\ v.type \in {"set", "map"} => \A key \in HashedKeys(v) : HashReturns(key)

NoAnswer(v) == Fresh(v) /\ ~Answers(v) /\ Stop("lost")

BadValue(v) == Fresh(v) /\ Answers(v) /\ ~Passes(pass, v) /\ Stop(<<"value", "cycle", "table">>[pass])

VisitLeaf(v) ==
    /\ Fresh(v) /\ Passes(pass, v) /\ ~IsContainer(v)
    /\ NextVisit
    /\ UNCHANGED <<file, pass, marked, status>>

VisitContainer(v) ==
    /\ Fresh(v) /\ Answers(v) /\ Passes(pass, v) /\ IsContainer(v)
    /\ path' = Append(path, [v |-> v, i |-> 1])
    /\ UNCHANGED <<file, pass, marked, status>>

\* All children have been visited.
Return ==
    /\ status = "walk" /\ Len(path) > 1
    /\ Top.i > Len(Children(Top.v))
    /\ path' = [SubSeq(path, 1, Len(path) - 1) EXCEPT ![Len(path) - 1].i = @ + 1]
    /\ UNCHANGED <<file, pass, visited, marked, status>>

-----------------------------------------------------------------------------
(* pointless_validate: from one pass to the next *)

WalkEnds == status = "walk" /\ Len(path) = 1 /\ Top.i > Len(Children(Top.v))

\* Faulty variant: the bitmaps are not cleared.
NextPassUncleared ==
    /\ pass = 2 /\ WalkEnds
    /\ pass' = 3 /\ WalkFrom(Header)
    /\ UNCHANGED <<file, visited, marked, status>>

\* After pass 2; after pass 1 see Mark.
NextPass ==
    /\ pass = 2 /\ WalkEnds
    /\ pass' = 3 /\ visited' = {} /\ WalkFrom(Header)
    /\ UNCHANGED <<file, marked, status>>

\* The containers as the cycle marker sees them.
Node == {"vector", "set", "map"} \X (1..MaxObjects)
Nodes == {IdOf(v) : v \in {u \in Reachable : IsContainer(u)}}
ChildNodes(c) ==
    LET kids == Children([type |-> IF c[1] = "vector" THEN "value" ELSE c[1], data |-> c[2]])
    IN  [j \in DOMAIN kids |-> IF IsContainer(kids[j]) THEN IdOf(kids[j]) ELSE <<"leaf", 1>>]

Marker == INSTANCE CycleMarker WITH
    Container <- Node, Leaf <- {<<"leaf", 1>>}, NNodes <- 3 * MaxObjects, Graphs <- {}, Roots <- {},
    children <- [c \in Node |-> ChildNodes(c)], start <- IdOf(file.root),
    frames <- <<>>, root <- <<>>, component <- Nodes, stack <- <<>>

\* After pass 1: pointless_cycle_marker_read, with any marks that CyclesAreBroken and
\* MarksAreOnCycles of CycleMarker allow, then pass 2.
Mark ==
    /\ pass = 1 /\ WalkEnds
    /\ \E m \in SUBSET {c \in Nodes : Marker!OnCycle(c)} :
          Marker!Acyclic(Nodes \ m) /\ marked' = m
    /\ pass' = 2 /\ visited' = {} /\ WalkFrom(Header)
    /\ UNCHANGED <<file, status>>

\* The marker is out of memory, or stopped by its own limit on the depth.
MarkFails == pass = 1 /\ WalkEnds /\ Stop("marker") /\ UNCHANGED visited

Accept == pass = 3 /\ WalkEnds /\ Stop("ok") /\ UNCHANGED visited

Visit(v) ==
    \/ TooDeep(v) \/ BadReference(v) \/ MoveUp(v) \/ NoAnswer(v) \/ BadValue(v)
    \/ VisitLeaf(v) \/ VisitContainer(v)

Next ==
    \/ Open \/ OpenFails
    \/ \E v \in Values : Visit(v)
    \/ Return \/ Mark \/ MarkFails \/ NextPass \/ Accept

\* One thread runs the loops to their end.
Spec == Init /\ [][Next]_vars /\ WF_vars(Next)

-----------------------------------------------------------------------------
Errors == {"oom", "format", "depth", "reference", "value", "marker", "cycle", "table"}
Ended == {"unchecked", "ok"} \cup Errors

TypeOK ==
    /\ pass \in 1..3
    /\ path \in Seq([v : Values, i : Nat \ {0}])
    /\ \A k \in DOMAIN path : path[k].i <= Len(Children(path[k].v)) + 1
    /\ Len(path) <= MaxDepth + 1     \* the C stack is bounded
    /\ visited \subseteq Node /\ marked \subseteq Node
    /\ status \in {"init", "walk", "lost"} \cup Ended

\* Every value in use lies within the file.
Checked(v) == RefOK(v) /\ InlineOK(v) /\ HeapOK(v)

\* A file that is accepted is sound all over: each value that can be reached, on
\* whichever of the paths to it and under whichever tag, lies within the file, and
\* each set and map has a table that can be probed, although a container is
\* visited only once in each pass (pointless_validate.c:80).
AcceptedIsSound ==
    status = "ok" => \A v \in Reachable \ {Header} :
        Checked(v) /\ (v.type \in {"set", "map"} => TableOK(v))

\* Nothing is read before it was checked: not the items of a container, in any
\* pass, nor, when pass 1 has ended, what the cycle marker and the later passes
\* reach (pointless_validate.c:161, "it is now safe").
ReadsAreChecked ==
    status = "walk" =>
        /\ \A k \in 2..Len(path) : Checked(path[k].v)
        /\ pass = 1 /\ WalkEnds => \A v \in Reachable \ {Header} : Checked(v)

\* Every reference to a vector gives it the same tag, as the writer's do.
UniformTags ==
    \A u, v \in Reachable : IsContainer(u) /\ IsContainer(v) /\ IdOf(u) = IdOf(v) => u = v

\* "Each hashable value can only recurse down to hashable values" (pointless_validate.h:36),
\* which nothing checks.
HoldHashables ==
    \A v \in Reachable : v.type = "hashable" => \A w \in Range(Children(v)) : w.type \notin Unhashable

\* Hashing and comparing keys, which follow hashable vectors without a limit on
\* the depth, come to an end in an accepted file and already in pass 3: no cycle is
\* made of hashable vectors alone, although some hashable vectors lie on cycles
\* (pointless_validate.c:112, pointless_hash.c:230).
HashingEnds ==
    pass = 3 /\ UniformTags =>
        /\ Marker!Acyclic({IdOf(v) : v \in {u \in Reachable : u.type = "hashable"}})
        /\ status = "lost" => ~HoldHashables

\* A file is rejected for what is wrong with it: for its depth only if that many
\* different containers are nested, however many paths and cycles there are, for a
\* value, a cycle or a table only if one that can be reached is wrong.
RejectedForCause ==
    /\ status = "depth" => Cardinality({IdOf(path[k].v) : k \in 2..Len(path)}) >= MaxDepth
    /\ status \in {"reference", "value"} => \E v \in Reachable \ {Header} : ~Checked(v)
    /\ status = "cycle" => \E v \in Reachable : v.type = "hashable" /\ Marker!OnCycle(IdOf(v))
    /\ status = "table" => \E v \in Reachable : v.type \in {"set", "map"} /\ ~TableOK(v)

\* "32-bit offset files no longer supported" (pointless_reader.c:19), nor those of
\* unknown versions: what is opened has the one version that can be read.
OldFilesAreRefused == status \in {"unchecked", "ok"} => file.version = "64_newhash"

\* Opening a file ends with an answer, whatever cycles and shared or missing objects are in
\* it, if the tags of a vector agree and hashable vectors hold hashable values: without
\* either the hash of a key may not return (pointless_validate_hash_table.c:45).
Terminates == status = "init" /\ UniformTags /\ HoldHashables ~> status \in Ended

-----------------------------------------------------------------------------
(* The inductive invariants *)

\* What a pass establishes of a value it is done with.
Good(v) ==
    /\ pass = 1 => Checked(v)
    /\ pass = 2 /\ UniformTags /\ v.type = "hashable" => IdOf(v) \notin marked
    /\ pass = 3 /\ v.type \in {"set", "map"} => TableOK(v)

Done(v) == Good(v) /\ (IsContainer(v) => IdOf(v) \in visited)

\* The path is a path from the header, of containers that are good so far.
PathInv ==
    /\ path # <<>> /\ path[1].v = Header
    /\ \A k \in DOMAIN path : path[k].v \in Reachable
    /\ \A k \in 1..(Len(path) - 1) :
          /\ path[k].i <= Len(Children(path[k].v))
          /\ path[k + 1].v = Children(path[k].v)[path[k].i]
    /\ \A k \in 2..Len(path) :
          IsContainer(path[k].v) /\ IdOf(path[k].v) \in visited /\ Good(path[k].v)

\* The pass is done with the children before i of what is on the path.
ProgressInv ==
    \A k \in DOMAIN path :
        /\ path[k].i <= Len(Children(path[k].v)) + 1
        /\ \A j \in 1..(path[k].i - 1) : Done(Children(path[k].v)[j])

\* It is done with all children of what was visited and is not on the path.
VisitedInv ==
    /\ \A c \in visited : \E u \in Reachable : IsContainer(u) /\ IdOf(u) = c /\ Good(u)
    /\ \A u \in Values : IsContainer(u) /\ IdOf(u) \in visited =>
          \/ \E k \in 2..Len(path) : IdOf(path[k].v) = IdOf(u)
          \/ \A j \in DOMAIN Children(u) : Done(Children(u)[j])

\* What earlier passes have established.
PassInv ==
    /\ pass > 1 => \A v \in Reachable \ {Header} : Checked(v)
    /\ pass > 1 => marked \subseteq Nodes /\ Marker!Acyclic(Nodes \ marked)
    /\ pass = 3 /\ UniformTags => \A v \in Reachable : v.type = "hashable" => IdOf(v) \notin marked
    /\ status = "ok" => pass = 3 /\ \A v \in Reachable : v.type \in {"set", "map"} => TableOK(v)
    /\ status = "lost" => ~UniformTags \/ ~HoldHashables

WalkInv ==
    /\ file \in Files
    /\ PassInv
    /\ status = "init" => pass = 1 /\ visited = {} /\ marked = {} /\ path = <<>>
    /\ status = "walk" => PathInv /\ ProgressInv /\ VisitedInv

\* What a rejection is for: the containers on the path are different ones, and
\* only what lies on a cycle was marked.
CauseInv ==
    /\ status = "walk" =>
          \A j, k \in 2..Len(path) : IdOf(path[j].v) = IdOf(path[k].v) => j = k
    /\ pass > 1 => \A c \in marked : Marker!OnCycle(c)
    /\ RejectedForCause
=============================================================================
