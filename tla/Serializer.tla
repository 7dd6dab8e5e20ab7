----------------------------- MODULE Serializer -----------------------------
(***************************************************************************)
(* The create-time side of the library, pointless_create.c: a client       *)
(* builds values, vectors, sets and maps, which refer to each other by     *)
(* handles, and pointless_create_output_and_end_ turns them into a file:   *)
(* it drops the empty vectors and renumbers the others, marks cycles, tags *)
(* hashable vectors, compresses vectors of numbers, lays out hash tables,  *)
(* and writes a table of offsets and then the heap, in two passes that     *)
(* have to agree.  Any allocation and any write may fail.                  *)
(*                                                                         *)
(* Handles count from 1; the data field of a value indexes the array of    *)
(* its kind from 0, as in the code.  A byte has Base values (256), so that *)
(* uint32_t has Base^4.  Text and bits are what they compare by.           *)
(***************************************************************************)
EXTENDS Integers, SequencesExt

CONSTANTS
    Inline,     \* inline values, [type, data], that the client creates
    Cached,     \* those that pointless_create_cache remembers
    Blob,       \* strings, unicodes and bitvectors, [type, len]
    Native,     \* types of the vectors of plain numbers it creates
    NativeItem, \* and what it puts into them
    Table,      \* the types of the hash tables it creates
    Base,       \* the number of values of a byte
    MaxValues,  \* bound on the length of c->values
    MaxItems    \* bound on the items in all containers together

VARIABLES
    values,     \* c->values
    privs,      \* c->priv_vector_values; each entry holds the data of its owner
    outs,       \* c->outside_vector_values
    blobs,      \* c->string_unicode_values and c->bitvector_values
    judy,       \* string_unicode_map_judy and bitvector_map_judy
    tables,     \* c->set_values and c->map_values
    root,       \* c->root, 0 if it is not set
    object,     \* what the client was told it has under each handle
    live,       \* the memory blocks that have been allocated and not freed

    phase,      \* where output_and_end has got to
    i,          \* the loop variable
    spare,      \* new_priv_vector_values
    count,      \* n_outside_vectors, n_sets, n_maps
    marked,     \* the bits set in cycle_marker
    file        \* what was written

build == <<values, privs, outs, blobs, judy, tables, root, object, live>>
output == <<phase, i, spare, count, marked, file>>
vars == <<build, output>>

PrimVector == {"VECTOR_I8", "VECTOR_U8", "VECTOR_I16", "VECTOR_U16", "VECTOR_I32",
               "VECTOR_U32", "VECTOR_I64", "VECTOR_U64", "VECTOR_FLOAT"}
ValueVector == {"VECTOR_VALUE", "VECTOR_VALUE_HASHABLE"}
TableType == {"SET", "MAP"}
BlobType == {"STRING", "UNICODE", "BITVECTOR"}
InlineType == {"i32", "u32", "float", "null"}

ASSUME InlineAssumption == Cached \subseteq Inline /\ Inline \subseteq [type : InlineType, data : Int]
ASSUME BlobAssumption == Blob \subseteq [type : BlobType, len : Nat]
ASSUME VectorAssumption == Native \subseteq PrimVector /\ NativeItem \subseteq Int
ASSUME TableAssumption == Table \subseteq TableType
ASSUME BoundAssumption == MaxValues \in Nat /\ MaxItems \in Nat /\ Base \in Nat \ {0}

Pool(t) == IF t = "BITVECTOR" THEN "bits" ELSE "text"

\* Bytes in an item of a vector, and in a character.
Width(t) ==
    CASE t \in {"VECTOR_I8", "VECTOR_U8", "STRING"} -> 1
      [] t \in {"VECTOR_I16", "VECTOR_U16"} -> 2
      [] t \in {"VECTOR_I32", "VECTOR_U32", "VECTOR_FLOAT", "UNICODE"} -> 4
      [] OTHER -> 8

NoFile == [root |-> 0, counts |-> <<>>, offsets |-> <<>>, heap |-> <<>>]

\* pointless_create_begin_
Init ==
    /\ values = <<>> /\ privs = <<>> /\ outs = <<>>
    /\ blobs = [text |-> <<>>, bits |-> <<>>]
    /\ judy = <<>>
    /\ tables = [SET |-> <<>>, MAP |-> <<>>]
    /\ root = 0
    /\ object = <<>>
    /\ live = {}
    /\ phase = "build"
    /\ i = 1
    /\ spare = <<>>
    /\ count = [out |-> 0, SET |-> 0, MAP |-> 0]
    /\ marked = {}
    /\ file = NoFile

-----------------------------------------------------------------------------
(* Creating values.  A call that runs out of memory takes back what it has  *)
(* pushed and leaves everything as it was; only sets and maps do not.       *)

NewValue(t, d) ==
    [type |-> t, data |-> d, outside |-> FALSE, setmap |-> FALSE, compressed |-> FALSE]

\* The client's view of a handle: what it is, and what it holds.
Thing(k, x) == [kind |-> k, holds |-> x]

Items == LET held == [h \in DOMAIN object |->
                         IF object[h].kind \in {"vector", "native", "set", "map"}
                           THEN Len(object[h].holds) ELSE 0]
         IN  FoldFunction(+, 0, held)

RoomFor(n) == phase = "build" /\ Len(values) + n <= MaxValues
RoomForItem == phase = "build" /\ Items < MaxItems

\* The handles a client has: the vectors inside sets and maps are not among them.
Mine == {h \in DOMAIN object : object[h].kind # "internal"}

\* Inline values; one that is cached already gets its old handle.
CreateInline(v) ==
    /\ RoomFor(1)
    /\ v \in Cached => \A h \in Mine : object[h] # Thing("inline", <<v>>)
    /\ values' = Append(values, NewValue(v.type, v.data))
    /\ object' = Append(object, Thing("inline", <<v>>))
    /\ UNCHANGED <<privs, outs, blobs, judy, tables, root, live, output>>

\* Strings, unicodes and bitvectors; one that is in the map already gets its old
\* handle, unless the client asked for a bitvector not to be normalized.
CreateBlob(b, normalize) ==
    /\ RoomFor(1)
    /\ normalize => b \notin DOMAIN judy
    /\ LET p == Pool(b.type)
           h == Len(values) + 1
       IN  /\ values' = Append(values, NewValue(b.type, Len(blobs[p])))
           /\ blobs' = [blobs EXCEPT ![p] = Append(@, b)]
           /\ judy' = IF normalize THEN [x \in DOMAIN judy \cup {b} |-> IF x = b THEN h ELSE judy[x]] ELSE judy
           /\ object' = Append(object, Thing("blob", <<b>>))
           /\ live' = live \cup {<<"blob", h>>}
    /\ UNCHANGED <<privs, outs, tables, root, output>>

\* pointless_create_vector_priv
CreateVector(t) ==
    /\ RoomFor(1)
    /\ values' = Append(values, NewValue(t, Len(privs)))
    /\ privs' = Append(privs, [owner |-> Len(values) + 1, items |-> <<>>])
    /\ object' = Append(object, Thing(IF t = "VECTOR_VALUE" THEN "vector" ELSE "native", <<>>))
    /\ UNCHANGED <<outs, blobs, judy, tables, root, live, output>>

\* pointless_create_vector_owner_priv; the buffer stays the caller's.
CreateOutside(t, items) ==
    /\ RoomFor(1)
    /\ Items + Len(items) <= MaxItems
    /\ object' = Append(object, Thing("native", items))
    /\ IF items = <<>>
         THEN values' = Append(values, NewValue("VECTOR_EMPTY", 0)) /\ UNCHANGED outs
         ELSE /\ values' = Append(values, [NewValue(t, Len(outs)) EXCEPT !.outside = TRUE])
              /\ outs' = Append(outs, items)
    /\ UNCHANGED <<privs, blobs, judy, tables, root, live, output>>

\* The vectors a set or map is serialized as: hashes, keys and values.
Parts(t) == <<"VECTOR_U32", "VECTOR_VALUE">> \o IF t = "MAP" THEN <<"VECTOR_VALUE">> ELSE <<>>

\* Handles, values, data and client's view of new vectors of the types ts.
PartHandles(ts) == [n \in DOMAIN ts |-> Len(values) + n]
PartValues(ts, flag) ==
    [n \in DOMAIN ts |-> [NewValue(ts[n], Len(privs) + n - 1) EXCEPT !.setmap = flag]]
PartVectors(ts) == [n \in DOMAIN ts |-> [owner |-> Len(values) + n, items |-> <<>>]]
PartThings(ts) == [n \in DOMAIN ts |-> Thing("internal", <<>>)]

\* pointless_create_set, pointless_create_map
CreateTable(t) ==
    /\ RoomFor(Len(Parts(t)) + 1)
    /\ values' = Append(values \o PartValues(Parts(t), TRUE), NewValue(t, Len(tables[t])))
    /\ privs' = privs \o PartVectors(Parts(t))
    /\ object' = Append(object \o PartThings(Parts(t)), Thing(IF t = "SET" THEN "set" ELSE "map", <<>>))
    /\ tables' = [tables EXCEPT ![t] =
                     Append(@, [keys |-> <<>>, vals |-> <<>>, parts |-> PartHandles(Parts(t))])]
    /\ UNCHANGED <<outs, blobs, judy, root, live, output>>

\* The parts of a set or map that have been created when one of them, or the set
\* or map itself, runs out of memory.
Leftovers(t) ==
    {<<"VECTOR_U32">>, <<"VECTOR_VALUE">>, <<"VECTOR_U32", "VECTOR_VALUE">>}
    \cup IF t = "MAP" THEN {<<"VECTOR_VALUE", "VECTOR_VALUE">>, Parts("MAP")} ELSE {}

\* "possible array leak here on failure": some of the vectors stay behind, and
\* have their flag set if it was not a vector that failed.
CreateTableFails(t) ==
    /\ RoomFor(Len(Parts(t)))
    /\ \E left \in Leftovers(t) :
          /\ values' = values \o PartValues(left, left = Parts(t))
          /\ privs' = privs \o PartVectors(left)
          /\ object' = object \o PartThings(left)
    /\ UNCHANGED <<outs, blobs, judy, tables, root, live, output>>

\* pointless_create_vector_value_append and those of the vectors of numbers.
VectorAppend(v, x) ==
    /\ RoomForItem
    /\ object[v].kind \in {"vector", "native"} /\ values[v].type # "VECTOR_EMPTY"
    /\ ~values[v].outside
    /\ x \in IF object[v].kind = "vector" THEN Mine ELSE NativeItem
    /\ privs' = [privs EXCEPT ![values[v].data + 1].items = Append(@, x)]
    /\ object' = [object EXCEPT ![v].holds = Append(@, x)]
    /\ live' = live \cup {<<"items", v>>}
    /\ UNCHANGED <<values, outs, blobs, judy, tables, root, output>>

\* pointless_create_vector_value_set
VectorSet(v, n, x) ==
    /\ phase = "build"
    /\ object[v].kind = "vector" /\ n \in DOMAIN object[v].holds
    /\ x \in Mine
    /\ privs' = [privs EXCEPT ![values[v].data + 1].items[n] = x]
    /\ object' = [object EXCEPT ![v].holds[n] = x]
    /\ UNCHANGED <<values, outs, blobs, judy, tables, root, live, output>>

\* pointless_create_set_add, pointless_create_map_add
TableAdd(s, k, v) ==
    /\ RoomForItem
    /\ object[s].kind \in {"set", "map"}
    /\ object[s].kind = "set" => v = k
    /\ {k, v} \subseteq Mine
    /\ LET t == values[s].type
           d == values[s].data + 1
       IN  tables' = [tables EXCEPT ![t][d].keys = Append(@, k),
                                    ![t][d].vals = IF t = "MAP" THEN Append(@, v) ELSE @]
    /\ object' = [object EXCEPT ![s].holds = Append(@, <<k, v>>)]
    /\ live' = live \cup {<<"keys", s>>}
    /\ UNCHANGED <<values, privs, outs, blobs, judy, root, output>>

\* pointless_create_set_root, which the model's clients call once at most.
SetRoot(h) ==
    /\ phase = "build" /\ root = 0
    /\ root' = h
    /\ UNCHANGED <<values, privs, outs, blobs, judy, tables, object, live, output>>

-----------------------------------------------------------------------------
(* pointless_create_output_and_end_ *)

\* n_values: the values there were before the empty slot was added.
NValues == Len(object)
Of(types) == {h \in 1..NValues : values[h].type \in types}

Vec(h) == privs[values[h].data + 1]
TableOf(h) == tables[values[h].type][values[h].data + 1]
IsPrivVector(h) == values[h].type \in PrimVector \cup ValueVector /\ ~values[h].outside

Goto(p) == phase' = p /\ i' = 1

OutputBegin ==
    /\ phase = "build"
    /\ Goto(IF root = 0 THEN "failed" ELSE "renumber")
    /\ UNCHANGED <<build, spare, count, marked, file>>

Renumbering == phase = "renumber" /\ i <= NValues

CountOutside ==
    /\ Renumbering
    /\ values[i].type \in PrimVector /\ values[i].outside
    /\ count' = [count EXCEPT !.out = @ + 1]
    /\ i' = i + 1
    /\ UNCHANGED <<build, phase, spare, marked, file>>

\* A vector without items becomes VECTOR_EMPTY, unless a set or map needs it.
DropEmpty ==
    /\ Renumbering
    /\ IsPrivVector(i) /\ Vec(i).items = <<>> /\ ~values[i].setmap
    /\ values' = [values EXCEPT ![i].type = "VECTOR_EMPTY", ![i].data = 0]
    /\ i' = i + 1
    /\ UNCHANGED <<privs, outs, blobs, judy, tables, root, object, live,
                   phase, spare, count, marked, file>>

KeepVector ==
    /\ Renumbering
    /\ IsPrivVector(i) /\ (Vec(i).items # <<>> \/ values[i].setmap)
    /\ spare' = Append(spare, Vec(i))
    /\ values' = [values EXCEPT ![i].data = Len(spare)]
    /\ i' = i + 1
    /\ UNCHANGED <<privs, outs, blobs, judy, tables, root, object, live,
                   phase, count, marked, file>>

NumberTable ==
    /\ Renumbering
    /\ values[i].type \in TableType
    /\ values' = [values EXCEPT ![i].data = count[values[i].type]]
    /\ count' = [count EXCEPT ![values[i].type] = @ + 1]
    /\ i' = i + 1
    /\ UNCHANGED <<privs, outs, blobs, judy, tables, root, object, live,
                   phase, spare, marked, file>>

SkipValue ==
    /\ Renumbering
    /\ values[i].type \in InlineType \cup BlobType \cup {"VECTOR_EMPTY"}
    /\ i' = i + 1
    /\ UNCHANGED <<build, phase, spare, count, marked, file>>

\* "out of memory I": the vectors before i have their new numbers, but the array
\* they index is the old one.
RenumberFails ==
    /\ Renumbering
    /\ IsPrivVector(i) /\ (Vec(i).items # <<>> \/ values[i].setmap)
    /\ Goto("leaked")
    /\ UNCHANGED <<build, spare, count, marked, file>>

\* c->priv_vector_values and new_priv_vector_values are swapped.
SwapVectors ==
    /\ phase = "renumber" /\ i > NValues
    /\ privs' = spare /\ spare' = privs
    /\ Goto("mark")
    /\ UNCHANGED <<values, outs, blobs, judy, tables, root, object, live, count, marked, file>>

\* What the marker sees: pointless_cycle_marker_wrappers.c.  A set or map has its
\* vectors for children, and those have the keys and values for children.
IsContainer(h) ==
    /\ h \in 1..NValues
    /\ values[h].type \in ValueVector \cup TableType
    /\ ~values[h].outside

Owners(h) == {s \in 1..NValues : values[s].type \in TableType /\ h \in Range(TableOf(s).parts)}

ChildSeq(h) ==
    CASE ~IsContainer(h) -> <<>>
      [] IsContainer(h) /\ values[h].type \in TableType -> TableOf(h).parts
      [] IsContainer(h) /\ Owners(h) # {} ->
            LET s == CHOOSE s \in Owners(h) : TRUE
            IN  IF h = TableOf(s).parts[2] THEN TableOf(s).keys ELSE TableOf(s).vals
      [] OTHER -> Vec(h).items

Marker == INSTANCE CycleMarker WITH
    Container <- 1..MaxValues, Leaf <- {}, MaxDepth <- 512, NNodes <- MaxValues,
    Graphs <- {}, Roots <- {},
    children <- [h \in 1..MaxValues |-> ChildSeq(h)], start <- root,
    frames <- <<>>, root <- <<>>, visited <- <<>>, component <- {}, stack <- <<>>,
    marked <- marked, status <- "init"

\* The containers that the search from the root visits.
Reached ==
    {h \in 1..MaxValues : IsContainer(h) /\
        \A T \in SUBSET (1..MaxValues) :
            (root \in T /\ \A u \in T : Range(ChildSeq(u)) \subseteq T) => h \in T}

\* pointless_cycle_marker_create: any marks that CyclesAreBroken and
\* MarksAreOnCycles of CycleMarker allow.
MarkCycles ==
    /\ phase = "mark"
    /\ \E m \in SUBSET {h \in Reached : Marker!OnCycle(h)} :
          /\ Marker!Acyclic(Reached \ m)
          /\ marked' = m
    /\ Goto("tag")
    /\ UNCHANGED <<build, spare, count, file>>

\* ...and mark the ones which are hashable.
TagHashable ==
    /\ phase = "tag"
    /\ values' = [h \in DOMAIN values |->
                    IF h <= NValues /\ values[h].type = "VECTOR_VALUE" /\ ~values[h].outside /\ h \notin marked
                      THEN [values[h] EXCEPT !.type = "VECTOR_VALUE_HASHABLE"] ELSE values[h]]
    /\ Goto("compress")
    /\ UNCHANGED <<privs, outs, blobs, judy, tables, root, object, live, spare, count, marked, file>>

\* Faulty variant: only the largest number decides.
IntVectorUnsigned(lo, hi) ==
    CASE hi < Base -> "VECTOR_U8"
      [] hi >= Base /\ hi < Base ^ 2 -> "VECTOR_U16"
      [] OTHER -> "VECTOR_U32"

\* pointless_create_vector_compression for numbers from lo to hi.  It does not
\* foresee that hi needs 32 unsigned bits while lo is negative: the assertion
\* there is compiled out, and the 0 it then returns is VECTOR_VALUE.
IntVector(lo, hi) ==
    LET unsigned(w) == lo >= 0 /\ hi < Base ^ w
        signed(w) == 2 * lo >= -(Base ^ w) /\ 2 * hi < Base ^ w
    IN  CASE unsigned(1) -> "VECTOR_U8"
          [] ~unsigned(1) /\ unsigned(2) -> "VECTOR_U16"
          [] ~unsigned(2) /\ unsigned(4) -> "VECTOR_U32"
          [] lo < 0 /\ signed(1) -> "VECTOR_I8"
          [] lo < 0 /\ ~signed(1) /\ signed(2) -> "VECTOR_I16"
          [] lo < 0 /\ ~signed(2) /\ signed(4) -> "VECTOR_I32"
          [] OTHER -> "VECTOR_VALUE"

ItemTypes(h) == {values[x].type : x \in Range(Vec(h).items)}
IsIntVector(h) == ItemTypes(h) \subseteq {"i32", "u32"}

Compression(h) ==
    LET ints == {values[x].data : x \in Range(Vec(h).items)}
    IN  CASE IsIntVector(h) -> IntVector(Min(ints), Max(ints))
          [] ItemTypes(h) = {"float"} -> "VECTOR_FLOAT"
          [] OTHER -> values[h].type

Compressible(h) ==
    h <= NValues /\ values[h].type \in ValueVector /\ ~values[h].outside /\ ~values[h].setmap

CompressVectors ==
    /\ phase = "compress"
    /\ values' = [h \in DOMAIN values |->
                    IF Compressible(h)
                      THEN [values[h] EXCEPT !.type = Compression(h),
                                             !.compressed = Compression(h) \notin ValueVector]
                      ELSE values[h]]
    /\ Goto("sets")
    /\ UNCHANGED <<privs, outs, blobs, judy, tables, root, object, live, spare, count, marked, file>>

-----------------------------------------------------------------------------
(* pointless_hash_table_create, for all sets and then for all maps.  The    *)
(* layout is HashTable's; here keys come in order, followed by a free slot. *)

IsHashable(h) == values[h].type \notin {"VECTOR_VALUE"} \cup TableType

\* The handles that one gets to from h, where into[u] are those one goes on to from u.
GetsTo(into, h) ==
    {u \in DOMAIN into :
        \A T \in SUBSET DOMAIN into : h \in T /\ (\A w \in T : into[w] \subseteq T) => u \in T}

\* To hash a hashable vector is to hash its items.
Hashing ==
    [u \in 1..NValues |->
        IF values[u].type = "VECTOR_VALUE_HASHABLE" THEN Range(Vec(u).items) ELSE {}]

\* What is looked at in a value itself: for a vector, VECTOR_EMPTY included, the items
\* under its data field.
LooksAt(h) ==
    IF values[h].outside THEN outs[values[h].data + 1]
    ELSE IF values[h].type \in PrimVector \cup ValueVector \cup {"VECTOR_EMPTY"}
      THEN Vec(h).items
    ELSE <<>>

\* Faulty variant: the vectors as they were before the swap.
HashedBeforeSwap(h) ==
    [u \in GetsTo(Hashing, h) |->
        IF values[u].type \in PrimVector \cup ValueVector THEN spare[values[u].data + 1].items ELSE <<>>]

\* What pointless_hash_create_32 looks at, in the value and in all that it recurses into.
Hashed(h) == [u \in GetsTo(Hashing, h) |-> LooksAt(u)]

\* On a value that is not hashable it calls a null pointer; in a cycle, which no mark
\* breaks where the root does not lead to it, it never returns.
HashIsDefined(h) ==
    \A u \in GetsTo(Hashing, h) :
        IsHashable(u) /\ \A w \in Hashing[u] : u \notin GetsTo(Hashing, w)

\* The tables that are left in a pass over the values: one for sets, one for maps.
Populating == phase \in {"sets", "maps"}
Pending == {h \in i..NValues : values[h].type = IF phase = "sets" THEN "SET" ELSE "MAP"}
IsNext(h) == h \in Pending /\ \A g \in Pending : h <= g

\* The handle of the empty slot, which is made when it is first needed.
Slot == NValues + 1

\* Two keys that compare equal.  Items are compared by handle, so that nested
\* values are taken to be equal when they are the same.
SameKey(g, h) ==
    /\ object[g].holds = object[h].holds
    /\ object[g].kind = object[h].kind \/ {object[g].kind, object[h].kind} = {"vector", "native"}

\* What fills the vectors of a table: hashes, keys and, in a map, values.
PartItems(t, n) ==
    CASE n = 1 -> Append([k \in DOMAIN t.keys |-> Hashed(t.keys[k])], <<>>)
      [] n = 2 -> Append(t.keys, Slot)
      [] n = 3 -> Append(t.vals, Slot)

\* pointless_hash_table_create; where keys cannot be hashed or compare equal it
\* fails (OutputFails), as where memory runs out.
LayOut(h) ==
    LET t == TableOf(h)
        part(n) == values[t.parts[n]].data + 1
    IN  /\ \A k \in Range(t.keys) : HashIsDefined(k)
        /\ \A m, n \in DOMAIN t.keys : m # n => ~SameKey(t.keys[m], t.keys[n])
        /\ privs' = [p \in DOMAIN privs |->
               IF \E n \in DOMAIN t.parts : part(n) = p
                 THEN [privs[p] EXCEPT !.items = PartItems(t, CHOOSE n \in DOMAIN t.parts : part(n) = p)]
                 ELSE privs[p]]
        /\ live' = live \cup {<<"items", p>> : p \in Range(t.parts)}

BuildTable ==
    /\ Populating
    /\ \E h \in Pending : IsNext(h) /\ LayOut(h) /\ i' = h + 1
    /\ values' = IF Len(values) = NValues THEN Append(values, NewValue("SLOT", 0)) ELSE values
    /\ UNCHANGED <<phase, outs, blobs, judy, tables, root, object, spare, count, marked, file>>

\* A key passes the check of its type, but to hash it is to call a null pointer, or to
\* recurse until the stack is full.
HashCrashes ==
    /\ Populating
    /\ \E h \in Pending :
          /\ IsNext(h)
          /\ LET keys == TableOf(h).keys
             IN  \E n \in DOMAIN keys :
                    (\A m \in 1..n : IsHashable(keys[m])) /\ ~HashIsDefined(keys[n])
    /\ Goto("undefined")
    /\ UNCHANGED <<build, spare, count, marked, file>>

TablesDone ==
    /\ Populating /\ Pending = {}
    /\ Goto(IF phase = "sets" THEN "maps" ELSE "write")
    /\ UNCHANGED <<build, spare, count, marked, file>>

-----------------------------------------------------------------------------
(* The file *)

\* pointless_create_to_read_value: outside vectors come after the others.
ToRead(h) ==
    [type |-> values[h].type,
     data |-> values[h].data + IF values[h].outside THEN Len(privs) ELSE 0]

Align4(n) == 4 * ((n + 3) \div 4)

BlobSize(b) ==
    IF b.type = "BITVECTOR" THEN 4 + (b.len + 7) \div 8 ELSE 4 + (b.len + 1) * Width(b.type)

VectorItems(h) == IF values[h].outside THEN outs[values[h].data + 1] ELSE Vec(h).items

\* What serializing h writes before it aligns.
HeapSize(h) ==
    CASE values[h].type \in BlobType -> BlobSize(blobs[Pool(values[h].type)][values[h].data + 1])
      [] values[h].type = "SET" -> 24
      [] values[h].type = "MAP" -> 32
      [] OTHER -> 4 + Len(VectorItems(h)) * Width(values[h].type)

\* What the offset advances by: the size of a vector is kept in a uint32_t.
OffsetSize(h) ==
    IF values[h].type \in PrimVector \cup ValueVector THEN HeapSize(h) % (Base ^ 4) ELSE HeapSize(h)

\* The handles in S as a loop over c->values meets them.
Ascending(S) == [n \in 1..Cardinality(S) |-> CHOOSE h \in S : Cardinality({g \in S : g <= h}) = n]

Strings == Of({"STRING", "UNICODE"})
Vectors == {h \in Of(PrimVector \cup ValueVector) : ~values[h].outside}
Outsides == {h \in Of(PrimVector) : values[h].outside}

\* The order of the passes over the values, the same for offsets and heap.
HeapOrder ==
    Ascending(Strings) \o Ascending(Vectors) \o Ascending(Outsides)
    \o Ascending(Of({"BITVECTOR"})) \o Ascending(Of({"SET"})) \o Ascending(Of({"MAP"}))

\* Where things of these sizes lie from base on, each of them aligned.
Placed(base, size) ==
    LET at[n \in DOMAIN size] == IF n = 1 THEN base ELSE Align4(at[n - 1] + size[n - 1])
    IN  at

\* PC_WRITE_OFFSET, PC_INCREMENT_OFFSET, PC_ALIGN_OFFSET
OffsetAt == Placed(0, [n \in DOMAIN HeapOrder |-> OffsetSize(HeapOrder[n])])

\* The positions at which the heap pass really writes, from the heap's base: the
\* alignment is that of the file.
HeapBase == 32 + 8 * Len(HeapOrder)
PositionAt ==
    LET at == Placed(HeapBase, [n \in DOMAIN HeapOrder |-> HeapSize(HeapOrder[n])])
    IN  [n \in DOMAIN HeapOrder |-> at[n] - HeapBase]

\* (int8_t)x and the like.
Convert(t, x) ==
    LET w == Base ^ Width(t)
    IN  IF t \in {"VECTOR_I8", "VECTOR_I16", "VECTOR_I32"}
          THEN ((x + w \div 2) % w) - (w \div 2)
        ELSE IF t = "VECTOR_FLOAT" THEN x ELSE x % w

\* pointless_serialize_string, ..._vector_priv, ..._set and so on.
Record(h) ==
    LET v == values[h]
    IN  CASE v.type \in BlobType -> blobs[Pool(v.type)][v.data + 1]
          [] v.type \in TableType ->
                [n_items |-> Len(TableOf(h).keys),
                 parts |-> [n \in DOMAIN TableOf(h).parts |-> ToRead(TableOf(h).parts[n])]]
          [] v.type \in ValueVector -> [n \in DOMAIN Vec(h).items |-> ToRead(Vec(h).items[n])]
          [] v.type \in PrimVector /\ v.compressed ->
                [n \in DOMAIN Vec(h).items |-> Convert(v.type, values[Vec(h).items[n]].data)]
          [] OTHER -> VectorItems(h)

Image ==
    [root |-> ToRead(root),
     counts |-> [text |-> Len(blobs.text), vector |-> Len(privs) + count.out,
                 bits |-> Len(blobs.bits), SET |-> count.SET, MAP |-> count.MAP],
     offsets |-> OffsetAt,
     heap |-> [n \in DOMAIN HeapOrder |->
                  [at |-> PositionAt[n], record |-> Record(HeapOrder[n])]]]

WriteFile ==
    /\ phase = "write"
    /\ file' = Image
    /\ Goto("written")
    /\ UNCHANGED <<build, spare, count, marked>>

\* The marker, a hash table, an allocation or a write fails.
OutputFails ==
    /\ phase \in {"mark", "sets", "maps", "write"}
    /\ Goto("failed")
    /\ UNCHANGED <<build, spare, count, marked, file>>

\* Faulty variant: vectors are forgotten.
FreedButVectors ==
    {<<"blob", h>> : h \in {u \in DOMAIN values : values[u].type \in BlobType}}
    \cup {<<"keys", h>> : h \in {u \in DOMAIN values : values[u].type \in TableType}}

\* pointless_create_value_free, for every value.
Freed ==
    {<<"blob", h>> : h \in {u \in DOMAIN values : values[u].type \in BlobType}}
    \cup {<<"keys", h>> : h \in {u \in DOMAIN values : values[u].type \in TableType}}
    \cup {<<"items", Vec(h).owner>> : h \in {u \in DOMAIN values : IsPrivVector(u)}}

\* pointless_create_end: at the end of output, or called by a client that gives up.
End ==
    /\ phase \in {"build", "leaked", "failed", "written"}
    /\ live' = live \ Freed
    /\ Goto(CASE phase = "written" -> "done" [] phase = "leaked" -> "lost" [] OTHER -> "ended")
    /\ UNCHANGED <<values, privs, outs, blobs, judy, tables, root, object, spare, count, marked, file>>

-----------------------------------------------------------------------------
Client ==
    \/ \E v \in Inline : CreateInline(v)
    \/ \E b \in Blob : CreateBlob(b, TRUE)
    \/ \E b \in Blob : b.type = "BITVECTOR" /\ CreateBlob(b, FALSE)
    \/ \E t \in Native \cup {"VECTOR_VALUE"} : CreateVector(t)
    \/ \E t \in Native : \E s \in BoundedSeq(NativeItem, MaxItems) : CreateOutside(t, s)
    \/ \E t \in Table : CreateTable(t) \/ CreateTableFails(t)
    \/ \E v \in Mine : \E x \in Mine \cup NativeItem : VectorAppend(v, x)
    \/ \E v \in Mine : \E n \in 1..MaxItems : \E x \in Mine : VectorSet(v, n, x)
    \/ \E s, k, v \in Mine : TableAdd(s, k, v)
    \/ \E h \in Mine : SetRoot(h)

Output ==
    \/ OutputBegin \/ CountOutside \/ DropEmpty \/ KeepVector \/ NumberTable \/ SkipValue
    \/ RenumberFails \/ SwapVectors \/ MarkCycles \/ TagHashable \/ CompressVectors
    \/ BuildTable \/ HashCrashes \/ TablesDone \/ WriteFile \/ OutputFails \/ End

Next == Client \/ Output

Spec == Init /\ [][Next]_vars

-----------------------------------------------------------------------------
(* What a reader makes of the file: pointless_init and pointless_reader.c *)

Section(t) ==
    CASE t \in {"STRING", "UNICODE"} -> 0
      [] t \in PrimVector \cup ValueVector -> file.counts.text
      [] t = "BITVECTOR" -> file.counts.text + file.counts.vector
      [] t = "SET" -> file.counts.text + file.counts.vector + file.counts.bits
      [] t = "MAP" -> file.counts.text + file.counts.vector + file.counts.bits + file.counts.SET

\* PC_HEAP_OFFSET: what there is at the offset that r refers to.
Fetched(r) ==
    LET n == Section(r.type) + r.data + 1
    IN  {e.record : e \in {x \in Range(file.heap) : n \in DOMAIN file.offsets /\ x.at = file.offsets[n]}}

\* The reader finds under r what the client put under h.
ReadsAs(r, h) ==
    LET holds == object[h].holds
        refs(s) == [n \in DOMAIN s |-> ToRead(s[n])]
        column(c) == [n \in DOMAIN holds |-> holds[n][c]]
    IN  CASE object[h].kind = "inline" -> r = [type |-> holds[1].type, data |-> holds[1].data]
          [] object[h].kind = "blob" -> r.type = holds[1].type /\ Fetched(r) = {holds[1]}
          [] object[h].kind = "vector" ->
                \/ holds = <<>> /\ r.type = "VECTOR_EMPTY"
                \/ r.type \in ValueVector /\ Fetched(r) = {refs(holds)}
                \/ /\ r.type \in PrimVector
                   /\ \A n \in DOMAIN holds : object[holds[n]].kind = "inline"
                   /\ Fetched(r) = {[n \in DOMAIN holds |-> object[holds[n]].holds[1].data]}
          [] object[h].kind = "native" ->
                \/ holds = <<>> /\ r.type = "VECTOR_EMPTY"
                \/ r.type \in PrimVector /\ Fetched(r) = {holds}
          [] object[h].kind \in {"set", "map"} ->
                \E e \in Fetched(r) :
                    /\ e.n_items = Len(holds)
                    /\ e.parts[1].type = "VECTOR_U32"
                    /\ Fetched(e.parts[2]) = {refs(Append(column(1), Slot))}
                    /\ object[h].kind = "map" => Fetched(e.parts[3]) = {refs(Append(column(2), Slot))}

-----------------------------------------------------------------------------
Phase == {"build", "renumber", "mark", "tag", "compress", "sets", "maps", "undefined", "write",
          "written", "failed", "leaked", "done", "lost", "ended"}

ValueRecord ==
    [type : PrimVector \cup ValueVector \cup TableType \cup BlobType \cup InlineType
            \cup {"VECTOR_EMPTY", "SLOT"},
     data : Int, outside : BOOLEAN, setmap : BOOLEAN, compressed : BOOLEAN]
Kind == {"inline", "blob", "vector", "native", "set", "map", "internal"}
TableRecord == [keys : Seq(Nat), vals : Seq(Nat), parts : Seq(Nat)]

IsSequence(s) == s \in Seq(Range(s))
IsVectorList(ps) ==
    IsSequence(ps) /\ \A p \in DOMAIN ps : DOMAIN ps[p] = {"owner", "items"} /\ IsSequence(ps[p].items)

TypeOK ==
    /\ values \in Seq(ValueRecord)
    /\ IsSequence(object)
    /\ \A h \in DOMAIN object :
          DOMAIN object[h] = {"kind", "holds"} /\ object[h].kind \in Kind /\ IsSequence(object[h].holds)
    /\ Len(values) \in {NValues, NValues + 1}
    /\ phase = "build" => Len(values) = NValues
    /\ Len(values) # NValues => values[NValues + 1].type = "SLOT"
    /\ IsVectorList(privs) /\ IsVectorList(spare) /\ IsSequence(outs)
    /\ blobs \in [{"text", "bits"} -> Seq(Blob)]
    /\ tables \in [TableType -> Seq(TableRecord)]
    /\ root \in 0..NValues
    /\ count \in [{"out", "SET", "MAP"} -> Nat]
    /\ phase \in Phase
    /\ i \in Nat \ {0}

\* A file that has been written says what the client built: whatever handle the
\* client has, its reference leads a reader to what was put there, through the
\* renumbering (pointless_create.c:758), compression and both passes.
FileIsFaithful ==
    phase = "written" =>
        /\ file.root = ToRead(root)
        /\ \A h \in Mine : ReadsAs(ToRead(h), h)

\* No vector takes up more bytes than the uint32_t counts that its size is kept in
\* (pointless_create.c:937).
SizesFit == \A h \in Of(PrimVector \cup ValueVector) : HeapSize(h) < Base ^ 4

\* "correct use of the API will never produce invalid results" (pointless_validate.h:13),
\* of files with larger vectors too: their number of items, which is what an API
\* takes, is less than that.
LargeVectorsAreFaithful == ~SizesFit => FileIsFaithful

Tables == {h \in 1..NValues : values[h].type \in TableType}
KeysOf(h) == TableOf(h).keys
HashesOf(h) == Vec(TableOf(h).parts[1]).items

\* What pointless_hash_reader_32 looks at under h, in a file that leads it to what the
\* client put there: it goes by the types in the file.
ReadHashing ==
    [u \in 1..NValues |->
        IF ToRead(u).type = "VECTOR_VALUE_HASHABLE" THEN Range(object[u].holds) ELSE {}]
ReadItems(h) == IF object[h].kind \in {"vector", "native"} THEN object[h].holds ELSE <<>>
HashedByReader(h) == [u \in GetsTo(ReadHashing, h) |-> ReadItems(u)]

HashedAsRead(h, n) == HashesOf(h)[n] = HashedByReader(KeysOf(h)[n])

\* An empty vector is the key or is somewhere in it.
HasEmpty(k) ==
    \E u \in GetsTo(ReadHashing, k) :
        object[u].kind \in {"vector", "native"} /\ object[u].holds = <<>>

\* The hashes in a set or map are of what a reader will find: a vector that is a key, or
\* in one at any depth, is hashed through its new number (pointless_hash.c:290, :331).
KeysHashedAsRead ==
    phase = "written" =>
        \A h \in Tables : \A n \in DOMAIN KeysOf(h) :
            ~HasEmpty(KeysOf(h)[n]) => HashedAsRead(h, n)

\* The same for keys that are empty vectors or have them inside, which have no number of
\* their own.
EmptyKeysHashedAsRead ==
    phase = "written" =>
        \A h \in Tables : \A n \in DOMAIN KeysOf(h) :
            HasEmpty(KeysOf(h)[n]) => HashedAsRead(h, n)

\* "Each hashable value can only recurse down to hashable values"
\* (pointless_validate.h:36), in the file that is about to be written.
HashableHoldsHashable ==
    phase = "write" =>
        \A h \in 1..NValues : values[h].type = "VECTOR_VALUE_HASHABLE" /\ ~values[h].setmap =>
            \A x \in Range(Vec(h).items) : IsHashable(x)

\* pointless_create_end frees everything the library allocated, however far the
\* output got (pointless_create.c:271), unless it fails while the vectors are renumbered:
\* they are then freed through the wrong entries, and phase is "lost" (RenumberFails).
EverythingIsFreed == phase \in {"done", "ended"} => live = {}

-----------------------------------------------------------------------------
(* The inductive invariant behind EverythingIsFreed and KeysHashedAsRead.   *)

\* A handle's value is of the kind the client was told, and a vector in a buffer
\* of the caller's refers to what the caller put there.
IsVector(h) == values[h].type \in PrimVector \cup ValueVector
IsEmpty(h) == values[h].type = "VECTOR_EMPTY"
HandleOK(h) ==
    /\ object[h].kind = "inline" => values[h].type \in InlineType
    /\ object[h].kind = "blob" => values[h].type \in BlobType
    /\ object[h].kind \in {"vector", "native"} =>
          ~values[h].setmap /\ (IsVector(h) \/ (IsEmpty(h) /\ object[h].holds = <<>>))
    /\ object[h].kind = "set" => values[h].type = "SET"
    /\ object[h].kind = "map" => values[h].type = "MAP"
    /\ object[h].kind = "internal" =>
          (IsVector(h) \/ IsEmpty(h)) /\ ~values[h].outside /\ object[h].holds = <<>>
    /\ values[h].outside =>
          /\ object[h].kind = "native" /\ values[h].type \in PrimVector
          /\ values[h].data + 1 \in DOMAIN outs
          /\ outs[values[h].data + 1] = object[h].holds
HandleInv == \A h \in 1..NValues : HandleOK(h)

\* In the middle of the renumbering, the vectors before i are in the new array. A
\* vector's number leads to the entry that it owns and that has its items; the
\* items of the vectors in sets and maps are not the client's.
Home(h) == IF phase = "renumber" /\ h < i THEN spare ELSE privs
VectorOK(h) ==
    IsPrivVector(h) =>
        /\ values[h].data + 1 \in DOMAIN Home(h)
        /\ Home(h)[values[h].data + 1].owner = h
        /\ object[h].kind # "internal" => Home(h)[values[h].data + 1].items = object[h].holds
VectorInv == phase \notin {"leaked", "lost"} => \A h \in 1..NValues : VectorOK(h)

\* Sets and maps are numbered in the order of their handles, so that their
\* renumbering changes nothing.
TablesAreNumbered ==
    /\ \A h \in Tables : values[h].data + 1 \in DOMAIN tables[values[h].type]
    /\ \A g, h \in Tables :
          g < h /\ values[g].type = values[h].type => values[g].data < values[h].data
    /\ \A t \in TableType : \A d \in DOMAIN tables[t] :
          \E h \in Tables : values[h].type = t /\ values[h].data + 1 = d
NumberInv ==
    /\ TablesAreNumbered
    /\ phase = "build" => count.SET = 0 /\ count.MAP = 0 /\ spare = <<>>
    /\ phase = "renumber" => \A h \in Tables : h < i <=> values[h].data < count[values[h].type]

\* The vectors of a set or map are its own; its keys are handles the client has.
PartInv ==
    /\ \A h \in Tables :
          /\ Len(TableOf(h).parts) \in {2, 3}
          /\ \A n \in DOMAIN TableOf(h).parts :
                LET p == TableOf(h).parts[n]
                IN  /\ p \in 1..NValues
                    /\ IsPrivVector(p) /\ values[p].setmap /\ object[p].kind = "internal"
          /\ Range(TableOf(h).keys) \subseteq Mine
    /\ \A g, h \in Tables : \A m \in DOMAIN TableOf(g).parts, n \in DOMAIN TableOf(h).parts :
          TableOf(g).parts[m] = TableOf(h).parts[n] => g = h /\ m = n

\* Memory is held by values that are freed with it.
Kept ==
    {<<"blob", h>> : h \in {u \in 1..NValues : values[u].type \in BlobType}}
    \cup {<<"keys", h>> : h \in Tables}
    \cup {<<"items", h>> : h \in {u \in 1..NValues :
              IsPrivVector(u) /\ (values[u].setmap \/ object[u].holds # <<>>)}}
LiveInv ==
    /\ phase \notin {"leaked", "lost", "done", "ended"} => live \subseteq Kept
    /\ phase \in {"done", "ended"} => live = {}

\* The sets and maps that have been laid out have the hashes of their keys.
LaidOut(h) ==
    \/ phase \in {"write", "written"}
    \/ phase = "maps" /\ (values[h].type = "SET" \/ h < i)
    \/ phase = "sets" /\ values[h].type = "SET" /\ h < i
HashInv ==
    \A h \in Tables : LaidOut(h) =>
        \A n \in DOMAIN KeysOf(h) : ~HasEmpty(KeysOf(h)[n]) => HashedAsRead(h, n)

SerializerInv ==
    TypeOK /\ HandleInv /\ VectorInv /\ NumberInv /\ PartInv /\ LiveInv /\ HashInv

-----------------------------------------------------------------------------
(* The inductive invariant behind FileIsFaithful, which builds on the other. *)

\* The data fields of the values in S are the numbers below n, in ascending order.
Numbered(S, n) ==
    /\ \A h \in S : values[h].data \in 0..(n - 1)
    /\ \A g, h \in S : g < h => values[g].data < values[h].data
    /\ \A d \in 0..(n - 1) : \E h \in S : values[h].data = d

\* Each array is in the order of the handles: that of the vectors once they are
\* renumbered, during which those before i are and the counts have come as far.
Counted(c, S, n) == c \in 0..n /\ \A h \in S : h < i <=> values[h].data < c
OrderInv ==
    /\ Numbered(Strings, Len(blobs.text)) /\ Numbered(Of({"BITVECTOR"}), Len(blobs.bits))
    /\ Numbered(Outsides, Len(outs))
    /\ phase = "build" => count.out = 0
    /\ phase = "renumber" =>
          /\ Counted(count.out, Outsides, Len(outs))
          /\ \A t \in TableType : Counted(count[t], Of({t}), Len(tables[t]))
          /\ Numbered({h \in Vectors : h < i}, Len(spare))
    /\ phase \in {"mark", "tag", "compress", "sets", "maps", "write", "written"} =>
          /\ count.out = Len(outs)
          /\ \A t \in TableType : count[t] = Len(tables[t])
          /\ Numbered(Vectors, Len(privs))

\* What is known of a vector of plain numbers that c->values has in place of one of values.
FitsItems(h) ==
    /\ values[h].compressed
    /\ \A x \in Range(object[h].holds) :
          /\ values[x].type \in InlineType
          /\ Convert(values[h].type, values[x].data) = values[x].data

Column(holds, c) == [n \in DOMAIN holds |-> holds[n][c]]

\* A value has what the client put under its handle.
ContentOK(h) ==
    LET v == values[h]
        holds == object[h].holds
    IN  /\ object[h].kind = "inline" =>
              Len(holds) = 1 /\ v.type = holds[1].type /\ v.data = holds[1].data
        /\ object[h].kind = "blob" =>
              /\ Len(holds) = 1 /\ v.type = holds[1].type
              /\ v.data + 1 \in DOMAIN blobs[Pool(v.type)]
              /\ blobs[Pool(v.type)][v.data + 1] = holds[1]
        /\ object[h].kind = "vector" =>
              Range(holds) \subseteq Mine /\ (v.type \in PrimVector => FitsItems(h))
        /\ object[h].kind = "native" => v.type \notin ValueVector /\ ~v.compressed
        /\ object[h].kind \in {"set", "map"} => TableOf(h).keys = Column(holds, 1)
        /\ object[h].kind = "map" => TableOf(h).vals = Column(holds, 2)

\* The vectors of a set or map: numbers first, then values, filled once it is laid out.
PartsOK(h) ==
    LET t == TableOf(h)
    IN  /\ Len(t.parts) = IF values[h].type = "MAP" THEN 3 ELSE 2
        /\ values[t.parts[1]].type = "VECTOR_U32"
        /\ \A n \in DOMAIN t.parts \ {1} :
              /\ values[t.parts[n]].type \in ValueVector
              /\ LaidOut(h) => Vec(t.parts[n]).items = Append(IF n = 2 THEN t.keys ELSE t.vals, Slot)

ContentInv ==
    /\ \A h \in 1..NValues : ContentOK(h)
    /\ phase \in {"build", "renumber", "mark", "tag", "compress"} =>
          \A h \in 1..NValues : object[h].kind = "vector" => values[h].type \notin PrimVector
    /\ \A h \in Tables : PartsOK(h)

\* The file is that of the values as they are.
ImageInv == phase = "written" => file = Image

FaithInv == OrderInv /\ ContentInv /\ ImageInv
=============================================================================
