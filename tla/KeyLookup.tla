------------------------------ MODULE KeyLookup ------------------------------
(***************************************************************************)
(* Which keys a set or a map takes, and who finds them again.  A key       *)
(* passes through four representations: a Python object, a value of the    *)
(* writer, a value of the file and the argument of a query.  Each has a    *)
(* hash and a comparison of its own, and the table works only as far as    *)
(* they agree.  HashTable shows what the probing does once they do; here   *)
(* the keys of one hash are met in the order of insertion, which is what   *)
(* probing comes to, since they share their sequence of buckets.           *)
(*                                                                         *)
(* A value is its type, its data and its children: the number of an        *)
(* integer, the halves of a float (none for NaN), the characters of a text *)
(* or the bits of a bitvector, and the items of a vector.  A hash is the   *)
(* sequence of the words that are mixed into it, so two hashes are equal   *)
(* when the code makes them so; beyond that, all mixed hashes of a table   *)
(* may coincide with one number.                                           *)
(***************************************************************************)
EXTENDS Integers, Sequences, FiniteSets

CONSTANTS
    Word,       \* 2^32
    Exact,      \* 2^24: up to here every integer is a float
    Wide,       \* 256, the first character of more than one byte
    PackedMax,  \* 27, the bits that fit beside their number in a value
    HalfMax,    \* UINT16_MAX
    ByteBits,   \* 8
    Key,        \* the Python objects that are keys
    OtherKey,   \* those that are keys of a second table of the file
    Query,      \* the Python objects that are looked up
    IntArg, TextArg, Path,  \* what the C interface is asked for
    Wanted,     \* the types that it is asked for
    Payload,    \* what the map holds for its first key, its second, ...
    Folds,      \* hashes that the mixed ones may happen to have
    MaxKeys     \* bound on the keys of a table

ASSUME KeyConstants ==
    /\ Word \in Nat /\ Exact \in Nat /\ 2 < Word
    /\ Wide \in Nat \ {0, 1} /\ PackedMax \in Nat /\ HalfMax \in Nat /\ ByteBits \in Nat \ {0}
    /\ MaxKeys \in Nat /\ Len(Payload) >= MaxKeys

VARIABLES
    status,  \* of the writer: idle, written, refused or crashed
    table,   \* the keys as values, in the order in which they are inserted
    fold,    \* the hash of all mixed values, or -1
    query,   \* the last question
    answer   \* and what came back

vars == <<status, table, fold, query, answer>>

Mk(t, d, c) == [t |-> t, d |-> d, c |-> c]
Nil == Mk("EMPTY_SLOT", <<>>, <<>>)

-----------------------------------------------------------------------------
(* Types *)

Integer == {"I32", "U32", "I64", "U64"}
Number == Integer \cup {"BOOLEAN", "FLOAT"}
Text == {"STRING", "UNICODE"}
Bits == {"BITVECTOR", "BITVECTOR_0", "BITVECTOR_1", "BITVECTOR_01", "BITVECTOR_10", "BITVECTOR_PACKED"}
Vector == {"VECTOR_VALUE", "VECTOR_VALUE_HASHABLE", "VECTOR_I32", "VECTOR_U32", "VECTOR_I64",
           "VECTOR_U64", "VECTOR_FLOAT"}

Group(v) ==
    CASE v.t \in Number -> "number"
      [] v.t \in Text -> "text"
      [] v.t \in Bits -> "bits"
      [] v.t \in Vector -> "vector"
      [] OTHER -> "null"

-----------------------------------------------------------------------------
(* From Python objects to values *)

Abs(n) == IF n < 0 THEN -n ELSE n

\* The nearest multiple of step, the even one of two.
Nearest(h, step) ==
    LET q == Abs(h) \div step
        r == Abs(h) % step
        up == 2 * r > step \/ (2 * r = step /\ q % 2 = 1)
        m == step * (IF up THEN q + 1 ELSE q)
    IN  IF h < 0 THEN -m ELSE m

\* A number of halves as a float.
Round(h) == Nearest(h, CASE Abs(h) <= Exact -> 1
                         [] Abs(h) > Exact /\ Abs(h) <= 2 * Exact -> 2
                         [] OTHER -> 4)

Run(bits, x) == \E n \in 1..Len(bits) - 1 : \A i \in 1..Len(bits) : bits[i] = (IF i <= n THEN x ELSE 1 - x)
Halves(bits, x) == Cardinality({i \in 1..Len(bits) : bits[i] = x})

BitvectorForm(bits) ==
    CASE \A i \in 1..Len(bits) : bits[i] = 0 -> "BITVECTOR_0"
      [] bits # <<>> /\ \A i \in 1..Len(bits) : bits[i] = 1 -> "BITVECTOR_1"
      [] OTHER ->
           IF Len(bits) <= PackedMax THEN "BITVECTOR_PACKED"
           ELSE IF Halves(bits, 0) > HalfMax \/ Halves(bits, 1) > HalfMax THEN "BITVECTOR"
           ELSE IF Run(bits, 0) THEN "BITVECTOR_01"
           ELSE IF Run(bits, 1) THEN "BITVECTOR_10" ELSE "BITVECTOR"

\* The items of a vector as the file has them, once it is compressed.
Compressed(items) ==
    LET types == {items[i].t : i \in DOMAIN items}
        ints == {items[i].d[1] : i \in {j \in DOMAIN items : items[j].t \in Integer}}
        as(vector, t) == Mk(vector, <<>>, [i \in DOMAIN items |-> Mk(t, items[i].d, <<>>)])
    IN  IF types \subseteq {"I32", "U32"} /\ \A n \in ints : n >= 0 THEN as("VECTOR_U32", "U32")
        ELSE IF types \subseteq {"I32", "U32"} /\ \A n \in ints : 2 * n < Word THEN as("VECTOR_I32", "I32")
        ELSE IF types \subseteq {"I32", "U32"} THEN Mk("VECTOR_VALUE", <<>>, items)
        ELSE IF types = {"FLOAT"} THEN as("VECTOR_FLOAT", "FLOAT")
        ELSE Mk("VECTOR_VALUE_HASHABLE", <<>>, items)

PrimType == [prim_i32 |-> "I32", prim_u32 |-> "U32", prim_i64 |-> "I64", prim_u64 |-> "U64", prim_f |-> "FLOAT"]
PrimVector == [prim_i32 |-> "VECTOR_I32", prim_u32 |-> "VECTOR_U32", prim_i64 |-> "VECTOR_I64",
               prim_u64 |-> "VECTOR_U64", prim_f |-> "VECTOR_FLOAT"]

\* The items that a PyPointlessVector shows: its slice of a vector of a file.
Slice(o) == SubSeq(o.c[1].c, o.d[1] + 1, o.d[1] + o.d[2])

RECURSIVE Value(_)
Value(o) ==
    CASE o.t = "long" -> Mk(IF o.d[1] >= 0 THEN "U32" ELSE "I32", o.d, <<>>)
      [] o.t = "bool" -> Mk("BOOLEAN", o.d, <<>>)
      [] o.t = "None" -> Mk("NULL", <<>>, <<>>)
      [] o.t = "float" -> Mk("FLOAT", IF o.d = <<>> THEN <<>> ELSE <<Round(o.d[1])>>, <<>>)
      [] o.t = "str" -> Mk(IF \A i \in DOMAIN o.d : o.d[i] < Wide THEN "STRING" ELSE "UNICODE", o.d, <<>>)
      [] o.t = "bitvector" -> Mk(BitvectorForm(o.d), o.d, <<>>)
      [] o.t \in {"tuple", "list"} -> Compressed([i \in DOMAIN o.c |-> Value(o.c[i])])
      [] o.t \in DOMAIN PrimType ->
           Mk(PrimVector[o.t], <<>>, [i \in DOMAIN o.d |-> Mk(PrimType[o.t], <<o.d[i]>>, <<>>)])
      [] o.t = "slice" -> Mk(o.c[1].t, <<>>, Slice(o))

RECURSIVE Exportable(_)
Exportable(o) ==
    CASE o.t = "long" -> 2 * o.d[1] >= -Word /\ o.d[1] < Word
      [] o.t = "str" -> \A i \in DOMAIN o.d : o.d[i] # 0
      [] o.t = "tuple" -> \A i \in DOMAIN o.c : Exportable(o.c[i])
      [] OTHER -> TRUE

-----------------------------------------------------------------------------
(* Hashes *)

NoHash == <<-1>>

\* A string ends where it has a zero.
UpToZero(s) ==
    IF \E i \in DOMAIN s : s[i] = 0
      THEN SubSeq(s, 1, (CHOOSE i \in DOMAIN s : s[i] = 0 /\ \A j \in 1..i - 1 : s[j] # 0) - 1)
      ELSE s

HashInt(n) == <<0, n % Word>>
HashInt64(n) == <<0, (n % (Word * Word)) % (Word - 1)>>

\* Faulty variant: a float without a fraction is hashed like the others.
HashFloatBits(d) == <<3>> \o d

HashFloat(d) ==
    IF d # <<>> /\ d[1] % 2 = 0 /\ d[1] >= -Word /\ d[1] \div 2 < Word
      THEN HashInt(d[1] \div 2) ELSE <<3>> \o d

\* No character is left out, and none leaves 0.
HashString(s) == IF s = <<>> THEN <<0, 0>> ELSE <<2>> \o s

\* Given the length, the first character is taken even where there is none.
HashStringN(s, after) == IF s = <<>> /\ after # 0 THEN <<5, after>> ELSE HashString(s)

BitByte(bits, n) == [j \in 1..ByteBits |-> LET i == n * ByteBits + j IN IF i <= Len(bits) THEN bits[i] ELSE 0]
HashBits(bits) ==
    LET bytes == (Len(bits) + ByteBits - 1) \div ByteBits
    IN  IF bits = <<>> THEN <<0, 1>>
        ELSE <<4>> \o [i \in 1..bytes * ByteBits |-> BitByte(bits, (i - 1) \div ByteBits)[((i - 1) % ByteBits) + 1]]

Mix(hashes) ==
    LET mix[n \in 0..Len(hashes)] ==
          IF n = 0 THEN <<1, Len(hashes)>> ELSE mix[n - 1] \o <<Len(hashes[n])>> \o hashes[n]
    IN  mix[Len(hashes)]

\* pointless_hash_create_32 and pointless_hash_reader_32 of a hashable value.
RECURSIVE Hash(_)
Hash(v) ==
    CASE v.t \in Integer \cup {"BOOLEAN"} -> HashInt(v.d[1])
      [] v.t = "FLOAT" -> HashFloat(v.d)
      [] v.t \in Text -> HashString(v.d)
      [] v.t \in Bits -> HashBits(v.d)
      [] v.t \in Vector -> Mix([i \in DOMAIN v.c |-> Hash(v.c[i])])
      [] OTHER -> <<0, 0>>

PyHashPrim(o) ==
    Mix([i \in DOMAIN o.d |-> IF o.t \in {"prim_i64", "prim_u64"} THEN HashInt64(o.d[i]) ELSE Hash(Value(o).c[i])])

\* pyobject_hash_32
RECURSIVE PyHash(_)
PyHash(o) ==
    CASE o.t = "long" -> IF Exportable(o) THEN HashInt(o.d[1]) ELSE NoHash
      [] o.t = "bool" -> HashInt(o.d[1])
      [] o.t = "None" -> <<0, 0>>
      [] o.t = "float" -> HashFloat(Value(o).d)
      [] o.t = "str" -> HashString(UpToZero(o.d))
      [] o.t = "bitvector" -> HashBits(o.d)
      [] o.t = "tuple" ->
           LET h == [i \in DOMAIN o.c |-> PyHash(o.c[i])]
           IN  IF \E i \in DOMAIN h : h[i] = NoHash THEN NoHash ELSE Mix(h)
      [] o.t = "slice" ->
           IF o.c[1].t = "VECTOR_VALUE" THEN NoHash
           ELSE Mix([i \in 1..o.d[2] |-> Hash(Slice(o)[i])])
      [] o.t \in DOMAIN PrimType -> PyHashPrim(o)
      [] OTHER -> NoHash

\* Mixed hashes may be as unlucky as fold says.
Folded(h) == IF fold >= 0 /\ h[1] # 0 THEN <<0, fold>> ELSE h

-----------------------------------------------------------------------------
(* Comparisons: -1, 0 and 1, or one of these *)

Error == 2   \* the two cannot be compared
Crash == 3   \* a null pointer, or a number taken for one
Any == 4     \* it depends on bits that are no part of the values

SimpleCmp(a, b) == IF a = b THEN 0 ELSE IF a < b THEN -1 ELSE 1

\* The positions that both have.
Common(a, b) == DOMAIN a \cap DOMAIN b

\* The first difference in c, the comparisons item by item, or that of the lengths.
Lexicographic(c, a, b) ==
    LET differ == {i \in DOMAIN c : c[i] # 0}
    IN  IF differ = {} THEN SimpleCmp(Len(a), Len(b))
        ELSE c[CHOOSE i \in differ : \A j \in differ : i <= j]

CmpData(a, b) == Lexicographic([i \in Common(a, b) |-> SimpleCmp(a[i], b[i])], a, b)
CmpText(a, b) == CmpData(UpToZero(a), UpToZero(b))

IsSigned(t) == t \in {"I32", "I64", "BOOLEAN"}
IntValue(v) == IF v.t \in Number \ {"FLOAT"} THEN v.d[1] ELSE 0
AsFloat(v) == IF v.t = "FLOAT" THEN v.d ELSE <<Round(2 * IntValue(v))>>

CmpIntFloat(a, b) ==
    IF "FLOAT" \in {a.t, b.t}
      THEN IF <<>> \in {AsFloat(a), AsFloat(b)} THEN 1 ELSE SimpleCmp(AsFloat(a)[1], AsFloat(b)[1])
    ELSE IF IsSigned(a.t) # IsSigned(b.t) /\ (IntValue(a) < 0 \/ IntValue(b) < 0) THEN -1
    ELSE SimpleCmp(IntValue(a), IntValue(b))

NBits(v) == IF v.t \in Bits THEN Len(v.d) ELSE 0

\* pointless_bitvector_cmp_buffer_buffer reads b by the type of a.
CmpBits(a, b) ==
    LET constant == [i \in 1..NBits(b) |-> IF a.t = "BITVECTOR_1" THEN 1 ELSE 0]
    IN  CASE a.t = b.t -> CmpData(a.d, b.d)
          [] a.t # b.t /\ (NBits(a) = 0 \/ NBits(b) = 0) -> SimpleCmp(NBits(a), NBits(b))
          [] a.t # b.t /\ NBits(a) > 0 /\ NBits(b) > 0 ->
               IF a.t = "BITVECTOR" THEN Crash
               ELSE IF a.t \in {"BITVECTOR_0", "BITVECTOR_1"} THEN CmpData(a.d, constant)
               ELSE IF NBits(a) # NBits(b) THEN SimpleCmp(NBits(a), NBits(b)) ELSE Any

\* pointless_cmp_create: the type of the first value alone selects the function,
\* and there is none for 64-bit integers.
RECURSIVE CmpCreate(_, _)
CmpCreate(a, b) ==
    CASE a.t \in {"I64", "U64"} -> Crash
      [] a.t \in Number \ {"I64", "U64"} -> CmpIntFloat(a, b)
      [] a.t \in Text -> IF b.t \in Text THEN CmpText(a.d, b.d) ELSE 0
      [] a.t \in Bits -> CmpBits(a, b)
      [] a.t \in Vector -> IF b.t \in Vector THEN Lexicographic([i \in Common(a.c, b.c) |-> CmpCreate(a.c[i], b.c[i])], a.c, b.c) ELSE Crash
      [] OTHER -> 0

\* pointless_cmp_reader; which of two groups comes first does not matter here.
RECURSIVE CmpReader(_, _)
CmpReader(a, b) ==
    CASE Group(a) # Group(b) -> 1
      [] Group(a) = Group(b) /\ Group(a) = "number" -> CmpIntFloat(a, b)
      [] Group(a) = Group(b) /\ Group(a) = "text" -> CmpText(a.d, b.d)
      [] Group(a) = Group(b) /\ Group(a) = "bits" -> CmpBits(a, b)
      [] Group(a) = Group(b) /\ Group(a) = "vector" -> Lexicographic([i \in Common(a.c, b.c) |-> CmpReader(a.c[i], b.c[i])], a.c, b.c)
      [] OTHER -> 0

\* pypointless_cmp_func, for a value or a Python object
PyGroup(x) ==
    CASE x.t \in {"I32", "U32", "FLOAT", "BOOLEAN", "long", "float", "bool"} -> "number"
      [] x.t \in {"NULL", "None"} -> "null"
      [] x.t \in Text \cup {"str"} -> "text"
      [] x.t \in Bits \cup {"bitvector"} -> "bits"
      [] x.t \in Vector \cup {"tuple", "list", "slice"} -> "vector"
      [] OTHER -> "none"

\* Faulty variant: the vector is compared from its start.
PyItemsOfVector(x) == IF x.t = "slice" THEN SubSeq(x.c[1].c, 1, x.d[2]) ELSE x.c

\* A PyPointlessVector is only known where it is not an item.
PyItems(x) ==
    IF x.t = "slice" THEN Slice(x)
    ELSE [i \in DOMAIN x.c |-> IF x.c[i].t = "slice" THEN Nil ELSE x.c[i]]

\* Python's integers are signed, those of a file as they are.
PyNumber(x) ==
    CASE x.t \in {"long", "bool"} -> Mk("I64", x.d, <<>>)
      [] x.t = "I32" -> Mk("I64", x.d, <<>>)
      [] x.t \in {"U32", "BOOLEAN"} -> Mk("U64", x.d, <<>>)
      [] x.t = "float" -> Value(x)
      [] OTHER -> x

PyText(x) == UpToZero(x.d)
PyBits(x) == Mk("BITVECTOR", x.d, <<>>)

RECURSIVE PyCmp(_, _)
PyCmp(a, b) ==
    CASE PyGroup(a) # PyGroup(b) \/ PyGroup(a) = "none" -> Error
      [] PyGroup(a) = PyGroup(b) /\ PyGroup(a) = "number" -> CmpReader(PyNumber(a), PyNumber(b))
      [] PyGroup(a) = PyGroup(b) /\ PyGroup(a) = "text" -> CmpData(PyText(a), PyText(b))
      [] PyGroup(a) = PyGroup(b) /\ PyGroup(a) = "bits" -> CmpBits(PyBits(a), PyBits(b))
      [] PyGroup(a) = PyGroup(b) /\ PyGroup(a) = "vector" -> 
             Lexicographic([i \in Common(PyItems(a), PyItems(b)) |-> PyCmp(PyItems(a)[i], PyItems(b)[i])], PyItems(a), PyItems(b))
      [] PyGroup(a) = PyGroup(b) /\ PyGroup(a) = "null" -> 0

-----------------------------------------------------------------------------
(* Writing the table *)

Init ==
    /\ status = "idle" /\ table = <<>> /\ fold \in Folds \cup {-1}
    /\ query = [kind |-> "none", key |-> Nil, want |-> "any"]
    /\ answer = [r |-> "none", at |-> 0, val |-> Nil]

Keys(objects) == UNION {[1..n -> objects] : n \in 0..MaxKeys}

\* pointless_hash_table_populate: each key is compared with the keys of its hash
\* that were inserted before it, until one is the same or the writer crashes.
Stops(t) ==
    {<<j, i>> \in (DOMAIN t) \X (DOMAIN t) :
        i < j /\ Folded(Hash(t[i])) = Folded(Hash(t[j])) /\ CmpCreate(t[i], t[j]) \in {0, Crash, Any}}

FirstStop(t) == CHOOSE s \in Stops(t) : \A u \in Stops(t) : s[1] < u[1] \/ (s[1] = u[1] /\ s[2] <= u[2])

Outcome(t) ==
    IF Stops(t) = {} THEN {"written"}
    ELSE LET s == FirstStop(t)
         IN  CASE CmpCreate(t[s[2]], t[s[1]]) = 0 -> {"refused"}
               [] CmpCreate(t[s[2]], t[s[1]]) = Crash -> {"crashed"}
               [] OTHER -> {"written", "refused"}

Write(ks) ==
    /\ status = "idle"
    /\ \A i \in DOMAIN ks : Exportable(ks[i]) /\ Value(ks[i]).t # "VECTOR_VALUE"
    /\ table' = [i \in DOMAIN ks |-> Value(ks[i])]
    /\ status' \in Outcome(table')
    /\ UNCHANGED <<fold, query, answer>>

-----------------------------------------------------------------------------
(* Queries *)

Found(i) == [r |-> "found", at |-> i, val |-> Nil]
Miss == [r |-> "miss", at |-> 0, val |-> Nil]
Failed == [r |-> "error", at |-> 0, val |-> Nil]
Undefined == [r |-> "crash", at |-> 0, val |-> Nil]

\* The first key of table t with hash h that the comparisons c do not tell from the one asked for.
Probe(t, h, c) ==
    LET hits == {i \in DOMAIN t : Folded(Hash(t[i])) = Folded(h) /\ c[i] \in {0, Error, Crash, Any}}
        i == CHOOSE i \in hits : \A j \in hits : i <= j
    IN  IF hits = {} THEN Miss
        ELSE CASE c[i] = 0 -> Found(i)
               [] c[i] = Error -> Failed
               [] OTHER -> Undefined

\* Bound: one question, since none of them changes the table.
Ask(kind, key, want, a) ==
    /\ status = "written" /\ query.kind = "none"
    /\ query' = [kind |-> kind, key |-> key, want |-> want]
    /\ answer' = a
    /\ UNCHANGED <<status, table, fold>>

\* Contains, [] and get of the Python sets and maps.
PyLookup(o) ==
    IF PyHash(o) = NoHash THEN Failed
    ELSE Probe(table, PyHash(o), [i \in DOMAIN table |-> PyCmp(table[i], o)])
AskPython(o) == Ask("python", o, "any", PyLookup(o))

\* pointless_reader_set_lookup, pointless_is_in_set_acyclic and their likes: by a value of the file.
ReaderLookup(t, k) == Probe(t, Hash(k), [i \in DOMAIN t |-> CmpReader(t[i], k)])

\* Faulty variant: only the keys of this table are looked for.
SameKeysOneWay(ks) ==
    LET t == [i \in DOMAIN ks |-> Value(ks[i])]
        found == [i \in DOMAIN table |-> ReaderLookup(t, table[i]).r]
    IN  IF \E i \in DOMAIN found : found[i] = "crash" THEN Undefined
        ELSE IF \E i \in DOMAIN found : found[i] # "found" THEN Miss ELSE Found(0)

\* pointless_has_same_keys_map_map of this table and of one with the keys ks
SameKeys(ks) ==
    LET t == [i \in DOMAIN ks |-> Value(ks[i])]
        missing(a, b) == {i \in DOMAIN a : ReaderLookup(b, a[i]).r # "found"}
        crash == \/ \E i \in DOMAIN table : ReaderLookup(t, table[i]).r = "crash"
                 \/ \E i \in DOMAIN t : ReaderLookup(table, t[i]).r = "crash"
    IN  IF Len(t) # Len(table) THEN Miss
        ELSE IF crash THEN Undefined
        ELSE IF missing(table, t) # {} \/ missing(t, table) # {} THEN Miss ELSE Found(0)
AskSameKeys(ks) ==
    /\ query.kind = "none"
    /\ \A i \in DOMAIN ks : Exportable(ks[i]) /\ Value(ks[i]).t # "VECTOR_VALUE"
    /\ Outcome([i \in DOMAIN ks |-> Value(ks[i])]) = {"written"}
    /\ Ask("keys", Mk("keys", <<>>, ks), "any", SameKeys(ks))

\* What a map may be asked for: any value, a number, a vector of one type...
Has(v, want) ==
    \/ want = "any" \/ v.t = want
    \/ want = "VECTOR_VALUE" /\ v.t = "VECTOR_VALUE_HASHABLE"
    \/ want \in Vector /\ v.t = "VECTOR_EMPTY"

\* pointless_get_map_: the key and what it holds both have to fit.
GetMap(h, fits, want) ==
    LET hits == {i \in fits : Folded(Hash(table[i])) = Folded(h) /\ Has(Payload[i], want)}
    IN  IF hits = {} THEN Miss ELSE Found(CHOOSE i \in hits : \A j \in hits : i <= j)

CheckInt(n) == {i \in DOMAIN table : table[i].t \in Integer /\ table[i].d[1] = n}
CheckText(s) == {i \in DOMAIN table : table[i].t \in Text /\ CmpText(table[i].d, s) = 0}

\* Faulty variant: only what is left of the number after hashing is compared.
IntLookupByHash(n, want) == GetMap(HashInt64(n), {i \in DOMAIN table : table[i].t \in Integer}, want)

IntLookup(n, want) == GetMap(HashInt64(n), CheckInt(n), want)

StringLookup(s, want) == GetMap(HashString(s), CheckText(s), want)
StringNLookup(s, after, want) == GetMap(HashStringN(s, after), CheckText(s), want)

\* The characters of four bytes are hashed as bytes, up to the first zero byte.
UnicodeBytes(s) == IF s = <<>> THEN <<>> ELSE <<s[1] % Wide, s[1] \div Wide, 0>>
UnicodeLookup(s, want) == GetMap(HashString(UpToZero(UnicodeBytes(s))), CheckText(s), want)

AskInt(n, want) == Ask("int", Mk("long", <<n>>, <<>>), want, IntLookup(n, want))
AskString(s, want) ==
    /\ \A i \in DOMAIN s : s[i] < Wide
    /\ Ask("string", Mk("str", s, <<>>), want, StringLookup(s, want))
AskStringN(s, after) ==
    /\ \A i \in DOMAIN s : s[i] < Wide
    /\ Ask("string_n", Mk("str", s, <<Mk("str", <<after>>, <<>>)>>), "any", StringNLookup(s, after, "any"))
AskUnicode(s, want) == Ask("unicode", Mk("str", s, <<>>), want, UnicodeLookup(s, want))

\* pointless_eval_get_single, one [..] of an expression, on a vector or a bitvector
Index(v, step) ==
    LET n == IF v.t \in Bits THEN Len(v.d) ELSE Len(v.c)
    IN  IF step.t # "long" \/ step.d[1] < 0 \/ step.d[1] >= n THEN Nil
        ELSE IF v.t \in Bits THEN Mk("BOOLEAN", <<v.d[step.d[1] + 1]>>, <<>>)
        ELSE v.c[step.d[1] + 1]

\* ['..'] is followed by its quote, [%s] by a zero; [-1] and [+1] are refused,
\* and negative numbers come from %i32 and %i64 only.
MapStep(step) ==
    IF step.t = "long" THEN IntLookup(step.d[1], "any")
    ELSE StringNLookup(step.d, IF step.t = "quoted" THEN 1 ELSE 0, "any")

\* pointless_eval_get with two steps: a key of the map, then an index.
Eval(path, want) ==
    LET first == MapStep(path[1])
        val == IF first.r # "found" THEN Nil
               ELSE IF Len(path) = 1 THEN Payload[first.at]
               ELSE IF Payload[first.at].t \in Vector \cup Bits THEN Index(Payload[first.at], path[2]) ELSE Nil
    IN  IF val = Nil \/ ~Has(val, want) THEN Miss ELSE [first EXCEPT !.val = val]
AskEval(path, want) == Ask("eval", Mk("path", <<>>, path), want, Eval(path, want))

Next ==
    \/ \E ks \in Keys(Key) : Write(ks)
    \/ \E ks \in Keys(OtherKey) : AskSameKeys(ks)
    \/ \E o \in Query : AskPython(o)
    \/ \E n \in IntArg, want \in Wanted : AskInt(n, want)
    \/ \E s \in TextArg, want \in Wanted : AskString(s, want) \/ AskUnicode(s, want)
    \/ \E s \in TextArg, after \in {0, 1} : AskStringN(s, after)
    \/ \E path \in Path, want \in Wanted : AskEval(path, want)

Spec == Init /\ [][Next]_vars

-----------------------------------------------------------------------------
(* What keys mean *)

RECURSIVE Same(_, _)
Same(a, b) ==
    /\ Group(a) = Group(b)
    /\ CASE Group(a) = "number" ->
              /\ a.d # <<>> /\ b.d # <<>>
              /\ (IF a.t = "FLOAT" THEN a.d[1] ELSE 2 * a.d[1]) = (IF b.t = "FLOAT" THEN b.d[1] ELSE 2 * b.d[1])
         [] Group(a) \in {"text", "bits"} -> a.d = b.d
         [] Group(a) = "vector" -> Len(a.c) = Len(b.c) /\ \A i \in DOMAIN a.c : Same(a.c[i], b.c[i])
         [] OTHER -> TRUE

\* An integer beyond 2^24 is as good as the float next to it, and a text ends at a zero.
RECURSIVE Near(_, _)
Near(a, b) ==
    \/ Same(a, b)
    \/ Group(a) = "number" /\ Group(b) = "number" /\ "FLOAT" \in {a.t, b.t} /\ CmpIntFloat(a, b) = 0
    \/ a.t \in Text /\ b.t \in Text /\ a.d = UpToZero(b.d)
    \/ /\ a.t \in Vector /\ b.t \in Vector /\ Len(a.c) = Len(b.c)
       /\ \A i \in DOMAIN a.c : Near(a.c[i], b.c[i])

\* Values that every comparison is made for: the groups agree all the way down,
\* bitvectors have the same form, and there are no 64-bit integers.
RECURSIVE Comparable(_, _)
Comparable(a, b) ==
    /\ Group(a) = Group(b)
    /\ {a.t, b.t} \cap {"I64", "U64"} = {}
    /\ Group(a) = "bits" => a.t = b.t
    /\ Group(a) = "vector" => \A i \in DOMAIN a.c \cap DOMAIN b.c : Comparable(a.c[i], b.c[i])

RECURSIVE Has64(_)
Has64(v) == v.t \in {"I64", "U64"} \/ \E i \in DOMAIN v.c : Has64(v.c[i])

Pairs(a, b, rel(_, _)) == \A i \in DOMAIN a : \E j \in DOMAIN b : rel(a[i], b[j])

\* The writer takes no two keys that mean the same, whatever their types, and
\* whatever the hashes; and where the keys are comparable it refuses a table
\* only for such a pair, and does not crash.
WriterIsExact ==
    LET pairs == {<<i, j>> \in (DOMAIN table) \X (DOMAIN table) : i < j}
        near == \E p \in pairs : Near(table[p[1]], table[p[2]])
        comparable == \A p \in pairs : Comparable(table[p[1]], table[p[2]])
    IN  /\ status = "written" => ~ \E p \in pairs : Same(table[p[1]], table[p[2]])
        /\ comparable => status # "crashed"
        /\ comparable /\ status = "refused" => near

\* What Python finds means what it asked for; what it asks for it finds; and
\* it gets an error only for an object that has no hash or that a key of the
\* table cannot be compared with.  The hashes of 64-bit vectors differ.
PythonFindsKeys ==
    query.kind = "python" =>
      LET q == Value(query.key)
      IN  /\ answer.r # "crash"
          /\ answer.r = "found" => Near(table[answer.at], q)
          /\ answer.r = "miss" /\ ~Has64(q) => ~ \E i \in DOMAIN table : Same(table[i], q)
          /\ answer.r = "error" => \/ PyHash(query.key) = NoHash
                                   \/ PyGroup(query.key) = "none"
                                   \/ \E i \in DOMAIN query.key.c : query.key.c[i].t = "slice"
                                   \/ \E i \in DOMAIN table : ~Comparable(table[i], q)

\* Two tables of comparable keys have the same keys exactly if each key of one
\* means the same as a key of the other, whatever the order of the keys and the hashes.
SameKeysIsExact ==
    query.kind = "keys" =>
      LET t == [i \in DOMAIN query.key.c |-> Value(query.key.c[i])]
          both(rel(_, _)) == Len(t) = Len(table) /\ Pairs(t, table, rel) /\ Pairs(table, t, rel)
          comparable == \A i \in DOMAIN t, j \in DOMAIN table : Comparable(t[i], table[j])
      IN  /\ answer.r = "found" /\ comparable => both(Near)
          /\ answer.r = "miss" => ~both(Same)
          /\ answer.r = "crash" => ~comparable

\* The C interface finds a key exactly if the map has it with a value of the
\* wanted type, for integers from 0 up to UINT32_MAX - 1, for strings, where
\* the empty one is not quoted in an expression, and for characters of one byte.
HelpersFindKeys ==
    LET step == IF query.kind = "eval" THEN query.key.c[1] ELSE query.key
        isInt == step.t = "long"
        target(i) == IF query.kind = "eval" /\ Len(query.key.c) = 2 /\ Payload[i].t \in Vector \cup Bits
                       THEN Index(Payload[i], query.key.c[2])
                     ELSE IF query.kind = "eval" /\ Len(query.key.c) = 2 THEN Nil ELSE Payload[i]
        fits(i) == /\ IF isInt THEN table[i].t \in Integer /\ table[i].d[1] = step.d[1] ELSE table[i].t \in Text /\ table[i].d = step.d
                   /\ target(i) # Nil /\ Has(target(i), query.want)
        known == CASE isInt -> step.d[1] \in 0..Word - 2
                   [] query.kind = "string_n" -> step.d # <<>> \/ step.c[1].d[1] = 0
                   [] step.t = "quoted" -> step.d # <<>>
                   [] query.kind = "unicode" -> Len(step.d) <= 1 /\ \A i \in DOMAIN step.d : step.d[i] < Wide
                   [] OTHER -> TRUE
    IN  query.kind \in {"int", "string", "string_n", "unicode", "eval"} =>
          /\ answer.r = "found" => fits(answer.at) /\ answer.val \in {Nil, target(answer.at)}
          /\ answer.r = "miss" /\ known => ~ \E i \in DOMAIN table : fits(i)

\* The comment in pointless_cmp_create_rec_priv says that values of different
\* groups are told apart by their types: a table is refused only where two keys
\* are of one group.
RefusedInOneGroup ==
    status = "refused" => \E i, j \in DOMAIN table : i # j /\ Group(table[i]) = Group(table[j])
=============================================================================
