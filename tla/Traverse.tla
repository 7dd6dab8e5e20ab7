------------------------------ MODULE Traverse ------------------------------
(***************************************************************************)
(* How a graph of objects becomes a graph of create-time handles:          *)
(* pointless_export_py_rec, which walks Python objects,                    *)
(* pointless_recreate_convert_rec, which walks the values of an open file, *)
(* and their three clients, serialize, serialize_to_bytes and              *)
(* pointless_recreate_64.  The first walker calls the second for each view *)
(* of a file that it meets.                                                *)
(*                                                                         *)
(* Both are recursive: stack holds the calls in progress and ctl the call  *)
(* or the return under way.  Any allocation may fail.  Strings, bytes,     *)
(* vectors of numbers and bitvectors are all "text": leaves that are       *)
(* remembered.  An int is small enough to be cached, a float never is, and *)
(* what is "bad" is refused: by its type, its range or a zero character.   *)
(***************************************************************************)
EXTENDS Integers, Sequences, FiniteSets, Functions

CONSTANTS
    Obj,        \* Python objects
    First,      \* the one that is to be written
    Val,        \* values of the file that views are of
    FileKind,   \* their kinds
    FileKids,   \* and what the containers among them hold
    ViewOf,     \* the values that programs have views of
    MaxKids,    \* bound on the items, or pairs, that a Python container holds
    MaxDepth,   \* POINTLESS_MAX_DEPTH
    None        \* no node, no error, no outcome

Leaf == {"int", "float", "text"}
Container == {"list", "set", "dict"}

ASSUME TraverseConstants ==
    /\ First \in Obj /\ Obj \cap Val = {} /\ ViewOf \subseteq Val
    /\ FileKind \in [Val -> Leaf \cup Container]
    /\ FileKids \in [Val -> Seq(Val)]
    /\ MaxDepth \in Nat \ {0} /\ MaxKids \in Nat
    /\ IsFiniteSet(Obj) /\ IsFiniteSet(Val)
\* Leaves hold nothing, and maps hold pairs.
ASSUME FileShape ==
    \A v \in Val : /\ FileKind[v] \in Leaf => FileKids[v] = <<>>
                   /\ FileKind[v] = "dict" => Len(FileKids[v]) % 2 = 0

\* The ways to fail.
Errors == {"too deep", "long beyond what we can store", "out of memory", "type not supported",
           "item not added", "pair not added", "recreate failed", "output failed"}
ASSUME NoneIsNone == None \notin Obj \cup Val \cup Errors \cup {"raised", "written"}

VARIABLES
    client,     \* who runs: the Python extension, or pointless_recreate_64
    start,      \* what it was given
    kind, kids, \* the Python objects, as they are during the call
    stack,      \* the calls in progress; i is the next child, key a handle
    ctl,        \* what happens next: a call, a loop or a return
    used,       \* objects_used
    mapping,    \* the *_r_c_mapping arrays, of the file's values
    cache,      \* c->cache
    values,     \* what there is under each handle
    root,       \* c->root
    err,        \* the pending Python exception, or *error
    is_error,
    ended,      \* whether c was passed to pointless_create_end
    result      \* what the caller sees

graph == <<client, start, kind, kids>>
walk == <<stack, ctl, used, mapping, cache, values>>
final == <<root, ended, result>>
vars == <<graph, walk, final, err, is_error>>

Fail == 0       \* POINTLESS_CREATE_VALUE_FAIL; handles count from 1
InFile(n) == n \in Val
KindOf(n) == IF InFile(n) THEN FileKind[n] ELSE kind[n]
KidsOf(n) == IF InFile(n) THEN FileKids[n] ELSE kids[n]

-----------------------------------------------------------------------------
(* The objects a program can have. *)

Seqs(S, n) == UNION {[1..k -> S] : k \in 0..n}
Odd(s) == {i \in DOMAIN s : i % 2 = 1}
KidsFor(k) ==
    CASE k = "list" -> Seqs(Obj, MaxKids)
      [] k = "set"  -> {s \in Seqs(Obj, MaxKids) : IsInjective(s)}
      [] k = "dict" -> {s \in Seqs(Obj, 2 * MaxKids) :
                          Len(s) % 2 = 0 /\ \A i, j \in Odd(s) : s[i] = s[j] => i = j}
      [] k = "view" -> {<<v>> : v \in ViewOf}
      [] OTHER      -> {<<>>}
Holds(o) == IF kind[o] = "view" THEN {} ELSE Range(kids[o])

\* What can be reached in at most n steps from the start.
Reached[n \in Nat] ==
    IF n = 0 THEN {start}
             ELSE LET nearer == Reached[n - 1] IN nearer \cup UNION {Holds(o) : o \in nearer}

\* Items of sets and keys of dicts have a hash: leaves do, and tuples and
\* frozensets that were made of what has one.
Hashable[n \in Nat] ==
    {o \in Obj : \/ kind[o] \in Leaf \cup {"bad"}
                 \/ n > 0 /\ kind[o] \in {"list", "set"} /\ Range(kids[o]) \subseteq Hashable[n - 1]}
Keys(o) ==
    CASE kind[o] = "set" -> Range(kids[o])
      [] kind[o] = "dict" -> {kids[o][i] : i \in Odd(kids[o])}
      [] OTHER -> {}

\* serialize and serialize_to_bytes differ only in how they end.
Shape == UNION {{k} \X KidsFor(k) : k \in Leaf \cup Container \cup {"view", "bad"}}
PythonGraph ==
    /\ client = "python"
    /\ start = First
    /\ \E shape \in [Obj -> Shape] :
         /\ kind = [o \in Obj |-> shape[o][1]]
         /\ kids = [o \in Obj |-> shape[o][2]]
    /\ Reached[Cardinality(Obj)] = Obj
    /\ UNION {Keys(o) : o \in Obj} \subseteq Hashable[Cardinality(Obj)]

FileGraph ==
    /\ client = "recreate"
    /\ start \in ViewOf
    /\ kind = [o \in Obj |-> "bad"] /\ kids = [o \in Obj |-> <<>>]

Call(n) == [mode |-> "call", node |-> n, handle |-> Fail]
Return(h) == [mode |-> "return", node |-> None, handle |-> h]
Loop == [mode |-> "loop", node |-> None, handle |-> Fail]

\* pointless_create_begin_64 has run and the walk is about to start.
Init ==
    /\ PythonGraph \/ FileGraph
    /\ stack = <<>> /\ ctl = Call(start)
    /\ used = [o \in Obj |-> Fail] /\ mapping = [v \in Val |-> Fail]
    /\ cache = [n \in Obj \cup Val |-> Fail]
    /\ values = <<>> /\ root = Fail
    /\ err = None /\ is_error = FALSE /\ ended = FALSE /\ result = None

-----------------------------------------------------------------------------
(* What the walkers do at every turn. *)

Running(mode) == result = None /\ ctl.mode = mode
Top == stack[Len(stack)]
Pop == SubSeq(stack, 1, Len(stack) - 1)
Frame(n, h) == [at |-> n, handle |-> h, i |-> 1, key |-> Fail]

\* An error: the Python side sets an exception and is_error, the other one
\* only a message, which its caller turns into an exception.
Raise(n, e) ==
    /\ err' = e
    /\ is_error' = IF InFile(n) THEN is_error ELSE TRUE
    /\ ctl' = Return(Fail)
    /\ UNCHANGED <<graph, final>>

NewValue(n) ==
    [kind |-> KindOf(n), of |-> IF KindOf(n) \in Leaf THEN n ELSE None, items |-> <<>>]
NewHandle == Len(values) + 1

SeenAs(n) == IF InFile(n) THEN mapping[n] ELSE used[n]

\* Faulty variant: a dict is not remembered.
SetSeenButDicts(n, h) ==
    IF InFile(n) THEN mapping' = [mapping EXCEPT ![n] = h] /\ used' = used
    ELSE /\ used' = IF kind[n] = "dict" THEN used ELSE [used EXCEPT ![n] = h]
         /\ mapping' = mapping

SetSeen(n, h) ==
    IF InFile(n) THEN mapping' = [mapping EXCEPT ![n] = h] /\ used' = used
                 ELSE used' = [used EXCEPT ![n] = h] /\ mapping' = mapping

\* The depth is checked for Python objects only, and before anything else.
Depth == Len(stack)
TooDeep(n) == ~InFile(n) /\ Depth >= MaxDepth
Visiting(n, K) == ctl.node = n /\ KindOf(n) \in K

-----------------------------------------------------------------------------
(* A call for one object or value. *)

VisitTooDeep(n) ==
    /\ Running("call") /\ ctl.node = n /\ TooDeep(n)
    /\ Raise(n, "too deep")
    /\ UNCHANGED <<stack, used, mapping, cache, values>>

\* Numbers are not remembered by their walker.  One that is converted while
\* an exception is pending takes it for its own.
VisitSimple(n) ==
    /\ Running("call") /\ Visiting(n, {"int", "float"}) /\ ~TooDeep(n)
    /\ KindOf(n) = "int" => InFile(n) \/ err = None
    /\ IF cache[n] # Fail
       THEN ctl' = Return(cache[n]) /\ UNCHANGED <<values, cache>>
       ELSE /\ values' = Append(values, NewValue(n))
            /\ ctl' = Return(NewHandle)
            /\ cache' = IF KindOf(n) = "int" THEN [cache EXCEPT ![n] = NewHandle] ELSE cache
    /\ UNCHANGED <<graph, final, err, is_error, stack, used, mapping>>

VisitLongPending(n) ==
    /\ Running("call") /\ Visiting(n, {"int"}) /\ ~TooDeep(n)
    /\ ~InFile(n) /\ err # None
    /\ Raise(n, "long beyond what we can store")
    /\ UNCHANGED <<stack, used, mapping, cache, values>>

VisitSeen(n) ==
    /\ Running("call") /\ Visiting(n, Container \cup {"text", "view"}) /\ ~TooDeep(n)
    /\ SeenAs(n) # Fail
    /\ ctl' = Return(SeenAs(n))
    /\ UNCHANGED <<graph, final, err, is_error, stack, used, mapping, cache, values>>

VisitText(n) ==
    /\ Running("call") /\ Visiting(n, {"text"}) /\ ~TooDeep(n)
    /\ SeenAs(n) = Fail
    /\ values' = Append(values, NewValue(n))
    /\ SetSeen(n, NewHandle)
    /\ ctl' = Return(NewHandle)
    /\ UNCHANGED <<graph, final, err, is_error, stack, cache>>

\* Faulty variant: a value is remembered when what it holds has been visited.
VisitContainerFirst(n) ==
    /\ Running("call") /\ Visiting(n, Container) /\ ~TooDeep(n)
    /\ SeenAs(n) = Fail
    /\ values' = Append(values, NewValue(n))
    /\ IF InFile(n) THEN UNCHANGED <<used, mapping>> ELSE SetSeen(n, NewHandle)
    /\ stack' = Append(stack, Frame(n, NewHandle))
    /\ ctl' = Loop
    /\ UNCHANGED <<graph, final, err, is_error, cache>>

\* A container is remembered before what it holds is visited, so that a
\* cycle comes back to its handle.
VisitContainer(n) ==
    /\ Running("call") /\ Visiting(n, Container) /\ ~TooDeep(n)
    /\ SeenAs(n) = Fail
    /\ values' = Append(values, NewValue(n))
    /\ SetSeen(n, NewHandle)
    /\ stack' = Append(stack, Frame(n, NewHandle))
    /\ ctl' = Loop
    /\ UNCHANGED <<graph, final, err, is_error, cache>>

\* The handle, or the place to remember it in, cannot be had.
VisitOutOfMemory(n) ==
    /\ Running("call") /\ Visiting(n, Leaf \cup Container) /\ ~TooDeep(n)
    /\ KindOf(n) = "int" => InFile(n) \/ err = None
    /\ KindOf(n) \in {"int", "float"} => cache[n] = Fail
    /\ KindOf(n) \notin {"int", "float"} => SeenAs(n) = Fail
    /\ \/ values' = values
       \/ /\ ~InFile(n) /\ KindOf(n) \notin {"int", "float"}
          /\ values' = Append(values, NewValue(n))
    /\ Raise(n, "out of memory")
    /\ UNCHANGED <<stack, used, mapping, cache>>

\* Faulty variant: the exception is set and is_error is not.
VisitUnsupportedQuietly(n) ==
    /\ Running("call") /\ Visiting(n, {"bad"}) /\ ~TooDeep(n)
    /\ err' = "type not supported" /\ ctl' = Return(Fail)
    /\ UNCHANGED <<graph, final, is_error, stack, used, mapping, cache, values>>

VisitUnsupported(n) ==
    /\ Running("call") /\ Visiting(n, {"bad"}) /\ ~TooDeep(n)
    /\ Raise(n, "type not supported")
    /\ UNCHANGED <<stack, used, mapping, cache, values>>

\* pointless_recreate_value with five fresh arrays.
VisitView(n) ==
    /\ Running("call") /\ Visiting(n, {"view"}) /\ ~TooDeep(n)
    /\ SeenAs(n) = Fail
    /\ mapping' = [v \in Val |-> Fail]
    /\ stack' = Append(stack, Frame(n, Fail))
    /\ ctl' = Call(kids[n][1])
    /\ UNCHANGED <<graph, final, err, is_error, used, cache, values>>

VisitViewFails(n) ==
    /\ Running("call") /\ Visiting(n, {"view"}) /\ ~TooDeep(n)
    /\ SeenAs(n) = Fail
    /\ Raise(n, "out of memory")
    /\ UNCHANGED <<stack, used, mapping, cache, values>>

-----------------------------------------------------------------------------
(* A container's loop over what it holds. *)

Leave(h) == stack' = Pop /\ ctl' = Return(h)
Returned(K) == Running("return") /\ stack # <<>> /\ KindOf(Top.at) \in K
Given == ctl.handle
InValue == Top.i % 2 = 0    \* the return is for a value, not for its key
Moved == [Top EXCEPT !.i = @ + 1]
Add(h, items) == values' = [values EXCEPT ![h].items = @ \o items]

NextChild ==
    /\ Running("loop") /\ Top.i <= Len(KidsOf(Top.at))
    /\ ctl' = Call(KidsOf(Top.at)[Top.i])
    /\ UNCHANGED <<graph, final, err, is_error, stack, used, mapping, cache, values>>

\* Where an error is pending, as in the value of a dict whose key has failed, a
\* dict or set gives up its handle although all its items were added: the one asks
\* is_error, the other PyErr_Occurred.  A list asks neither.
Python(k) == ~InFile(Top.at) /\ KindOf(Top.at) = k
LoopEnd ==
    /\ Running("loop") /\ Top.i > Len(KidsOf(Top.at))
    /\ is_error' = (is_error \/ (Python("set") /\ err # None))
    /\ Leave(IF is_error' /\ (Python("dict") \/ Python("set")) THEN Fail ELSE Top.handle)
    /\ UNCHANGED <<graph, final, err, used, mapping, cache, values>>

ItemDone ==
    /\ Returned({"list", "set"}) /\ Given # Fail
    /\ Add(Top.handle, <<Given>>)
    /\ stack' = Append(Pop, Moved) /\ ctl' = Loop
    /\ UNCHANGED <<graph, final, err, is_error, used, mapping, cache>>

\* An item that fails, or cannot be added, ends its list or set with failure.
ItemFails ==
    /\ Returned({"list", "set"})
    /\ \/ Given = Fail /\ UNCHANGED err
       \/ Given # Fail /\ err' = "item not added"
    /\ is_error' = (is_error \/ (~InFile(Top.at) /\ (Given # Fail \/ KindOf(Top.at) = "set")))
    /\ Leave(Fail)
    /\ UNCHANGED <<graph, final, used, mapping, cache, values>>

\* The value of a Python dict is visited even when its key has failed.
KeyDone ==
    /\ Returned({"dict"}) /\ ~InValue
    /\ InFile(Top.at) => Given # Fail
    /\ stack' = Append(Pop, [Moved EXCEPT !.key = Given]) /\ ctl' = Loop
    /\ UNCHANGED <<graph, final, err, is_error, used, mapping, cache, values>>

PairDone ==
    /\ Returned({"dict"}) /\ InValue /\ Top.key # Fail /\ Given # Fail
    /\ Add(Top.handle, <<Top.key, Given>>)
    /\ stack' = Append(Pop, Moved) /\ ctl' = Loop
    /\ UNCHANGED <<graph, final, err, is_error, used, mapping, cache>>

PairFails ==
    /\ Returned({"dict"})
    /\ \/ /\ Given = Fail \/ (InValue /\ Top.key = Fail)
          /\ InValue \/ InFile(Top.at)
          /\ UNCHANGED <<err, is_error>>
       \/ /\ InValue /\ Given # Fail /\ Top.key # Fail
          /\ err' = "pair not added"
          /\ is_error' = (is_error \/ ~InFile(Top.at))
    /\ Leave(IF is_error' \/ InFile(Top.at) THEN Fail ELSE Top.handle)
    /\ UNCHANGED <<graph, final, used, mapping, cache, values>>

\* pointless_recreate_value is back: the arrays are freed, and the handle is
\* remembered for the view.
ViewDone ==
    /\ Returned({"view"}) /\ Given # Fail
    /\ mapping' = [v \in Val |-> Fail]
    /\ used' = [used EXCEPT ![Top.at] = Given]
    /\ Leave(Given)
    /\ UNCHANGED <<graph, final, err, is_error, cache, values>>

ViewFails ==
    /\ Returned({"view"})
    /\ mapping' = [v \in Val |-> Fail]
    /\ Raise(Top.at, IF Given = Fail THEN "recreate failed" ELSE "out of memory")
    /\ stack' = Pop
    /\ UNCHANGED <<used, cache, values>>

-----------------------------------------------------------------------------
(* The clients. *)

Back == Running("return") /\ stack = <<>>

\* The root is set whenever there is a handle, and then an error ends the
\* call without pointless_create_end.
ExportEnds ==
    /\ Back /\ client = "python"
    /\ root' = IF Given = Fail THEN root ELSE Given
    /\ IF is_error THEN result' = "raised" /\ ctl' = ctl
                   ELSE result' = result /\ ctl' = [ctl EXCEPT !.mode = "output"]
    /\ UNCHANGED <<graph, stack, used, mapping, cache, values, err, is_error, ended>>

RecreateEnds ==
    /\ Back /\ client = "recreate"
    /\ IF Given = Fail
       THEN result' = "raised" /\ ended' = TRUE /\ UNCHANGED <<root, ctl>>
       ELSE root' = Given /\ ctl' = [ctl EXCEPT !.mode = "output"] /\ UNCHANGED <<ended, result>>
    /\ UNCHANGED <<graph, stack, used, mapping, cache, values, err, is_error>>

Output ==
    /\ Running("output")
    /\ ended' = TRUE /\ result' = "written"
    /\ UNCHANGED <<graph, walk, root, err, is_error>>

\* Writing fails, or the bytes object cannot be made of what was written;
\* the create state is ended once by the output and maybe again, in vain.
OutputFails ==
    /\ Running("output")
    /\ ended' = TRUE /\ result' = "raised" /\ err' = "output failed"
    /\ UNCHANGED <<graph, walk, root, is_error>>

Visit(n) ==
    \/ VisitTooDeep(n) \/ VisitSimple(n) \/ VisitLongPending(n) \/ VisitSeen(n)
    \/ VisitText(n) \/ VisitContainer(n) \/ VisitOutOfMemory(n)
    \/ VisitUnsupported(n) \/ VisitView(n) \/ VisitViewFails(n)

Next ==
    \/ \E n \in Obj \cup Val : Visit(n)
    \/ NextChild \/ LoopEnd \/ ItemDone \/ ItemFails
    \/ KeyDone \/ PairDone \/ PairFails \/ ViewDone \/ ViewFails
    \/ ExportEnds \/ RecreateEnds \/ Output \/ OutputFails

Spec == Init /\ [][Next]_vars

-----------------------------------------------------------------------------
(* Properties. *)

\* Objects and handles met together on the way down from the two roots.  A
\* value of the file is told apart by the view it was reached through.
Pair(via, n, h) == [via |-> via, node |-> n, handle |-> h]
Below(p) ==
    IF KindOf(p.node) = "view" THEN {Pair(p.node, kids[p.node][1], p.handle)}
    ELSE {Pair(p.via, KidsOf(p.node)[i], values[p.handle].items[i]) :
            i \in DOMAIN KidsOf(p.node) \cap DOMAIN values[p.handle].items}
Mirror[n \in Nat] ==
    IF n = 0 THEN {Pair(None, start, root)}
             ELSE LET above == Mirror[n - 1] IN above \cup UNION {Below(p) : p \in above}
Mirrored == Mirror[Cardinality(Obj) * (1 + Cardinality(Val))]

LooksLike(p) ==
    KindOf(p.node) # "view" =>
      /\ values[p.handle].kind = KindOf(p.node)
      /\ Len(values[p.handle].items) = Len(KidsOf(p.node))
      /\ KindOf(p.node) \in Leaf => values[p.handle].of = p.node

\* What is written is the graph that was given, sharing and cycles included:
\* every container has one handle and every handle one container, however it
\* was reached, although handles are given away before they have their items.
\* (pointless_export_py_rec, pointless_recreate_convert_rec: objects_used and the
\* mappings)
HandlesMirrorObjects ==
    result = "written" =>
      LET R == Mirrored IN
        /\ \A p \in R : LooksLike(p)
        /\ \A p, q \in {r \in R : KindOf(r.node) \in Container} :
             (p.handle = q.handle) <=> (p.via = q.via /\ p.node = q.node)

\* The caller gets a result exactly if no exception is pending, and then from
\* a root that was set; what was created is ended except by an export that
\* failed.  (pointless_write_object, pointless_recreate_64: is_error against
\* PyErr_Occurred)
OutcomeIsReported ==
    result # None =>
      /\ (result = "written") <=> (err = None)
      /\ result = "written" => root # Fail /\ ~is_error
      /\ ended \/ (client = "python" /\ is_error)

\* The walk over a file, which has no depth limit of its own, is nested no
\* deeper than the file has containers; that over Python objects no deeper
\* than the limit.  (pointless_recreate_convert_rec: the mapping is set
\* before the children are visited)
RecursionIsBounded ==
    /\ Cardinality({i \in DOMAIN stack : InFile(stack[i].at)})
         <= Cardinality({v \in Val : FileKind[v] \in Container})
    /\ Cardinality({i \in DOMAIN stack : ~InFile(stack[i].at)}) <= MaxDepth

-----------------------------------------------------------------------------
(* Why they hold. *)

Frames == [at : Obj \cup Val, handle : Nat, i : Nat \ {0}, key : Nat]
Controls ==
    [mode : {"call", "loop", "return", "output"}, node : Obj \cup Val \cup {None}, handle : Nat]
Written == [kind : Leaf \cup Container, of : Obj \cup Val \cup {None}, items : Seq(Nat)]
TypeOK ==
    /\ client \in {"python", "recreate"} /\ start \in Obj \cup Val
    /\ kind \in [Obj -> Leaf \cup Container \cup {"view", "bad"}]
    /\ kids \in [Obj -> Seq(Obj \cup Val)]
    /\ stack \in Seq(Frames) /\ ctl \in Controls
    /\ used \in [Obj -> Nat] /\ mapping \in [Val -> Nat] /\ cache \in [Obj \cup Val -> Nat]
    /\ values \in Seq(Written)
    /\ root \in Nat /\ err \in Errors \cup {None}
    /\ is_error \in BOOLEAN /\ ended \in BOOLEAN /\ result \in {None, "raised", "written"}

\* The graph is one that a program can have, and stays as it is.
GraphInv ==
    /\ client = "python" => start \in Obj
    /\ client = "recreate" => start \in Val
    /\ \A o \in Obj : kids[o] \in KidsFor(kind[o])

\* Whether the first k calls in progress have come to the file.
FileBelow(k) ==
    IF k = 0 THEN client = "recreate" ELSE InFile(stack[k].at) \/ KindOf(stack[k].at) = "view"

\* The calls in progress: those for Python objects come first and are within
\* the limit; those for values of the file are of containers that have been
\* remembered, each of another one.
FrameInv(k) ==
    /\ KindOf(stack[k].at) \in Container \cup {"view"}
    /\ KindOf(stack[k].at) \in Container => stack[k].handle \in DOMAIN values
    /\ InFile(stack[k].at) <=> FileBelow(k - 1)
    /\ InFile(stack[k].at) => mapping[stack[k].at] # Fail
    /\ ~InFile(stack[k].at) => k <= MaxDepth
    /\ InFile(stack[k].at) /\ KindOf(stack[k].at) = "dict" /\ stack[k].i % 2 = 0
         => stack[k].key # Fail
NestInv ==
    /\ \A k \in DOMAIN stack : FrameInv(k)
    /\ \A k, l \in DOMAIN stack :
         k < l /\ InFile(stack[k].at) => InFile(stack[l].at) /\ stack[k].at # stack[l].at
    /\ ctl.mode = "call" => (InFile(ctl.node) <=> FileBelow(Len(stack)))
    /\ ctl.mode = "loop" => stack # <<>> /\ KindOf(Top.at) \in Container

\* An error is pending when is_error is set or a call has failed.  While only
\* the error of a walk over the file is pending, that walk is on its way back.
ErrorInv ==
    /\ is_error => err # None
    /\ client = "recreate" => ~is_error
    /\ result = None =>
         /\ ctl.mode = "return" /\ Given = Fail => err # None
         /\ err # None /\ ~is_error => ctl.mode = "return" /\ Given = Fail /\ FileBelow(Len(stack))
         /\ ctl.mode = "output" => err = None /\ ~is_error /\ root # Fail

WalkInv == TypeOK /\ GraphInv /\ NestInv /\ ErrorInv /\ OutcomeIsReported
=============================================================================
