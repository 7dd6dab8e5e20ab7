---------------------------- MODULE ReaderObject ----------------------------
(***************************************************************************)
(* One Pointless object of the Python extension, the views that programs   *)
(* take of the containers in its file, and the iterators and buffers that  *)
(* are taken of the views.                                                 *)
(*                                                                         *)
(* A view keeps the object alive and reads the file through the object's   *)
(* own pointers.  Each method is one step under the interpreter lock,      *)
(* except that __init__ closes the previous file and opens the next one    *)
(* with the lock released.  Calls that raise and change nothing are        *)
(* stuttering steps; a next() that raises may change its iterator.         *)
(***************************************************************************)
EXTENDS Integers, Sequences, FiniteSets

CONSTANTS
    File,      \* the files, or the buffers with the contents of one
    Root,      \* the container at the root of each
    Kind,      \* of each container: "values", "numbers", "set" or "map"
    Cells,     \* its items, or the keys in the cells of its hash table
    Vals,      \* the values of a map, cell by cell
    Empty,     \* the mark of an empty cell
    Thread, View, Iter, Buffer,
    MaxMaps,   \* bound on the files that are ever opened
    MaxInits,  \* bound on the calls of __init__
    Index      \* the indexes, and keys, that programs use

None == "none"
Container == DOMAIN Kind
ASSUME FileAssumption ==
    /\ Root \in [File -> Container]
    /\ \A c \in Container : Cells[c] \in Seq(Container \cup Nat \cup {Empty})
\* Only tables have empty cells, and vectors of numbers hold numbers.
ASSUME VectorAssumption ==
    /\ \A c \in Container : Kind[c] \in {"values", "numbers"} =>
          \A j \in 1..Len(Cells[c]) : Cells[c][j] # Empty
    /\ \A c \in Container : Kind[c] = "numbers" => Cells[c] \in Seq(Nat)
ASSUME FiniteAssumption ==
    /\ IsFiniteSet(Thread) /\ IsFiniteSet(View) /\ IsFiniteSet(Iter) /\ IsFiniteSet(Buffer)
    /\ None \notin View
ASSUME ReaderBounds == MaxMaps \in Nat /\ MaxInits \in Nat /\ Index \subseteq Int

VARIABLES
    refs,      \* the object's reference count
    held,      \* whether the program itself holds the object
    is_open,
    mem,       \* the memory that p.fd_ptr or p.buf is: an index of maps, or 0
    header,    \* the memory that p.header and the offset vectors are in, or 0
    maps,      \* all mappings and buffers ever made, and which of them are open
    views, iters, buffers,
    calls,     \* the calls of __init__
    inits,     \* how many there were
    overlap,   \* whether two of them ever overlapped
    fault      \* undefined behaviour that was met, if any

objvars == <<refs, held, is_open, mem, header, maps>>
callvars == <<calls, inits, overlap>>
vars == <<objvars, views, iters, buffers, callvars, fault>>

NoView == [refs |-> 0, held |-> FALSE, from |-> 0, node |-> None, i |-> 0, n |-> 0, want |-> <<>>]
\* Of an iterator, seen and raised are the positions of the items that next()
\* returned and of those that it raised an exception for.
NoIter == [view |-> None, vals |-> FALSE, state |-> 0, seen |-> <<>>, raised |-> {}, rev |-> FALSE]
NoBuffer == [view |-> None, from |-> 0]
Idle == [pc |-> "idle", src |-> None, file |-> None, lost |-> FALSE]

\* An object as __new__ makes it.
Init ==
    /\ refs = 1 /\ held = TRUE /\ is_open = FALSE
    /\ mem = 0 /\ header = 0 /\ maps = <<>>
    /\ views = [w \in View |-> NoView]
    /\ iters = [k \in Iter |-> NoIter]
    /\ buffers = [b \in Buffer |-> NoBuffer]
    /\ calls = [t \in Thread |-> Idle] /\ inits = 0 /\ overlap = FALSE
    /\ fault = None

Defined == fault = None

-----------------------------------------------------------------------------
(* Memory and references. *)

Live(m) == m # 0 /\ maps[m].open

\* pointless_close unmaps or frees what the object refers to, and does not
\* forget it.
Close ==
    /\ maps' = IF mem = 0 THEN maps ELSE [maps EXCEPT ![mem].open = FALSE]
    /\ fault' = IF mem = 0 \/ maps[mem].open THEN fault ELSE "closed twice"

\* The object loses a reference; the last one closes its file.
ObjectUnref(open) ==
    /\ refs' = refs - 1
    /\ IF refs = 1 /\ open THEN Close /\ is_open' = FALSE
                           ELSE is_open' = open /\ UNCHANGED <<maps, fault>>

\* A view loses a reference; the last one releases the object.
ViewUnref(w) ==
    IF views[w].refs = 1 THEN ObjectUnref(is_open)
                         ELSE UNCHANGED <<refs, is_open, maps, fault>>
Fewer(w) == IF views[w].refs = 1 THEN NoView ELSE [views[w] EXCEPT !.refs = @ - 1]
More(w) == [views[w] EXCEPT !.refs = @ + 1]

\* What a reading method of a view finds in the object's file is what the
\* view was made of.
Backed(w) == Live(header) /\ header = views[w].from

-----------------------------------------------------------------------------
(* Views. *)

Free(w) == views[w] = NoView
IsVector(c) == Kind[c] \in {"values", "numbers"}
Positions(i, n) == [j \in 1..n |-> i + j]

\* A new view of part of a container; positions are those that the program
\* ought to see.  It is refused where the part is not within the container.
NewView(c, i, n, want) ==
    [refs |-> 1, held |-> TRUE, from |-> header, node |-> c, i |-> i, n |-> n, want |-> want]
Whole(c) == NewView(c, 0, Len(Cells[c]), Positions(0, Len(Cells[c])))

\* GetRoot asks neither whether the object is open nor whether it ever was.
GetRoot(w) ==
    /\ Defined /\ held /\ Free(w)
    /\ IF Live(header)
       THEN /\ views' = [views EXCEPT ![w] = Whole(Root[maps[header].file])]
            /\ refs' = refs + 1 /\ fault' = fault
       ELSE /\ fault' = IF header = 0 THEN "null" ELSE "root unmapped"
            /\ UNCHANGED <<views, refs>>
    /\ UNCHANGED <<held, is_open, mem, header, maps, iters, buffers, callvars>>

\* Any method that reads through a view whose file is no longer there.
ReadUnbacked(w) ==
    /\ Defined /\ views[w].held /\ ~Backed(w)
    /\ fault' = "view unmapped"
    /\ UNCHANGED <<objvars, views, iters, buffers, callvars>>

\* The position that an index refers to.
CheckIndex(w, i) == IF i < 0 THEN i + views[w].n ELSE i
InRange(w, i) == 0 <= CheckIndex(w, i) /\ CheckIndex(w, i) < views[w].n
At(w, i) == views[w].i + i + 1

\* v[i], m[key] and what an iterator returns: a value that is a container
\* becomes a view, whatever else is a number or a string of its own.
Keep(x, w) ==
    IF x \in Container /\ w \in View
    THEN Free(w) /\ views' = [views EXCEPT ![w] = Whole(x)] /\ refs' = refs + 1
    ELSE UNCHANGED <<views, refs>>

Subscript(w, i, new) ==
    /\ Defined /\ views[w].held /\ Backed(w) /\ IsVector(views[w].node)
    /\ InRange(w, i)
    /\ Cells[views[w].node][At(w, CheckIndex(w, i))] \in Container
    /\ Keep(Cells[views[w].node][At(w, CheckIndex(w, i))], new)
    /\ UNCHANGED <<held, is_open, mem, header, maps, iters, buffers, callvars, fault>>

\* m[key] and m.get(key), the key being found in a cell.
MapSubscript(w, key, new) ==
    /\ Defined /\ views[w].held /\ Backed(w) /\ Kind[views[w].node] = "map"
    /\ \E s \in 1..views[w].n :
          /\ Cells[views[w].node][s] = key /\ Vals[views[w].node][s] \in Container
          /\ Keep(Vals[views[w].node][s], new)
    /\ UNCHANGED <<held, is_open, mem, header, maps, iters, buffers, callvars, fault>>

\* v[lo:hi], whose bounds Python clips to the length before the code does.
Clip(x, n) == IF x < 0 THEN IF x + n < 0 THEN 0 ELSE x + n ELSE IF x > n THEN n ELSE x
\* Faulty variant: the part is taken relative to the whole vector.
BetweenForgets(v, lo, hi) ==
    LET n == views[v].n
        low == IF lo < 0 THEN 0 ELSE IF lo > n THEN n ELSE lo
        high == IF hi < low THEN low ELSE IF hi > n THEN n ELSE hi
    IN  [i |-> low, n |-> high - low]

Between(v, lo, hi) ==
    LET n == views[v].n
        low == IF lo < 0 THEN 0 ELSE IF lo > n THEN n ELSE lo
        high == IF hi < low THEN low ELSE IF hi > n THEN n ELSE hi
    IN  [i |-> views[v].i + low, n |-> high - low]

Slice(w, lo, hi, new) ==
    LET n == views[w].n
        part == Between(w, Clip(lo, n), Clip(hi, n))
        want == SubSeq(views[w].want, Clip(lo, n) + 1, Clip(hi, n))
    IN  /\ Defined /\ views[w].held /\ Backed(w) /\ IsVector(views[w].node) /\ Free(new)
        /\ part.i + part.n <= Len(Cells[views[w].node])
        /\ views' = [views EXCEPT ![new] = NewView(views[w].node, part.i, part.n, want)]
        /\ refs' = refs + 1
        /\ UNCHANGED <<held, is_open, mem, header, maps, iters, buffers, callvars, fault>>

DropView(w) ==
    /\ Defined /\ views[w].held
    /\ views' = [views EXCEPT ![w] = [Fewer(w) EXCEPT !.held = FALSE]]
    /\ ViewUnref(w)
    /\ UNCHANGED <<held, mem, header, iters, buffers, callvars>>

\* The program lets go of the object itself.
DropObject ==
    /\ Defined /\ held
    /\ held' = FALSE /\ ObjectUnref(is_open)
    /\ UNCHANGED <<mem, header, views, iters, buffers, callvars>>

-----------------------------------------------------------------------------
(* Iterators. *)

StartIter(k, w, rev, vals) ==
    /\ Defined /\ iters[k] = NoIter /\ views[w].held
    /\ iters' = [iters EXCEPT ![k] = [NoIter EXCEPT !.view = w, !.vals = vals, !.rev = rev]]
    /\ UNCHANGED <<objvars, buffers, callvars, fault>>

\* Faulty variant: the iterator does not hold its view.
VectorIterBorrows(k, w, rev) ==
    /\ IsVector(views[w].node) /\ StartIter(k, w, rev, FALSE)
    /\ UNCHANGED views

VectorIter(k, w, rev) ==
    /\ IsVector(views[w].node) /\ StartIter(k, w, rev, FALSE)
    /\ views' = [views EXCEPT ![w] = More(w)]

SetIter(k, w) ==
    /\ Kind[views[w].node] = "set" /\ StartIter(k, w, FALSE, FALSE)
    /\ views' = [views EXCEPT ![w] = More(w)]

\* Of the keys, or of the values or the items.
MapIter(k, w, vals) ==
    /\ Kind[views[w].node] = "map" /\ StartIter(k, w, FALSE, vals)
    /\ views' = [views EXCEPT ![w] = More(w)]

\* The state that the next item is found at: a vector has one at every
\* index below its length, a table at the next cell that is not empty.
VectorAhead(k) == {iters[k].state} \cap 0..(views[iters[k].view].n - 1)
TableAhead(k) ==
    LET cells == Cells[views[iters[k].view].node]
    IN  {s \in iters[k].state..(Len(cells) - 1) :
            /\ cells[s + 1] # Empty
            /\ \A r \in iters[k].state..(s - 1) : cells[r + 1] = Empty}
Ahead(k) == IF IsVector(views[iters[k].view].node) THEN VectorAhead(k) ELSE TableAhead(k)

\* The position of the item at a state.
Position(k, s) ==
    LET it == iters[k]
    IN  At(it.view, IF it.rev THEN views[it.view].n - s - 1 ELSE s)

\* The next item, key or value of a map; of an item of a map, the value.  If
\* it is a container it may be kept as a view.
IterNext(k, new) ==
    LET it == iters[k]
        w == it.view
    IN  /\ Defined /\ w # None /\ Backed(w)
        /\ \E s \in Ahead(k) :
              LET pos == Position(k, s)
              IN  /\ iters' = [iters EXCEPT ![k].state = s + 1, ![k].seen = Append(@, pos)]
                  /\ Keep((IF it.vals THEN Vals ELSE Cells)[views[w].node][pos], new)
                  /\ new = None \/ views' # views
        /\ UNCHANGED <<held, is_open, mem, header, maps, buffers, callvars, fault>>

\* No Python value can be made of the item: there is no memory for it, or it
\* holds a character that Python has not.  By then a table's iterator is past
\* the item, that of a vector is not.
IterNextFails(k) ==
    LET w == iters[k].view
    IN  /\ Defined /\ w # None /\ Backed(w)
        /\ \E s \in Ahead(k) :
              iters' = [iters EXCEPT ![k].state = IF IsVector(views[w].node) THEN s ELSE s + 1,
                                     ![k].raised = @ \cup {Position(k, s)}]
        /\ UNCHANGED <<objvars, views, buffers, callvars, fault>>

\* A table's iterator reads the number of cells to find that it has ended.
IterEnd(k) ==
    LET w == iters[k].view
    IN  /\ Defined /\ w # None
        /\ Backed(w) \/ IsVector(views[w].node)
        /\ Ahead(k) = {}
        /\ iters' = [iters EXCEPT ![k].view = None]
        /\ views' = [views EXCEPT ![w] = Fewer(w)]
        /\ ViewUnref(w)
        /\ UNCHANGED <<held, mem, header, buffers, callvars>>

IterUnbacked(k) ==
    LET w == iters[k].view
    IN  /\ Defined /\ w # None /\ ~Backed(w)
        /\ IsVector(views[w].node) => Ahead(k) # {}
        /\ fault' = "view unmapped"
        /\ UNCHANGED <<objvars, views, iters, buffers, callvars>>

IterDealloc(k) ==
    LET w == iters[k].view
    IN  /\ Defined /\ iters[k] # NoIter
        /\ iters' = [iters EXCEPT ![k] = NoIter]
        /\ IF w = None THEN UNCHANGED <<views, refs, is_open, maps, fault>>
           ELSE views' = [views EXCEPT ![w] = Fewer(w)] /\ ViewUnref(w)
        /\ UNCHANGED <<held, mem, header, buffers, callvars>>

-----------------------------------------------------------------------------
(* Buffers, which vectors of numbers export. *)

GetBuffer(b, w) ==
    /\ Defined /\ buffers[b] = NoBuffer /\ views[w].held /\ Backed(w)
    /\ Kind[views[w].node] = "numbers"
    /\ buffers' = [buffers EXCEPT ![b] = [view |-> w, from |-> header]]
    /\ views' = [views EXCEPT ![w] = More(w)]
    /\ UNCHANGED <<objvars, iters, callvars, fault>>

ReleaseBuffer(b) ==
    LET w == buffers[b].view
    IN  /\ Defined /\ w # None
        /\ buffers' = [buffers EXCEPT ![b] = NoBuffer]
        /\ views' = [views EXCEPT ![w] = Fewer(w)] /\ ViewUnref(w)
        /\ UNCHANGED <<held, mem, header, iters, callvars>>

-----------------------------------------------------------------------------
(* __init__. *)

\* Files and bytes objects stay as they are while they are read; the memory
\* of a bytearray or a primitive vector may not.
Sources == {"fixed", "array"}
Enter(t, c) ==
    /\ calls' = [calls EXCEPT ![t] = c]
    /\ overlap' = (overlap \/ \E u \in Thread : u # t /\ calls[u] # Idle)
Opening(src, f) == [Idle EXCEPT !.pc = "opening", !.src = src, !.file = f]

\* An object that is open is closed first, whatever the arguments are.
InitBegin(t) ==
    /\ Defined /\ held /\ calls[t] = Idle /\ inits < MaxInits /\ is_open
    /\ Enter(t, [Idle EXCEPT !.pc = "closing"])
    /\ inits' = inits + 1 /\ refs' = refs + 1
    /\ UNCHANGED <<held, is_open, mem, header, maps, views, iters, buffers, fault>>

InitClose(t) ==
    /\ Defined /\ calls[t].pc = "closing"
    /\ calls' = [calls EXCEPT ![t].pc = "closed"] /\ Close
    /\ UNCHANGED <<refs, held, is_open, mem, header, views, iters, buffers, inits, overlap>>

InitReopen(t, src, f) ==
    /\ Defined /\ calls[t].pc = "closed"
    /\ is_open' = FALSE /\ calls' = [calls EXCEPT ![t] = Opening(src, f)]
    /\ UNCHANGED <<refs, held, mem, header, maps, views, iters, buffers, inits, overlap, fault>>

InitRefused(t) ==
    /\ Defined /\ calls[t].pc = "closed"
    /\ calls' = [calls EXCEPT ![t] = Idle] /\ ObjectUnref(FALSE)
    /\ UNCHANGED <<held, mem, header, views, iters, buffers, inits, overlap>>

InitOpen(t, src, f) ==
    /\ Defined /\ held /\ calls[t] = Idle /\ inits < MaxInits /\ ~is_open
    /\ Enter(t, Opening(src, f))
    /\ inits' = inits + 1 /\ refs' = refs + 1
    /\ UNCHANGED <<held, is_open, mem, header, maps, views, iters, buffers, fault>>

\* Another thread resizes the primitive vector or the bytearray that is
\* being copied; nothing keeps it from doing so.
SourceResized(t) ==
    /\ Defined /\ calls[t].pc = "opening" /\ calls[t].src = "array" /\ ~calls[t].lost
    /\ calls' = [calls EXCEPT ![t].lost = TRUE]
    /\ UNCHANGED <<objvars, views, iters, buffers, inits, overlap, fault>>

\* The file is mapped, or the buffer copied.
OpenMap(t) ==
    /\ Defined /\ calls[t].pc = "opening" /\ Len(maps) < MaxMaps
    /\ fault' = IF calls[t].lost THEN "source freed" ELSE fault
    /\ maps' = Append(maps, [file |-> calls[t].file, open |-> TRUE]) /\ mem' = Len(maps) + 1
    /\ calls' = [calls EXCEPT ![t].pc = "mapped"]
    /\ UNCHANGED <<refs, held, is_open, header, views, iters, buffers, inits, overlap>>

\* There is no such file, it is empty, or there is no memory.
OpenMapFails(t) ==
    /\ Defined /\ calls[t].pc = "opening"
    /\ mem' = 0 /\ calls' = [calls EXCEPT ![t].pc = "failed"]
    /\ UNCHANGED <<refs, held, is_open, header, maps, views, iters, buffers, inits, overlap, fault>>

\* pointless_init reads what p refers to by now, which is this call's memory
\* unless two of them overlap.
OpenHeader(t) ==
    /\ Defined /\ calls[t].pc = "mapped"
    /\ IF Live(mem) THEN header' = mem /\ fault' = fault
                    ELSE header' = header /\ fault' = "header unmapped"
    /\ calls' = [calls EXCEPT ![t].pc = "opened"]
    /\ UNCHANGED <<refs, held, is_open, mem, maps, views, iters, buffers, inits, overlap>>

\* Faulty variant: a file that does not validate stays mapped.
OpenHeaderFailsOpen(t, short) ==
    /\ Defined /\ calls[t].pc = "mapped"
    /\ header' = IF short THEN header ELSE mem
    /\ calls' = [calls EXCEPT ![t].pc = "failed"]
    /\ UNCHANGED <<refs, held, is_open, mem, maps, views, iters, buffers, inits, overlap, fault>>

\* The file is too short for a header, or does not validate.
OpenHeaderFails(t, short) ==
    /\ Defined /\ calls[t].pc = "mapped"
    /\ Close /\ header' = IF short THEN header ELSE mem
    /\ calls' = [calls EXCEPT ![t].pc = "failed"]
    /\ UNCHANGED <<refs, held, is_open, mem, views, iters, buffers, inits, overlap>>

InitEnd(t) ==
    /\ Defined /\ calls[t].pc \in {"opened", "failed"}
    /\ calls' = [calls EXCEPT ![t] = Idle]
    /\ ObjectUnref(is_open \/ calls[t].pc = "opened")
    /\ UNCHANGED <<held, mem, header, views, iters, buffers, inits, overlap>>

-----------------------------------------------------------------------------
Viewing == \E w \in View :
    \/ GetRoot(w) \/ ReadUnbacked(w) \/ DropView(w)
    \/ \E new \in View : (\E i \in Index : Subscript(w, i, new))
                         \/ (\E key \in Index : MapSubscript(w, key, new))
                         \/ \E lo, hi \in Index : Slice(w, lo, hi, new)
Iterating == \E k \in Iter :
    \/ \E w \in View : views[w].held /\
          (SetIter(k, w) \/ \E b \in BOOLEAN : VectorIter(k, w, b) \/ MapIter(k, w, b))
    \/ \E new \in View \cup {None} : IterNext(k, new)
    \/ IterNextFails(k) \/ IterEnd(k) \/ IterUnbacked(k) \/ IterDealloc(k)
Exporting == \E b \in Buffer : (\E w \in View : GetBuffer(b, w)) \/ ReleaseBuffer(b)
Constructing == \E t \in Thread :
    \/ InitBegin(t) \/ InitClose(t) \/ InitRefused(t)
    \/ \E src \in Sources, f \in File : InitReopen(t, src, f) \/ InitOpen(t, src, f)
    \/ SourceResized(t) \/ OpenMap(t) \/ OpenMapFails(t)
    \/ OpenHeader(t) \/ (\E short \in BOOLEAN : OpenHeaderFails(t, short))
    \/ InitEnd(t)
Over == (~Defined \/ refs = 0) /\ UNCHANGED vars

Next == Viewing \/ DropObject \/ Iterating \/ Exporting \/ Constructing \/ Over

Spec == Init /\ [][Next]_vars

-----------------------------------------------------------------------------
(* Searching in and comparing vectors of numbers. *)

Items(w) == [j \in 1..views[w].n |-> Cells[views[w].node][At(w, j - 1)]]

\* bisect_left: the loop over i and j, p being the pair of them.
BisectLeft(a, x) ==
    LET loop[p \in (0..Len(a)) \X (0..Len(a))] ==
            LET mid == (p[1] + p[2]) \div 2
            IN  IF p[1] >= p[2] THEN p[1]
                ELSE IF a[mid + 1] < x THEN loop[<<mid + 1, p[2]>>] ELSE loop[<<p[1], mid>>]
    IN  loop[<<0, Len(a)>>]

\* The first index where two vectors differ, or the length of the shorter.
Shorter(a, b) == IF Len(a) < Len(b) THEN Len(a) ELSE Len(b)
FirstDifference(a, b) ==
    CHOOSE i \in 0..Shorter(a, b) :
        /\ \A j \in 1..i : a[j] = b[j]
        /\ i < Shorter(a, b) => a[i + 1] # b[i + 1]
LessThan(a, b) ==
    LET i == FirstDifference(a, b)
    IN  IF i >= Len(a) \/ i >= Len(b) THEN Len(a) < Len(b) ELSE a[i + 1] < b[i + 1]

-----------------------------------------------------------------------------
(* Properties. *)

TypeOK ==
    /\ refs \in Nat /\ held \in BOOLEAN /\ is_open \in BOOLEAN
    /\ maps \in Seq([file : File, open : BOOLEAN])
    /\ mem \in 0..Len(maps) /\ header \in 0..Len(maps)
    /\ views \in [View -> [refs : Nat, held : BOOLEAN, from : Nat, node : Container \cup {None},
                           i : Nat, n : Nat, want : Seq(Nat)]]
    /\ iters \in [Iter -> [view : View \cup {None}, vals : BOOLEAN, state : Nat, seen : Seq(Nat),
                           raised : SUBSET Nat, rev : BOOLEAN]]
    /\ buffers \in [Buffer -> [view : View \cup {None}, from : Nat]]
    /\ calls \in [Thread -> [pc : {"idle", "closing", "closed", "opening", "mapped", "opened", "failed"},
                             src : Sources \cup {None}, file : File \cup {None}, lost : BOOLEAN]]
    /\ inits \in Nat /\ overlap \in BOOLEAN
    /\ fault \in {None, "null", "root unmapped", "view unmapped", "header unmapped",
                  "source freed", "closed twice"}

\* The reference count of the object says how many hold it, the program, views
\* and calls of __init__, and that of a view says the same of the program,
\* iterators and buffers.  (ob_refcnt)
CountsAreExact ==
    /\ refs = (IF held THEN 1 ELSE 0) + Cardinality({w \in View : ~Free(w)})
              + Cardinality({t \in Thread : calls[t] # Idle})
    /\ \A w \in View : views[w].refs = (IF views[w].held THEN 1 ELSE 0)
                       + Cardinality({k \in Iter : iters[k].view = w})
                       + Cardinality({b \in Buffer : buffers[b].view = w})
    /\ \A w \in View : views[w].refs = 0 => Free(w)

\* As long as __init__ runs only once, the file stays open for all views,
\* the iterators and the buffers of it, in whichever order the program lets
\* go of them and of the object, and the file is closed once.
ViewsAreBacked ==
    inits <= 1 =>
        /\ \A w \in View : views[w].refs > 0 => Backed(w)
        /\ \A k \in Iter : iters[k].view # None => views[iters[k].view].refs > 0
        /\ \A b \in Buffer : buffers[b].view # None =>
              Live(buffers[b].from) /\ views[buffers[b].view].from = buffers[b].from
        /\ fault \notin {"view unmapped", "closed twice", "header unmapped"}

\* Calls of __init__ that do not overlap leave no file open but the one that
\* the object refers to, whatever fails in them; none is left open when the
\* last reference to the object or to a view of it is gone, and none is
\* closed twice.
NothingLeaks ==
    ~overlap =>
        /\ \A m \in 1..Len(maps) : maps[m].open => m = mem /\ refs > 0
        /\ (\A t \in Thread : calls[t] = Idle) => (is_open <=> Live(mem))
        /\ fault # "closed twice"

\* A view shows what Python's slices of slices would show.
ViewsShowSlices ==
    \A w \in View : ~Free(w) => Positions(views[w].i, views[w].n) = views[w].want

\* The items that an iterator does not return any more: those of a table that
\* next() raised for.  A vector's iterator is asked for the same item again.
Lost(it, node) == IF IsVector(node) THEN {} ELSE it.raised

\* Iterator it over the positions want of a container has returned the items
\* that exist up to its state and were not lost, and no others, each once and
\* in order.
HasReturned(it, want, n, node) ==
    LET at(j) == want[IF it.rev THEN n + 1 - j ELSE j]
        exist == {at(j) : j \in {x \in 1..it.state : Cells[node][at(x)] # Empty}}
    IN  /\ {it.seen[a] : a \in DOMAIN it.seen} = exist \ Lost(it, node)
        /\ Lost(it, node) \subseteq exist
        /\ \A a, b \in DOMAIN it.seen :
              a < b => IF it.rev THEN it.seen[b] < it.seen[a] ELSE it.seen[a] < it.seen[b]
IteratorsAreExact ==
    \A k \in Iter : iters[k].view # None =>
       LET v == views[iters[k].view] IN HasReturned(iters[k], v.want, v.n, v.node)

\* In a vector that is sorted, bisection finds how many items are less.
BisectIsExact ==
    \A w \in View : ~Free(w) /\ Kind[views[w].node] = "numbers" =>
       LET a == Items(w)
       IN  (\A i, j \in 1..Len(a) : i < j => a[i] <= a[j]) =>
             \A x \in 0..3 : BisectLeft(a, x) = Cardinality({j \in 1..Len(a) : a[j] < x})

\* Of two different vectors one is less, and only one.
OrderIsTotal ==
    \A v, w \in View : ~Free(v) /\ ~Free(w) /\ {Kind[views[v].node], Kind[views[w].node]} = {"numbers"} =>
       /\ LessThan(Items(v), Items(w)) \/ LessThan(Items(w), Items(v)) \/ Items(v) = Items(w)
       /\ ~(LessThan(Items(v), Items(w)) /\ LessThan(Items(w), Items(v)))

\* A view shows what Python's slices of slices would show, and an iterator
\* has returned the items of its view that exist, each once and in order: of
\* a vector all of them, whatever next() raised in between, of a set or a map
\* all but those that next() raised for.  (iter_state, which sets and maps
\* advance before the item is made a Python value and vectors after it)
\* Searching and comparing agree with what views show.
IterationIsExact == ViewsShowSlices /\ IteratorsAreExact /\ BisectIsExact /\ OrderIsTotal

-----------------------------------------------------------------------------
(* Why they hold: what is so between the steps of __init__. *)

Calling == {t \in Thread : calls[t] # Idle}

\* A call that is idle is the record Idle, and one that opens a file has one.
CallInv == \A t \in Thread : /\ calls[t].pc = "idle" => calls[t] = Idle
                             /\ calls[t].pc = "opening" => calls[t].file \in File

\* One call of __init__ at the most: the only file there can be is the first,
\* the header is of it when it is open, and views are of it.
OnceInv ==
    inits <= 1 =>
      /\ ~overlap /\ Len(maps) <= 1
      /\ inits = 0 => Calling = {} /\ maps = <<>> /\ ~is_open
      /\ \A t \in Calling :
            /\ calls[t].pc \in {"opening", "mapped", "opened", "failed"}
            /\ calls[t].pc = "opening" => maps = <<>>
            /\ calls[t].pc = "mapped" => header = 0
            /\ calls[t].pc = "opened" => header = mem
      /\ is_open => header = mem
      /\ \A w \in View : ~Free(w) => Live(header) /\ views[w].from = header
      /\ \A b \in Buffer : buffers[b].view # None => buffers[b].from = header
      /\ fault \notin {"view unmapped", "header unmapped"}

\* Calls one after the other: what is open is what the object refers to, and
\* whether it is open shows in how far the call has come.
ApartInv ==
    ~overlap =>
      /\ \A t, u \in Calling : t = u
      /\ \A m \in 1..Len(maps) : maps[m].open => m = mem /\ refs > 0
      /\ Calling = {} => (is_open <=> Live(mem))
      /\ \A t \in Calling :
            /\ calls[t].pc = "closing" => is_open /\ Live(mem)
            /\ calls[t].pc = "closed" => is_open /\ ~Live(mem)
            /\ calls[t].pc = "opening" => ~is_open /\ ~Live(mem)
            /\ calls[t].pc \in {"mapped", "opened"} => ~is_open /\ Live(mem)
            /\ calls[t].pc = "failed" => ~is_open /\ ~Live(mem)
      /\ fault # "closed twice"

\* A view lies within its container, and one of a table is the whole of it.
ViewsInv ==
    \A w \in View : ~Free(w) =>
      /\ views[w].node \in Container
      /\ views[w].i + views[w].n <= Len(Cells[views[w].node])
      /\ ~IsVector(views[w].node) => views[w].i = 0 /\ views[w].n = Len(Cells[views[w].node])

\* An iterator is not past the end of its view, and only vectors are read backwards.
ItersInv ==
    \A k \in Iter : iters[k].view # None =>
      /\ iters[k].state <= views[iters[k].view].n
      /\ iters[k].rev => IsVector(views[iters[k].view].node)

ReaderInv ==
    /\ TypeOK /\ CountsAreExact /\ CallInv /\ OnceInv /\ ApartInv
    /\ ViewsInv /\ ItersInv /\ ViewsShowSlices /\ IteratorsAreExact
=============================================================================
