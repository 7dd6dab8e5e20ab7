----------------------------- MODULE PrimVector -----------------------------
(***************************************************************************)
(* One PointlessPrimVector of the Python extension: a growing array of     *)
(* numbers of one type, the buffers it exports, the iterators over it.     *)
(*                                                                         *)
(* Each method runs under the interpreter lock and is one step, except for *)
(* append_bulk and __init__ with a sequence: they ask a Python iterator    *)
(* for each item, and any code may run on the vector meanwhile, in that    *)
(* iterator or in another thread.  A call that raises and leaves           *)
(* everything as it was is a stuttering step; its conditions are the       *)
(* guards here.                                                            *)
(***************************************************************************)
EXTENDS Integers, Sequences, FiniteSets

CONSTANTS
    Type,       \* the type codes
    Signed,     \* those of signed integers
    Unsigned,   \* those of unsigned integers; the remaining ones are floats
    FirstType,  \* the one numbered 0, POINTLESS_PRIM_VECTOR_TYPE_I8
    NoType,     \* what a number that is no type code becomes
    Size,       \* bytes of an item of each type
    Fits,       \* the numbers that each type can hold
    Number,     \* the numbers that callers try to store
    Word,       \* 2^32, larger than any index
    MaxAlloc,   \* bound: there is no memory for more items
    MaxBulk,    \* bound on the items that one iterator gives to append_bulk
    MaxKeys,    \* bound on the length of the key vectors of sort_proj
    View, Iter, Caller

ASSUME TypeAssumption ==
    /\ FirstType \in Type /\ NoType \notin Type
    /\ Signed \subseteq Type /\ Unsigned \subseteq Type
    /\ Size \in [Type -> Nat \ {0}]
    /\ \A t \in Type : Size[FirstType] <= Size[t]
    /\ Number \subseteq Int
    /\ Fits \in [Type -> SUBSET Number]
ASSUME ViewAssumption == IsFiniteSet(View)
ASSUME BoundAssumption == MaxAlloc \in Nat /\ MaxBulk \in Nat /\ MaxKeys \in Nat /\ Word \in Nat

VARIABLES
    type, size,  \* type, array.item_size
    items,       \* the first n_items cells of the array
    alloc,       \* array.n_alloc
    print,       \* allow_print
    exports,     \* ob_exports
    views,       \* the buffers that clients hold
    iters,       \* the iterators and what they returned
    calls,       \* the calls that wait for a Python iterator
    fault,       \* undefined behaviour that was met, if any
    torn         \* the buffers whose memory a failing __init__ has freed

vars == <<type, size, items, alloc, print, exports, views, iters, calls, fault, torn>>

NoView == [held |-> FALSE, lost |-> FALSE, n |-> 0]
NoIter == [open |-> FALSE, rev |-> FALSE, state |-> 0, fresh |-> FALSE, seen |-> <<>>]
Idle == [pc |-> "idle", n |-> 0, alone |-> FALSE, before |-> <<>>, failed |-> FALSE]

Init ==
    /\ type \in Type /\ size = Size[type]
    /\ items = <<>> /\ alloc = 0 /\ print = 1
    /\ exports = 0
    /\ views = [v \in View |-> NoView]
    /\ iters = [k \in Iter |-> NoIter]
    /\ calls = [c \in Caller |-> Idle]
    /\ fault = "none" /\ torn = {}

-----------------------------------------------------------------------------
(* The array. *)

SmallAdd == <<1, 1, 2, 2, 4, 4, 4, 8, 8, 10, 11, 12, 13, 14, 15, 16>>
NextSize(n) == n \div 16 + n + (IF n < 16 THEN SmallAdd[n + 1] ELSE 0)

\* The sizes that an array takes on as it grows from nothing.
ArraySize[k \in Nat] == IF k = 0 THEN 0 ELSE NextSize(ArraySize[k - 1])
Sizes == {n \in 0..MaxAlloc : n = 0 \/ \E k \in 1..MaxAlloc : ArraySize[k] = n}

\* Where the memory of the array is freed or moved, buffers that are still
\* held no longer refer to it.
Freed(moved) ==
    views' = [v \in View |-> [views[v] EXCEPT !.lost = @ \/ (views[v].held /\ moved)]]

\* Growing until there is room for n items; disabled where memory runs out.
Reserve(n) ==
    /\ \/ n <= alloc /\ alloc' = alloc
       \/ /\ n > alloc
          /\ alloc' \in {a \in Sizes : a >= n /\ \A b \in Sizes : b >= n => a <= b}
    /\ Freed(alloc' # alloc)

\* dynarray_push, dynarray_pop n times, which only changes the count, and
\* dynarray_clear.
Push(x) == items' = Append(items, x) /\ Reserve(Len(items) + 1)
Pop(n) == items' = SubSeq(items, 1, Len(items) - n) /\ UNCHANGED <<alloc, views>>
Clear == items' = <<>> /\ alloc' = 0 /\ Freed(alloc > 0)

\* What follows undefined behaviour is not modelled.
Defined == fault = "none"

CanResize == exports = 0
Accepts(x) == type \in Type /\ x \in Fits[type]
Consistent == type \in Type /\ size = Size[type]

\* Iterators and waiting calls that see the items change under them.
Interrupted(c) == [calls[c] EXCEPT !.alone = FALSE, !.before = <<>>]
IterTouch == iters' = [k \in Iter |-> [iters[k] EXCEPT !.fresh = FALSE, !.seen = <<>>]]
Touch == IterTouch /\ calls' = [c \in Caller |-> Interrupted(c)]

-----------------------------------------------------------------------------
(* Methods that are one step. *)

DoAppend(x) ==
    /\ Defined /\ CanResize /\ Accepts(x)
    /\ Push(x) /\ Touch
    /\ UNCHANGED <<type, size, print, exports, fault, torn>>

\* append_bulk of another vector with the same type code, s being its items.
BulkCopy(s) ==
    /\ Defined /\ CanResize /\ \A i \in 1..Len(s) : Accepts(s[i])
    /\ items' = items \o s /\ Reserve(Len(items) + Len(s)) /\ Touch
    /\ UNCHANGED <<type, size, print, exports, fault, torn>>

\* The same when memory runs out in the middle: what was pushed is popped,
\* and the larger array stays.
BulkCopyFails ==
    /\ Defined /\ CanResize /\ type \in Type
    /\ alloc' \in {a \in Sizes : a > alloc} /\ Freed(TRUE)
    /\ UNCHANGED <<type, size, items, print, exports, iters, calls, fault, torn>>

\* append_bulk of the vector itself: each push lengthens the loop, which
\* ends when memory does.  When the array grows, the item that is about to
\* be copied is read from the memory that was freed.
BulkSelf ==
    /\ Defined /\ CanResize /\ type \in Type /\ items # <<>>
    /\ alloc' \in {a \in Sizes : a > alloc} /\ Freed(TRUE)
    /\ fault' = "freed"
    /\ UNCHANGED <<type, size, items, print, exports, iters, calls, torn>>

DoPop ==
    /\ Defined /\ items # <<>> /\ CanResize
    /\ Pop(1) /\ Touch
    /\ UNCHANGED <<type, size, print, exports, fault, torn>>

\* pop_bulk does not ask whether there are exports.
PopBulk(n) ==
    /\ Defined /\ n <= Len(items)
    /\ Pop(n) /\ Touch
    /\ UNCHANGED <<type, size, print, exports, fault, torn>>

\* Faulty variant: exports are not asked for.
DoClearUnchecked ==
    /\ Defined /\ Clear /\ Touch
    /\ UNCHANGED <<type, size, print, exports, fault, torn>>

DoClear ==
    /\ Defined /\ CanResize
    /\ Clear /\ Touch
    /\ UNCHANGED <<type, size, print, exports, fault, torn>>

\* The first item that equals x; where the items are further apart than
\* their type says, the search compares bytes between them.
Index(x) == {i \in 1..Len(items) :
                Consistent => items[i] = x /\ \A j \in 1..(i - 1) : items[j] # x}

Remove(x) ==
    /\ Defined /\ CanResize
    /\ \E i \in Index(x) :
          items' = [j \in 1..(Len(items) - 1) |-> IF j < i THEN items[j] ELSE items[j + 1]]
    /\ Touch
    /\ UNCHANGED <<type, size, alloc, print, exports, views, fault, torn>>

\* Assignment to an index.  A negative one is offset by the field of a list
\* where a list keeps its length, which here holds allow_print and, in its
\* upper half, ob_exports.
Offset(i) == IF i < 0 THEN i + print + exports * Word ELSE i

AssItem(i, x) ==
    /\ Defined /\ 0 <= Offset(i) /\ Offset(i) < Len(items)
    /\ Accepts(x)
    /\ items' = [items EXCEPT ![Offset(i) + 1] = x]
    /\ Touch
    /\ UNCHANGED <<type, size, alloc, print, exports, views, fault, torn>>

\* Sorting permutes the items.  Where the items are further apart than their
\* type says, it permutes bytes, some of which were never written.
Arrangements ==
    LET n == Len(items)
        Perms == {p \in [1..n -> 1..n] : \A i, j \in 1..n : p[i] = p[j] => i = j}
    IN  {[i \in 1..n |-> items[p[i]]] : p \in Perms}
Scrambled == [1..Len(items) -> Fits[type]]

Sort ==
    /\ Defined /\ type \in Type
    /\ items' \in IF Consistent
                  THEN {s \in Arrangements : \A i, j \in 1..Len(items) : i < j => s[i] <= s[j]}
                  ELSE Scrambled
    /\ Touch
    /\ UNCHANGED <<type, size, alloc, print, exports, views, fault, torn>>

\* sort_proj takes the items as positions in vectors of m keys each, rank
\* being the order of the positions by all of them.  Of a signed item only
\* the lower bound is checked.
InBounds(m) ==
    IF type \in Signed THEN 0 < m /\ \A i \in 1..Len(items) : 0 <= items[i]
    ELSE \A i \in 1..Len(items) : items[i] < m

SortedBy(rank) ==
    {s \in Arrangements : \A i, j \in 1..Len(items) : i < j => rank[s[i]] <= rank[s[j]]}

SortProj(m, rank) ==
    LET inside == \A i \in 1..Len(items) : items[i] \in 0..(m - 1)
    IN  /\ Defined /\ type \in Signed \cup Unsigned /\ items # <<>>
        /\ \/ Consistent /\ InBounds(m) /\ inside /\ items' \in SortedBy(rank) /\ fault' = fault
           \/ Consistent /\ InBounds(m) /\ ~inside /\ items' \in Arrangements /\ fault' = "outside"
           \/ ~Consistent /\ items' \in Scrambled /\ fault' \in {fault, "outside"}
        /\ Touch
        /\ UNCHANGED <<type, size, alloc, print, exports, views, torn>>

-----------------------------------------------------------------------------
(* Exported buffers. *)

GetBuffer(v) ==
    /\ Defined /\ ~views[v].held
    /\ views' = [views EXCEPT ![v] =
                    [held |-> TRUE, lost |-> FALSE,
                     n |-> IF type \in Type THEN Len(items) * Size[type] ELSE 0]]
    /\ exports' = exports + 1
    /\ UNCHANGED <<type, size, items, alloc, print, iters, calls, fault, torn>>

ReleaseBuffer(v) ==
    /\ Defined /\ views[v].held
    /\ views' = [views EXCEPT ![v] = NoView]
    /\ exports' = exports - 1
    /\ torn' = torn \ {v}
    /\ UNCHANGED <<type, size, items, alloc, print, iters, calls, fault>>

\* The holder of a buffer writes where the first byte of an item lies.
WriteBuffer(v, i, x) ==
    /\ Defined /\ views[v].held /\ ~views[v].lost
    /\ i \in 1..Len(items) /\ (i - 1) * size < views[v].n
    /\ Accepts(x)
    /\ items' = [items EXCEPT ![i] = x]
    /\ Touch
    /\ UNCHANGED <<type, size, alloc, print, exports, views, fault, torn>>

-----------------------------------------------------------------------------
(* Iterators. *)

NewIter(k, rev) ==
    /\ Defined /\ iters[k] = NoIter
    /\ iters' = [iters EXCEPT ![k] =
                    [open |-> TRUE, rev |-> rev, state |-> 0, fresh |-> TRUE, seen |-> <<>>]]
    /\ UNCHANGED <<type, size, items, alloc, print, exports, views, calls, fault, torn>>

\* Faulty variant: the last item is taken for the end.
IterNextTooShort(k) ==
    LET it == iters[k]
        pos == IF it.rev THEN Len(items) - it.state ELSE it.state + 1
    IN  /\ Defined /\ it.open
        /\ iters' = [iters EXCEPT ![k] =
              IF it.state + 1 < Len(items)
              THEN [it EXCEPT !.state = @ + 1,
                              !.seen = IF it.fresh THEN Append(@, items[pos]) ELSE @]
              ELSE [it EXCEPT !.open = FALSE]]
        /\ UNCHANGED <<type, size, items, alloc, print, exports, views, calls, fault, torn>>

IterNext(k) ==
    LET it == iters[k]
        pos == IF it.rev THEN Len(items) - it.state ELSE it.state + 1
    IN  /\ Defined /\ it.open
        /\ iters' = [iters EXCEPT ![k] =
              IF it.state < Len(items)
              THEN [it EXCEPT !.state = @ + 1,
                              !.seen = IF it.fresh THEN Append(@, items[pos]) ELSE @]
              ELSE [it EXCEPT !.open = FALSE]]
        /\ UNCHANGED <<type, size, items, alloc, print, exports, views, calls, fault, torn>>

IterDealloc(k) ==
    /\ Defined /\ iters[k] # NoIter
    /\ iters' = [iters EXCEPT ![k] = NoIter]
    /\ UNCHANGED <<type, size, items, alloc, print, exports, views, calls, fault, torn>>

-----------------------------------------------------------------------------
(* append_bulk with a Python iterator. *)

BulkStart(c) ==
    /\ Defined /\ calls[c].pc = "idle" /\ CanResize
    /\ calls' = [calls EXCEPT ![c] = [Idle EXCEPT !.pc = "bulk", !.alone = TRUE, !.before = items]]
    /\ UNCHANGED <<type, size, items, alloc, print, exports, views, iters, fault, torn>>

BulkNext(c, x) ==
    /\ Defined /\ calls[c].pc = "bulk" /\ calls[c].n < MaxBulk
    /\ CanResize /\ Accepts(x)
    /\ Push(x) /\ IterTouch
    /\ calls' = [d \in Caller |-> IF d = c THEN [calls[c] EXCEPT !.n = @ + 1] ELSE Interrupted(d)]
    /\ UNCHANGED <<type, size, print, exports, fault, torn>>

BulkEnd(c) ==
    /\ Defined /\ calls[c].pc = "bulk"
    /\ calls' = [calls EXCEPT ![c] = Idle]
    /\ UNCHANGED <<type, size, items, alloc, print, exports, views, iters, fault, torn>>

\* Faulty variant: nothing is popped once the vector is exported.
BulkFailAsks(c) ==
    /\ Defined /\ calls[c].pc = "bulk"
    /\ IF CanResize /\ calls[c].n <= Len(items) THEN Pop(calls[c].n) ELSE UNCHANGED <<items, alloc, views>>
    /\ IterTouch
    /\ calls' = [d \in Caller |-> IF d = c THEN [Idle EXCEPT !.failed = TRUE] ELSE Interrupted(d)]
    /\ UNCHANGED <<type, size, print, exports, fault, torn>>

\* The iterator raises, an item is refused or memory runs out: as many items
\* are popped as this call has appended, whatever became of them.
BulkFail(c) ==
    /\ Defined /\ calls[c].pc = "bulk"
    /\ IF calls[c].n <= Len(items)
       THEN Pop(calls[c].n) /\ fault' = fault
       ELSE fault' = "underflow" /\ UNCHANGED <<items, alloc, views>>
    /\ IF calls[c].n = 0 THEN iters' = iters ELSE IterTouch
    /\ calls' = [d \in Caller |-> IF d = c THEN [Idle EXCEPT !.failed = TRUE]
                                  ELSE IF calls[c].n = 0 THEN calls[d] ELSE Interrupted(d)]
    /\ UNCHANGED <<type, size, print, exports, torn>>

-----------------------------------------------------------------------------
(* __init__, of a vector that may have been in use. *)

\* Arguments that are refused.  The type code is reset by then, but not the
\* size of an item; a number in a buffer that is no type code is kept.
InitRefused(t, p) ==
    /\ Defined /\ CanResize
    /\ Clear /\ Touch
    /\ type' = t /\ t \in {FirstType, NoType}
    /\ print' = p
    /\ UNCHANGED <<size, exports, fault, torn>>

\* A type code alone, or with the items of a buffer.
InitItems(t, s, p) ==
    /\ Defined /\ CanResize
    /\ type' = t /\ size' = Size[t] /\ print' = p
    /\ items' = s
    /\ alloc' \in {a \in Sizes : a >= Len(s) /\ \A b \in Sizes : b >= Len(s) => a <= b}
    /\ Freed(alloc > 0) /\ Touch
    /\ UNCHANGED <<exports, fault, torn>>

\* Faulty variant: the previous contents are not cleared.
InitSequenceUncleared(c, t, p) ==
    /\ Defined /\ calls[c].pc = "idle" /\ CanResize
    /\ type' = t /\ size' = Size[t] /\ print' = p
    /\ calls' = [calls EXCEPT ![c] = [Idle EXCEPT !.pc = "init"]]
    /\ UNCHANGED <<items, alloc, exports, views, iters, fault, torn>>

InitSequence(c, t, p) ==
    /\ Defined /\ calls[c].pc = "idle" /\ CanResize
    /\ Clear /\ IterTouch
    /\ type' = t /\ size' = Size[t] /\ print' = p
    /\ calls' = [d \in Caller |-> IF d = c THEN [Idle EXCEPT !.pc = "init"] ELSE Interrupted(d)]
    /\ UNCHANGED <<exports, fault, torn>>

InitNext(c, x) ==
    /\ Defined /\ calls[c].pc = "init" /\ CanResize /\ Accepts(x)
    /\ Push(x) /\ Touch
    /\ UNCHANGED <<type, size, print, exports, fault, torn>>

InitEnd(c) ==
    /\ Defined /\ calls[c].pc = "init"
    /\ calls' = [calls EXCEPT ![c] = Idle]
    /\ UNCHANGED <<type, size, items, alloc, print, exports, views, iters, fault, torn>>

\* The array is destroyed without asking whether there are exports by now.
InitFail(c) ==
    /\ Defined /\ calls[c].pc = "init"
    /\ Clear /\ IterTouch
    /\ calls' = [d \in Caller |-> IF d = c THEN [Idle EXCEPT !.failed = TRUE] ELSE Interrupted(d)]
    /\ torn' = torn \cup {v \in View : views'[v].lost}
    /\ UNCHANGED <<type, size, print, exports, fault>>

\* The last reference goes: none is left in a buffer, an iterator or a call.
\* The model goes on with a new vector.
Dealloc ==
    /\ Defined /\ \A v \in View : ~views[v].held
    /\ \A k \in Iter : ~iters[k].open
    /\ \A c \in Caller : calls[c].pc = "idle"
    /\ fault' = IF exports > 0 THEN "exported" ELSE fault
    /\ Clear /\ Touch
    /\ type' \in Type /\ size' = Size[type'] /\ print' = 1
    /\ exports' = 0 /\ torn' = {}

-----------------------------------------------------------------------------
Methods ==
    \/ \E x \in Number : DoAppend(x) \/ Remove(x)
    \/ \E x, y \in Number : BulkCopy(<<x>>) \/ BulkCopy(<<x, y>>)
    \/ BulkCopyFails \/ BulkSelf
    \/ DoPop \/ DoClear \/ Sort
    \/ \E n \in 1..MaxAlloc : PopBulk(n)
    \/ \E i \in (-MaxAlloc)..MaxAlloc, x \in Number : AssItem(i, x)
    \/ \E m \in 0..MaxKeys : \E rank \in [0..(m - 1) -> 0..1] : SortProj(m, rank)

Buffers ==
    \E v \in View :
        \/ GetBuffer(v) \/ ReleaseBuffer(v)
        \/ \E i \in 1..MaxAlloc, x \in Number : WriteBuffer(v, i, x)

Iterators == \E k \in Iter : (\E rev \in BOOLEAN : NewIter(k, rev)) \/ IterNext(k) \/ IterDealloc(k)

Bulk == \E c \in Caller :
            BulkStart(c) \/ (\E x \in Number : BulkNext(c, x)) \/ BulkEnd(c) \/ BulkFail(c)

Construct ==
    \/ \E p \in {0, 1} :
        \/ \E t \in {FirstType, NoType} : InitRefused(t, p)
        \/ \E t \in Type :
            \/ InitItems(t, <<>>, p)
            \/ \E x \in Fits[t] : InitItems(t, <<x>>, p)
            \/ \E c \in Caller : InitSequence(c, t, p)
    \/ \E c \in Caller : (\E x \in Number : InitNext(c, x)) \/ InitEnd(c) \/ InitFail(c)
    \/ Dealloc

Undefined == ~Defined /\ UNCHANGED vars

Next == Methods \/ Buffers \/ Iterators \/ Bulk \/ Construct \/ Undefined

Spec == Init /\ [][Next]_vars

-----------------------------------------------------------------------------
(* Properties. *)

\* The items are numbers of the vector's type, also after __init__ changed
\* the type while other calls were appending, and lie within the array.
TypeOK ==
    /\ type \in Type \cup {NoType}
    /\ size \in {Size[t] : t \in Type}
    /\ items \in Seq(Number) /\ \A i \in 1..Len(items) : Accepts(items[i])
    /\ alloc \in Sizes /\ Len(items) <= alloc
    /\ print \in {0, 1} /\ exports \in Nat
    /\ views \in [View -> [held : BOOLEAN, lost : BOOLEAN, n : Nat]]
    /\ iters \in [Iter -> [open : BOOLEAN, rev : BOOLEAN, state : Nat,
                           fresh : BOOLEAN, seen : Seq(Number)]]
    /\ calls \in [Caller -> [pc : {"idle", "bulk", "init"}, n : Nat, alone : BOOLEAN,
                             before : Seq(Number), failed : BOOLEAN]]
    /\ fault \in {"none", "freed", "outside", "underflow", "exported"}
    /\ torn \subseteq View

\* ob_exports counts the buffers that are held, so that the destructor never
\* finds one, and each of them lies within the array as it was exported:
\* whatever else runs, only an __init__ that fails while it reads a sequence
\* frees memory under a buffer.
ViewsStayBacked ==
    /\ exports = Cardinality({v \in View : views[v].held})
    /\ fault # "exported"
    /\ \A v \in View : views[v].held /\ v \notin torn =>
            ~views[v].lost /\ views[v].n <= alloc * size

\* An iterator, forward or reversed, that ran while nobody changed the items
\* has returned each of them once and in order, and ends only after the last.
IterationIsExact ==
    \A k \in Iter : iters[k].fresh =>
        /\ Len(iters[k].seen) = iters[k].state
        /\ iters[k].state <= Len(items)
        /\ \A i \in 1..iters[k].state :
              iters[k].seen[i] = items[IF iters[k].rev THEN Len(items) + 1 - i ELSE i]
        /\ ~iters[k].open => iters[k].state = Len(items)

\* An append_bulk during which nobody else changed the items either appends
\* all that its iterator gave or, when it raises, leaves them as they were;
\* a buffer exported in the meantime does not get in the way of the latter.
ReturnsWhole(c) ==
    calls[c].pc = "bulk" /\ calls[c].alone /\ calls'[c].pc = "idle" =>
       IF calls'[c].failed
       THEN items' = calls[c].before /\ fault' = fault
       ELSE /\ Len(items') = Len(calls[c].before) + calls[c].n
            /\ SubSeq(items', 1, Len(calls[c].before)) = calls[c].before

BulkIsAllOrNothing == [][\A c \in Caller : ReturnsWhole(c)]_vars

\* No buffer is left without memory: "if we have a buffer attached, we
\* shouldn't be here", as __init__ says before it frees the array.
NoViewIsLost == \A v \in View : ~views[v].lost
=============================================================================
