-------------------------- MODULE PrimVectorProofs --------------------------
(***************************************************************************)
(* Proofs about PrimVector: the items fit the vector's type, and buffers   *)
(* that are held keep their memory, iterators return each item once, and   *)
(* an append_bulk that fails undoes itself, for any types, numbers, bounds,*)
(* buffers, iterators and callers.                                         *)
(***************************************************************************)
EXTENDS PrimVector, FiniteSetTheorems, SequenceTheorems, TLAPS

\* The items of a type are never further apart than the array's cells: the
\* size of a cell is that of the type, or was left behind by a refused
\* __init__, which resets the type to the smallest one.
SizeInv == type \in Type => Size[type] <= size

IInv == TypeOK /\ ViewsStayBacked /\ SizeInv

\* A call of append_bulk that waits for its iterator, while nobody else
\* changed the items: they are those it found and those it appended.
Appended(c) ==
    /\ Len(items) = Len(calls[c].before) + calls[c].n
    /\ SubSeq(items, 1, Len(calls[c].before)) = calls[c].before
WaitingInv == \A c \in Caller : calls[c].pc = "bulk" /\ calls[c].alone => Appended(c)

\* Together with these, what the iterators saw is inductive as well.
UseInv == IInv /\ IterationIsExact /\ WaitingInv

ViewType == [held : BOOLEAN, lost : BOOLEAN, n : Nat]
IterType == [open : BOOLEAN, rev : BOOLEAN, state : Nat, fresh : BOOLEAN, seen : Seq(Number)]
CallType == [pc : {"idle", "bulk", "init"}, n : Nat, alone : BOOLEAN,
             before : Seq(Number), failed : BOOLEAN]
ItemsOK ==
    /\ items \in Seq(Number) /\ \A i \in 1..Len(items) : Accepts(items[i])
    /\ alloc \in Sizes /\ Len(items) <= alloc

-----------------------------------------------------------------------------
(* The parts of the state. *)

\* Capacities are numbers, and an empty array has one.
LEMMA SizesFact == Sizes \subseteq Nat /\ 0 \in Sizes
  BY BoundAssumption DEF Sizes

\* The parts of the type invariant.
LEMMA TypeParts ==
  ASSUME TypeOK
  PROVE  /\ ItemsOK
         /\ views \in [View -> ViewType] /\ iters \in [Iter -> IterType]
         /\ calls \in [Caller -> CallType]
  BY DEF TypeOK, ItemsOK, ViewType, IterType, CallType

\* Types follow from their parts.
LEMMA TypeFromParts ==
  ASSUME type' \in Type \cup {NoType}, size' \in {Size[t] : t \in Type}, ItemsOK',
         print' \in {0, 1}, exports' \in Nat,
         views' \in [View -> ViewType], iters' \in [Iter -> IterType],
         calls' \in [Caller -> CallType],
         fault' \in {"none", "freed", "outside", "underflow", "exported"},
         torn' \subseteq View
  PROVE  TypeOK'
  BY DEF TypeOK, ItemsOK, ViewType, IterType, CallType

\* With no exports, no buffer is held: ob_exports counts them.
LEMMA NoneHeld ==
  ASSUME IInv, CanResize
  PROVE  \A v \in View : ~views[v].held
<1>1. IsFiniteSet({v \in View : views[v].held})
  BY ViewAssumption, FS_Subset
<1>2. {v \in View : views[v].held} = {}
  BY <1>1, FS_EmptySet DEF IInv, ViewsStayBacked, CanResize
<1> QED
  BY <1>2

\* Freeing or moving the array leaves the buffers held as they were.
LEMMA FreedFact ==
  ASSUME views \in [View -> ViewType], NEW b \in BOOLEAN, Freed(b)
  PROVE  /\ views' \in [View -> ViewType]
         /\ \A v \in View : /\ views'[v].held = views[v].held
                            /\ views'[v].n = views[v].n
                            /\ views'[v].lost = (views[v].lost \/ (views[v].held /\ b))
  BY DEF Freed, ViewType

\* Iterators stay iterators when the items change under them.
LEMMA IterTouchFact ==
  ASSUME iters \in [Iter -> IterType], IterTouch
  PROVE  iters' \in [Iter -> IterType]
<1>1. <<>> \in Seq(Number)
  OBVIOUS
<1> QED
  BY <1>1 DEF IterTouch, IterType

\* A waiting call stays one when the items change under it.
LEMMA InterruptedFact ==
  ASSUME calls \in [Caller -> CallType], NEW c \in Caller
  PROVE  Interrupted(c) \in CallType
<1>1. <<>> \in Seq(Number)
  OBVIOUS
<1> QED
  BY <1>1 DEF Interrupted, CallType

\* Changing the items keeps the types of iterators and calls.
LEMMA TouchFact ==
  ASSUME iters \in [Iter -> IterType], calls \in [Caller -> CallType], Touch
  PROVE  iters' \in [Iter -> IterType] /\ calls' \in [Caller -> CallType]
  BY IterTouchFact, InterruptedFact DEF Touch

\* What a call is set to when it starts, ends or fails is a call.
LEMMA IdleFact ==
  /\ Idle \in CallType
  /\ \A p \in {"idle", "bulk", "init"} : [Idle EXCEPT !.pc = p] \in CallType
  /\ [Idle EXCEPT !.failed = TRUE] \in CallType
  /\ \A s \in Seq(Number) :
        [Idle EXCEPT !.pc = "bulk", !.alone = TRUE, !.before = s] \in CallType
<1>1. <<>> \in Seq(Number)
  OBVIOUS
<1> QED
  BY <1>1 DEF Idle, CallType

-----------------------------------------------------------------------------
(* Steps. *)

\* Where the buffers that are held stay the same, their count does.
LEMMA SameHeld ==
  ASSUME \A v \in View : views'[v].held = views[v].held
  PROVE  {v \in View : views'[v].held} = {v \in View : views[v].held}
  OBVIOUS

\* A step that exports nothing and frees nothing keeps the buffers backed,
\* and so does any step while no buffer is held.
LEMMA KeepViews ==
  ASSUME IInv, exports' = exports, torn' = torn, fault' # "exported",
         \A v \in View : views'[v].held = views[v].held,
         \/ CanResize
         \/ views' = views /\ alloc' = alloc /\ size' = size
  PROVE  ViewsStayBacked'
<1>1. exports' = Cardinality({v \in View : views'[v].held})
  BY SameHeld DEF IInv, ViewsStayBacked
<1>2. CASE CanResize
  BY <1>1, <1>2, NoneHeld DEF ViewsStayBacked
<1>3. CASE views' = views /\ alloc' = alloc /\ size' = size
  BY <1>1, <1>3 DEF IInv, ViewsStayBacked
<1> QED
  BY <1>2, <1>3

\* Growing until there is room.
LEMMA ReserveFact ==
  ASSUME TypeOK, NEW n \in Nat, Reserve(n)
  PROVE  /\ alloc' \in Sizes /\ n <= alloc'
         /\ views' \in [View -> ViewType]
         /\ \A v \in View : views'[v].held = views[v].held
<1>1. alloc' \in Sizes /\ n <= alloc'
  BY SizesFact DEF TypeOK, Reserve
<1>2. Freed(alloc' # alloc)
  BY DEF Reserve
<1> QED
  BY <1>1, <1>2, TypeParts, FreedFact

\* dynarray_push of an item that fits keeps the items fitting and within
\* the array, and changes no buffer but for its memory.
LEMMA PushFact ==
  ASSUME TypeOK, NEW x \in Number, Accepts(x), Push(x), type' = type
  PROVE  /\ ItemsOK'
         /\ views' \in [View -> ViewType]
         /\ \A v \in View : views'[v].held = views[v].held
<1>0. items \in Seq(Number) /\ items' = Append(items, x) /\ Len(items) \in Nat
  BY DEF TypeOK, Push
<1>1. /\ items' \in Seq(Number) /\ Len(items') = Len(items) + 1
      /\ \A i \in 1..Len(items') : items'[i] = IF i <= Len(items) THEN items[i] ELSE x
  BY <1>0, AppendProperties
<1>2. \A i \in 1..Len(items') : Accepts(items'[i])
  BY <1>0, <1>1 DEF TypeOK, Accepts
<1>3. \A i \in 1..Len(items') : Accepts(items[i])'
  BY <1>2 DEF Accepts
<1>4. Reserve(Len(items) + 1)
  BY DEF Push
<1>5. /\ alloc' \in Sizes /\ Len(items) + 1 <= alloc'
      /\ views' \in [View -> ViewType]
      /\ \A v \in View : views'[v].held = views[v].held
  <2>1. Len(items) + 1 \in Nat
    BY <1>0
  <2> QED
    BY <2>1, <1>4, ReserveFact
<1>6. ItemsOK'
  BY <1>1, <1>3, <1>5 DEF ItemsOK
<1> QED
  BY <1>5, <1>6

\* dynarray_pop of items that are there keeps the rest and the array.
LEMMA PopFact ==
  ASSUME TypeOK, NEW n \in Nat, n <= Len(items), Pop(n), type' = type
  PROVE  ItemsOK' /\ views' = views /\ alloc' = alloc
<1>0. items \in Seq(Number) /\ Len(items) \in Nat /\ items' = SubSeq(items, 1, Len(items) - n)
  BY DEF TypeOK, Pop
<1>1. /\ items' \in Seq(Number) /\ Len(items') = Len(items) - n
      /\ \A i \in 1..Len(items') : items'[i] = items[i]
  BY <1>0, SubSeqProperties
<1>2. \A i \in 1..Len(items') : Accepts(items[i])'
  BY <1>0, <1>1 DEF TypeOK, Accepts
<1> QED
  BY <1>0, <1>1, <1>2, SizesFact DEF ItemsOK, TypeOK, Pop

\* dynarray_clear takes the memory from each buffer held, if there was any.
LEMMA ClearFact ==
  ASSUME TypeOK, Clear
  PROVE  /\ ItemsOK'
         /\ views' \in [View -> ViewType]
         /\ \A v \in View : /\ views'[v].held = views[v].held
                            /\ views'[v].n = views[v].n
                            /\ views[v].held /\ alloc > 0 => views'[v].lost
                            /\ ~(alloc > 0) => views'[v].lost = views[v].lost
<1>1. ItemsOK'
  BY SizesFact DEF Clear, ItemsOK
<1> DEFINE b == alloc > 0
<1>2. b \in BOOLEAN /\ Freed(b)
  BY DEF Clear
<1>3. views \in [View -> ViewType]
  BY TypeParts
<1> HIDE DEF b
<1>4. /\ views' \in [View -> ViewType]
      /\ \A v \in View : /\ views'[v].held = views[v].held
                         /\ views'[v].n = views[v].n
                         /\ views'[v].lost = (views[v].lost \/ (views[v].held /\ b))
  BY <1>2, <1>3, FreedFact
<1>5. \A v \in View : views[v].lost \in BOOLEAN /\ views[v].held \in BOOLEAN
  BY <1>3 DEF ViewType
<1>6. \A v \in View : (views[v].held /\ b => views'[v].lost) /\ (~b => views'[v].lost = views[v].lost)
  BY <1>2, <1>4, <1>5, Zenon
<1> QED
  BY <1>1, <1>4, <1>6 DEF b

\* Replacing the items by as many others that fit.
LEMMA ReplaceFact ==
  ASSUME TypeOK, type' = type, alloc' = alloc, Len(items') <= Len(items),
         items' \in Seq(Number), \A i \in 1..Len(items') : Accepts(items'[i])
  PROVE  ItemsOK'
<1>1. Len(items) \in Nat /\ Len(items') \in Nat /\ alloc \in Nat /\ Len(items) <= alloc
  BY SizesFact DEF TypeOK
<1>2. \A i \in 1..Len(items') : Accepts(items[i])'
  BY DEF Accepts
<1> QED
  BY <1>1, <1>2 DEF ItemsOK, TypeOK

\* A step that keeps the type, the exports and, unless nothing is exported,
\* the array with its buffers.
LEMMA QuietStep ==
  ASSUME IInv, UNCHANGED <<type, size, print, exports, torn>>,
         ItemsOK', views' \in [View -> ViewType],
         iters' \in [Iter -> IterType], calls' \in [Caller -> CallType],
         fault' \in {"none", "freed", "outside", "underflow"},
         \A v \in View : views'[v].held = views[v].held,
         CanResize \/ (views' = views /\ alloc' = alloc)
  PROVE  IInv'
<1>1. TypeOK'
  BY TypeFromParts DEF IInv, TypeOK
<1>2. ViewsStayBacked'
  BY KeepViews
<1>3. SizeInv'
  BY DEF IInv, SizeInv
<1> QED
  BY <1>1, <1>2, <1>3 DEF IInv

\* The same for a step that keeps the array and its items as well.
LEMMA IdleStep ==
  ASSUME IInv, UNCHANGED <<type, size, items, alloc, print, exports, views, torn, fault>>, Defined,
         iters' \in [Iter -> IterType], calls' \in [Caller -> CallType]
  PROVE  IInv'
<1>1. ItemsOK' /\ views' \in [View -> ViewType]
  BY TypeParts DEF IInv, ItemsOK, Accepts
<1> QED
  BY <1>1, QuietStep DEF Defined

\* The same for a step that replaces the items by others that fit.
LEMMA ReplaceStep ==
  ASSUME IInv, UNCHANGED <<type, size, alloc, print, exports, views, torn>>, Touch,
         fault' \in {"none", "outside"},
         items' \in Seq(Number), Len(items') <= Len(items),
         \A i \in 1..Len(items') : Accepts(items'[i])
  PROVE  IInv'
<1>1. ItemsOK' /\ views' \in [View -> ViewType]
  BY TypeParts, ReplaceFact DEF IInv
<1>2. iters' \in [Iter -> IterType] /\ calls' \in [Caller -> CallType]
  BY TypeParts, TouchFact DEF IInv
<1> QED
  BY <1>1, <1>2, QuietStep

-----------------------------------------------------------------------------
(* The invariant holds in the beginning and after each step. *)

\* A new vector.
LEMMA InitHolds == Init => IInv
<1> SUFFICES ASSUME Init PROVE IInv
  OBVIOUS
<1>1. <<>> \in Seq(Number) /\ Len(<<>>) = 0
  OBVIOUS
<1>2. views \in [View -> ViewType] /\ iters \in [Iter -> IterType] /\ calls \in [Caller -> CallType]
  BY <1>1 DEF Init, NoView, NoIter, Idle, ViewType, IterType, CallType
<1>3. TypeOK
  BY <1>1, <1>2, SizesFact DEF Init, TypeOK, ViewType, IterType, CallType
<1>4. {v \in View : views[v].held} = {}
  BY DEF Init, NoView
<1>5. ViewsStayBacked
  BY <1>4, FS_EmptySet DEF Init, ViewsStayBacked
<1>6. SizeInv
  BY TypeAssumption DEF Init, SizeInv
<1> QED
  BY <1>3, <1>5, <1>6 DEF IInv

\* Appending an item that fits.
LEMMA PushStep ==
  ASSUME IInv, Defined, CanResize, NEW x \in Number, Accepts(x), Push(x),
         UNCHANGED <<type, size, print, exports, fault, torn>>,
         iters' \in [Iter -> IterType], calls' \in [Caller -> CallType]
  PROVE  IInv'
<1>1. /\ ItemsOK' /\ views' \in [View -> ViewType]
      /\ \A v \in View : views'[v].held = views[v].held
  BY PushFact DEF IInv
<1> QED
  BY <1>1, QuietStep DEF Defined

\* Appending the items of another vector.
LEMMA BulkCopyStep ==
  ASSUME IInv, NEW s \in Seq(Number), BulkCopy(s)
  PROVE  IInv'
<1>1. /\ items \in Seq(Number) /\ Len(items) \in Nat /\ Len(s) \in Nat
      /\ \A i \in 1..Len(items) : Accepts(items[i])
      /\ \A i \in 1..Len(s) : Accepts(s[i])
  BY DEF IInv, TypeOK, BulkCopy
<1>2. items' = items \o s
  BY DEF BulkCopy
<1>3. /\ items' \in Seq(Number) /\ Len(items') = Len(items) + Len(s)
      /\ \A i \in 1..Len(items') :
            items'[i] = IF i <= Len(items) THEN items[i] ELSE s[i - Len(items)]
  BY <1>1, <1>2, ConcatProperties
<1>4. \A i \in 1..Len(items') : Accepts(items'[i])
  <2> SUFFICES ASSUME NEW i \in 1..Len(items') PROVE Accepts(items'[i])
    OBVIOUS
  <2>1. CASE i <= Len(items)
    BY <2>1, <1>1, <1>3
  <2>2. CASE ~(i <= Len(items))
    <3>1. i - Len(items) \in 1..Len(s) /\ items'[i] = s[i - Len(items)]
      BY <2>2, <1>1, <1>3
    <3> QED
      BY <3>1, <1>1
  <2> QED
    BY <2>1, <2>2
<1>5. \A i \in 1..Len(items') : Accepts(items[i])'
  BY <1>4 DEF Accepts, BulkCopy
<1>6. /\ alloc' \in Sizes /\ Len(items) + Len(s) <= alloc'
      /\ views' \in [View -> ViewType]
      /\ \A v \in View : views'[v].held = views[v].held
  <2>1. Len(items) + Len(s) \in Nat /\ Reserve(Len(items) + Len(s))
    BY <1>1 DEF BulkCopy
  <2> QED
    BY <2>1, ReserveFact DEF IInv
<1>7. ItemsOK'
  BY <1>3, <1>5, <1>6 DEF ItemsOK
<1>8. iters' \in [Iter -> IterType] /\ calls' \in [Caller -> CallType]
  BY TypeParts, TouchFact DEF IInv, BulkCopy
<1> QED
  BY <1>6, <1>7, <1>8, QuietStep DEF BulkCopy, Defined

\* append_bulk that runs out of memory, or copies a vector into itself: the
\* array grows and the items stay.
LEMMA GrowStep ==
  ASSUME IInv, BulkCopyFails \/ BulkSelf
  PROVE  IInv'
<1>1. /\ alloc' \in Sizes /\ alloc' > alloc /\ Freed(TRUE) /\ CanResize
      /\ UNCHANGED <<type, size, items, print, exports, iters, calls, torn>>
      /\ fault' \in {"none", "freed"}
  BY DEF BulkCopyFails, BulkSelf, Defined
<1>2. views' \in [View -> ViewType] /\ \A v \in View : views'[v].held = views[v].held
  BY <1>1, TypeParts, FreedFact DEF IInv
<1>3. items \in Seq(Number) /\ Len(items) \in Nat /\ alloc \in Nat /\ Len(items) <= alloc
  BY SizesFact DEF IInv, TypeOK
<1>4. ItemsOK'
  <2>1. items' = items /\ type' = type /\ alloc' \in Nat /\ Len(items') <= alloc'
    BY <1>1, <1>3, SizesFact
  <2>2. \A i \in 1..Len(items') : Accepts(items[i])'
    BY <2>1 DEF IInv, TypeOK, Accepts
  <2> QED
    BY <1>1, <1>3, <2>1, <2>2 DEF ItemsOK
<1> QED
  BY <1>1, <1>2, <1>4, TypeParts, QuietStep DEF IInv

\* pop and pop_bulk.
LEMMA PopStep ==
  ASSUME IInv, Defined, NEW n \in Nat, n <= Len(items), Pop(n), fault' = fault,
         UNCHANGED <<type, size, print, exports, torn>>,
         iters' \in [Iter -> IterType], calls' \in [Caller -> CallType]
  PROVE  IInv'
<1>1. ItemsOK' /\ views' = views /\ alloc' = alloc
  BY PopFact DEF IInv
<1> QED
  BY <1>1, TypeParts, QuietStep DEF Defined, IInv

\* An item of the vector is removed.
LEMMA RemoveStep ==
  ASSUME IInv, NEW x \in Number, Remove(x)
  PROVE  IInv'
<1>0. items \in Seq(Number) /\ Len(items) \in Nat /\ \A i \in 1..Len(items) : Accepts(items[i]) /\ items[i] \in Number
  BY DEF IInv, TypeOK
<1>1. PICK i \in 1..Len(items) :
        items' = [j \in 1..(Len(items) - 1) |-> IF j < i THEN items[j] ELSE items[j + 1]]
  BY DEF Remove, Index
<1>2. items' \in [1..(Len(items) - 1) -> Number]
  BY <1>0, <1>1
<1>3. items' \in Seq(Number) /\ Len(items') = Len(items) - 1
  BY <1>0, <1>1, <1>2
<1>4. \A j \in 1..Len(items') : Accepts(items'[j])
  BY <1>0, <1>1, <1>3
<1> QED
  BY <1>0, <1>3, <1>4, ReplaceStep DEF Remove, Defined

\* An item is overwritten, by assignment or through a buffer.
LEMMA OverwriteStep ==
  ASSUME IInv, Defined, NEW i \in 1..Len(items), NEW x \in Number, Accepts(x),
         items' = [items EXCEPT ![i] = x], Touch,
         UNCHANGED <<type, size, alloc, print, exports, views, fault, torn>>
  PROVE  IInv'
<1>0. items \in Seq(Number) /\ Len(items) \in Nat /\ \A j \in 1..Len(items) : Accepts(items[j])
  BY DEF IInv, TypeOK
<1>1. items' \in Seq(Number) /\ Len(items') = Len(items)
  BY <1>0
<1>2. \A j \in 1..Len(items') : Accepts(items'[j])
  BY <1>0, <1>1
<1> QED
  BY <1>0, <1>1, <1>2, ReplaceStep DEF Defined

\* The items are permuted, or the bytes of a vector in which they do not lie
\* as its type says.
LEMMA ArrangeStep ==
  ASSUME IInv, type \in Type, items' \in Arrangements \cup Scrambled, Touch,
         fault' \in {"none", "outside"},
         UNCHANGED <<type, size, alloc, print, exports, views, torn>>
  PROVE  IInv'
<1>0. items \in Seq(Number) /\ Len(items) \in Nat /\ \A j \in 1..Len(items) : items[j] \in Fits[type]
  BY DEF IInv, TypeOK, Accepts
<1>1. items' \in [1..Len(items) -> Fits[type]]
  <2>1. CASE items' \in Scrambled
    BY <2>1 DEF Scrambled
  <2>2. CASE items' \in Arrangements
    <3>1. PICK p \in [1..Len(items) -> 1..Len(items)] : items' = [i \in 1..Len(items) |-> items[p[i]]]
      BY <2>2 DEF Arrangements
    <3> QED
      BY <1>0, <3>1
  <2> QED
    BY <2>1, <2>2
<1>2. Fits[type] \subseteq Number
  BY TypeAssumption
<1>3. items' \in Seq(Number) /\ Len(items') = Len(items)
  BY <1>0, <1>1, <1>2
<1>4. \A j \in 1..Len(items') : Accepts(items'[j])
  BY <1>0, <1>1, <1>3 DEF Accepts
<1> QED
  BY <1>0, <1>3, <1>4, ReplaceStep

\* Methods that are one step.
LEMMA MethodsStep ==
  ASSUME IInv, Methods
  PROVE  IInv'
<1>t. Touch => iters' \in [Iter -> IterType] /\ calls' \in [Caller -> CallType]
  BY TypeParts, TouchFact DEF IInv
<1>1. ASSUME NEW x \in Number, DoAppend(x) PROVE IInv'
  BY <1>1, <1>t, PushStep DEF DoAppend
<1>2. ASSUME NEW x \in Number, Remove(x) PROVE IInv'
  BY <1>2, RemoveStep
<1>3. ASSUME NEW x \in Number, NEW y \in Number, BulkCopy(<<x>>) \/ BulkCopy(<<x, y>>) PROVE IInv'
  <2>1. <<x>> \in Seq(Number) /\ <<x, y>> \in Seq(Number)
    OBVIOUS
  <2> QED
    BY <1>3, <2>1, BulkCopyStep
<1>4. CASE BulkCopyFails \/ BulkSelf
  BY <1>4, GrowStep
<1>5. CASE DoPop
  <2>1. Len(items) \in Nat /\ 1 <= Len(items)
    BY <1>5 DEF IInv, TypeOK, DoPop
  <2> QED
    BY <1>5, <1>t, <2>1, PopStep DEF DoPop
<1>6. CASE DoClear
  <2>1. /\ ItemsOK' /\ views' \in [View -> ViewType]
        /\ \A v \in View : views'[v].held = views[v].held
    BY <1>6, ClearFact DEF DoClear, IInv
  <2> QED
    BY <1>6, <1>t, <2>1, QuietStep DEF DoClear, Defined
<1>7. CASE Sort
  BY <1>7, ArrangeStep DEF Sort, Defined
<1>8. ASSUME NEW n \in 1..MaxAlloc, PopBulk(n) PROVE IInv'
  BY <1>8, <1>t, PopStep, BoundAssumption DEF PopBulk
<1>9. ASSUME NEW i \in (-MaxAlloc)..MaxAlloc, NEW x \in Number, AssItem(i, x) PROVE IInv'
  <2>1. Offset(i) \in Int
    BY BoundAssumption DEF IInv, TypeOK, Offset
  <2>2. Offset(i) + 1 \in 1..Len(items)
    BY <1>9, <2>1 DEF AssItem, IInv, TypeOK
  <2> QED
    BY <1>9, <2>2, OverwriteStep DEF AssItem
<1>10. ASSUME NEW m \in 0..MaxKeys, NEW rank \in [0..(m - 1) -> 0..1], SortProj(m, rank) PROVE IInv'
  <2>1. type \in Type
    BY <1>10, TypeAssumption DEF SortProj
  <2>2. items' \in Arrangements \cup Scrambled /\ fault' \in {"none", "outside"}
    BY <1>10 DEF SortProj, SortedBy, Defined
  <2> QED
    BY <1>10, <2>1, <2>2, ArrangeStep DEF SortProj
<1> QED
  BY <1>1, <1>2, <1>3, <1>4, <1>5, <1>6, <1>7, <1>8, <1>9, <1>10 DEF Methods

\* Products grow with their factors.
LEMMA ProductGrows ==
  ASSUME NEW a \in Nat, NEW b \in Nat, NEW c \in Nat, NEW d \in Nat, a <= b, c <= d
  PROVE  a * c \in Nat /\ b * d \in Nat /\ a * c <= b * d
<1>1. PICK e \in Nat : b = a + e
  <2>1. b - a \in Nat /\ b = a + (b - a)
    OBVIOUS
  <2> QED
    BY <2>1
<1>2. PICK g \in Nat : d = c + g
  <2>1. d - c \in Nat /\ d = c + (d - c)
    OBVIOUS
  <2> QED
    BY <2>1
<1>3. a * g \in Nat /\ e * c \in Nat /\ e * g \in Nat /\ a * c \in Nat
  OBVIOUS
<1>4. b * d = a * c + a * g + e * c + e * g
  BY <1>1, <1>2
<1> QED
  BY <1>3, <1>4

\* An export is counted, and lies within the array.
LEMMA GetBufferStep ==
  ASSUME IInv, NEW v \in View, GetBuffer(v)
  PROVE  IInv'
<1> DEFINE Held == {w \in View : views[w].held}
           bytes == IF type \in Type THEN Len(items) * Size[type] ELSE 0
<1>0. /\ items \in Seq(Number) /\ Len(items) \in Nat /\ alloc \in Nat /\ Len(items) <= alloc
      /\ size \in Nat /\ exports \in Nat
  BY SizesFact, TypeAssumption DEF IInv, TypeOK
<1>1. bytes \in Nat /\ bytes <= alloc * size
  <2>1. CASE type \in Type
    <3>1. Size[type] \in Nat /\ Size[type] <= size
      BY <2>1, TypeAssumption DEF IInv, SizeInv
    <3>2. Len(items) * Size[type] \in Nat /\ Len(items) * Size[type] <= alloc * size
      BY <1>0, <3>1, ProductGrows
    <3> QED
      BY <2>1, <3>2
  <2>2. CASE type \notin Type
    BY <1>0, <2>2, ProductGrows
  <2> QED
    BY <2>1, <2>2
<1> HIDE DEF bytes
<1>2. /\ Defined /\ ~views[v].held /\ exports' = exports + 1
      /\ views' = [views EXCEPT ![v] = [held |-> TRUE, lost |-> FALSE, n |-> bytes]]
      /\ UNCHANGED <<type, size, items, alloc, print, iters, calls, fault, torn>>
  BY DEF GetBuffer, bytes
<1>3. views \in [View -> ViewType]
  BY TypeParts DEF IInv
<1>4. /\ views' \in [View -> ViewType]
      /\ views'[v].held /\ ~views'[v].lost /\ views'[v].n = bytes
      /\ \A w \in View \ {v} : views'[w] = views[w]
  BY <1>1, <1>2, <1>3 DEF ViewType
<1>5. TypeOK'
  <2>1. ItemsOK'
    BY <1>2, TypeParts DEF IInv, ItemsOK, Accepts
  <2>2. exports' \in Nat
    BY <1>0, <1>2
  <2> QED
    BY <1>2, <1>4, <2>1, <2>2, TypeFromParts, TypeParts DEF IInv, TypeOK
<1>6. {w \in View : views'[w].held} = Held \cup {v}
  BY <1>4
<1>7. Cardinality(Held \cup {v}) = Cardinality(Held) + 1
  <2>1. IsFiniteSet(Held) /\ v \notin Held
    BY <1>2, ViewAssumption, FS_Subset
  <2> QED
    BY <2>1, FS_AddElement
<1>8. exports' = Cardinality({w \in View : views'[w].held})
  BY <1>2, <1>6, <1>7 DEF IInv, ViewsStayBacked
<1>9. \A w \in View : views'[w].held /\ w \notin torn' =>
          ~views'[w].lost /\ views'[w].n <= alloc' * size'
  BY <1>1, <1>2, <1>4 DEF IInv, ViewsStayBacked
<1>10. ViewsStayBacked'
  BY <1>2, <1>8, <1>9 DEF ViewsStayBacked, Defined
<1>11. SizeInv'
  BY <1>2 DEF IInv, SizeInv
<1> QED
  BY <1>5, <1>10, <1>11 DEF IInv

\* A release is counted.
LEMMA ReleaseBufferStep ==
  ASSUME IInv, NEW v \in View, ReleaseBuffer(v)
  PROVE  IInv'
<1> DEFINE Held == {w \in View : views[w].held}
<1>1. /\ Defined /\ views[v].held /\ exports' = exports - 1 /\ torn' = torn \ {v}
      /\ views' = [views EXCEPT ![v] = NoView]
      /\ UNCHANGED <<type, size, items, alloc, print, iters, calls, fault>>
  BY DEF ReleaseBuffer
<1>2. views \in [View -> ViewType]
  BY TypeParts DEF IInv
<1>3. /\ views' \in [View -> ViewType]
      /\ ~views'[v].held
      /\ \A w \in View \ {v} : views'[w] = views[w]
  BY <1>1, <1>2 DEF ViewType, NoView
<1>4. {w \in View : views'[w].held} = Held \ {v}
  BY <1>3
<1>5. IsFiniteSet(Held) /\ v \in Held
  BY <1>1, ViewAssumption, FS_Subset
<1>6. Cardinality(Held \ {v}) = Cardinality(Held) - 1 /\ IsFiniteSet(Held \ {v})
  BY <1>5, FS_RemoveElement
<1>7. exports' = Cardinality({w \in View : views'[w].held}) /\ exports' \in Nat
  BY <1>1, <1>4, <1>6, FS_CardinalityType DEF IInv, ViewsStayBacked
<1>8. TypeOK'
  <2>1. ItemsOK'
    BY <1>1, TypeParts DEF IInv, ItemsOK, Accepts
  <2> QED
    BY <1>1, <1>3, <1>7, <2>1, TypeFromParts, TypeParts DEF IInv, TypeOK
<1>9. \A w \in View : views'[w].held /\ w \notin torn' =>
          ~views'[w].lost /\ views'[w].n <= alloc' * size'
  BY <1>1, <1>3 DEF IInv, ViewsStayBacked
<1>10. ViewsStayBacked'
  BY <1>1, <1>7, <1>9 DEF ViewsStayBacked, Defined
<1>11. SizeInv'
  BY <1>1 DEF IInv, SizeInv
<1> QED
  BY <1>8, <1>10, <1>11 DEF IInv

\* Buffers.
LEMMA BuffersStep ==
  ASSUME IInv, Buffers
  PROVE  IInv'
<1>1. ASSUME NEW v \in View, NEW i \in 1..MaxAlloc, NEW x \in Number, WriteBuffer(v, i, x) PROVE IInv'
  BY <1>1, OverwriteStep DEF WriteBuffer
<1> QED
  BY <1>1, GetBufferStep, ReleaseBufferStep DEF Buffers

\* Iterators.
LEMMA IteratorsStep ==
  ASSUME IInv, Iterators
  PROVE  IInv'
<1>0. iters \in [Iter -> IterType] /\ calls \in [Caller -> CallType] /\ <<>> \in Seq(Number)
  BY TypeParts DEF IInv
<1>1. ASSUME NEW k \in Iter, NEW rev \in BOOLEAN, NewIter(k, rev) PROVE IInv'
  <2>1. iters' \in [Iter -> IterType]
    BY <1>0, <1>1 DEF NewIter, IterType
  <2> QED
    BY <1>0, <1>1, <2>1, IdleStep DEF NewIter
<1>2. ASSUME NEW k \in Iter, IterNext(k) PROVE IInv'
  <2> DEFINE it == iters[k]
             pos == IF it.rev THEN Len(items) - it.state ELSE it.state + 1
             more == [it EXCEPT !.state = @ + 1, !.seen = IF it.fresh THEN Append(@, items[pos]) ELSE @]
             end == [it EXCEPT !.open = FALSE]
  <2>1. it \in IterType /\ items \in Seq(Number) /\ Len(items) \in Nat
    BY <1>0 DEF IInv, TypeOK
  <2>2. end \in IterType
    BY <2>1 DEF IterType
  <2>3. it.state < Len(items) => more \in IterType
    <3> SUFFICES ASSUME it.state < Len(items) PROVE more \in IterType
      OBVIOUS
    <3>1. it.state \in Nat /\ it.seen \in Seq(Number) /\ it.rev \in BOOLEAN /\ it.fresh \in BOOLEAN
      BY <2>1 DEF IterType
    <3>2. pos \in 1..Len(items)
      BY <2>1, <3>1
    <3> HIDE DEF pos
    <3>3. items[pos] \in Number
      BY <2>1, <3>2
    <3>4. Append(it.seen, items[pos]) \in Seq(Number)
      BY <3>1, <3>3, AppendProperties
    <3>5. (IF it.fresh THEN Append(it.seen, items[pos]) ELSE it.seen) \in Seq(Number)
      BY <3>1, <3>4
    <3>6. it.state + 1 \in Nat
      BY <3>1
    <3>7. \A r \in IterType, n \in Nat, s \in Seq(Number) :
             [r EXCEPT !.state = n, !.seen = s] \in IterType
      BY DEF IterType
    <3> QED
      BY <2>1, <3>5, <3>6, <3>7
  <2>4. iters' = [iters EXCEPT ![k] = IF it.state < Len(items) THEN more ELSE end]
    BY <1>2 DEF IterNext
  <2> HIDE DEF more, end
  <2>5. iters' \in [Iter -> IterType]
    BY <1>0, <2>2, <2>3, <2>4
  <2> QED
    BY <1>0, <1>2, <2>5, IdleStep DEF IterNext
<1>3. ASSUME NEW k \in Iter, IterDealloc(k) PROVE IInv'
  <2>1. iters' \in [Iter -> IterType]
    BY <1>0, <1>3 DEF IterDealloc, NoIter, IterType
  <2> QED
    BY <1>0, <1>3, <2>1, IdleStep DEF IterDealloc
<1> QED
  BY <1>1, <1>2, <1>3 DEF Iterators

\* append_bulk with a Python iterator.
LEMMA BulkStep ==
  ASSUME IInv, Bulk
  PROVE  IInv'
<1>0. /\ iters \in [Iter -> IterType] /\ calls \in [Caller -> CallType]
      /\ items \in Seq(Number)
  BY TypeParts DEF IInv, ItemsOK
<1>1. ASSUME NEW c \in Caller, BulkStart(c) PROVE IInv'
  <2>1. calls' \in [Caller -> CallType]
    BY <1>0, <1>1, IdleFact DEF BulkStart
  <2> QED
    BY <1>0, <1>1, <2>1, IdleStep DEF BulkStart
<1>2. ASSUME NEW c \in Caller, NEW x \in Number, BulkNext(c, x) PROVE IInv'
  <2>1. iters' \in [Iter -> IterType]
    BY <1>0, <1>2, IterTouchFact DEF BulkNext
  <2>2. [calls[c] EXCEPT !.n = @ + 1] \in CallType
    <3>1. calls[c] \in CallType /\ calls[c].n + 1 \in Nat
      BY <1>0 DEF CallType
    <3>2. \A r \in CallType, n \in Nat : [r EXCEPT !.n = n] \in CallType
      BY DEF CallType
    <3> QED
      BY <3>1, <3>2
  <2>3. calls' \in [Caller -> CallType]
    BY <1>0, <1>2, <2>2, InterruptedFact DEF BulkNext
  <2> QED
    BY <1>2, <2>1, <2>3, PushStep DEF BulkNext
<1>3. ASSUME NEW c \in Caller, BulkEnd(c) PROVE IInv'
  <2>1. calls' \in [Caller -> CallType]
    BY <1>0, <1>3, IdleFact DEF BulkEnd
  <2> QED
    BY <1>0, <1>3, <2>1, IdleStep DEF BulkEnd
<1>4. ASSUME NEW c \in Caller, BulkFail(c) PROVE IInv'
  <2>1. iters' \in [Iter -> IterType]
    BY <1>0, <1>4, IterTouchFact DEF BulkFail
  <2>2. calls' \in [Caller -> CallType]
    BY <1>0, <1>4, IdleFact, InterruptedFact DEF BulkFail
  <2>3. calls[c].n \in Nat
    BY <1>0 DEF CallType
  <2>4. CASE calls[c].n <= Len(items)
    BY <1>4, <2>1, <2>2, <2>3, <2>4, PopStep DEF BulkFail
  <2>5. CASE ~(calls[c].n <= Len(items))
    <3>1. /\ fault' = "underflow"
          /\ UNCHANGED <<type, size, items, alloc, print, exports, views, torn>>
      BY <1>4, <2>5 DEF BulkFail
    <3>2. ItemsOK' /\ views' \in [View -> ViewType]
      BY <3>1, TypeParts DEF IInv, ItemsOK, Accepts
    <3> QED
      BY <2>1, <2>2, <3>1, <3>2, QuietStep
  <2> QED
    BY <2>4, <2>5
<1> QED
  BY <1>1, <1>2, <1>3, <1>4 DEF Bulk

\* A step of __init__ that gives the vector, on which nothing is exported, a
\* type and a size that fit.
LEMMA RetypeStep ==
  ASSUME IInv, Defined, CanResize, UNCHANGED <<exports, fault, torn>>,
         type' \in Type \cup {NoType}, size' \in {Size[t] : t \in Type},
         type' \in Type => Size[type'] <= size', print' \in {0, 1},
         ItemsOK', views' \in [View -> ViewType],
         \A v \in View : views'[v].held = views[v].held,
         iters' \in [Iter -> IterType], calls' \in [Caller -> CallType]
  PROVE  IInv'
<1>1. TypeOK'
  BY TypeFromParts DEF IInv, TypeOK
<1>2. ViewsStayBacked'
  BY KeepViews DEF Defined
<1>3. SizeInv'
  BY DEF SizeInv
<1> QED
  BY <1>1, <1>2, <1>3 DEF IInv

\* __init__ with a type code alone or with the items of a buffer.
LEMMA InitItemsStep ==
  ASSUME IInv, NEW t \in Type, NEW s \in Seq(Number), \A i \in 1..Len(s) : s[i] \in Fits[t],
         NEW p \in {0, 1}, InitItems(t, s, p)
  PROVE  IInv'
<1>1. /\ Defined /\ CanResize /\ type' = t /\ size' = Size[t] /\ print' = p /\ items' = s
      /\ alloc' \in Sizes /\ alloc' >= Len(s) /\ UNCHANGED <<exports, fault, torn>>
      /\ Freed(alloc > 0) /\ Touch
  BY DEF InitItems
<1>2. iters' \in [Iter -> IterType] /\ calls' \in [Caller -> CallType]
  BY <1>1, TypeParts, TouchFact DEF IInv
<1>3. views' \in [View -> ViewType] /\ \A v \in View : views'[v].held = views[v].held
  <2> DEFINE b == alloc > 0
  <2>1. b \in BOOLEAN /\ Freed(b) /\ views \in [View -> ViewType]
    BY <1>1, TypeParts DEF IInv
  <2> HIDE DEF b
  <2> QED
    BY <2>1, FreedFact
<1>4. ItemsOK'
  <2>1. \A i \in 1..Len(items') : Accepts(items[i])'
    BY <1>1 DEF Accepts
  <2>2. alloc' \in Nat /\ Len(items') \in Nat /\ Len(items') <= alloc'
    BY <1>1, SizesFact
  <2> QED
    BY <1>1, <2>1, <2>2 DEF ItemsOK
<1>5. Size[t] <= size'
  BY <1>1, TypeAssumption
<1> QED
  BY <1>1, <1>2, <1>3, <1>4, <1>5, RetypeStep

\* An __init__ that fails while it reads a sequence frees the array: each
\* buffer that is held by then is recorded in torn.
LEMMA InitFailStep ==
  ASSUME IInv, NEW c \in Caller, InitFail(c)
  PROVE  IInv'
<1>1. /\ Defined /\ Clear /\ IterTouch /\ torn' = torn \cup {v \in View : views'[v].lost}
      /\ calls' = [d \in Caller |-> IF d = c THEN [Idle EXCEPT !.failed = TRUE] ELSE Interrupted(d)]
      /\ UNCHANGED <<type, size, print, exports, fault>>
  BY DEF InitFail
<1>2. iters' \in [Iter -> IterType] /\ calls' \in [Caller -> CallType]
  BY <1>1, TypeParts, IterTouchFact, IdleFact, InterruptedFact DEF IInv
<1>3. /\ ItemsOK' /\ views' \in [View -> ViewType]
      /\ \A v \in View : /\ views'[v].held = views[v].held
                         /\ views'[v].n = views[v].n
                         /\ views[v].held /\ alloc > 0 => views'[v].lost
                         /\ ~(alloc > 0) => views'[v].lost = views[v].lost
  BY <1>1, ClearFact DEF IInv
<1>4. TypeOK'
  BY <1>1, <1>2, <1>3, TypeFromParts DEF IInv, TypeOK
<1>5. exports' = Cardinality({v \in View : views'[v].held})
  BY <1>1, <1>3, SameHeld DEF IInv, ViewsStayBacked
<1>6. ASSUME NEW v \in View, views'[v].held, v \notin torn'
      PROVE  ~views'[v].lost /\ views'[v].n <= alloc' * size'
  <2>1. ~views'[v].lost /\ v \notin torn
    BY <1>1, <1>6
  <2>2. ~(alloc > 0)
    BY <1>3, <1>6, <2>1
  <2>3. alloc = 0 /\ alloc' = 0
    BY <1>1, <2>2, SizesFact DEF IInv, TypeOK, Clear
  <2>4. views[v].n <= alloc * size
    BY <1>3, <1>6, <2>1 DEF IInv, ViewsStayBacked
  <2> QED
    BY <1>1, <1>3, <2>1, <2>3, <2>4
<1>7. ViewsStayBacked'
  BY <1>1, <1>5, <1>6 DEF ViewsStayBacked, Defined
<1>8. SizeInv'
  BY <1>1 DEF IInv, SizeInv
<1> QED
  BY <1>4, <1>7, <1>8 DEF IInv

\* The destructor finds nothing exported.
LEMMA DeallocStep ==
  ASSUME IInv, Dealloc
  PROVE  IInv'
<1>1. {v \in View : views[v].held} = {}
  BY DEF Dealloc
<1>2. exports = 0
  BY <1>1, FS_EmptySet DEF IInv, ViewsStayBacked
<1>3. /\ Defined /\ fault' = fault /\ Clear /\ Touch /\ exports' = 0 /\ torn' = {}
      /\ type' \in Type /\ size' = Size[type'] /\ print' = 1
  BY <1>2 DEF Dealloc
<1>4. iters' \in [Iter -> IterType] /\ calls' \in [Caller -> CallType]
  BY <1>3, TypeParts, TouchFact DEF IInv
<1>5. /\ ItemsOK' /\ views' \in [View -> ViewType]
      /\ \A v \in View : views'[v].held = views[v].held
  BY <1>3, ClearFact DEF IInv
<1>6. TypeOK'
  BY <1>3, <1>4, <1>5, TypeFromParts DEF Defined
<1>7. {v \in View : views'[v].held} = {}
  BY <1>1, <1>5
<1>8. ViewsStayBacked'
  BY <1>3, <1>7, FS_EmptySet DEF ViewsStayBacked, Defined
<1>9. SizeInv'
  BY <1>3, TypeAssumption DEF SizeInv
<1> QED
  BY <1>6, <1>8, <1>9 DEF IInv

\* __init__ and the destructor.
LEMMA ConstructStep ==
  ASSUME IInv, Construct
  PROVE  IInv'
<1>0. iters \in [Iter -> IterType] /\ calls \in [Caller -> CallType] /\ <<>> \in Seq(Number)
  BY TypeParts DEF IInv
<1>1. ASSUME NEW p \in {0, 1}, NEW t \in {FirstType, NoType}, InitRefused(t, p) PROVE IInv'
  <2>1. iters' \in [Iter -> IterType] /\ calls' \in [Caller -> CallType]
    BY <1>0, <1>1, TouchFact DEF InitRefused
  <2>2. /\ ItemsOK' /\ views' \in [View -> ViewType]
        /\ \A v \in View : views'[v].held = views[v].held
    BY <1>1, ClearFact DEF InitRefused, IInv
  <2>3. size' \in {Size[u] : u \in Type} /\ (type' \in Type => Size[type'] <= size')
    BY <1>1, TypeAssumption DEF InitRefused, IInv, TypeOK
  <2>4. type' \in Type \cup {NoType} /\ print' \in {0, 1}
    BY <1>1, TypeAssumption DEF InitRefused
  <2> QED
    BY <1>1, <2>1, <2>2, <2>3, <2>4, RetypeStep DEF InitRefused
<1>2. ASSUME NEW p \in {0, 1}, NEW t \in Type, InitItems(t, <<>>, p) PROVE IInv'
  <2>1. \A i \in 1..Len(<<>>) : <<>>[i] \in Fits[t]
    OBVIOUS
  <2> QED
    BY <1>0, <1>2, <2>1, InitItemsStep
<1>3. ASSUME NEW p \in {0, 1}, NEW t \in Type, NEW x \in Fits[t], InitItems(t, <<x>>, p) PROVE IInv'
  <2>1. x \in Number
    BY TypeAssumption
  <2>2. <<x>> \in Seq(Number) /\ \A i \in 1..Len(<<x>>) : <<x>>[i] \in Fits[t]
    BY <2>1
  <2> QED
    BY <1>3, <2>2, InitItemsStep
<1>4. ASSUME NEW p \in {0, 1}, NEW t \in Type, NEW c \in Caller, InitSequence(c, t, p) PROVE IInv'
  <2>1. iters' \in [Iter -> IterType]
    BY <1>0, <1>4, IterTouchFact DEF InitSequence
  <2>2. calls' \in [Caller -> CallType]
    BY <1>0, <1>4, IdleFact, InterruptedFact DEF InitSequence
  <2>3. /\ ItemsOK' /\ views' \in [View -> ViewType]
        /\ \A v \in View : views'[v].held = views[v].held
    BY <1>4, ClearFact DEF InitSequence, IInv
  <2>4. size' \in {Size[u] : u \in Type} /\ Size[type'] <= size' /\ type' \in Type
    BY <1>4, TypeAssumption DEF InitSequence
  <2> QED
    BY <1>4, <2>1, <2>2, <2>3, <2>4, RetypeStep DEF InitSequence
<1>5. ASSUME NEW c \in Caller, NEW x \in Number, InitNext(c, x) PROVE IInv'
  <2>1. iters' \in [Iter -> IterType] /\ calls' \in [Caller -> CallType]
    BY <1>0, <1>5, TouchFact DEF InitNext
  <2> QED
    BY <1>5, <2>1, PushStep DEF InitNext
<1>6. ASSUME NEW c \in Caller, InitEnd(c) PROVE IInv'
  <2>1. calls' \in [Caller -> CallType]
    BY <1>0, <1>6, IdleFact DEF InitEnd
  <2> QED
    BY <1>0, <1>6, <2>1, IdleStep DEF InitEnd
<1> QED
  BY <1>1, <1>2, <1>3, <1>4, <1>5, <1>6, InitFailStep, DeallocStep DEF Construct

\* Nothing changes.
LEMMA StutterStep ==
  ASSUME IInv, UNCHANGED vars
  PROVE  IInv'
  BY DEF IInv, TypeOK, ViewsStayBacked, SizeInv, Accepts, vars

\* The invariant that the two theorems rest on.
LEMMA Inductive == Spec => []IInv
<1>1. IInv /\ [Next]_vars => IInv'
  BY MethodsStep, BuffersStep, IteratorsStep, BulkStep, ConstructStep, StutterStep
     DEF Next, Undefined
<1> QED
  BY <1>1, InitHolds, PTL DEF Spec

-----------------------------------------------------------------------------
(* Iterators and waiting calls, whose view of the items is kept or marked  *)
(* as gone.                                                                *)

\* What an interrupted call keeps.
LEMMA InterruptedCall ==
  ASSUME calls \in [Caller -> CallType], NEW c \in Caller
  PROVE  Interrupted(c).alone = FALSE /\ Interrupted(c).pc = calls[c].pc
  BY DEF Interrupted, CallType

\* Where iterators are told that the items change, nothing is left to say.
LEMMA TouchedIters ==
  ASSUME iters \in [Iter -> IterType], IterTouch
  PROVE  IterationIsExact'
<1>1. \A k \in Iter : iters'[k].fresh = FALSE
  BY DEF IterTouch, IterType
<1> QED
  BY <1>1 DEF IterationIsExact

\* The same for calls.
LEMMA TouchedCalls ==
  ASSUME calls \in [Caller -> CallType],
         \A c \in Caller : calls'[c] = Interrupted(c)
  PROVE  WaitingInv' /\ \A c \in Caller : ReturnsWhole(c)
<1>1. \A c \in Caller : calls'[c].alone = FALSE /\ calls'[c].pc = calls[c].pc
  BY InterruptedCall
<1>2. WaitingInv'
  BY <1>1 DEF WaitingInv
<1>3. \A c \in Caller : ReturnsWhole(c)
  BY <1>1 DEF ReturnsWhole
<1> QED
  BY <1>2, <1>3

\* A step that leaves alone what they look at.
LEMMA Undisturbed ==
  ASSUME UseInv, UNCHANGED <<items, iters, calls>>
  PROVE  IterationIsExact' /\ WaitingInv' /\ \A c \in Caller : ReturnsWhole(c)
<1>1. IterationIsExact'
  BY DEF UseInv, IterationIsExact
<1>2. WaitingInv'
  BY DEF UseInv, WaitingInv, Appended
<1>3. \A c \in Caller : ReturnsWhole(c)
  BY DEF ReturnsWhole
<1> QED
  BY <1>1, <1>2, <1>3

\* A step that tells all of them.
LEMMA Disturbed ==
  ASSUME UseInv, Touch
  PROVE  IterationIsExact' /\ WaitingInv' /\ \A c \in Caller : ReturnsWhole(c)
<1>1. iters \in [Iter -> IterType] /\ calls \in [Caller -> CallType]
  BY TypeParts DEF UseInv, IInv
<1>2. IterTouch /\ \A c \in Caller : calls'[c] = Interrupted(c)
  BY DEF Touch
<1> QED
  BY <1>1, <1>2, TouchedIters, TouchedCalls

\* Every method does one or the other.
LEMMA MethodsUse ==
  ASSUME UseInv, Methods
  PROVE  IterationIsExact' /\ WaitingInv' /\ \A c \in Caller : ReturnsWhole(c)
<1>1. Touch \/ UNCHANGED <<items, iters, calls>>
  BY DEF Methods, DoAppend, Remove, BulkCopy, BulkCopyFails, BulkSelf, DoPop, DoClear, Sort,
         PopBulk, AssItem, SortProj
<1> QED
  BY <1>1, Disturbed, Undisturbed

\* And so do the buffers.
LEMMA BuffersUse ==
  ASSUME UseInv, Buffers
  PROVE  IterationIsExact' /\ WaitingInv' /\ \A c \in Caller : ReturnsWhole(c)
<1>1. Touch \/ UNCHANGED <<items, iters, calls>>
  BY DEF Buffers, GetBuffer, ReleaseBuffer, WriteBuffer
<1> QED
  BY <1>1, Disturbed, Undisturbed

\* An iterator that starts, returns the next item, ends or goes.
LEMMA IteratorsUse ==
  ASSUME UseInv, Iterators
  PROVE  IterationIsExact' /\ WaitingInv' /\ \A c \in Caller : ReturnsWhole(c)
<1>0. /\ iters \in [Iter -> IterType] /\ calls \in [Caller -> CallType]
      /\ items \in Seq(Number) /\ Len(items) \in Nat
  BY TypeParts DEF UseInv, IInv, ItemsOK
<1>1. items' = items /\ calls' = calls
  BY DEF Iterators, NewIter, IterNext, IterDealloc
<1>2. WaitingInv' /\ \A c \in Caller : ReturnsWhole(c)
  <2>1. WaitingInv'
    BY <1>1 DEF UseInv, WaitingInv, Appended
  <2>2. \A c \in Caller : ReturnsWhole(c)
    BY <1>1 DEF ReturnsWhole
  <2> QED
    BY <2>1, <2>2
<1> DEFINE Exact(it) ==
        it.fresh =>
          /\ Len(it.seen) = it.state
          /\ it.state <= Len(items)
          /\ \A i \in 1..it.state :
                it.seen[i] = items[IF it.rev THEN Len(items) + 1 - i ELSE i]
          /\ ~it.open => it.state = Len(items)
<1>3. \A j \in Iter : Exact(iters[j])
  BY DEF UseInv, IterationIsExact
<1>4. (\A j \in Iter : Exact(iters'[j])) => IterationIsExact'
  BY <1>1 DEF IterationIsExact
<1>5. ASSUME NEW k \in Iter, NEW it \in IterType, iters' = [iters EXCEPT ![k] = it], Exact(it)
      PROVE  IterationIsExact'
  <2>1. \A j \in Iter : iters'[j] = IF j = k THEN it ELSE iters[j]
    BY <1>0, <1>5
  <2> HIDE DEF Exact
  <2>2. \A j \in Iter : Exact(iters'[j])
    BY <1>3, <1>5, <2>1
  <2> QED
    BY <1>4, <2>2
<1>6. ASSUME NEW k \in Iter, NEW rev \in BOOLEAN, NewIter(k, rev) PROVE IterationIsExact'
  <2> DEFINE it == [open |-> TRUE, rev |-> rev, state |-> 0, fresh |-> TRUE, seen |-> <<>>]
  <2>1. it \in IterType /\ Exact(it)
    BY <1>0 DEF IterType
  <2>2. iters' = [iters EXCEPT ![k] = it]
    BY <1>6 DEF NewIter
  <2> HIDE DEF it, Exact
  <2> QED
    BY <1>5, <2>1, <2>2
<1>7. ASSUME NEW k \in Iter, IterDealloc(k) PROVE IterationIsExact'
  <2>1. NoIter \in IterType /\ Exact(NoIter)
    BY <1>0 DEF IterType, NoIter
  <2>2. iters' = [iters EXCEPT ![k] = NoIter]
    BY <1>7 DEF IterDealloc
  <2> HIDE DEF Exact
  <2> QED
    BY <1>5, <2>1, <2>2
<1>8. ASSUME NEW k \in Iter, IterNext(k) PROVE IterationIsExact'
  <2> DEFINE it == iters[k]
             pos == IF it.rev THEN Len(items) - it.state ELSE it.state + 1
             seen == IF it.fresh THEN Append(it.seen, items[pos]) ELSE it.seen
             more == [it EXCEPT !.state = it.state + 1, !.seen = seen]
             end == [it EXCEPT !.open = FALSE]
  <2>1. it \in IterType /\ it.state \in Nat /\ it.seen \in Seq(Number) /\ it.rev \in BOOLEAN /\ Exact(it)
    BY <1>0, <1>3 DEF IterType
  <2>2. iters' = [iters EXCEPT ![k] = IF it.state < Len(items) THEN more ELSE end]
    BY <1>8 DEF IterNext
  <2>3. it.state < Len(items) => more \in IterType /\ Exact(more)
    <3> SUFFICES ASSUME it.state < Len(items) PROVE more \in IterType /\ Exact(more)
      OBVIOUS
    <3>1. pos \in 1..Len(items) /\ items[pos] \in Number
      <4>1. pos \in 1..Len(items)
        BY <1>0, <2>1
      <4> HIDE DEF pos
      <4> QED
        BY <1>0, <4>1
    <3>2. seen \in Seq(Number)
      <4> HIDE DEF pos
      <4> QED
        BY <2>1, <3>1, AppendProperties
    <3>3. /\ more \in IterType /\ more.state = it.state + 1 /\ more.seen = seen
          /\ more.rev = it.rev /\ more.fresh = it.fresh /\ more.open = it.open
      <4>1. it \in IterType /\ it.state + 1 \in Nat
        BY <2>1
      <4> HIDE DEF seen, it, Exact
      <4>2. more \in IterType
        <5>1. \A r \in IterType, n \in Nat, s \in Seq(Number) :
                 [r EXCEPT !.state = n, !.seen = s] \in IterType
          BY DEF IterType
        <5> QED
          BY <3>2, <4>1, <5>1
      <4>3. more.state = it.state + 1 /\ more.seen = seen
        BY <4>1 DEF IterType
      <4>4. more.rev = it.rev
        BY <4>1 DEF IterType
      <4>5. more.fresh = it.fresh
        BY <4>1 DEF IterType
      <4>6. more.open = it.open
        BY <4>1 DEF IterType
      <4> HIDE DEF more
      <4> QED
        BY <4>2, <4>3, <4>4, <4>5, <4>6
    <3>4. CASE ~it.fresh
      BY <3>3, <3>4
    <3>5. CASE it.fresh
      <4>1. /\ Len(seen) = it.state + 1 /\ seen[it.state + 1] = items[pos]
            /\ \A i \in 1..it.state : seen[i] = it.seen[i]
        <5>1. Len(it.seen) = it.state
          BY <2>1, <3>5
        <5>2. seen = Append(it.seen, items[pos])
          BY <3>5
        <5> HIDE DEF seen, pos
        <5> QED
          BY <2>1, <3>1, <5>1, <5>2, AppendProperties
      <4>2. pos = IF it.rev THEN Len(items) + 1 - (it.state + 1) ELSE it.state + 1
        BY <1>0, <2>1
      <4>3. \A i \in 1..it.state :
              it.seen[i] = items[IF it.rev THEN Len(items) + 1 - i ELSE i]
        BY <2>1, <3>5
      <4>4. it.open
        BY <1>8 DEF IterNext
      <4> HIDE DEF seen, pos, more
      <4>5. \A i \in 1..(it.state + 1) :
              seen[i] = items[IF it.rev THEN Len(items) + 1 - i ELSE i]
        <5> SUFFICES ASSUME NEW i \in 1..(it.state + 1)
                     PROVE  seen[i] = items[IF it.rev THEN Len(items) + 1 - i ELSE i]
          OBVIOUS
        <5>1. CASE i \in 1..it.state
          BY <4>1, <4>3, <5>1
        <5>2. CASE i = it.state + 1
          BY <4>1, <4>2, <5>2
        <5> QED
          BY <2>1, <5>1, <5>2
      <4>6. it.state + 1 <= Len(items)
        BY <1>0, <2>1
      <4>7. Exact(more)
        BY <3>3, <4>1, <4>4, <4>5, <4>6
      <4> QED
        BY <3>3, <4>7
    <3> HIDE DEF Exact, more
    <3> QED
      BY <3>3, <3>4, <3>5
  <2>4. ~(it.state < Len(items)) => end \in IterType /\ Exact(end)
    <3> SUFFICES ASSUME ~(it.state < Len(items)) PROVE end \in IterType /\ Exact(end)
      OBVIOUS
    <3>1. /\ end \in IterType /\ end.state = it.state /\ end.seen = it.seen
          /\ end.rev = it.rev /\ end.fresh = it.fresh
      BY <2>1 DEF IterType
    <3> HIDE DEF end
    <3> QED
      BY <1>0, <2>1, <3>1
  <2> HIDE DEF it, more, end, Exact
  <2>5. CASE it.state < Len(items)
    BY <1>5, <2>2, <2>3, <2>5
  <2>6. CASE ~(it.state < Len(items))
    BY <1>5, <2>2, <2>4, <2>6
  <2> QED
    BY <2>5, <2>6
<1> QED
  BY <1>2, <1>6, <1>7, <1>8 DEF Iterators

\* append_bulk asks for an item, appends it, ends or fails.
LEMMA BulkUse ==
  ASSUME UseInv, Bulk
  PROVE  IterationIsExact' /\ WaitingInv' /\ \A c \in Caller : ReturnsWhole(c)
<1>0. /\ iters \in [Iter -> IterType] /\ calls \in [Caller -> CallType]
      /\ items \in Seq(Number) /\ Len(items) \in Nat
  BY TypeParts DEF UseInv, IInv, ItemsOK
<1> DEFINE Goal == IterationIsExact' /\ WaitingInv' /\ \A c \in Caller : ReturnsWhole(c)
<1>1. ASSUME NEW c \in Caller, BulkStart(c) PROVE Goal
  <2>1. /\ items' = items /\ iters' = iters /\ calls[c].pc = "idle"
        /\ calls' = [calls EXCEPT ![c] =
                       [Idle EXCEPT !.pc = "bulk", !.alone = TRUE, !.before = items]]
    BY <1>1 DEF BulkStart
  <2>2. /\ calls'[c].pc = "bulk" /\ calls'[c].n = 0 /\ calls'[c].before = items
        /\ \A d \in Caller \ {c} : calls'[d] = calls[d]
    BY <1>0, <2>1 DEF Idle
  <2>3. SubSeq(items, 1, Len(items)) = items
    BY <1>0
  <2>4. IterationIsExact'
    BY <2>1 DEF UseInv, IterationIsExact
  <2>5. WaitingInv'
    <3>1. Appended(c)'
      BY <1>0, <2>1, <2>2, <2>3 DEF Appended
    <3>2. \A d \in Caller \ {c} : calls'[d].pc = "bulk" /\ calls'[d].alone => Appended(d)'
      BY <2>1, <2>2 DEF UseInv, WaitingInv, Appended
    <3> QED
      BY <3>1, <3>2 DEF WaitingInv
  <2>6. \A d \in Caller : ReturnsWhole(d)
    BY <2>1, <2>2 DEF ReturnsWhole
  <2> QED
    BY <2>4, <2>5, <2>6
<1>2. ASSUME NEW c \in Caller, NEW x \in Number, BulkNext(c, x) PROVE Goal
  <2>1. /\ items' = Append(items, x) /\ IterTouch /\ calls[c].pc = "bulk"
        /\ calls' = [d \in Caller |-> IF d = c THEN [calls[c] EXCEPT !.n = @ + 1] ELSE Interrupted(d)]
    BY <1>2 DEF BulkNext, Push
  <2>2. calls[c] \in CallType /\ calls[c].n \in Nat /\ calls[c].before \in Seq(Number)
    BY <1>0 DEF CallType
  <2>3. /\ calls'[c].pc = "bulk" /\ calls'[c].n = calls[c].n + 1
        /\ calls'[c].before = calls[c].before /\ calls'[c].alone = calls[c].alone
    BY <2>1, <2>2 DEF CallType
  <2>4. \A d \in Caller \ {c} : calls'[d].alone = FALSE /\ calls'[d].pc = calls[d].pc
    BY <1>0, <2>1, InterruptedCall
  <2>5. IterationIsExact'
    BY <1>0, <2>1, TouchedIters
  <2>6. WaitingInv'
    <3>1. ASSUME calls[c].alone PROVE Appended(c)'
      <4> DEFINE b == Len(calls[c].before)
      <4>1. b \in Nat /\ Len(items) = b + calls[c].n /\ SubSeq(items, 1, b) = calls[c].before
        BY <2>1, <2>2, <3>1 DEF UseInv, WaitingInv, Appended
      <4>2. items' \in Seq(Number) /\ Len(items') = Len(items) + 1
        BY <1>0, <2>1, AppendProperties
      <4>3. SubSeq(items', 1, b) = SubSeq(items, 1, b)
        <5>1. b <= Len(items)
          BY <2>2, <4>1
        <5> HIDE DEF b
        <5> QED
          BY <1>0, <2>1, <4>1, <4>2, <5>1
      <4> QED
        BY <2>2, <2>3, <4>1, <4>2, <4>3 DEF Appended
    <3>2. Appended(c)' \/ ~calls'[c].alone
      BY <2>3, <3>1
    <3> QED
      BY <2>4, <3>2 DEF WaitingInv
  <2>7. \A d \in Caller : ReturnsWhole(d)
    BY <2>3, <2>4 DEF ReturnsWhole
  <2> QED
    BY <2>5, <2>6, <2>7
<1>3. ASSUME NEW c \in Caller, BulkEnd(c) PROVE Goal
  <2>1. /\ items' = items /\ iters' = iters /\ fault' = fault
        /\ calls' = [calls EXCEPT ![c] = Idle]
    BY <1>3 DEF BulkEnd
  <2>2. /\ calls'[c].pc = "idle" /\ calls'[c].failed = FALSE
        /\ \A d \in Caller \ {c} : calls'[d] = calls[d]
    BY <1>0, <2>1 DEF Idle
  <2>3. IterationIsExact'
    BY <2>1 DEF UseInv, IterationIsExact
  <2>4. WaitingInv'
    BY <2>1, <2>2 DEF UseInv, WaitingInv, Appended
  <2>5. ReturnsWhole(c)
    BY <2>1, <2>2 DEF UseInv, WaitingInv, Appended, ReturnsWhole
  <2>6. \A d \in Caller \ {c} : ReturnsWhole(d)
    BY <2>2 DEF ReturnsWhole
  <2> QED
    BY <2>3, <2>4, <2>5, <2>6
<1>4. ASSUME NEW c \in Caller, BulkFail(c) PROVE Goal
  <2>1. /\ calls[c].pc = "bulk" /\ calls[c] \in CallType
        /\ calls[c].n \in Nat /\ calls[c].before \in Seq(Number)
    BY <1>0, <1>4 DEF BulkFail, CallType
  <2>2. calls' = [d \in Caller |-> IF d = c THEN [Idle EXCEPT !.failed = TRUE]
                                   ELSE IF calls[c].n = 0 THEN calls[d] ELSE Interrupted(d)]
    BY <1>4 DEF BulkFail
  <2>3. calls'[c].pc = "idle" /\ calls'[c].failed = TRUE
    BY <2>2 DEF Idle
  <2>4. \A d \in Caller \ {c} :
          /\ calls'[d].pc = calls[d].pc
          /\ calls'[d].alone = FALSE \/ (calls[c].n = 0 /\ calls'[d] = calls[d])
    BY <1>0, <2>2, InterruptedCall
  <2>5. calls[c].n <= Len(items) =>
          items' = SubSeq(items, 1, Len(items) - calls[c].n) /\ fault' = fault
    BY <1>4 DEF BulkFail, Pop
  <2>6. calls[c].n = 0 => items' = items /\ iters' = iters
    <3> SUFFICES ASSUME calls[c].n = 0 PROVE items' = items /\ iters' = iters
      OBVIOUS
    <3>1. items' = SubSeq(items, 1, Len(items)) /\ iters' = iters
      BY <1>0, <1>4, <2>5 DEF BulkFail
    <3> QED
      BY <1>0, <3>1
  <2>7. IterationIsExact'
    <3>1. CASE calls[c].n = 0
      BY <2>6, <3>1 DEF UseInv, IterationIsExact
    <3>2. CASE calls[c].n # 0
      BY <1>0, <1>4, <3>2, TouchedIters DEF BulkFail
    <3> QED
      BY <3>1, <3>2
  <2>8. WaitingInv'
    <3>1. \A d \in Caller \ {c} :
            calls'[d].pc = "bulk" /\ calls'[d].alone =>
              items' = items /\ calls'[d] = calls[d] /\ Appended(d)
      BY <2>4, <2>6 DEF UseInv, WaitingInv
    <3> QED
      BY <2>3, <3>1 DEF WaitingInv, Appended
  <2>9. ReturnsWhole(c)
    <3> SUFFICES ASSUME calls[c].alone PROVE items' = calls[c].before /\ fault' = fault
      BY <2>3 DEF ReturnsWhole
    <3>1. /\ Len(items) = Len(calls[c].before) + calls[c].n
          /\ SubSeq(items, 1, Len(calls[c].before)) = calls[c].before
      BY <2>1 DEF UseInv, WaitingInv, Appended
    <3>2. /\ Len(calls[c].before) \in Nat /\ calls[c].n <= Len(items)
          /\ Len(items) - calls[c].n = Len(calls[c].before)
      BY <2>1, <3>1
    <3> QED
      BY <2>5, <3>1, <3>2
  <2>10. \A d \in Caller \ {c} : ReturnsWhole(d)
    BY <2>4 DEF ReturnsWhole
  <2> QED
    BY <2>7, <2>8, <2>9, <2>10
<1> QED
  BY <1>1, <1>2, <1>3, <1>4 DEF Bulk

\* __init__ and the destructor.
LEMMA ConstructUse ==
  ASSUME UseInv, Construct
  PROVE  IterationIsExact' /\ WaitingInv' /\ \A c \in Caller : ReturnsWhole(c)
<1>0. iters \in [Iter -> IterType] /\ calls \in [Caller -> CallType]
  BY TypeParts DEF UseInv, IInv
<1> DEFINE Goal == IterationIsExact' /\ WaitingInv' /\ \A c \in Caller : ReturnsWhole(c)
<1>1. Touch => Goal
  BY Disturbed
<1>2. ASSUME NEW c \in Caller, NEW r \in CallType, r.pc # "bulk", IterTouch,
             calls[c].pc # "bulk",
             calls' = [d \in Caller |-> IF d = c THEN r ELSE Interrupted(d)]
      PROVE  Goal
  <2>1. \A d \in Caller : (d # c => calls'[d].alone = FALSE /\ calls'[d].pc = calls[d].pc)
                          /\ (d = c => calls'[d].pc # "bulk")
    BY <1>0, <1>2, InterruptedCall
  <2>2. IterationIsExact'
    BY <1>0, <1>2, TouchedIters
  <2>3. WaitingInv'
    BY <2>1 DEF WaitingInv
  <2>4. \A d \in Caller : ReturnsWhole(d)
    BY <1>2, <2>1 DEF ReturnsWhole
  <2> QED
    BY <2>2, <2>3, <2>4
<1>3. ASSUME NEW c \in Caller, NEW t \in Type, NEW p \in {0, 1}, InitSequence(c, t, p) PROVE Goal
  <2>1. [Idle EXCEPT !.pc = "init"] \in CallType /\ [Idle EXCEPT !.pc = "init"].pc # "bulk"
    BY IdleFact DEF Idle
  <2> QED
    BY <1>2, <1>3, <2>1 DEF InitSequence
<1>4. ASSUME NEW c \in Caller, InitEnd(c) PROVE Goal
  <2>1. /\ items' = items /\ iters' = iters /\ calls[c].pc = "init"
        /\ calls' = [calls EXCEPT ![c] = Idle]
    BY <1>4 DEF InitEnd
  <2>2. /\ calls'[c].pc = "idle"
        /\ \A d \in Caller \ {c} : calls'[d] = calls[d]
    BY <1>0, <2>1 DEF Idle
  <2>3. IterationIsExact'
    BY <2>1 DEF UseInv, IterationIsExact
  <2>4. WaitingInv'
    BY <2>1, <2>2 DEF UseInv, WaitingInv, Appended
  <2>5. \A d \in Caller : ReturnsWhole(d)
    BY <2>1, <2>2 DEF ReturnsWhole
  <2> QED
    BY <2>3, <2>4, <2>5
<1>5. ASSUME NEW c \in Caller, InitFail(c) PROVE Goal
  <2>1. [Idle EXCEPT !.failed = TRUE] \in CallType /\ [Idle EXCEPT !.failed = TRUE].pc # "bulk"
    BY IdleFact DEF Idle
  <2> QED
    BY <1>2, <1>5, <2>1 DEF InitFail
<1>6. ASSUME NEW c \in Caller, NEW x \in Number, InitNext(c, x) PROVE Goal
  BY <1>1, <1>6 DEF InitNext
<1>7. ASSUME NEW t \in {FirstType, NoType}, NEW p \in {0, 1}, InitRefused(t, p) PROVE Goal
  BY <1>1, <1>7 DEF InitRefused
<1>8. ASSUME NEW t \in Type, NEW p \in {0, 1},
             InitItems(t, <<>>, p) \/ \E x \in Fits[t] : InitItems(t, <<x>>, p)
      PROVE  Goal
  BY <1>1, <1>8 DEF InitItems
<1>9. ASSUME Dealloc PROVE Goal
  BY <1>1, <1>9 DEF Dealloc
<1> HIDE DEF Goal
<1>10. ASSUME NEW p \in {0, 1},
              \/ \E t \in {FirstType, NoType} : InitRefused(t, p)
              \/ \E t \in Type :
                  \/ InitItems(t, <<>>, p)
                  \/ \E x \in Fits[t] : InitItems(t, <<x>>, p)
                  \/ \E c \in Caller : InitSequence(c, t, p)
       PROVE  Goal
  BY <1>3, <1>7, <1>8, <1>10
<1>11. ASSUME NEW c \in Caller, (\E x \in Number : InitNext(c, x)) \/ InitEnd(c) \/ InitFail(c)
       PROVE  Goal
  BY <1>4, <1>5, <1>6, <1>11
<1>12. Goal
  BY <1>9, <1>10, <1>11 DEF Construct
<1> QED
  BY <1>12 DEF Goal

\* What every step does to the iterators and the waiting calls.
LEMMA UseStep ==
  ASSUME UseInv, [Next]_vars
  PROVE  IterationIsExact' /\ WaitingInv' /\ \A c \in Caller : ReturnsWhole(c)
<1>1. UNCHANGED vars => UNCHANGED <<items, iters, calls>>
  BY DEF vars
<1> QED
  BY <1>1, Undisturbed, MethodsUse, BuffersUse, IteratorsUse, BulkUse, ConstructUse
     DEF Next, Undefined

\* The invariant that the iterators and the waiting calls rest on.
LEMMA UseHolds == Spec => []UseInv
<1>1. Init => IterationIsExact /\ WaitingInv
  <2> SUFFICES ASSUME Init PROVE IterationIsExact /\ WaitingInv
    OBVIOUS
  <2>1. \A k \in Iter : iters[k].fresh = FALSE
    BY DEF Init, NoIter
  <2>2. \A c \in Caller : calls[c].pc = "idle"
    BY DEF Init, Idle
  <2> QED
    BY <2>1, <2>2 DEF IterationIsExact, WaitingInv
<1>2. UseInv /\ IInv' /\ [Next]_vars => UseInv'
  BY UseStep DEF UseInv
<1>3. Init => UseInv
  BY <1>1, InitHolds DEF UseInv
<1> QED
  BY <1>2, <1>3, Inductive, PTL DEF Spec

-----------------------------------------------------------------------------
\* The items fit the vector's type and lie within the array, although
\* pointless_primvector_init and append_bulk let other code run between the
\* items that they append and __init__ may change the type meanwhile.
THEOREM TypeCorrect == Spec => []TypeOK
<1>1. IInv => TypeOK
  BY DEF IInv
<1> QED
  BY <1>1, Inductive, PTL

\* ob_exports counts the buffers held, the destructor finds none, and each
\* keeps memory of its size unless a failing __init__ has freed it.
THEOREM BuffersStayBacked == Spec => []ViewsStayBacked
<1>1. IInv => ViewsStayBacked
  BY DEF IInv
<1> QED
  BY <1>1, Inductive, PTL

\* An iterator, forward or reversed, that ran while nobody changed the items
\* has returned each of them once, in order, and ends only after the last.
THEOREM IterationHolds == Spec => []IterationIsExact
<1>1. UseInv => IterationIsExact
  BY DEF UseInv
<1> QED
  BY <1>1, UseHolds, PTL

\* An append_bulk that nobody interferes with appends all that its iterator
\* gave, or, when it raises, leaves the items as they were.
THEOREM BulkHolds == Spec => BulkIsAllOrNothing
<1>1. UseInv /\ [Next]_vars => [\A c \in Caller : ReturnsWhole(c)]_vars
  BY UseStep
<1> QED
  BY <1>1, UseHolds, PTL DEF Spec, BulkIsAllOrNothing
=============================================================================
