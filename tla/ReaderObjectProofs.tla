------------------------- MODULE ReaderObjectProofs -------------------------
(***************************************************************************)
(* Proofs about ReaderObject: for any files, threads, views, iterators and *)
(* buffers, reference counts are exact, a file that was opened once stays  *)
(* open for its views, calls of __init__ that do not overlap leak nothing, *)
(* and slices and iterators show what they should.                         *)
(***************************************************************************)
EXTENDS ReaderObject, FiniteSetTheorems, SequenceTheorems, WellFoundedInduction, TLAPS

ViewType == [refs : Nat, held : BOOLEAN, from : Nat, node : Container \cup {None},
             i : Nat, n : Nat, want : Seq(Nat)]
IterType == [view : View \cup {None}, vals : BOOLEAN, state : Nat, seen : Seq(Nat),
             raised : SUBSET Nat, rev : BOOLEAN]
BufferType == [view : View \cup {None}, from : Nat]
CallType == [pc : {"idle", "closing", "closed", "opening", "mapped", "opened", "failed"},
             src : Sources \cup {None}, file : File \cup {None}, lost : BOOLEAN]
MapType == [file : File, open : BOOLEAN]
Faults == {None, "null", "root unmapped", "view unmapped", "header unmapped",
           "source freed", "closed twice"}

\* What holds a view.
Viewed == {w \in View : ~Free(w)}
ItersOf(w) == {k \in Iter : iters[k].view = w}
BuffersOf(w) == {b \in Buffer : buffers[b].view = w}
One(held_) == IF held_ THEN 1 ELSE 0

-----------------------------------------------------------------------------
(* Numbers. *)

\* A reference counts for one or for none.
LEMMA OneType == \A h : One(h) \in {0, 1}
  BY DEF One

\* A set with one more member, and with one less.
LEMMA CountAdd ==
  ASSUME NEW S, IsFiniteSet(S), NEW x, x \notin S
  PROVE  Cardinality(S \cup {x}) = Cardinality(S) + 1 /\ IsFiniteSet(S \cup {x})
  BY FS_AddElement

\* A set with one less member.
LEMMA CountRemove ==
  ASSUME NEW S, IsFiniteSet(S), NEW x \in S
  PROVE  Cardinality(S \ {x}) = Cardinality(S) - 1 /\ IsFiniteSet(S \ {x})
  BY FS_RemoveElement

\* Sets of views and of threads are finite.
LEMMA PartsCounted ==
  ASSUME NEW S, S \subseteq View \/ S \subseteq Thread
  PROVE  Cardinality(S) \in Nat /\ (Cardinality(S) = 0 <=> S = {})
<1>1. IsFiniteSet(S)
  BY FiniteAssumption, FS_Subset
<1> QED
  BY <1>1, FS_CardinalityType, FS_EmptySet

\* The sets that are counted are finite.
LEMMA HoldersFinite ==
  /\ IsFiniteSet(Viewed) /\ IsFiniteSet(Calling)
  /\ \A w : IsFiniteSet(ItersOf(w)) /\ IsFiniteSet(BuffersOf(w))
<1>1. Viewed \subseteq View /\ Calling \subseteq Thread
  BY DEF Viewed, Calling
<1>2. \A w : ItersOf(w) \subseteq Iter /\ BuffersOf(w) \subseteq Buffer
  BY DEF ItersOf, BuffersOf
<1> QED
  BY <1>1, <1>2, FiniteAssumption, FS_Subset

\* So their numbers are natural numbers, and zero when there is nothing.
LEMMA HoldersCounted ==
  /\ Cardinality(Viewed) \in Nat /\ Cardinality(Calling) \in Nat
  /\ Cardinality(Viewed) = 0 <=> Viewed = {}
  /\ Cardinality(Calling) = 0 <=> Calling = {}
  /\ \A w : /\ Cardinality(ItersOf(w)) \in Nat /\ Cardinality(BuffersOf(w)) \in Nat
            /\ Cardinality(ItersOf(w)) = 0 <=> ItersOf(w) = {}
            /\ Cardinality(BuffersOf(w)) = 0 <=> BuffersOf(w) = {}
  BY HoldersFinite, FS_CardinalityType, FS_EmptySet

\* The counts, in terms of the holders.
LEMMA CountsByHolders ==
  CountsAreExact <=>
    /\ refs = One(held) + Cardinality(Viewed) + Cardinality(Calling)
    /\ \A w \in View : views[w].refs = One(views[w].held) + Cardinality(ItersOf(w)) + Cardinality(BuffersOf(w))
    /\ \A w \in View : views[w].refs = 0 => Free(w)
  BY DEF CountsAreExact, Viewed, Calling, ItersOf, BuffersOf, One

-----------------------------------------------------------------------------
(* Types. *)

\* The types of the variables, one by one.
LEMMA TypeParts ==
  ASSUME TypeOK
  PROVE  /\ views \in [View -> ViewType] /\ iters \in [Iter -> IterType]
         /\ buffers \in [Buffer -> BufferType] /\ calls \in [Thread -> CallType]
         /\ maps \in Seq(MapType) /\ fault \in Faults
         /\ refs \in Nat /\ held \in BOOLEAN /\ is_open \in BOOLEAN /\ inits \in Nat /\ overlap \in BOOLEAN
         /\ mem \in 0..Len(maps) /\ header \in 0..Len(maps)
  BY DEF TypeOK, ViewType, IterType, BufferType, CallType, MapType, Faults

\* The same, the other way round.
LEMMA TypeFromParts ==
  ASSUME views' \in [View -> ViewType], iters' \in [Iter -> IterType],
         buffers' \in [Buffer -> BufferType], calls' \in [Thread -> CallType],
         maps' \in Seq(MapType), fault' \in Faults,
         refs' \in Nat, held' \in BOOLEAN, is_open' \in BOOLEAN, inits' \in Nat, overlap' \in BOOLEAN,
         mem' \in 0..Len(maps'), header' \in 0..Len(maps')
  PROVE  TypeOK'
  BY DEF TypeOK, ViewType, IterType, BufferType, CallType, MapType, Faults

\* Views, iterators, buffers and calls that are not there.
LEMMA BlankTypes ==
  /\ NoView \in ViewType /\ NoIter \in IterType /\ NoBuffer \in BufferType /\ Idle \in CallType
  /\ NoView.refs = 0 /\ NoView.held = FALSE /\ NoIter.view = None /\ NoBuffer.view = None
  /\ Idle.pc = "idle"
  /\ NoIter.state = 0 /\ NoIter.seen = <<>> /\ NoIter.raised = {} /\ NoIter.rev = FALSE
<1>1. <<>> \in Seq(Nat)
  OBVIOUS
<1> QED
  BY <1>1 DEF NoView, NoIter, NoBuffer, Idle, ViewType, IterType, BufferType, CallType

\* Closing a file.
LEMMA CloseEffect ==
  ASSUME TypeOK, Close
  PROVE  /\ maps' \in Seq(MapType) /\ Len(maps') = Len(maps) /\ fault' \in Faults
         /\ \A m \in 1..Len(maps) : m # mem => maps'[m] = maps[m]
         /\ mem # 0 => maps'[mem].open = FALSE
         /\ mem = 0 \/ maps[mem].open => fault' = fault
<1>1. maps \in Seq(MapType) /\ fault \in Faults /\ mem \in 0..Len(maps)
  BY TypeParts
<1>2. CASE mem = 0
  BY <1>1, <1>2 DEF Close, Faults
<1>3. CASE mem # 0
  <2>1. mem \in 1..Len(maps)
    BY <1>1, <1>3
  <2>2. maps' = [maps EXCEPT ![mem] = [maps[mem] EXCEPT !.open = FALSE]]
    BY <1>3 DEF Close
  <2>3. maps[mem] \in MapType
    BY <1>1, <2>1
  <2>7. [maps[mem] EXCEPT !.open = FALSE] \in MapType
    BY <2>3 DEF MapType
  <2>4. maps' \in Seq(MapType) /\ Len(maps') = Len(maps)
    BY <1>1, <2>1, <2>2, <2>7
  <2>5. fault' \in Faults /\ (maps[mem].open => fault' = fault)
    BY <1>1, <1>3 DEF Close, Faults
  <2>6. maps'[mem].open = FALSE /\ \A m \in 1..Len(maps) : m # mem => maps'[m] = maps[m]
    BY <1>1, <2>1, <2>2, <2>3 DEF MapType
  <2> QED
    BY <1>3, <2>4, <2>5, <2>6
<1> QED
  BY <1>2, <1>3

-----------------------------------------------------------------------------
(* Counting. *)

\* A new view is held by the program alone, and holds the object.
LEMMA CountNewView ==
  ASSUME ReaderInv, NEW w \in View, Free(w), NEW v \in ViewType, v.refs = 1, v.held,
         views' = [views EXCEPT ![w] = v], refs' = refs + 1, held' = held, calls' = calls,
         \A k \in Iter : iters'[k].view = iters[k].view, buffers' = buffers
  PROVE  CountsAreExact'
<1>1. views \in [View -> ViewType] /\ TypeOK /\ CountsAreExact
  BY TypeParts DEF ReaderInv
<1>2. Viewed' = Viewed \cup {w} /\ w \notin Viewed
  <2>1. v # NoView
    BY BlankTypes
  <2> QED
    BY <1>1, <2>1 DEF Viewed, Free
<1>3. Cardinality(Viewed') = Cardinality(Viewed) + 1
  BY <1>2, HoldersFinite, CountAdd
<1>4. Calling' = Calling /\ \A x : ItersOf(x)' = ItersOf(x) /\ BuffersOf(x)' = BuffersOf(x)
  BY DEF Calling, ItersOf, BuffersOf
<1>5. refs' = One(held') + Cardinality(Viewed') + Cardinality(Calling')
  BY <1>1, <1>3, <1>4, CountsByHolders, HoldersCounted DEF One
<1>6. views[w].refs = 0 /\ views[w].held = FALSE
  BY BlankTypes DEF Free
<1>7. Cardinality(ItersOf(w)) = 0 /\ Cardinality(BuffersOf(w)) = 0
  BY <1>1, <1>6, CountsByHolders, HoldersCounted DEF One
<1>8. \A x \in View : views'[x].refs = One(views'[x].held) + Cardinality(ItersOf(x)') + Cardinality(BuffersOf(x)')
  <2> TAKE x \in View
  <2>1. CASE x = w
    BY <1>1, <1>4, <1>7, <2>1 DEF One
  <2>2. CASE x # w
    BY <1>1, <1>4, <2>2, CountsByHolders
  <2> QED
    BY <2>1, <2>2
<1>9. \A x \in View : views'[x].refs = 0 => Free(x)'
  BY <1>1, CountsByHolders DEF Free
<1> QED
  BY <1>5, <1>8, <1>9 DEF CountsAreExact, Viewed, Calling, ItersOf, BuffersOf, One

\* A view that was held and changes: its count is that of its holders, and the
\* object's falls when there are none left.
LEMMA CountViewChange ==
  ASSUME ReaderInv, NEW w \in View, ~Free(w), NEW x \in ViewType,
         views' = [views EXCEPT ![w] = x], held' = held, calls' = calls,
         \A u \in View \ {w} : ItersOf(u)' = ItersOf(u) /\ BuffersOf(u)' = BuffersOf(u),
         x.refs = One(x.held) + Cardinality(ItersOf(w)') + Cardinality(BuffersOf(w)'),
         x.refs = 0 => x = NoView,
         refs' = IF x = NoView THEN refs - 1 ELSE refs
  PROVE  CountsAreExact'
<1>1. views \in [View -> ViewType] /\ TypeOK /\ CountsAreExact
  BY TypeParts DEF ReaderInv
<1>2. Calling' = Calling
  BY DEF Calling
<1>3. refs' = One(held') + Cardinality(Viewed') + Cardinality(Calling')
  <2>1. CASE x = NoView
    <3>1. Viewed' = Viewed \ {w} /\ w \in Viewed
      BY <1>1, <2>1 DEF Viewed, Free
    <3>2. Cardinality(Viewed') = Cardinality(Viewed) - 1
      BY <3>1, HoldersFinite, CountRemove
    <3> QED
      BY <1>1, <1>2, <2>1, <3>2, CountsByHolders, HoldersCounted DEF One
  <2>2. CASE x # NoView
    <3>1. Viewed' = Viewed
      BY <1>1, <2>2 DEF Viewed, Free
    <3> QED
      BY <1>1, <1>2, <2>2, <3>1, CountsByHolders
  <2> QED
    BY <2>1, <2>2
<1>4. \A u \in View : views'[u].refs = One(views'[u].held) + Cardinality(ItersOf(u)') + Cardinality(BuffersOf(u)')
  <2> TAKE u \in View
  <2>1. CASE u = w
    BY <1>1, <2>1
  <2>2. CASE u # w
    BY <1>1, <2>2, CountsByHolders
  <2> QED
    BY <2>1, <2>2
<1>5. \A u \in View : views'[u].refs = 0 => Free(u)'
  BY <1>1, CountsByHolders DEF Free
<1> QED
  BY <1>3, <1>4, <1>5 DEF CountsAreExact, Viewed, Calling, ItersOf, BuffersOf, One

\* One reference more, or less, as records.
LEMMA MoreFewer ==
  ASSUME TypeOK, NEW w \in View, views[w].refs > 0
  PROVE  /\ More(w) \in ViewType /\ More(w).refs = views[w].refs + 1
         /\ Fewer(w) \in ViewType /\ Fewer(w).refs = views[w].refs - 1
         /\ Fewer(w) = NoView <=> views[w].refs = 1
         /\ views[w].refs = 1 => Fewer(w).held = FALSE
         /\ views[w].refs # 1 =>
              /\ Fewer(w).held = views[w].held /\ Fewer(w).from = views[w].from
              /\ Fewer(w).node = views[w].node /\ Fewer(w).i = views[w].i
              /\ Fewer(w).n = views[w].n /\ Fewer(w).want = views[w].want
         /\ More(w).held = views[w].held /\ More(w).from = views[w].from
         /\ More(w).node = views[w].node /\ More(w).i = views[w].i
         /\ More(w).n = views[w].n /\ More(w).want = views[w].want
<1>1. views[w] \in ViewType
  BY TypeParts
<1>2. More(w) \in ViewType /\ More(w) = [views[w] EXCEPT !.refs = @ + 1]
  BY SMTT(30), <1>1 DEF More, ViewType
<1>3. CASE views[w].refs = 1
  BY <1>1, <1>2, <1>3, BlankTypes DEF Fewer, ViewType
<1>4. CASE views[w].refs # 1
  <2>1. Fewer(w) = [views[w] EXCEPT !.refs = @ - 1]
    BY <1>4 DEF Fewer
  <2>2. Fewer(w) \in ViewType /\ Fewer(w).refs = views[w].refs - 1 /\ Fewer(w).refs # 0
    BY SMTT(30), <1>1, <1>4, <2>1 DEF ViewType
  <2> QED
    BY <1>1, <1>2, <1>4, <2>1, <2>2, BlankTypes DEF ViewType
<1> QED
  BY <1>3, <1>4

\* What is held is referred to.
LEMMA HeldIsCounted ==
  ASSUME ReaderInv, NEW w \in View
  PROVE  /\ views[w].held => views[w].refs > 0
         /\ \A k \in Iter : iters[k].view = w => views[w].refs > 0
         /\ \A b \in Buffer : buffers[b].view = w => views[w].refs > 0
         /\ views[w].refs > 0 <=> ~Free(w)
<1>1. /\ views[w] \in ViewType /\ CountsAreExact
  BY TypeParts DEF ReaderInv
<1>2. \A k \in Iter : iters[k].view = w => ItersOf(w) # {}
  BY DEF ItersOf
<1>3. \A b \in Buffer : buffers[b].view = w => BuffersOf(w) # {}
  BY DEF BuffersOf
<1>4. views[w].refs \in Nat
  BY <1>1 DEF ViewType
<1>5. views[w].refs = One(views[w].held) + Cardinality(ItersOf(w)) + Cardinality(BuffersOf(w))
  BY <1>1, CountsByHolders
<1>6. /\ Cardinality(ItersOf(w)) \in Nat /\ Cardinality(BuffersOf(w)) \in Nat
      /\ ItersOf(w) # {} => Cardinality(ItersOf(w)) # 0
      /\ BuffersOf(w) # {} => Cardinality(BuffersOf(w)) # 0
  BY HoldersCounted
<1>7. views[w].refs > 0 <=> ~Free(w)
  BY <1>1, <1>4, BlankTypes DEF CountsAreExact, Free
<1> QED
  BY <1>2, <1>3, <1>4, <1>5, <1>6, <1>7 DEF One

-----------------------------------------------------------------------------
(* What views and iterators show. *)

SameView(w) ==
    /\ views'[w].node = views[w].node /\ views'[w].i = views[w].i
    /\ views'[w].n = views[w].n /\ views'[w].want = views[w].want

\* Views that stay as they are show what they did.
LEMMA ViewsKept ==
  ASSUME ReaderInv, \A w \in View : ~Free(w)' => ~Free(w) /\ SameView(w)
  PROVE  ViewsInv' /\ ViewsShowSlices'
<1>1. ViewsInv /\ ViewsShowSlices
  BY DEF ReaderInv
<1> QED
  BY <1>1 DEF ViewsInv, ViewsShowSlices, SameView, IsVector, Positions

\* And so do iterators over them.
LEMMA ItersKept ==
  ASSUME ReaderInv,
         \A k \in Iter : iters'[k].view # None => iters'[k] = iters[k] /\ SameView(iters[k].view)
  PROVE  ItersInv' /\ IteratorsAreExact'
<1>1. ItersInv /\ IteratorsAreExact
  BY DEF ReaderInv
<1>2. ItersInv'
  BY <1>1 DEF ItersInv, SameView, IsVector
<1>3. IteratorsAreExact'
  BY <1>1 DEF IteratorsAreExact, SameView
<1> QED
  BY <1>2, <1>3

\* A view of a part of a container.
LEMMA NewViewType ==
  ASSUME TypeOK, NEW c \in Container, NEW i \in Nat, NEW n \in Nat
  PROVE  /\ NewView(c, i, n, Positions(i, n)) \in ViewType
         /\ Positions(i, n) \in Seq(Nat) /\ Len(Positions(i, n)) = n
<1>1. Positions(i, n) \in [1..n -> Nat]
  BY DEF Positions
<1>2. Positions(i, n) \in Seq(Nat) /\ Len(Positions(i, n)) = n
  BY <1>1
<1>3. header \in Nat
  BY TypeParts
<1> QED
  BY <1>2, <1>3 DEF NewView, ViewType

\* A new view that lies within its container shows what it should.
LEMMA ViewsGained ==
  ASSUME ReaderInv, NEW w \in View, NEW c \in Container, NEW i \in Nat, NEW n \in Nat,
         i + n <= Len(Cells[c]), ~IsVector(c) => i = 0 /\ n = Len(Cells[c]),
         views' = [views EXCEPT ![w] = NewView(c, i, n, Positions(i, n))]
  PROVE  ViewsInv' /\ ViewsShowSlices'
<1> DEFINE v == NewView(c, i, n, Positions(i, n))
<1>1. ViewsInv /\ ViewsShowSlices /\ views \in [View -> ViewType]
  BY TypeParts DEF ReaderInv
<1>2. v.node = c /\ v.i = i /\ v.n = n /\ v.want = Positions(i, n)
  BY DEF NewView
<1> HIDE DEF v
<1>3. \A u \in View : views'[u] = IF u = w THEN v ELSE views[u]
  BY <1>1 DEF v
<1>4. ViewsInv'
  BY <1>1, <1>2, <1>3 DEF ViewsInv, Free, IsVector
<1>5. ViewsShowSlices'
  BY <1>1, <1>2, <1>3 DEF ViewsShowSlices, Free, Positions
<1> QED
  BY <1>4, <1>5

\* Iterators are of other views than a new one.
LEMMA ItersUntouched ==
  ASSUME ReaderInv, NEW w \in View, Free(w), NEW v,
         views' = [views EXCEPT ![w] = v]
  PROVE  \A k \in Iter : iters[k].view # None => SameView(iters[k].view)
<1>1. views \in [View -> ViewType] /\ iters \in [Iter -> IterType]
  BY TypeParts DEF ReaderInv
<1>2. ASSUME NEW k \in Iter, iters[k].view # None PROVE SameView(iters[k].view)
  <2>1. iters[k].view \in View
    BY <1>1, <1>2 DEF IterType
  <2>2. iters[k].view # w
    BY <2>1, HeldIsCounted
  <2> QED
    BY <1>1, <2>1, <2>2 DEF SameView
<1> QED
  BY <1>2

-----------------------------------------------------------------------------
(* The object and its file. *)

\* Numbers that add up to none.
LEMMA SumOfNone == \A a \in {0, 1}, b \in Nat, c \in Nat : 0 = a + b + c => b = 0 /\ c = 0
  OBVIOUS

\* Without references there are no views and no calls.
LEMMA NobodyLeft ==
  ASSUME CountsAreExact', held' \in BOOLEAN, refs' = 0
  PROVE  Viewed' = {} /\ Calling' = {}
<1>1. Viewed' \subseteq View /\ Calling' \subseteq Thread
  BY DEF Viewed, Calling
<1>2. /\ Cardinality(Viewed') \in Nat /\ (Cardinality(Viewed') = 0 <=> Viewed' = {})
      /\ Cardinality(Calling') \in Nat /\ (Cardinality(Calling') = 0 <=> Calling' = {})
  BY <1>1, PartsCounted
<1>3. refs' = One(held') + Cardinality(Viewed') + Cardinality(Calling')
  BY DEF CountsAreExact, Viewed, Calling, One
<1>4. One(held') \in {0, 1}
  BY OneType
<1>5. Cardinality(Viewed') = 0 /\ Cardinality(Calling') = 0
  BY <1>2, <1>3, <1>4, SumOfNone
<1> QED
  BY <1>2, <1>5

\* While no reference is given up, and no call moves, what is so of the file
\* stays so, also for new views of the file that is open.
LEMMA FileKept ==
  ASSUME ReaderInv, UNCHANGED <<is_open, mem, header, maps, calls, inits, overlap>>,
         fault' \in Faults \ {"view unmapped", "closed twice", "header unmapped"},
         refs > 0 => refs' > 0,
         \A w \in View : ~Free(w)' => \/ ~Free(w) /\ views'[w].from = views[w].from
                                      \/ Live(header) /\ views'[w].from = header,
         \A b \in Buffer : buffers'[b].view # None => buffers'[b] = buffers[b] \/ buffers'[b].from = header
  PROVE  OnceInv' /\ ApartInv'
<1>1. OnceInv /\ ApartInv /\ refs \in Nat
  BY TypeParts DEF ReaderInv
<1>2. Calling' = Calling
  BY DEF Calling
<1>3. OnceInv'
  BY <1>1, <1>2 DEF OnceInv, Live
<1>4. ApartInv'
  BY <1>1, <1>2 DEF ApartInv, Live
<1> QED
  BY <1>3, <1>4

\* When the object is let go of, its file is closed if it is open, and nobody
\* is left to look at it.
LEMMA FileLetGo ==
  ASSUME ReaderInv, Defined, CountsAreExact', refs \in Nat \ {0},
         ObjectUnref(is_open) \/ UNCHANGED <<refs, is_open, maps, fault>>,
         UNCHANGED <<mem, header, calls, inits, overlap>>, held' \in BOOLEAN,
         \A w \in View : ~Free(w)' => ~Free(w) /\ views'[w].from = views[w].from,
         \A b \in Buffer : buffers'[b].view # None => buffers'[b] = buffers[b]
  PROVE  /\ OnceInv' /\ ApartInv'
         /\ maps' \in Seq(MapType) /\ Len(maps') = Len(maps) /\ fault' \in Faults
         /\ refs' \in Nat /\ is_open' \in BOOLEAN
<1>1. /\ OnceInv /\ ApartInv /\ TypeOK
      /\ fault \in Faults /\ maps \in Seq(MapType) /\ is_open \in BOOLEAN
      /\ mem \in 0..Len(maps) /\ header \in 0..Len(maps)
  BY TypeParts DEF ReaderInv
<1>2. Calling' = Calling
  BY DEF Calling
<1>3. fault = None /\ fault \notin {"view unmapped", "header unmapped", "closed twice"}
  BY DEF Defined, None
<1>4. CASE UNCHANGED <<refs, is_open, maps, fault>>
  <2>1. OnceInv'
    BY <1>1, <1>2, <1>4 DEF OnceInv, Live
  <2>2. ApartInv'
    BY <1>1, <1>2, <1>4 DEF ApartInv, Live
  <2> QED
    BY <1>1, <1>4, <2>1, <2>2
<1>5. CASE ObjectUnref(is_open) /\ ~(refs = 1 /\ is_open)
  <2>1. refs' = refs - 1 /\ UNCHANGED <<is_open, maps, fault>>
    BY <1>5 DEF ObjectUnref
  <2>2. OnceInv'
    BY <1>1, <1>2, <2>1 DEF OnceInv, Live
  <2>3. refs' = 0 => Calling = {} /\ ~is_open
    BY <1>2, <1>5, <2>1, NobodyLeft
  <2>5. refs' = 0 \/ refs' > 0
    BY <2>1
  <2>6. ~overlap => \A m \in 1..Len(maps) : maps[m].open => m = mem /\ refs' > 0
    <3>1. ASSUME ~overlap, refs' = 0 PROVE ~Live(mem)
      BY <1>1, <2>3, <3>1 DEF ApartInv
    <3>2. ASSUME ~overlap, NEW m \in 1..Len(maps), maps[m].open PROVE m = mem /\ Live(m)
      <4>1. m = mem
        BY <1>1, <3>2 DEF ApartInv
      <4>2. m # 0
        BY <3>2
      <4> QED
        BY <3>2, <4>1, <4>2 DEF Live
    <3> QED
      BY <2>5, <3>1, <3>2
  <2>4. ApartInv'
    BY <1>1, <1>2, <2>1, <2>6 DEF ApartInv, Live
  <2> QED
    BY <1>1, <2>1, <2>2, <2>4
<1>6. CASE ObjectUnref(is_open) /\ refs = 1 /\ is_open
  <2>1. refs' = 0 /\ Close /\ is_open' = FALSE
    BY <1>6 DEF ObjectUnref
  <2>2. Viewed' = {} /\ Calling = {}
    BY <1>2, <2>1, NobodyLeft
  <2>3. /\ maps' \in Seq(MapType) /\ Len(maps') = Len(maps) /\ fault' \in Faults
        /\ \A m \in 1..Len(maps) : m # mem => maps'[m] = maps[m]
        /\ mem # 0 => maps'[mem].open = FALSE
        /\ mem = 0 \/ maps[mem].open => fault' = fault
    BY <1>1, <2>1, CloseEffect
  <2>4. ~overlap => fault' = fault
    BY <1>1, <1>6, <2>2, <2>3 DEF ApartInv, Live
  <2>5. OnceInv'
    BY <1>1, <1>2, <1>3, <1>6, <2>1, <2>2, <2>3, <2>4 DEF OnceInv, Viewed
  <2>6. ApartInv'
    BY <1>1, <1>2, <1>3, <1>6, <2>1, <2>2, <2>3, <2>4 DEF ApartInv, Live
  <2> QED
    BY <2>1, <2>3, <2>5, <2>6
<1> QED
  BY <1>4, <1>5, <1>6

-----------------------------------------------------------------------------
(* What the steps have in common. *)

\* All of the invariant but what is said of iterators.
RestInv ==
    /\ TypeOK /\ CountsAreExact /\ CallInv /\ OnceInv /\ ApartInv
    /\ ViewsInv /\ ViewsShowSlices

\* ReaderInv from its parts.
LEMMA AllParts ==
  (RestInv' /\ ItersInv' /\ IteratorsAreExact') => ReaderInv'
  BY DEF RestInv, ReaderInv

\* A view holds the object, and so does a call.
LEMMA HeldObject ==
  ASSUME ReaderInv
  PROVE  /\ \A w \in View : views[w].refs > 0 => refs > 0
         /\ \A t \in Thread : calls[t] # Idle => refs > 0
         /\ held => refs > 0
         /\ refs \in Nat
<1>1. CountsAreExact /\ refs \in Nat /\ held \in BOOLEAN
  BY TypeParts DEF ReaderInv
<1>2. refs = One(held) + Cardinality(Viewed) + Cardinality(Calling)
  BY <1>1, CountsByHolders
<1>3. \A w \in View : views[w].refs > 0 => Viewed # {}
  BY HeldIsCounted DEF Viewed
<1>4. \A t \in Thread : calls[t] # Idle => Calling # {}
  BY DEF Calling
<1>5. held => One(held) = 1
  BY DEF One
<1>6. One(held) \in {0, 1}
  BY OneType
<1>7. /\ Cardinality(Viewed) \in Nat /\ Cardinality(Calling) \in Nat
      /\ Viewed # {} => Cardinality(Viewed) # 0
      /\ Calling # {} => Cardinality(Calling) # 0
  BY HoldersCounted
<1>8. Viewed # {} \/ Calling # {} \/ held => refs > 0
  BY <1>2, <1>5, <1>6, <1>7
<1> QED
  BY <1>1, <1>3, <1>4, <1>8

\* A step that makes a view of what is open.
LEMMA ViewMade ==
  ASSUME ReaderInv, Defined, NEW w \in View, Free(w), Live(header),
         NEW c \in Container, NEW i \in Nat, NEW n \in Nat,
         i + n <= Len(Cells[c]), ~IsVector(c) => i = 0 /\ n = Len(Cells[c]),
         views' = [views EXCEPT ![w] = NewView(c, i, n, Positions(i, n))], refs' = refs + 1,
         UNCHANGED <<held, is_open, mem, header, maps, buffers, callvars, fault>>,
         iters' \in [Iter -> IterType], \A k \in Iter : iters'[k].view = iters[k].view
  PROVE  /\ RestInv'
         /\ \A k \in Iter : iters[k].view # None => SameView(iters[k].view)
<1> DEFINE v == NewView(c, i, n, Positions(i, n))
<1>1. /\ TypeOK /\ CallInv /\ views \in [View -> ViewType] /\ refs \in Nat
      /\ buffers \in [Buffer -> BufferType] /\ calls \in [Thread -> CallType]
      /\ maps \in Seq(MapType) /\ fault \in Faults
      /\ held \in BOOLEAN /\ is_open \in BOOLEAN /\ inits \in Nat /\ overlap \in BOOLEAN
      /\ mem \in 0..Len(maps) /\ header \in 0..Len(maps)
  BY TypeParts DEF ReaderInv
<1>2. v \in ViewType /\ v.refs = 1 /\ v.held /\ v.from = header
  BY <1>1, NewViewType DEF NewView
<1>3. views' = [views EXCEPT ![w] = v]
  OBVIOUS
<1> HIDE DEF v
<1>4. UNCHANGED <<held, is_open, mem, header, maps, buffers, calls, inits, overlap, fault>>
  BY DEF callvars
<1>5. views' \in [View -> ViewType]
  BY <1>1, <1>2, <1>3
<1>6. TypeOK'
  BY <1>1, <1>4, <1>5, TypeFromParts
<1>7. CountsAreExact'
  BY <1>2, <1>3, <1>4, CountNewView
<1>8. \A u \in View : ~Free(u)' => \/ ~Free(u) /\ views'[u].from = views[u].from
                                   \/ Live(header) /\ views'[u].from = header
  BY <1>1, <1>2, <1>3 DEF Free
<1>9. fault' \in Faults \ {"view unmapped", "closed twice", "header unmapped"}
  BY <1>1, <1>4 DEF Defined, None
<1>14. \A b \in Buffer : buffers'[b].view # None => buffers'[b] = buffers[b] \/ buffers'[b].from = header
  BY <1>4
<1>15. refs > 0 => refs' > 0
  BY <1>1
<1>10. OnceInv' /\ ApartInv'
  BY <1>4, <1>8, <1>9, <1>14, <1>15, FileKept
<1>11. ViewsInv' /\ ViewsShowSlices'
  BY ViewsGained
<1>12. CallInv'
  BY <1>1, <1>4 DEF CallInv
<1>13. \A k \in Iter : iters[k].view # None => SameView(iters[k].view)
  BY <1>3, ItersUntouched
<1> QED
  BY <1>6, <1>7, <1>10, <1>11, <1>12, <1>13 DEF RestInv

\* A view that is taken hold of by an iterator or a buffer.
LEMMA ViewTaken ==
  ASSUME ReaderInv, Defined, NEW w \in View, views[w].refs > 0,
         views' = [views EXCEPT ![w] = More(w)],
         UNCHANGED <<objvars, callvars, fault>>,
         iters' \in [Iter -> IterType], buffers' \in [Buffer -> BufferType],
         \A u \in View \ {w} : ItersOf(u)' = ItersOf(u) /\ BuffersOf(u)' = BuffersOf(u),
         Cardinality(ItersOf(w)') + Cardinality(BuffersOf(w)')
           = Cardinality(ItersOf(w)) + Cardinality(BuffersOf(w)) + 1,
         Cardinality(ItersOf(w)') \in Nat, Cardinality(BuffersOf(w)') \in Nat,
         \A b \in Buffer : buffers'[b].view # None => buffers'[b] = buffers[b] \/ buffers'[b].from = header
  PROVE  RestInv' /\ \A u \in View : SameView(u)
<1> DEFINE x == More(w)
<1>1. /\ TypeOK /\ CallInv /\ CountsAreExact /\ views \in [View -> ViewType] /\ refs \in Nat
      /\ buffers \in [Buffer -> BufferType] /\ calls \in [Thread -> CallType]
      /\ maps \in Seq(MapType) /\ fault \in Faults
      /\ held \in BOOLEAN /\ is_open \in BOOLEAN /\ inits \in Nat /\ overlap \in BOOLEAN
      /\ mem \in 0..Len(maps) /\ header \in 0..Len(maps)
  BY TypeParts DEF ReaderInv
<1>2. /\ x \in ViewType /\ x.refs = views[w].refs + 1 /\ x.held = views[w].held
      /\ x.from = views[w].from /\ x.node = views[w].node /\ x.i = views[w].i
      /\ x.n = views[w].n /\ x.want = views[w].want
  BY <1>1, MoreFewer
<1>3. views' = [views EXCEPT ![w] = x]
  OBVIOUS
<1> HIDE DEF x
<1>4. UNCHANGED <<refs, held, is_open, mem, header, maps, calls, inits, overlap, fault>>
  BY DEF objvars, callvars
<1>5. views' \in [View -> ViewType]
  BY <1>1, <1>2, <1>3
<1>6. TypeOK'
  BY <1>1, <1>4, <1>5, TypeFromParts
<1>7. ~Free(w) /\ views[w].refs \in Nat
  BY <1>1, HeldIsCounted DEF ViewType
<1>8. CountsAreExact'
  <2>1. views[w].refs = One(views[w].held) + Cardinality(ItersOf(w)) + Cardinality(BuffersOf(w))
    BY <1>1, CountsByHolders
  <2>2. One(views[w].held) \in {0, 1} /\ One(x.held) = One(views[w].held)
    BY <1>2, OneType
  <2>3. Cardinality(ItersOf(w)) \in Nat /\ Cardinality(BuffersOf(w)) \in Nat
    BY HoldersCounted
  <2>4. x.refs = One(x.held) + Cardinality(ItersOf(w)') + Cardinality(BuffersOf(w)')
    BY <1>2, <2>1, <2>2, <2>3
  <2>5. x.refs # 0 /\ x # NoView
    BY <1>2, <1>7, BlankTypes
  <2> QED
    BY <1>2, <1>3, <1>4, <1>7, <2>4, <2>5, CountViewChange
<1>9. \A u \in View : SameView(u) /\ views'[u].from = views[u].from /\ (~Free(u)' => ~Free(u))
  BY <1>1, <1>2, <1>3, <1>7 DEF SameView, Free
<1>10. fault' \in Faults \ {"view unmapped", "closed twice", "header unmapped"}
  BY <1>1, <1>4 DEF Defined, None
<1>11. OnceInv' /\ ApartInv'
  BY <1>1, <1>4, <1>9, <1>10, FileKept
<1>12. ViewsInv' /\ ViewsShowSlices'
  BY <1>9, ViewsKept
<1>13. CallInv'
  BY <1>1, <1>4 DEF CallInv
<1> QED
  BY <1>6, <1>8, <1>9, <1>11, <1>12, <1>13 DEF RestInv

\* A view that is let go of by the program, an iterator or a buffer.
LEMMA ViewLetGo ==
  ASSUME ReaderInv, Defined, NEW w \in View, views[w].refs > 0, NEW x \in ViewType,
         x.refs = views[w].refs - 1, views[w].refs = 1 => x = NoView,
         views[w].refs # 1 =>
           /\ x.from = views[w].from /\ x.node = views[w].node /\ x.i = views[w].i
           /\ x.n = views[w].n /\ x.want = views[w].want,
         views' = [views EXCEPT ![w] = x], ViewUnref(w),
         UNCHANGED <<held, mem, header, callvars>>,
         iters' \in [Iter -> IterType], buffers' \in [Buffer -> BufferType],
         \A u \in View \ {w} : ItersOf(u)' = ItersOf(u) /\ BuffersOf(u)' = BuffersOf(u),
         x.refs = One(x.held) + Cardinality(ItersOf(w)') + Cardinality(BuffersOf(w)'),
         \A k \in Iter : iters'[k].view # None => iters'[k] = iters[k],
         \A b \in Buffer : buffers'[b].view # None => buffers'[b] = buffers[b]
  PROVE  ReaderInv'
<1>1. /\ TypeOK /\ CallInv /\ CountsAreExact /\ views \in [View -> ViewType] /\ refs \in Nat
      /\ calls \in [Thread -> CallType] /\ iters \in [Iter -> IterType]
      /\ held \in BOOLEAN /\ inits \in Nat /\ overlap \in BOOLEAN
      /\ mem \in 0..Len(maps) /\ header \in 0..Len(maps)
  BY TypeParts DEF ReaderInv
<1>2. UNCHANGED <<held, mem, header, calls, inits, overlap>>
  BY DEF callvars
<1>3. ~Free(w) /\ views[w].refs \in Nat
  BY <1>1, HeldIsCounted DEF ViewType
<1>4. x = NoView <=> views[w].refs = 1
  BY <1>3, BlankTypes
<1>5. refs' = IF x = NoView THEN refs - 1 ELSE refs
  BY <1>4 DEF ViewUnref, ObjectUnref
<1>6. x.refs = 0 => x = NoView
  BY <1>3
<1>7. CountsAreExact'
  BY <1>2, <1>3, <1>5, <1>6, CountViewChange
<1>8. ObjectUnref(is_open) \/ UNCHANGED <<refs, is_open, maps, fault>>
  BY DEF ViewUnref
<1>9. refs \in Nat \ {0}
  BY HeldObject
<1>10. \A u \in View : ~Free(u)' => ~Free(u) /\ views'[u].from = views[u].from /\ SameView(u)
  BY <1>1, <1>3, <1>4 DEF SameView, Free
<1>11. /\ OnceInv' /\ ApartInv'
       /\ maps' \in Seq(MapType) /\ Len(maps') = Len(maps) /\ fault' \in Faults
       /\ refs' \in Nat /\ is_open' \in BOOLEAN
  BY <1>1, <1>2, <1>7, <1>8, <1>9, <1>10, FileLetGo
<1>12. views' \in [View -> ViewType]
  BY <1>1
<1>13. TypeOK'
  BY <1>1, <1>2, <1>11, <1>12, TypeFromParts
<1>14. ViewsInv' /\ ViewsShowSlices'
  BY <1>10, ViewsKept
<1>15. \A k \in Iter : iters'[k].view # None => iters'[k] = iters[k] /\ SameView(iters[k].view)
  <2> SUFFICES ASSUME NEW k \in Iter, iters'[k].view # None PROVE SameView(iters[k].view)
    OBVIOUS
  <2>1. iters[k].view \in View /\ iters'[k].view = iters[k].view
    BY <1>1 DEF IterType
  <2>2. ItersOf(iters[k].view)' # {}
    BY <2>1 DEF ItersOf
  <2>3. CASE iters[k].view # w
    BY <1>1, <2>1, <2>3 DEF SameView
  <2>4. CASE iters[k].view = w
    <3>1. ItersOf(w)' \subseteq Iter /\ BuffersOf(w)' \subseteq Buffer
      BY DEF ItersOf, BuffersOf
    <3>2. IsFiniteSet(ItersOf(w)') /\ IsFiniteSet(BuffersOf(w)')
      BY <3>1, FiniteAssumption, FS_Subset
    <3>3. Cardinality(ItersOf(w)') \in Nat /\ Cardinality(ItersOf(w)') # 0 /\ Cardinality(BuffersOf(w)') \in Nat
      BY <2>2, <2>4, <3>2, FS_CardinalityType, FS_EmptySet
    <3>4. One(x.held) \in {0, 1}
      BY OneType
    <3>5. views[w].refs # 1
      BY <1>3, <3>3, <3>4
    <3> QED
      BY <1>1, <2>4, <3>5 DEF SameView
  <2> QED
    BY <2>3, <2>4
<1>16. ItersInv' /\ IteratorsAreExact'
  BY <1>15, ItersKept
<1>17. CallInv'
  BY <1>1, <1>2 DEF CallInv
<1> QED
  BY <1>7, <1>11, <1>13, <1>14, <1>16, <1>17 DEF ReaderInv

-----------------------------------------------------------------------------
(* Steps on views. *)

\* Iterators that stay as they are, over views that do.
LEMMA ItersStay ==
  ASSUME ReaderInv, RestInv', iters' = iters,
         \A k \in Iter : iters[k].view # None => SameView(iters[k].view)
  PROVE  ReaderInv'
<1>1. ItersInv' /\ IteratorsAreExact'
  BY ItersKept
<1> QED
  BY <1>1, AllParts

\* A view of a whole container.
LEMMA WholeMade ==
  ASSUME ReaderInv, Defined, NEW w \in View, Free(w), Live(header), NEW c \in Container,
         views' = [views EXCEPT ![w] = Whole(c)], refs' = refs + 1,
         UNCHANGED <<held, is_open, mem, header, maps, buffers, callvars, fault>>,
         iters' \in [Iter -> IterType], \A k \in Iter : iters'[k].view = iters[k].view
  PROVE  /\ RestInv'
         /\ \A k \in Iter : iters[k].view # None => SameView(iters[k].view)
<1>1. Len(Cells[c]) \in Nat
  BY FileAssumption
<1>2. views' = [views EXCEPT ![w] = NewView(c, 0, Len(Cells[c]), Positions(0, Len(Cells[c])))]
  BY DEF Whole
<1>3. 0 \in Nat /\ 0 + Len(Cells[c]) <= Len(Cells[c]) /\ (~IsVector(c) => 0 = 0 /\ Len(Cells[c]) = Len(Cells[c]))
  BY <1>1
<1> QED
  BY <1>1, <1>2, <1>3, ViewMade

\* Undefined behaviour that says nothing of files that were opened once.
LEMMA FaultMet ==
  ASSUME ReaderInv, UNCHANGED <<objvars, views, iters, buffers, callvars>>,
         fault' \in Faults, fault' # "closed twice",
         inits <= 1 => fault' \notin {"view unmapped", "header unmapped"}
  PROVE  ReaderInv'
<1>1. UNCHANGED <<refs, held, is_open, mem, header, maps, views, iters, buffers, calls, inits, overlap>>
  BY DEF objvars, callvars
<1>2. /\ TypeOK /\ CountsAreExact /\ CallInv /\ OnceInv /\ ApartInv
      /\ ViewsInv /\ ItersInv /\ ViewsShowSlices /\ IteratorsAreExact
  BY DEF ReaderInv
<1>3. TypeOK'
  BY <1>1, <1>2 DEF TypeOK, Faults
<1>4. CountsAreExact' /\ CallInv'
  BY <1>1, <1>2 DEF CountsAreExact, CallInv, Free
<1>5. OnceInv' /\ ApartInv'
  BY <1>1, <1>2 DEF OnceInv, ApartInv, Calling, Free, Live
<1>6. ViewsInv' /\ ItersInv'
  BY <1>1, <1>2 DEF ViewsInv, ItersInv, Free
<1>7. ViewsShowSlices' /\ IteratorsAreExact'
  BY <1>1, <1>2 DEF ViewsShowSlices, IteratorsAreExact, Free, Positions
<1> QED
  BY <1>3, <1>4, <1>5, <1>6, <1>7 DEF ReaderInv

\* While __init__ has run only once, what is viewed is there.
LEMMA ViewedIsBacked ==
  ASSUME ReaderInv, inits <= 1, NEW w \in View, views[w].refs > 0
  PROVE  Backed(w)
<1>1. ~Free(w) /\ OnceInv
  BY HeldIsCounted DEF ReaderInv
<1> QED
  BY <1>1 DEF OnceInv, Backed

\* get_root, which hands out a view of the root.
LEMMA GetRootStep ==
  ASSUME ReaderInv, NEW w \in View, GetRoot(w)
  PROVE  ReaderInv'
<1>1. /\ maps \in Seq(MapType) /\ header \in 0..Len(maps) /\ iters \in [Iter -> IterType]
      /\ TypeOK
  BY TypeParts DEF ReaderInv
<1>2. CASE Live(header)
  <2>1. header \in 1..Len(maps)
    BY <1>1, <1>2 DEF Live
  <2>2. maps[header].file \in File
    <3>1. maps[header] \in MapType
      BY <1>1, <2>1
    <3> QED
      BY <3>1 DEF MapType
  <2>3. Root[maps[header].file] \in Container
    BY <2>2, FileAssumption
  <2>4. RestInv' /\ \A k \in Iter : iters[k].view # None => SameView(iters[k].view)
    BY <1>1, <1>2, <2>3, WholeMade DEF GetRoot
  <2> QED
    BY <2>4, ItersStay DEF GetRoot
<1>3. CASE ~Live(header)
  <2>1. /\ UNCHANGED <<objvars, views, iters, buffers, callvars>>
        /\ fault' \in {"null", "root unmapped"}
    BY <1>3 DEF GetRoot, objvars
  <2> QED
    BY <2>1, FaultMet DEF Faults
<1> QED
  BY <1>2, <1>3

\* A view that is not backed is not read, since every view is backed.
LEMMA ReadUnbackedStep ==
  ASSUME ReaderInv, NEW w \in View, ReadUnbacked(w)
  PROVE  ReaderInv'
<1>1. ~(inits <= 1)
  BY ViewedIsBacked, HeldIsCounted DEF ReadUnbacked
<1> QED
  BY <1>1, FaultMet DEF ReadUnbacked, Faults

\* No view is made.
LEMMA NothingViewed ==
  ASSUME ReaderInv, Defined,
         UNCHANGED <<views, refs, held, is_open, mem, header, maps, buffers, callvars, fault>>,
         iters' \in [Iter -> IterType], \A k \in Iter : iters'[k].view = iters[k].view
  PROVE  RestInv'
<1>1. UNCHANGED <<views, refs, held, is_open, mem, header, maps, buffers, calls, inits, overlap, fault>>
  BY DEF callvars
<1>2. /\ TypeOK /\ CountsAreExact /\ CallInv /\ OnceInv /\ ApartInv
      /\ ViewsInv /\ ViewsShowSlices
  BY DEF ReaderInv
<1>3. TypeOK'
  BY <1>1, <1>2 DEF TypeOK, IterType
<1>4. CountsAreExact' /\ CallInv'
  <2>1. \A u : {k \in Iter : iters'[k].view = u} = {k \in Iter : iters[k].view = u}
    OBVIOUS
  <2> QED
    BY <1>1, <1>2, <2>1 DEF CountsAreExact, CallInv, Free
<1>5. OnceInv' /\ ApartInv'
  <2>1. fault' \in Faults \ {"view unmapped", "closed twice", "header unmapped"}
    BY <1>1, <1>2, TypeParts DEF Defined, None
  <2>2. \A u \in View : ~Free(u)' => ~Free(u) /\ views'[u].from = views[u].from
    BY <1>1 DEF Free
  <2>3. \A b \in Buffer : buffers'[b].view # None => buffers'[b] = buffers[b]
    BY <1>1
  <2>4. refs > 0 => refs' > 0
    BY <1>1
  <2> QED
    BY <1>1, <2>1, <2>2, <2>3, <2>4, FileKept
<1>6. ViewsInv' /\ ViewsShowSlices'
  BY <1>1, ViewsKept DEF SameView, Free
<1> QED
  BY <1>1, <1>3, <1>4, <1>5, <1>6 DEF RestInv

\* A container that is returned becomes a view.
LEMMA KeepStep ==
  ASSUME ReaderInv, Defined, Live(header), NEW x, NEW w \in View \cup {None}, Keep(x, w),
         UNCHANGED <<held, is_open, mem, header, maps, buffers, callvars, fault>>,
         iters' \in [Iter -> IterType], \A k \in Iter : iters'[k].view = iters[k].view
  PROVE  /\ RestInv'
         /\ \A k \in Iter : iters[k].view # None => SameView(iters[k].view)
<1>1. CASE x \in Container /\ w \in View
  BY <1>1, WholeMade DEF Keep
<1>2. CASE ~(x \in Container /\ w \in View)
  <2>1. UNCHANGED <<views, refs, held, is_open, mem, header, maps, buffers, callvars, fault>>
    BY <1>2 DEF Keep
  <2> QED
    BY <2>1, NothingViewed DEF SameView
<1> QED
  BY <1>1, <1>2

\* Indexing a view.
LEMMA SubscriptStep ==
  ASSUME ReaderInv, NEW w \in View, NEW i \in Index, NEW new \in View, Subscript(w, i, new)
  PROVE  ReaderInv'
<1>1. iters \in [Iter -> IterType]
  BY TypeParts DEF ReaderInv
<1>2. Defined /\ Live(header) /\ iters' = iters
  BY DEF Subscript, Backed
<1>3. PICK x : Keep(x, new)
  BY DEF Subscript
<1>4. UNCHANGED <<held, is_open, mem, header, maps, buffers, callvars, fault>>
  BY DEF Subscript
<1>5. RestInv' /\ \A k \in Iter : iters[k].view # None => SameView(iters[k].view)
  BY <1>1, <1>2, <1>3, <1>4, KeepStep
<1> QED
  BY <1>2, <1>5, ItersStay

\* Looking a key up in a map.
LEMMA MapSubscriptStep ==
  ASSUME ReaderInv, NEW w \in View, NEW key \in Index, NEW new \in View, MapSubscript(w, key, new)
  PROVE  ReaderInv'
<1>1. iters \in [Iter -> IterType]
  BY TypeParts DEF ReaderInv
<1>2. Defined /\ Live(header) /\ iters' = iters
  BY DEF MapSubscript, Backed
<1>3. PICK x : Keep(x, new)
  BY DEF MapSubscript
<1>4. UNCHANGED <<held, is_open, mem, header, maps, buffers, callvars, fault>>
  BY DEF MapSubscript
<1>5. RestInv' /\ \A k \in Iter : iters[k].view # None => SameView(iters[k].view)
  BY <1>1, <1>2, <1>3, <1>4, KeepStep
<1> QED
  BY <1>2, <1>5, ItersStay

\* The part of a view between two bounds that are within it shows the
\* positions that Python's slice of it has.
LEMMA SliceShows ==
  ASSUME NEW n \in Nat, NEW i \in Nat, NEW lo \in 0..n, NEW hi \in 0..n
  PROVE  SubSeq(Positions(i, n), lo + 1, hi) = Positions(i + lo, IF hi < lo THEN 0 ELSE hi - lo)
<1> DEFINE s == Positions(i, n)
           m == IF hi < lo THEN 0 ELSE hi - lo
<1>1. s \in Seq(Nat) /\ Len(s) = n
  <2>1. s \in [1..n -> Nat]
    BY DEF Positions
  <2> QED
    BY <2>1
<1>2. m \in Nat
  OBVIOUS
<1>3. /\ Len(SubSeq(s, lo + 1, hi)) = m
      /\ \A j \in 1..m : SubSeq(s, lo + 1, hi)[j] = s[lo + j]
      /\ SubSeq(s, lo + 1, hi) \in Seq(Nat)
  <2>1. CASE hi < lo
    <3>1. SubSeq(s, lo + 1, hi) = <<>>
      BY <1>1, <2>1
    <3> QED
      BY <2>1, <3>1
  <2>2. CASE hi >= lo
    <3>1. lo + 1 \in 1..Len(s) + 1 /\ hi \in lo..Len(s)
      BY <1>1, <2>2
    <3> QED
      BY <1>1, <2>2, <3>1, SubSeqProperties
  <2> QED
    BY <2>1, <2>2
<1>4. \A j \in 1..m : s[lo + j] = i + lo + j
  BY DEF Positions
<1>5. SubSeq(s, lo + 1, hi) = [j \in 1..m |-> SubSeq(s, lo + 1, hi)[j]]
  BY <1>2, <1>3
<1>6. SubSeq(s, lo + 1, hi) = [j \in 1..m |-> i + lo + j]
  BY <1>3, <1>4, <1>5
<1> QED
  BY <1>6 DEF Positions

\* A slice's bound is brought into range.
LEMMA ClipRange ==
  ASSUME NEW x \in Int, NEW n \in Nat
  PROVE  Clip(x, n) \in 0..n
  BY DEF Clip

\* Slicing a view.
LEMMA SliceStep ==
  ASSUME ReaderInv, NEW w \in View, NEW lo \in Index, NEW hi \in Index, NEW new \in View,
         Slice(w, lo, hi, new)
  PROVE  ReaderInv'
<1> DEFINE n == views[w].n
           l == Clip(lo, n)
           h == Clip(hi, n)
           m == IF h < l THEN 0 ELSE h - l
           i == views[w].i + l
           c == views[w].node
<1>1. /\ views \in [View -> ViewType] /\ iters \in [Iter -> IterType] /\ ViewsInv /\ ViewsShowSlices
  BY TypeParts DEF ReaderInv
<1>2. n \in Nat /\ views[w].i \in Nat
  BY <1>1 DEF ViewType
<1>3. l \in 0..n /\ h \in 0..n
  BY <1>2, ClipRange, ReaderBounds
<1>4. ~Free(w)
  BY HeldIsCounted DEF Slice
<1>5. Between(w, l, h).i = i /\ Between(w, l, h).n = m
  BY <1>2, <1>3 DEF Between
<1>6. views[w].want = Positions(views[w].i, n)
  BY <1>1, <1>4 DEF ViewsShowSlices
<1>7. SubSeq(views[w].want, l + 1, h) = Positions(i, m)
  <2> HIDE DEF n, l, h
  <2>1. SubSeq(Positions(views[w].i, n), l + 1, h) = Positions(views[w].i + l, IF h < l THEN 0 ELSE h - l)
    BY <1>2, <1>3, SliceShows
  <2> QED
    BY <1>6, <2>1
<1>8. c \in Container
  BY <1>1, <1>4 DEF ViewsInv
<1>9. i \in Nat /\ m \in Nat
  BY <1>2, <1>3
<1>10. /\ Defined /\ IsVector(c) /\ Free(new) /\ Live(header)
       /\ Between(w, l, h).i + Between(w, l, h).n <= Len(Cells[c])
       /\ views' = [views EXCEPT ![new] = NewView(c, Between(w, l, h).i, Between(w, l, h).n,
                                                  SubSeq(views[w].want, l + 1, h))]
       /\ refs' = refs + 1 /\ iters' = iters
       /\ UNCHANGED <<held, is_open, mem, header, maps, buffers, callvars, fault>>
  BY DEF Slice, Backed
<1> HIDE DEF n, l, h, m, i, c
<1>11. /\ i + m <= Len(Cells[c])
       /\ views' = [views EXCEPT ![new] = NewView(c, i, m, Positions(i, m))]
  BY <1>5, <1>7, <1>10
<1>12. RestInv' /\ \A k \in Iter : iters[k].view # None => SameView(iters[k].view)
  BY <1>1, <1>8, <1>9, <1>10, <1>11, ViewMade
<1> QED
  BY <1>10, <1>12, ItersStay

\* The last reference to a view goes.
LEMMA DropViewStep ==
  ASSUME ReaderInv, NEW w \in View, DropView(w)
  PROVE  ReaderInv'
<1> DEFINE x == [Fewer(w) EXCEPT !.held = FALSE]
<1>1. /\ TypeOK /\ CountsAreExact /\ views \in [View -> ViewType] /\ iters \in [Iter -> IterType]
      /\ buffers \in [Buffer -> BufferType]
  BY TypeParts DEF ReaderInv
<1>2. views[w].held /\ views[w].refs > 0 /\ views[w].refs \in Nat
  BY <1>1, HeldIsCounted DEF DropView, ViewType
<1>3. Fewer(w) \in ViewType /\ (views[w].refs = 1 => Fewer(w) = NoView)
  BY <1>1, <1>2, MoreFewer
<1>4. /\ x \in ViewType /\ x.refs = Fewer(w).refs /\ x.held = FALSE /\ x.from = Fewer(w).from
      /\ x.node = Fewer(w).node /\ x.i = Fewer(w).i /\ x.n = Fewer(w).n /\ x.want = Fewer(w).want
  BY <1>3 DEF ViewType
<1>5. views[w].refs = 1 => x = NoView
  <2>1. NoView \in ViewType /\ NoView.held = FALSE
    BY BlankTypes
  <2>2. [NoView EXCEPT !.held = FALSE] = NoView
    BY <2>1 DEF ViewType
  <2> QED
    BY <1>3, <2>2
<1>6. views' = [views EXCEPT ![w] = x]
  BY DEF DropView
<1> HIDE DEF x
<1>7. /\ ItersOf(w)' = ItersOf(w) /\ BuffersOf(w)' = BuffersOf(w)
      /\ \A u \in View \ {w} : ItersOf(u)' = ItersOf(u) /\ BuffersOf(u)' = BuffersOf(u)
  BY DEF ItersOf, BuffersOf, DropView
<1>8. x.refs = views[w].refs - 1
  BY <1>1, <1>2, <1>4, MoreFewer
<1>9. x.refs = One(x.held) + Cardinality(ItersOf(w)') + Cardinality(BuffersOf(w)')
  <2>1. views[w].refs = 1 + Cardinality(ItersOf(w)) + Cardinality(BuffersOf(w))
    BY <1>1, <1>2, CountsByHolders DEF One
  <2>2. One(x.held) = 0
    BY <1>4 DEF One
  <2> QED
    BY <1>7, <1>8, <2>1, <2>2, HoldersCounted
<1>10. views[w].refs # 1 =>
           /\ x.from = views[w].from /\ x.node = views[w].node /\ x.i = views[w].i
           /\ x.n = views[w].n /\ x.want = views[w].want
  BY <1>1, <1>2, <1>4, MoreFewer
<1>11. /\ Defined /\ ViewUnref(w) /\ UNCHANGED <<held, mem, header, callvars>>
       /\ iters' = iters /\ buffers' = buffers
  BY DEF DropView
<1> QED
  BY <1>1, <1>2, <1>4, <1>5, <1>6, <1>7, <1>8, <1>9, <1>10, <1>11, ViewLetGo

\* The program lets go of the object.
LEMMA DropObjectStep ==
  ASSUME ReaderInv, DropObject
  PROVE  ReaderInv'
<1>1. /\ TypeOK /\ CountsAreExact /\ CallInv /\ views \in [View -> ViewType] /\ iters \in [Iter -> IterType]
      /\ buffers \in [Buffer -> BufferType] /\ calls \in [Thread -> CallType]
      /\ inits \in Nat /\ overlap \in BOOLEAN /\ refs \in Nat
      /\ mem \in 0..Len(maps) /\ header \in 0..Len(maps)
  BY TypeParts DEF ReaderInv
<1>2. /\ UNCHANGED <<mem, header, views, iters, buffers, calls, inits, overlap>>
      /\ Defined /\ held /\ held' = FALSE /\ ObjectUnref(is_open)
  BY DEF DropObject, callvars
<1>3. refs' = refs - 1
  BY <1>2 DEF ObjectUnref
<1>4. CountsAreExact'
  <2>1. refs = 1 + Cardinality(Viewed) + Cardinality(Calling)
    BY <1>1, <1>2, CountsByHolders DEF One
  <2>2. Viewed' = Viewed /\ Calling' = Calling
    BY <1>2 DEF Viewed, Free, Calling
  <2>3. refs' = One(held') + Cardinality(Viewed') + Cardinality(Calling')
    BY <1>2, <1>3, <2>1, <2>2, HoldersCounted DEF One
  <2> QED
    BY <1>1, <1>2, <2>3 DEF CountsAreExact, Viewed, Calling, One, Free
<1>5. refs \in Nat \ {0}
  BY <1>2, HeldObject
<1>6. \A w \in View : (~Free(w)' => ~Free(w) /\ views'[w].from = views[w].from) /\ SameView(w)
  BY <1>2 DEF Free, SameView
<1>7. /\ OnceInv' /\ ApartInv'
      /\ maps' \in Seq(MapType) /\ Len(maps') = Len(maps) /\ fault' \in Faults
      /\ refs' \in Nat /\ is_open' \in BOOLEAN
  BY <1>2, <1>4, <1>5, <1>6, FileLetGo
<1>8. TypeOK'
  BY <1>1, <1>2, <1>7, TypeFromParts
<1>9. ViewsInv' /\ ViewsShowSlices'
  BY <1>2, <1>6, ViewsKept DEF Free
<1>10. \A k \in Iter : iters[k].view # None => SameView(iters[k].view)
  BY <1>2 DEF SameView
<1>11. RestInv'
  BY <1>1, <1>2, <1>4, <1>7, <1>8, <1>9 DEF RestInv, CallInv
<1> QED
  BY <1>2, <1>10, <1>11, ItersStay

-----------------------------------------------------------------------------
(* Steps of iterators and buffers. *)

\* The j-th index of n, from the front or from the back.
Turned(rev, n, j) == IF rev THEN n + 1 - j ELSE j
Earlier(rev, x, y) == IF rev THEN y < x ELSE x < y

\* Turned around or not, the indices are visited in order.
LEMMA TurnedOrder ==
  ASSUME NEW rev, NEW n \in Nat, NEW i \in Nat
  PROVE  /\ \A j \in 1..n : Turned(rev, n, j) \in 1..n
         /\ \A j, l \in 1..n : j < l => Earlier(rev, i + Turned(rev, n, j), i + Turned(rev, n, l))
         /\ \A s \in 0..(n - 1) : i + (IF rev THEN n - s - 1 ELSE s) + 1 = i + Turned(rev, n, s + 1)
  BY DEF Turned, Earlier

\* The positions i + 1 .. i + n in that order, and what it is to have returned
\* the items at the first of the positions at, but for those that are lost.
InOrder(rev, i, n) == [j \in 1..n |-> i + Turned(rev, n, j)]
Existing(at, cells, state) == {at[j] : j \in {x \in 1..state : cells[at[x]] # Empty}}
Returned(rev, at, cells, state, seen, lost) ==
    /\ {seen[a] : a \in DOMAIN seen} = Existing(at, cells, state) \ lost
    /\ lost \subseteq Existing(at, cells, state)
    /\ \A a, b \in DOMAIN seen : a < b => Earlier(rev, seen[a], seen[b])

\* The next item that exists is one that did not exist before.
LEMMA OneMoreExists ==
  ASSUME NEW rev, NEW n \in Nat, NEW at \in [1..n -> Nat],
         \A j, l \in 1..n : j < l => Earlier(rev, at[j], at[l]),
         NEW cells, NEW state \in Nat, NEW s \in state..(n - 1),
         cells[at[s + 1]] # Empty, \A x \in (state + 1)..s : cells[at[x]] = Empty
  PROVE  /\ Existing(at, cells, s + 1) = Existing(at, cells, state) \cup {at[s + 1]}
         /\ at[s + 1] \notin Existing(at, cells, state)
         /\ \A p \in Existing(at, cells, state) : Earlier(rev, p, at[s + 1])
<1> DEFINE X == {x \in 1..state : cells[at[x]] # Empty}
           Y == {x \in 1..(s + 1) : cells[at[x]] # Empty}
<1>1. s + 1 \in 1..n /\ state <= n
  OBVIOUS
<1>2. Y = X \cup {s + 1}
  <2>1. 1..(s + 1) = 1..state \cup (state + 1)..s \cup {s + 1}
    BY SMTT(30)
  <2> QED
    BY <2>1
<1>3. {at[j] : j \in Y} = {at[j] : j \in X} \cup {at[s + 1]}
  BY <1>2
<1>4. ASSUME NEW j \in X PROVE Earlier(rev, at[j], at[s + 1]) /\ at[j] # at[s + 1]
  <2>1. j \in 1..n /\ j < s + 1
    BY <1>1
  <2>2. at[j] \in Nat /\ at[s + 1] \in Nat /\ Earlier(rev, at[j], at[s + 1])
    BY <1>1, <2>1
  <2> QED
    BY <2>2 DEF Earlier
<1> QED
  BY <1>3, <1>4 DEF Existing

\* Returning the next item that exists.
LEMMA ReturnsMore ==
  ASSUME NEW rev, NEW at, NEW cells, NEW state, NEW more, NEW seen \in Seq(Nat), NEW lost,
         Returned(rev, at, cells, state, seen, lost), NEW pos \in Nat,
         Existing(at, cells, more) = Existing(at, cells, state) \cup {pos},
         pos \notin Existing(at, cells, state),
         \A p \in Existing(at, cells, state) : Earlier(rev, p, pos)
  PROVE  Returned(rev, at, cells, more, Append(seen, pos), lost)
<1> DEFINE longer == Append(seen, pos)
<1>1. /\ {seen[a] : a \in DOMAIN seen} = Existing(at, cells, state) \ lost
      /\ lost \subseteq Existing(at, cells, state)
      /\ \A a, b \in DOMAIN seen : a < b => Earlier(rev, seen[a], seen[b])
  BY DEF Returned
<1>2. /\ DOMAIN longer = DOMAIN seen \cup {Len(seen) + 1}
      /\ DOMAIN seen = 1..Len(seen) /\ Len(seen) \in Nat
      /\ longer[Len(seen) + 1] = pos
      /\ \A a \in DOMAIN seen : longer[a] = seen[a]
  OBVIOUS
<1> HIDE DEF longer
<1>3. {longer[a] : a \in DOMAIN longer} = {seen[a] : a \in DOMAIN seen} \cup {pos}
  BY <1>2
<1>4. {longer[a] : a \in DOMAIN longer} = Existing(at, cells, more) \ lost
  BY <1>1, <1>3
<1>5. \A a, b \in DOMAIN longer : a < b => Earlier(rev, longer[a], longer[b])
  <2> SUFFICES ASSUME NEW a \in DOMAIN longer, NEW b \in DOMAIN longer, a < b
               PROVE  Earlier(rev, longer[a], longer[b])
    OBVIOUS
  <2>1. a \in DOMAIN seen
    BY <1>2
  <2>2. CASE b \in DOMAIN seen
    BY <1>2, <1>1, <2>1, <2>2
  <2>3. CASE b = Len(seen) + 1
    <3>1. seen[a] \in Existing(at, cells, state)
      BY <1>1, <2>1
    <3> QED
      BY <1>2, <2>1, <2>3, <3>1
  <2> QED
    BY <1>2, <2>2, <2>3
<1> QED
  BY <1>1, <1>4, <1>5 DEF longer, Returned

\* Raising for the next item that exists, and going on.
LEMMA LosesMore ==
  ASSUME NEW rev, NEW at, NEW cells, NEW state, NEW more, NEW seen, NEW lost, NEW pos,
         Returned(rev, at, cells, state, seen, lost),
         Existing(at, cells, more) = Existing(at, cells, state) \cup {pos},
         pos \notin Existing(at, cells, state)
  PROVE  Returned(rev, at, cells, more, seen, lost \cup {pos})
<1>1. {seen[a] : a \in DOMAIN seen} = Existing(at, cells, state) \ lost
  BY DEF Returned
<1>2. {seen[a] : a \in DOMAIN seen} = Existing(at, cells, more) \ (lost \cup {pos})
  BY <1>1
<1> QED
  BY <1>2 DEF Returned

\* What an iterator has returned, in terms of the positions in order.
LEMMA ReturnedInOrder ==
  ASSUME NEW i \in Nat, NEW n \in Nat, NEW node, NEW it, it.state \in Nat, it.state <= n
  PROVE  HasReturned(it, Positions(i, n), n, node)
           <=> Returned(it.rev, InOrder(it.rev, i, n), Cells[node], it.state, it.seen, Lost(it, node))
<1> DEFINE at == InOrder(it.rev, i, n)
           by(j) == Positions(i, n)[Turned(it.rev, n, j)]
           X == {x \in 1..it.state : Cells[node][at[x]] # Empty}
           Y == {x \in 1..it.state : Cells[node][by(x)] # Empty}
<1>1. \A j \in 1..it.state : j \in 1..n
  OBVIOUS
<1>2. \A j \in 1..n : Turned(it.rev, n, j) \in 1..n
  BY TurnedOrder
<1>3. \A j \in 1..it.state : by(j) = at[j]
  BY <1>1, <1>2 DEF Positions, InOrder
<1> HIDE DEF at, by
<1>4. X = Y /\ {at[j] : j \in X} = {by(j) : j \in Y}
  BY <1>3
<1>5. HasReturned(it, Positions(i, n), n, node) <=>
        /\ {it.seen[a] : a \in DOMAIN it.seen} = {by(j) : j \in Y} \ Lost(it, node)
        /\ Lost(it, node) \subseteq {by(j) : j \in Y}
        /\ \A a, b \in DOMAIN it.seen : a < b => Earlier(it.rev, it.seen[a], it.seen[b])
  BY DEF HasReturned, by, Turned, Earlier
<1>6. Existing(at, Cells[node], it.state) = {by(j) : j \in Y}
  BY <1>4 DEF Existing
<1> QED
  BY <1>5, <1>6 DEF at, Returned

\* An iterator that goes on to the next item that exists has returned, or
\* lost, the items up to there.
LEMMA GoesOn ==
  ASSUME NEW i \in Nat, NEW n \in Nat, NEW node, NEW it, it.state \in Nat, it.seen \in Seq(Nat),
         NEW s \in it.state..(n - 1), HasReturned(it, Positions(i, n), n, node),
         NEW pos, pos = i + Turned(it.rev, n, s + 1),
         Cells[node][pos] # Empty,
         \A x \in (it.state + 1)..s : Cells[node][i + Turned(it.rev, n, x)] = Empty,
         NEW nit, nit.state = s + 1, nit.rev = it.rev,
         \/ nit.seen = Append(it.seen, pos) /\ nit.raised = it.raised
         \/ nit.seen = it.seen /\ nit.raised = it.raised \cup {pos} /\ ~IsVector(node)
  PROVE  HasReturned(nit, Positions(i, n), n, node)
<1> DEFINE at == InOrder(it.rev, i, n)
           cells == Cells[node]
<1>1. \A j \in 1..n : at[j] = i + Turned(it.rev, n, j)
  BY DEF InOrder
<1>2. at \in [1..n -> Nat]
  <2>1. \A j \in 1..n : Turned(it.rev, n, j) \in 1..n
    BY TurnedOrder
  <2> QED
    BY <2>1 DEF InOrder
<1>3. Returned(it.rev, at, cells, it.state, it.seen, Lost(it, node))
  <2>1. it.state <= n
    OBVIOUS
  <2> QED
    BY <2>1, ReturnedInOrder
<1>4. s + 1 \in 1..n /\ \A x \in (it.state + 1)..s : x \in 1..n
  OBVIOUS
<1> HIDE DEF at
<1>5. \A j, l \in 1..n : j < l => Earlier(it.rev, at[j], at[l])
  <2>1. \A j, l \in 1..n : j < l => Earlier(it.rev, i + Turned(it.rev, n, j), i + Turned(it.rev, n, l))
    BY TurnedOrder
  <2> QED
    BY <1>1, <2>1
<1>6. cells[at[s + 1]] # Empty /\ (\A x \in (it.state + 1)..s : cells[at[x]] = Empty) /\ at[s + 1] = pos
  BY <1>1, <1>4
<1> HIDE DEF cells
<1>7. /\ Existing(at, cells, s + 1) = Existing(at, cells, it.state) \cup {pos}
      /\ pos \notin Existing(at, cells, it.state) /\ pos \in Nat
      /\ \A p \in Existing(at, cells, it.state) : Earlier(it.rev, p, pos)
  <2>1. PICK rev, state : rev = it.rev /\ state = it.state
    OBVIOUS
  <2>2. /\ Existing(at, cells, s + 1) = Existing(at, cells, state) \cup {at[s + 1]}
        /\ at[s + 1] \notin Existing(at, cells, state)
        /\ \A p \in Existing(at, cells, state) : Earlier(rev, p, at[s + 1])
    <3>1. \A j, l \in 1..n : j < l => Earlier(rev, at[j], at[l])
      BY <1>5, <2>1
    <3>2. state \in Nat /\ s \in state..(n - 1)
      BY <2>1
    <3>3. cells[at[s + 1]] # Empty /\ \A x \in (state + 1)..s : cells[at[x]] = Empty
      BY <1>6, <2>1
    <3> QED
      BY <1>2, <3>1, <3>2, <3>3, OneMoreExists
  <2>3. at[s + 1] \in Nat
    BY <1>2, <1>4
  <2> QED
    BY <1>6, <2>1, <2>2, <2>3
<1>8. Returned(nit.rev, at, cells, nit.state, nit.seen, Lost(nit, node))
  <2>1. CASE nit.seen = Append(it.seen, pos) /\ nit.raised = it.raised
    <3>1. Returned(it.rev, at, cells, s + 1, Append(it.seen, pos), Lost(it, node))
      BY <1>3, <1>7, ReturnsMore
    <3>2. Lost(nit, node) = Lost(it, node)
      BY <2>1 DEF Lost
    <3> QED
      BY <2>1, <3>1, <3>2
  <2>2. CASE nit.seen = it.seen /\ nit.raised = it.raised \cup {pos} /\ ~IsVector(node)
    <3>1. Returned(it.rev, at, cells, s + 1, it.seen, Lost(it, node) \cup {pos})
      BY <1>3, <1>7, LosesMore
    <3>2. Lost(nit, node) = Lost(it, node) \cup {pos}
      BY <2>2 DEF Lost
    <3> QED
      BY <2>2, <3>1, <3>2
  <2> QED
    BY <2>1, <2>2
<1>9. nit.state \in Nat /\ nit.state <= n
  OBVIOUS
<1>10. Returned(nit.rev, InOrder(nit.rev, i, n), Cells[node], nit.state, nit.seen, Lost(nit, node))
  BY <1>8 DEF at, cells
<1> QED
  BY <1>9, <1>10, ReturnedInOrder

\* The state that an iterator goes on to, and the items that it passes over.
LEMMA AheadIsNext ==
  ASSUME ReaderInv, NEW k \in Iter, iters[k].view # None, NEW s \in Ahead(k)
  PROVE  LET it == iters[k]
             v == views[it.view]
         IN  /\ s \in it.state..(v.n - 1) /\ v.node \in Container
             /\ Cells[v.node][v.i + Turned(it.rev, v.n, s + 1)] # Empty
             /\ \A x \in (it.state + 1)..s : Cells[v.node][v.i + Turned(it.rev, v.n, x)] = Empty
<1> DEFINE it == iters[k]
           v == views[it.view]
<1>1. /\ views \in [View -> ViewType] /\ iters \in [Iter -> IterType] /\ ViewsInv /\ ItersInv
  BY TypeParts DEF ReaderInv
<1>2. it.view \in View /\ it.state \in Nat
  BY <1>1 DEF IterType
<1>3. ~Free(it.view) /\ v.n \in Nat /\ v.i \in Nat
  BY <1>1, <1>2, HeldIsCounted DEF ViewType
<1>4. /\ v.node \in Container /\ v.i + v.n <= Len(Cells[v.node])
      /\ ~IsVector(v.node) => v.i = 0 /\ v.n = Len(Cells[v.node])
      /\ it.rev => IsVector(v.node)
  BY <1>1, <1>2, <1>3 DEF ViewsInv, ItersInv
<1>5. Len(Cells[v.node]) \in Nat
  BY <1>4, FileAssumption
<1>6. CASE IsVector(v.node)
  <2>1. s = it.state /\ s \in 0..(v.n - 1)
    BY <1>6 DEF Ahead, VectorAhead
  <2> DEFINE p == v.i + Turned(it.rev, v.n, s + 1)
  <2>2. p \in 1..Len(Cells[v.node])
    <3>1. s + 1 \in 1..v.n
      BY <1>3, <2>1
    <3>2. Turned(it.rev, v.n, s + 1) \in 1..v.n
      BY <1>3, <3>1, TurnedOrder
    <3> QED
      BY <1>3, <1>4, <1>5, <3>2
  <2>3. Cells[v.node][p] # Empty
    BY <1>4, <1>6, <2>2, VectorAssumption DEF IsVector
  <2>4. (it.state + 1)..s = {} /\ s \in it.state..(v.n - 1)
    BY <1>2, <1>3, <2>1
  <2> QED
    BY <1>4, <2>3, <2>4
<1>7. CASE ~IsVector(v.node)
  <2>1. s \in TableAhead(k) /\ ~it.rev /\ v.i = 0 /\ v.n = Len(Cells[v.node])
    BY <1>4, <1>7 DEF Ahead
  <2>2. /\ s \in it.state..(v.n - 1) /\ Cells[v.node][s + 1] # Empty
        /\ \A r \in it.state..(s - 1) : Cells[v.node][r + 1] = Empty
    BY <2>1 DEF TableAhead
  <2>3. \A x \in Int : v.i + Turned(it.rev, v.n, x) = x
    BY <2>1 DEF Turned
  <2>4. ASSUME NEW x \in (it.state + 1)..s PROVE Cells[v.node][v.i + Turned(it.rev, v.n, x)] = Empty
    <3>1. x \in Int /\ x - 1 \in it.state..(s - 1) /\ (x - 1) + 1 = x
      BY <1>2, <2>2
    <3>2. Cells[v.node][(x - 1) + 1] = Empty
      BY <2>2, <3>1
    <3> QED
      BY <2>3, <3>1, <3>2
  <2>5. s + 1 \in Int
    BY <1>2, <2>2
  <2> QED
    BY <1>4, <2>2, <2>3, <2>4, <2>5
<1> QED
  BY <1>6, <1>7

\* The position of the item that an iterator goes on to.
LEMMA PositionAhead ==
  ASSUME ReaderInv, NEW k \in Iter, iters[k].view # None, NEW s \in Ahead(k)
  PROVE  LET it == iters[k]
             v == views[it.view]
         IN  /\ Position(k, s) = v.i + Turned(it.rev, v.n, s + 1) /\ Position(k, s) \in Nat
             /\ s \in Nat /\ s + 1 \in Nat /\ s + 1 <= v.n /\ s <= v.n
<1> DEFINE it == iters[k]
           v == views[it.view]
<1>1. /\ views \in [View -> ViewType] /\ iters \in [Iter -> IterType]
  BY TypeParts DEF ReaderInv
<1>2. v.i \in Nat /\ v.n \in Nat /\ it.state \in Nat
  BY <1>1 DEF ViewType, IterType
<1>3. s \in it.state..(v.n - 1)
  BY AheadIsNext
<1>4. Position(k, s) = v.i + (IF it.rev THEN v.n - s - 1 ELSE s) + 1
  BY DEF Position, At
<1> HIDE DEF it, v
<1>5. s \in 0..(v.n - 1) /\ s + 1 \in 1..v.n
  BY <1>2, <1>3
<1>6. Position(k, s) = v.i + Turned(it.rev, v.n, s + 1) /\ Turned(it.rev, v.n, s + 1) \in 1..v.n
  BY <1>2, <1>4, <1>5, TurnedOrder
<1>7. Position(k, s) \in Nat /\ s \in Nat /\ s + 1 \in Nat /\ s + 1 <= v.n /\ s <= v.n
  BY <1>2, <1>5, <1>6
<1> QED
  BY <1>6, <1>7 DEF it, v

\* A step of one iterator, after which it has returned what it should have.
LEMMA OneIterStep ==
  ASSUME ReaderInv, NEW k \in Iter, iters[k].view # None, NEW nit \in IterType,
         iters' = [iters EXCEPT ![k] = nit], nit.view = iters[k].view, nit.rev = iters[k].rev,
         RestInv', \A j \in Iter : iters[j].view # None => SameView(iters[j].view),
         nit.state <= views[nit.view].n,
         HasReturned(nit, Positions(views[nit.view].i, views[nit.view].n), views[nit.view].n, views[nit.view].node)
  PROVE  ReaderInv'
<1> DEFINE w == nit.view
           v == views[w]
<1>1. /\ views \in [View -> ViewType] /\ iters \in [Iter -> IterType]
      /\ ItersInv /\ IteratorsAreExact /\ ViewsShowSlices
  BY TypeParts DEF ReaderInv
<1>2. w \in View /\ ~Free(w)
  <2>1. w \in View
    BY <1>1 DEF IterType
  <2> QED
    BY <1>1, <2>1, HeldIsCounted
<1>3. HasReturned(nit, v.want, v.n, v.node)
  BY <1>1, <1>2 DEF ViewsShowSlices
<1>4. \A j \in Iter : iters'[j].view = iters[j].view
  BY <1>1
<1>5. IteratorsAreExact'
  <2> SUFFICES ASSUME NEW j \in Iter, iters'[j].view # None
               PROVE  HasReturned(iters'[j], views'[iters'[j].view].want, views'[iters'[j].view].n,
                                  views'[iters'[j].view].node)
    BY DEF IteratorsAreExact, HasReturned, Lost, IsVector
  <2>1. SameView(iters[j].view) /\ iters'[j].view = iters[j].view
    BY <1>4
  <2>2. CASE j = k
    BY <1>1, <1>3, <2>1, <2>2 DEF SameView
  <2>3. CASE j # k
    BY <1>1, <2>1, <2>3 DEF SameView, IteratorsAreExact
  <2> QED
    BY <2>2, <2>3
<1>6. ItersInv'
  <2> SUFFICES ASSUME NEW j \in Iter, iters'[j].view # None
               PROVE  /\ iters'[j].state <= views'[iters'[j].view].n
                      /\ iters'[j].rev => IsVector(views'[iters'[j].view].node)
    BY DEF ItersInv, IsVector
  <2>1. SameView(iters[j].view) /\ iters'[j].view = iters[j].view
    BY <1>4
  <2>2. CASE j = k
    BY <1>1, <2>1, <2>2 DEF SameView, ItersInv
  <2>3. CASE j # k
    BY <1>1, <2>1, <2>3 DEF SameView, ItersInv
  <2> QED
    BY <2>2, <2>3
<1> QED
  BY <1>5, <1>6, AllParts

\* What an iterator of the invariant is.
LEMMA IterParts ==
  ASSUME ReaderInv, NEW k \in Iter, iters[k].view # None
  PROVE  LET it == iters[k]
             v == views[it.view]
         IN  /\ it \in IterType /\ it.view \in View /\ v.i \in Nat /\ v.n \in Nat /\ it.state \in Nat
             /\ it.seen \in Seq(Nat) /\ it.raised \in SUBSET Nat
             /\ HasReturned(it, Positions(v.i, v.n), v.n, v.node)
<1> DEFINE it == iters[k]
           v == views[it.view]
<1>1. /\ views \in [View -> ViewType] /\ iters \in [Iter -> IterType]
      /\ IteratorsAreExact /\ ViewsShowSlices
  BY TypeParts DEF ReaderInv
<1>2. it \in IterType
  BY <1>1
<1>3. it.view \in View /\ it.state \in Nat /\ it.seen \in Seq(Nat) /\ it.raised \in SUBSET Nat
  BY <1>2 DEF IterType
<1>4. v \in ViewType /\ ~Free(it.view)
  BY <1>1, <1>3, HeldIsCounted
<1>5. v.i \in Nat /\ v.n \in Nat
  BY <1>4 DEF ViewType
<1>6. v.want = Positions(v.i, v.n) /\ HasReturned(it, v.want, v.n, v.node)
  BY <1>1, <1>3, <1>4 DEF ViewsShowSlices, IteratorsAreExact
<1> QED
  BY <1>2, <1>3, <1>5, <1>6

\* An iterator returns an item.
LEMMA IterNextStep ==
  ASSUME ReaderInv, NEW k \in Iter, NEW new \in View \cup {None}, IterNext(k, new)
  PROVE  ReaderInv'
<1> DEFINE it == iters[k]
           w == it.view
           v == views[w]
<1>1. iters \in [Iter -> IterType]
  BY TypeParts DEF ReaderInv
<1>2. Defined /\ w # None /\ Live(header)
  BY DEF IterNext, Backed
<1>3. PICK s \in Ahead(k) :
        /\ iters' = [iters EXCEPT ![k].state = s + 1, ![k].seen = Append(@, Position(k, s))]
        /\ Keep((IF it.vals THEN Vals ELSE Cells)[v.node][Position(k, s)], new)
  BY DEF IterNext
<1>4. PICK pos : pos = Position(k, s)
  OBVIOUS
<1> DEFINE nit == [it EXCEPT !.state = s + 1, !.seen = Append(it.seen, pos)]
<1>5. /\ s \in it.state..(v.n - 1) /\ v.node \in Container
      /\ Cells[v.node][v.i + Turned(it.rev, v.n, s + 1)] # Empty
      /\ \A x \in (it.state + 1)..s : Cells[v.node][v.i + Turned(it.rev, v.n, x)] = Empty
  BY <1>2, AheadIsNext
<1>6. /\ it \in IterType /\ v.i \in Nat /\ v.n \in Nat /\ it.state \in Nat /\ it.seen \in Seq(Nat)
      /\ HasReturned(it, Positions(v.i, v.n), v.n, v.node)
  BY <1>2, IterParts
<1>7. pos = v.i + Turned(it.rev, v.n, s + 1) /\ pos \in Nat /\ s + 1 \in Nat /\ s + 1 <= v.n
  BY <1>2, <1>4, PositionAhead
<1>8. Append(it.seen, pos) \in Seq(Nat)
  BY <1>6, <1>7
<1>9. iters' = [iters EXCEPT ![k] = nit]
  BY <1>1, <1>3, <1>4, <1>6 DEF IterType
<1>10. /\ nit \in IterType /\ nit.view = w /\ nit.state = s + 1 /\ nit.rev = it.rev
       /\ nit.seen = Append(it.seen, pos) /\ nit.raised = it.raised
  BY <1>6, <1>7, <1>8 DEF IterType
<1> HIDE DEF nit
<1>11. iters' \in [Iter -> IterType] /\ \A j \in Iter : iters'[j].view = iters[j].view
  BY <1>1, <1>9, <1>10
<1>12. UNCHANGED <<held, is_open, mem, header, maps, buffers, callvars, fault>>
  BY DEF IterNext
<1>13. RestInv' /\ \A j \in Iter : iters[j].view # None => SameView(iters[j].view)
  BY <1>2, <1>3, <1>11, <1>12, KeepStep
<1>14. HasReturned(nit, Positions(v.i, v.n), v.n, v.node)
  <2> HIDE DEF it, v
  <2> QED
    BY <1>5, <1>6, <1>7, <1>10, GoesOn
<1> QED
  BY <1>2, <1>7, <1>9, <1>10, <1>13, <1>14, OneIterStep

\* The same of an item of a vector: an iterator that stays has returned what it
\* had.
LEMMA StaysThere ==
  ASSUME NEW it, NEW nit, NEW want, NEW n, NEW node, IsVector(node),
         HasReturned(it, want, n, node),
         nit.state = it.state, nit.seen = it.seen, nit.rev = it.rev
  PROVE  HasReturned(nit, want, n, node)
<1>1. Lost(nit, node) = Lost(it, node)
  BY DEF Lost
<1> QED
  BY <1>1 DEF HasReturned

\* An iterator raises instead.
LEMMA IterNextFailsStep ==
  ASSUME ReaderInv, NEW k \in Iter, IterNextFails(k)
  PROVE  ReaderInv'
<1> DEFINE it == iters[k]
           w == it.view
           v == views[w]
<1>1. iters \in [Iter -> IterType]
  BY TypeParts DEF ReaderInv
<1>2. /\ Defined /\ w # None
      /\ UNCHANGED <<views, refs, held, is_open, mem, header, maps, buffers, callvars, fault>>
  BY DEF IterNextFails, objvars
<1>3. PICK s \in Ahead(k) :
        iters' = [iters EXCEPT ![k].state = IF IsVector(v.node) THEN s ELSE s + 1,
                               ![k].raised = @ \cup {Position(k, s)}]
  BY DEF IterNextFails
<1>4. PICK pos, st : pos = Position(k, s) /\ st = IF IsVector(v.node) THEN s ELSE s + 1
  OBVIOUS
<1> DEFINE nit == [it EXCEPT !.state = st, !.raised = it.raised \cup {pos}]
<1>5. /\ s \in it.state..(v.n - 1) /\ v.node \in Container
      /\ Cells[v.node][v.i + Turned(it.rev, v.n, s + 1)] # Empty
      /\ \A x \in (it.state + 1)..s : Cells[v.node][v.i + Turned(it.rev, v.n, x)] = Empty
  BY <1>2, AheadIsNext
<1>6. /\ it \in IterType /\ v.i \in Nat /\ v.n \in Nat /\ it.state \in Nat /\ it.seen \in Seq(Nat)
      /\ it.raised \in SUBSET Nat /\ HasReturned(it, Positions(v.i, v.n), v.n, v.node)
  BY <1>2, IterParts
<1>7. /\ pos = v.i + Turned(it.rev, v.n, s + 1) /\ pos \in Nat
      /\ s \in Nat /\ s + 1 \in Nat /\ s + 1 <= v.n /\ s <= v.n
  BY <1>2, <1>4, PositionAhead
<1>8. st \in Nat /\ st <= v.n /\ it.raised \cup {pos} \in SUBSET Nat
  BY <1>4, <1>6, <1>7
<1>9. iters' = [iters EXCEPT ![k] = nit]
  BY <1>1, <1>3, <1>4, <1>6 DEF IterType
<1>10. /\ nit \in IterType /\ nit.view = w /\ nit.state = st /\ nit.rev = it.rev
       /\ nit.seen = it.seen /\ nit.raised = it.raised \cup {pos}
  BY <1>6, <1>8 DEF IterType
<1> HIDE DEF nit
<1>11. iters' \in [Iter -> IterType] /\ \A j \in Iter : iters'[j].view = iters[j].view
  BY <1>1, <1>9, <1>10
<1>12. RestInv' /\ \A j \in Iter : iters[j].view # None => SameView(iters[j].view)
  BY <1>2, <1>11, NothingViewed DEF SameView
<1>13. HasReturned(nit, Positions(v.i, v.n), v.n, v.node)
  <2>1. CASE IsVector(v.node)
    <3>1. s = it.state
      BY <2>1 DEF Ahead, VectorAhead
    <3>2. nit.state = it.state
      BY <1>4, <1>10, <2>1, <3>1
    <3> QED
      BY <1>6, <1>10, <2>1, <3>2, StaysThere
  <2>2. CASE ~IsVector(v.node)
    <3>1. nit.state = s + 1
      BY <1>4, <1>10, <2>2
    <3> HIDE DEF it, v
    <3> QED
      BY <1>5, <1>6, <1>7, <1>10, <2>2, <3>1, GoesOn
  <2> QED
    BY <2>1, <2>2
<1> QED
  BY <1>2, <1>8, <1>9, <1>10, <1>12, <1>13, OneIterStep

\* A new iterator has returned nothing.
LEMMA ReturnedNothing ==
  ASSUME NEW it, it.state = 0, it.seen = <<>>, it.raised = {}, NEW want, NEW n, NEW node
  PROVE  HasReturned(it, want, n, node)
<1>1. DOMAIN it.seen = {} /\ 1..it.state = {} /\ Lost(it, node) = {}
  BY DEF Lost
<1> QED
  BY <1>1 DEF HasReturned

\* An iterator that starts takes hold of its view.
LEMMA IterStarts ==
  ASSUME ReaderInv, NEW k \in Iter, NEW w \in View, NEW rev \in BOOLEAN, NEW vals \in BOOLEAN,
         StartIter(k, w, rev, vals), views' = [views EXCEPT ![w] = More(w)],
         rev => IsVector(views[w].node)
  PROVE  ReaderInv'
<1> DEFINE x == [NoIter EXCEPT !.view = w, !.vals = vals, !.rev = rev]
<1>1. /\ TypeOK /\ views \in [View -> ViewType] /\ iters \in [Iter -> IterType]
      /\ buffers \in [Buffer -> BufferType] /\ ItersInv /\ IteratorsAreExact
  BY TypeParts DEF ReaderInv
<1>2. /\ Defined /\ iters[k] = NoIter /\ views[w].held /\ iters' = [iters EXCEPT ![k] = x]
      /\ UNCHANGED <<objvars, buffers, callvars, fault>>
  BY DEF StartIter
<1>3. views[w].refs > 0 /\ w # None
  BY <1>2, HeldIsCounted, FiniteAssumption
<1>4. x \in IterType /\ x.view = w /\ x.state = 0 /\ x.seen = <<>> /\ x.raised = {} /\ x.rev = rev
  BY BlankTypes DEF NoIter, IterType
<1> HIDE DEF x
<1>5. iters' \in [Iter -> IterType] /\ iters[k].view = None
  BY <1>1, <1>2, <1>4, BlankTypes
<1>6. ItersOf(w)' = ItersOf(w) \cup {k} /\ k \notin ItersOf(w)
  BY <1>1, <1>2, <1>3, <1>4, <1>5 DEF ItersOf
<1>7. \A u \in View \ {w} : ItersOf(u)' = ItersOf(u)
  BY <1>1, <1>2, <1>4, <1>5, FiniteAssumption DEF ItersOf
<1>8. \A u : BuffersOf(u)' = BuffersOf(u)
  BY <1>2 DEF BuffersOf
<1>9. Cardinality(ItersOf(w)') = Cardinality(ItersOf(w)) + 1
  BY <1>6, HoldersFinite, CountAdd
<1>10. /\ Cardinality(ItersOf(w)') \in Nat /\ Cardinality(BuffersOf(w)') \in Nat
       /\ Cardinality(ItersOf(w)') + Cardinality(BuffersOf(w)')
            = Cardinality(ItersOf(w)) + Cardinality(BuffersOf(w)) + 1
  BY <1>8, <1>9, HoldersCounted
<1>11. RestInv' /\ \A u \in View : SameView(u)
  <2>1. buffers' \in [Buffer -> BufferType] /\ \A b \in Buffer : buffers'[b] = buffers[b]
    BY <1>1, <1>2
  <2> QED
    BY <1>2, <1>3, <1>5, <1>7, <1>8, <1>10, <2>1, ViewTaken
<1>12. ItersInv'
  <2> SUFFICES ASSUME NEW j \in Iter, iters'[j].view # None
               PROVE  /\ iters'[j].state <= views'[iters'[j].view].n
                      /\ iters'[j].rev => IsVector(views'[iters'[j].view].node)
    BY DEF ItersInv, IsVector
  <2>1. CASE j = k
    <3>1. iters'[j] = x /\ SameView(w)
      BY <1>1, <1>2, <1>11, <2>1
    <3>2. views[w].n \in Nat
      BY <1>1 DEF ViewType
    <3> QED
      BY <1>4, <3>1, <3>2 DEF SameView
  <2>2. CASE j # k
    <3>1. iters'[j] = iters[j]
      BY <1>1, <1>2, <2>2
    <3>2. iters[j].view \in View
      BY <1>1, <3>1 DEF IterType
    <3>3. SameView(iters[j].view)
      BY <1>11, <3>2
    <3> QED
      BY <1>1, <3>1, <3>3 DEF SameView, ItersInv
  <2> QED
    BY <2>1, <2>2
<1>13. IteratorsAreExact'
  <2> SUFFICES ASSUME NEW j \in Iter, iters'[j].view # None
               PROVE  HasReturned(iters'[j], views'[iters'[j].view].want, views'[iters'[j].view].n,
                                  views'[iters'[j].view].node)
    BY DEF IteratorsAreExact, HasReturned, Lost, IsVector
  <2>1. CASE j = k
    <3>1. iters'[j] = x
      BY <1>1, <1>2, <2>1
    <3> QED
      BY <1>4, <3>1, ReturnedNothing
  <2>2. CASE j # k
    <3>1. iters'[j] = iters[j]
      BY <1>1, <1>2, <2>2
    <3>2. iters[j].view \in View
      BY <1>1, <3>1 DEF IterType
    <3>3. SameView(iters[j].view)
      BY <1>11, <3>2
    <3> QED
      BY <1>1, <3>1, <3>3 DEF SameView, IteratorsAreExact
  <2> QED
    BY <2>1, <2>2
<1> QED
  BY <1>11, <1>12, <1>13, AllParts

\* The iterators of sets, vectors and maps start.
LEMMA StartStep ==
  ASSUME ReaderInv, NEW k \in Iter, NEW w \in View, NEW b \in BOOLEAN,
         SetIter(k, w) \/ VectorIter(k, w, b) \/ MapIter(k, w, b)
  PROVE  ReaderInv'
<1>1. CASE SetIter(k, w)
  BY <1>1, IterStarts DEF SetIter
<1>2. CASE VectorIter(k, w, b)
  BY <1>2, IterStarts DEF VectorIter
<1>3. CASE MapIter(k, w, b)
  BY <1>3, IterStarts DEF MapIter
<1> QED
  BY <1>1, <1>2, <1>3

\* An iterator that ends, or is freed, lets go of its view.
LEMMA IterLetsGo ==
  ASSUME ReaderInv, Defined, NEW k \in Iter, NEW w, w = iters[k].view, w # None,
         NEW x \in IterType, x.view = None, iters' = [iters EXCEPT ![k] = x],
         views' = [views EXCEPT ![w] = Fewer(w)], ViewUnref(w),
         UNCHANGED <<held, mem, header, buffers, callvars>>
  PROVE  ReaderInv'
<1>1. /\ TypeOK /\ CountsAreExact /\ views \in [View -> ViewType] /\ iters \in [Iter -> IterType]
      /\ buffers \in [Buffer -> BufferType]
  BY TypeParts DEF ReaderInv
<1>2. w \in View
  BY <1>1 DEF IterType
<1>3. views[w].refs > 0 /\ views[w].refs \in Nat
  BY <1>1, <1>2, HeldIsCounted DEF ViewType
<1>4. iters' \in [Iter -> IterType] /\ \A j \in Iter : iters'[j].view # None => iters'[j] = iters[j]
  BY <1>1
<1>5. ItersOf(w)' = ItersOf(w) \ {k} /\ k \in ItersOf(w)
  BY <1>1 DEF ItersOf
<1>6. \A u \in View \ {w} : ItersOf(u)' = ItersOf(u)
  BY <1>1, FiniteAssumption DEF ItersOf
<1>7. \A u : BuffersOf(u)' = BuffersOf(u)
  BY DEF BuffersOf
<1>8. Cardinality(ItersOf(w)') = Cardinality(ItersOf(w)) - 1
  BY <1>5, HoldersFinite, CountRemove
<1>9. /\ Fewer(w) \in ViewType /\ Fewer(w).refs = views[w].refs - 1
      /\ views[w].refs = 1 => Fewer(w) = NoView
      /\ views[w].refs # 1 =>
           /\ Fewer(w).held = views[w].held /\ Fewer(w).from = views[w].from
           /\ Fewer(w).node = views[w].node /\ Fewer(w).i = views[w].i
           /\ Fewer(w).n = views[w].n /\ Fewer(w).want = views[w].want
  BY <1>1, <1>2, <1>3, MoreFewer
<1>10. Fewer(w).refs = One(Fewer(w).held) + Cardinality(ItersOf(w)') + Cardinality(BuffersOf(w)')
  <2>1. /\ views[w].refs = One(views[w].held) + Cardinality(ItersOf(w)) + Cardinality(BuffersOf(w))
        /\ Cardinality(ItersOf(w)) \in Nat /\ Cardinality(BuffersOf(w)) \in Nat
        /\ ItersOf(w) # {} => Cardinality(ItersOf(w)) # 0
        /\ One(views[w].held) \in {0, 1}
    BY <1>1, <1>2, CountsByHolders, HoldersCounted, OneType
  <2>2. CASE views[w].refs = 1
    <3>1. One(Fewer(w).held) = 0
      BY <1>9, <2>2, BlankTypes DEF One
    <3>2. Cardinality(ItersOf(w)) # 0
      BY <1>5, <2>1
    <3> QED
      BY <1>7, <1>8, <1>9, <2>1, <2>2, <3>1, <3>2
  <2>3. CASE views[w].refs # 1
    <3>1. One(Fewer(w).held) = One(views[w].held)
      BY <1>9, <2>3
    <3> QED
      BY <1>7, <1>8, <1>9, <2>1, <3>1
  <2> QED
    BY <2>2, <2>3
<1>11. UNCHANGED <<held, mem, header, callvars>> /\ buffers' = buffers
  OBVIOUS
<1> QED
  BY <1>1, <1>2, <1>3, <1>4, <1>6, <1>7, <1>9, <1>10, <1>11, ViewLetGo

\* An iterator that is at its end lets go of its view.
LEMMA IterEndStep ==
  ASSUME ReaderInv, NEW k \in Iter, IterEnd(k)
  PROVE  ReaderInv'
<1> DEFINE x == [iters[k] EXCEPT !.view = None]
<1>1. iters \in [Iter -> IterType]
  BY TypeParts DEF ReaderInv
<1>2. x \in IterType /\ x.view = None
  BY <1>1 DEF IterType
<1>3. iters' = [iters EXCEPT ![k] = x]
  BY DEF IterEnd
<1> HIDE DEF x
<1> QED
  BY <1>2, <1>3, IterLetsGo DEF IterEnd

\* An iterator's view is backed, too.
LEMMA IterUnbackedStep ==
  ASSUME ReaderInv, NEW k \in Iter, IterUnbacked(k)
  PROVE  ReaderInv'
<1>1. iters \in [Iter -> IterType]
  BY TypeParts DEF ReaderInv
<1>2. iters[k].view \in View /\ ~Backed(iters[k].view)
  BY <1>1 DEF IterUnbacked, IterType
<1>3. ~(inits <= 1)
  BY <1>2, ViewedIsBacked, HeldIsCounted
<1> QED
  BY <1>3, FaultMet DEF IterUnbacked, Faults

\* An iterator is deallocated.
LEMMA IterDeallocStep ==
  ASSUME ReaderInv, NEW k \in Iter, IterDealloc(k)
  PROVE  ReaderInv'
<1>1. iters \in [Iter -> IterType]
  BY TypeParts DEF ReaderInv
<1>2. CASE iters[k].view # None
  BY <1>2, BlankTypes, IterLetsGo DEF IterDealloc
<1>3. CASE iters[k].view = None
  <2>1. /\ iters' = [iters EXCEPT ![k] = NoIter]
        /\ UNCHANGED <<views, refs, held, is_open, mem, header, maps, buffers, callvars, fault>>
        /\ Defined
    BY <1>3 DEF IterDealloc
  <2>2. iters' \in [Iter -> IterType] /\ \A j \in Iter : iters'[j].view = iters[j].view
    BY <1>1, <1>3, <2>1, BlankTypes
  <2>3. RestInv'
    BY <2>1, <2>2, NothingViewed
  <2>4. \A j \in Iter : iters'[j].view # None => iters'[j] = iters[j] /\ SameView(iters[j].view)
    BY <1>1, <2>1, BlankTypes DEF SameView
  <2>5. ItersInv' /\ IteratorsAreExact'
    BY <2>4, ItersKept
  <2> QED
    BY <2>3, <2>5, AllParts
<1> QED
  BY <1>2, <1>3

\* A buffer of the vector is handed out.
LEMMA GetBufferStep ==
  ASSUME ReaderInv, NEW b \in Buffer, NEW w \in View, GetBuffer(b, w)
  PROVE  ReaderInv'
<1> DEFINE x == [view |-> w, from |-> header]
<1>1. /\ TypeOK /\ views \in [View -> ViewType] /\ iters \in [Iter -> IterType]
      /\ buffers \in [Buffer -> BufferType] /\ header \in 0..Len(maps) /\ maps \in Seq(MapType)
  BY TypeParts DEF ReaderInv
<1>2. /\ Defined /\ buffers[b] = NoBuffer /\ views[w].held /\ buffers' = [buffers EXCEPT ![b] = x]
      /\ views' = [views EXCEPT ![w] = More(w)] /\ iters' = iters
      /\ UNCHANGED <<objvars, callvars, fault>>
  BY DEF GetBuffer
<1>3. views[w].refs > 0 /\ w # None
  BY <1>2, HeldIsCounted, FiniteAssumption
<1>4. x \in BufferType /\ x.view = w /\ x.from = header
  BY <1>1 DEF BufferType
<1> HIDE DEF x
<1>5. buffers' \in [Buffer -> BufferType] /\ buffers[b].view = None
  BY <1>1, <1>2, <1>4, BlankTypes
<1>6. BuffersOf(w)' = BuffersOf(w) \cup {b} /\ b \notin BuffersOf(w)
  BY <1>1, <1>2, <1>3, <1>4, <1>5 DEF BuffersOf
<1>7. \A u \in View \ {w} : BuffersOf(u)' = BuffersOf(u)
  BY <1>1, <1>2, <1>4, <1>5, FiniteAssumption DEF BuffersOf
<1>8. \A u : ItersOf(u)' = ItersOf(u)
  BY <1>2 DEF ItersOf
<1>9. Cardinality(BuffersOf(w)') = Cardinality(BuffersOf(w)) + 1
  BY <1>6, HoldersFinite, CountAdd
<1>10. /\ Cardinality(ItersOf(w)') \in Nat /\ Cardinality(BuffersOf(w)') \in Nat
       /\ Cardinality(ItersOf(w)') + Cardinality(BuffersOf(w)')
            = Cardinality(ItersOf(w)) + Cardinality(BuffersOf(w)) + 1
  BY <1>8, <1>9, HoldersCounted
<1>11. \A c \in Buffer : buffers'[c].view # None => buffers'[c] = buffers[c] \/ buffers'[c].from = header
  BY <1>1, <1>2, <1>4
<1>12. RestInv' /\ \A u \in View : SameView(u)
  BY <1>1, <1>2, <1>3, <1>5, <1>7, <1>8, <1>10, <1>11, ViewTaken
<1>13. \A k \in Iter : iters[k].view # None => SameView(iters[k].view)
  BY <1>1, <1>12 DEF IterType
<1> QED
  BY <1>2, <1>12, <1>13, ItersStay

\* A buffer is released.
LEMMA ReleaseBufferStep ==
  ASSUME ReaderInv, NEW b \in Buffer, ReleaseBuffer(b)
  PROVE  ReaderInv'
<1>0. PICK w : w = buffers[b].view
  OBVIOUS
<1>1. /\ TypeOK /\ CountsAreExact /\ views \in [View -> ViewType] /\ iters \in [Iter -> IterType]
      /\ buffers \in [Buffer -> BufferType]
  BY TypeParts DEF ReaderInv
<1>2. /\ Defined /\ w # None /\ buffers' = [buffers EXCEPT ![b] = NoBuffer]
      /\ views' = [views EXCEPT ![w] = Fewer(w)] /\ ViewUnref(w)
      /\ UNCHANGED <<held, mem, header, callvars>> /\ iters' = iters
  BY <1>0 DEF ReleaseBuffer
<1>3. w \in View
  BY <1>0, <1>1, <1>2 DEF BufferType
<1>4. views[w].refs > 0 /\ views[w].refs \in Nat
  BY <1>0, <1>1, <1>3, HeldIsCounted DEF ViewType
<1>5. buffers' \in [Buffer -> BufferType] /\ \A c \in Buffer : buffers'[c].view # None => buffers'[c] = buffers[c]
  BY <1>0, <1>1, <1>2, BlankTypes
<1>6. BuffersOf(w)' = BuffersOf(w) \ {b} /\ b \in BuffersOf(w)
  BY <1>0, <1>1, <1>2, BlankTypes DEF BuffersOf
<1>7. \A u \in View \ {w} : BuffersOf(u)' = BuffersOf(u)
  BY <1>0, <1>1, <1>2, BlankTypes, FiniteAssumption DEF BuffersOf
<1>8. \A u : ItersOf(u)' = ItersOf(u)
  BY <1>2 DEF ItersOf
<1>9. Cardinality(BuffersOf(w)') = Cardinality(BuffersOf(w)) - 1
  BY <1>6, HoldersFinite, CountRemove
<1>10. /\ Fewer(w) \in ViewType /\ Fewer(w).refs = views[w].refs - 1
       /\ views[w].refs = 1 => Fewer(w) = NoView
       /\ views[w].refs # 1 =>
            /\ Fewer(w).held = views[w].held /\ Fewer(w).from = views[w].from
            /\ Fewer(w).node = views[w].node /\ Fewer(w).i = views[w].i
            /\ Fewer(w).n = views[w].n /\ Fewer(w).want = views[w].want
  BY <1>1, <1>3, <1>4, MoreFewer
<1>11. Fewer(w).refs = One(Fewer(w).held) + Cardinality(ItersOf(w)') + Cardinality(BuffersOf(w)')
  <2>1. /\ views[w].refs = One(views[w].held) + Cardinality(ItersOf(w)) + Cardinality(BuffersOf(w))
        /\ Cardinality(ItersOf(w)) \in Nat /\ Cardinality(BuffersOf(w)) \in Nat
        /\ BuffersOf(w) # {} => Cardinality(BuffersOf(w)) # 0
        /\ One(views[w].held) \in {0, 1}
    BY <1>1, <1>3, CountsByHolders, HoldersCounted, OneType
  <2>2. CASE views[w].refs = 1
    <3>1. One(Fewer(w).held) = 0
      BY <1>10, <2>2, BlankTypes DEF One
    <3>2. Cardinality(BuffersOf(w)) # 0
      BY <1>6, <2>1
    <3> QED
      BY <1>8, <1>9, <1>10, <2>1, <2>2, <3>1, <3>2
  <2>3. CASE views[w].refs # 1
    <3>1. One(Fewer(w).held) = One(views[w].held)
      BY <1>10, <2>3
    <3> QED
      BY <1>8, <1>9, <1>10, <2>1, <3>1
  <2> QED
    BY <2>2, <2>3
<1> QED
  BY <1>1, <1>2, <1>3, <1>4, <1>5, <1>7, <1>8, <1>10, <1>11, ViewLetGo

-----------------------------------------------------------------------------
(* Steps of __init__. *)

\* A call that starts, goes on or ends is counted.
LEMMA CallCounted ==
  ASSUME ReaderInv, UNCHANGED <<held, views, iters, buffers>>, NEW t,
         \/ Calling' = Calling /\ refs' = refs
         \/ t \notin Calling /\ Calling' = Calling \cup {t} /\ refs' = refs + 1
         \/ t \in Calling /\ Calling' = Calling \ {t} /\ refs' = refs - 1
  PROVE  CountsAreExact'
<1>1. CountsAreExact
  BY DEF ReaderInv
<1>2. refs = One(held) + Cardinality(Viewed) + Cardinality(Calling)
  BY <1>1, CountsByHolders
<1>3. Viewed' = Viewed /\ One(held') = One(held)
  BY DEF Viewed, Free
<1>4. refs' - refs = Cardinality(Calling') - Cardinality(Calling) /\ Cardinality(Calling') \in Int
  <2>1. Cardinality(Calling) \in Nat /\ refs \in Nat
    BY HoldersCounted, TypeParts DEF ReaderInv
  <2>2. t \notin Calling /\ Calling' = Calling \cup {t} => Cardinality(Calling') = Cardinality(Calling) + 1
    BY HoldersFinite, CountAdd
  <2>3. t \in Calling /\ Calling' = Calling \ {t} => Cardinality(Calling') = Cardinality(Calling) - 1
    BY HoldersFinite, CountRemove
  <2> QED
    BY <2>1, <2>2, <2>3
<1>5. refs' = One(held') + Cardinality(Viewed') + Cardinality(Calling')
  <2>1. /\ Cardinality(Calling) \in Nat /\ Cardinality(Viewed) \in Nat /\ refs \in Nat
        /\ One(held) \in {0, 1} /\ refs' \in Int
    BY HoldersCounted, TypeParts, OneType DEF ReaderInv
  <2> QED
    BY <1>2, <1>3, <1>4, <2>1
<1> QED
  BY <1>1, <1>5 DEF CountsAreExact, Viewed, Calling, One, Free

\* Nothing that is viewed changes in a step of __init__.
LEMMA CallParts ==
  ASSUME ReaderInv, UNCHANGED <<views, iters, buffers>>,
         TypeOK', CountsAreExact', CallInv', OnceInv', ApartInv'
  PROVE  ReaderInv'
<1>1. \A w \in View : (~Free(w)' => ~Free(w)) /\ SameView(w)
  BY DEF Free, SameView
<1>2. ViewsInv' /\ ViewsShowSlices'
  BY <1>1, ViewsKept
<1>3. \A k \in Iter : iters[k].view # None => SameView(iters[k].view)
  BY DEF SameView
<1>4. RestInv'
  BY <1>2 DEF RestInv
<1> QED
  BY <1>3, <1>4, ItersStay

\* The records of calls.
LEMMA CallRecords ==
  /\ \A src \in Sources, f \in File :
        /\ Opening(src, f) \in CallType /\ Opening(src, f).pc = "opening" /\ Opening(src, f) # Idle
        /\ Opening(src, f).file = f
  /\ LET c == [Idle EXCEPT !.pc = "closing"] IN c \in CallType /\ c.pc = "closing" /\ c # Idle
<1>1. ASSUME NEW src \in Sources, NEW f \in File
      PROVE  /\ Opening(src, f) \in CallType /\ Opening(src, f).pc = "opening" /\ Opening(src, f) # Idle
             /\ Opening(src, f).file = f
  BY <1>1 DEF Opening, Idle, CallType
<1>2. LET c == [Idle EXCEPT !.pc = "closing"] IN c \in CallType /\ c.pc = "closing" /\ c # Idle
  BY DEF Idle, CallType
<1> QED
  BY <1>1, <1>2

\* One call moves to another point.
LEMMA CallMoved ==
  ASSUME ReaderInv, NEW t \in Thread, calls[t].pc # "idle",
         NEW p \in {"closed", "mapped", "opened", "failed"},
         calls' = [calls EXCEPT ![t].pc = p]
  PROVE  /\ calls' \in [Thread -> CallType] /\ Calling' = Calling /\ CallInv' /\ t \in Calling
         /\ calls'[t].pc = p /\ \A u \in Thread : u # t => calls'[u] = calls[u]
<1> DEFINE c == [calls[t] EXCEPT !.pc = p]
<1>1. calls \in [Thread -> CallType] /\ CallInv
  BY TypeParts DEF ReaderInv
<1>2. c \in CallType /\ c.pc = p
  BY <1>1 DEF CallType
<1>3. c # Idle /\ calls[t] # Idle
  BY <1>2, BlankTypes
<1>4. calls' = [calls EXCEPT ![t] = c]
  OBVIOUS
<1> HIDE DEF c
<1>5. calls' \in [Thread -> CallType] /\ calls'[t] = c /\ \A u \in Thread : u # t => calls'[u] = calls[u]
  BY <1>1, <1>2, <1>4
<1>6. Calling' = Calling /\ t \in Calling
  BY <1>3, <1>5 DEF Calling
<1>7. CallInv'
  BY <1>1, <1>2, <1>5 DEF CallInv
<1> QED
  BY <1>2, <1>5, <1>6, <1>7

\* One call starts, or is given its file.
LEMMA CallSet ==
  ASSUME ReaderInv, NEW t \in Thread, NEW c \in CallType, c # Idle, c.pc # "idle",
         c.pc = "opening" => c.file \in File,
         calls' = [calls EXCEPT ![t] = c]
  PROVE  /\ calls' \in [Thread -> CallType] /\ Calling' = Calling \cup {t} /\ CallInv'
         /\ calls'[t] = c /\ \A u \in Thread : u # t => calls'[u] = calls[u]
<1>1. calls \in [Thread -> CallType] /\ CallInv
  BY TypeParts DEF ReaderInv
<1>2. calls' \in [Thread -> CallType] /\ calls'[t] = c /\ \A u \in Thread : u # t => calls'[u] = calls[u]
  BY <1>1
<1> QED
  BY <1>1, <1>2 DEF CallInv, Calling

\* One call returns.
LEMMA CallReturned ==
  ASSUME ReaderInv, NEW t \in Thread, calls[t].pc # "idle", calls' = [calls EXCEPT ![t] = Idle]
  PROVE  /\ calls' \in [Thread -> CallType] /\ Calling' = Calling \ {t} /\ CallInv' /\ t \in Calling
         /\ \A u \in Thread : u # t => calls'[u] = calls[u]
<1>1. calls \in [Thread -> CallType] /\ CallInv
  BY TypeParts DEF ReaderInv
<1>2. /\ calls' \in [Thread -> CallType] /\ calls'[t] = Idle
      /\ \A u \in Thread : u # t => calls'[u] = calls[u]
  BY <1>1, BlankTypes
<1>3. calls[t] # Idle
  BY BlankTypes
<1>4. Calling' = Calling \ {t} /\ t \in Calling
  BY <1>2, <1>3 DEF Calling
<1>5. CallInv'
  BY <1>1, <1>2, BlankTypes DEF CallInv
<1> QED
  BY <1>2, <1>4, <1>5

\* Calls that do not overlap: there is one at the most, and one of them has
\* come as far as its file says.
LEMMA SoleCall ==
  ASSUME ReaderInv, ~overlap, NEW t \in Calling
  PROVE  Calling = {t}
  BY DEF ReaderInv, ApartInv

\* What is open is what the object refers to, and then something holds it.
LEMMA OnlyOpen ==
  ASSUME ReaderInv, ~overlap
  PROVE  /\ \A m \in 1..Len(maps) : maps[m].open => m = mem
         /\ ~Live(mem) => \A m \in 1..Len(maps) : ~maps[m].open
<1>1. \A m \in 1..Len(maps) : maps[m].open => m = mem
  BY DEF ReaderInv, ApartInv
<1>2. ASSUME ~Live(mem), NEW m \in 1..Len(maps), maps[m].open PROVE FALSE
  <2>1. m = mem /\ m # 0
    BY <1>1, <1>2
  <2> QED
    BY <1>2, <2>1 DEF Live
<1> QED
  BY <1>1, <1>2

\* Before the first call there is nothing.
LEMMA NothingYet ==
  ASSUME ReaderInv, inits = 0
  PROVE  /\ Calling = {} /\ maps = <<>> /\ ~overlap /\ ~is_open /\ Len(maps) <= 1
         /\ \A w \in View : ~Free(w) => Live(header) /\ views[w].from = header
         /\ \A b \in Buffer : buffers[b].view # None => buffers[b].from = header
         /\ fault \notin {"view unmapped", "header unmapped"}
<1>1. inits <= 1
  OBVIOUS
<1>2. OnceInv
  BY DEF ReaderInv
<1> QED
  BY <1>1, <1>2, Zenon DEF OnceInv

\* __init__ is called on an object that is open.
LEMMA InitBeginStep ==
  ASSUME ReaderInv, NEW t \in Thread, InitBegin(t)
  PROVE  ReaderInv'
<1> DEFINE c == [Idle EXCEPT !.pc = "closing"]
<1>1. /\ TypeOK /\ OnceInv /\ ApartInv /\ refs \in Nat /\ inits \in Nat /\ overlap \in BOOLEAN /\ is_open
      /\ calls[t] = Idle /\ calls' = [calls EXCEPT ![t] = c] /\ inits' = inits + 1 /\ refs' = refs + 1
      /\ overlap' = (overlap \/ \E u \in Thread : u # t /\ calls[u] # Idle)
      /\ UNCHANGED <<held, is_open, mem, header, maps, views, iters, buffers, fault>>
  BY TypeParts DEF ReaderInv, InitBegin, Enter
<1>2. c \in CallType /\ c # Idle /\ c.pc = "closing"
  BY CallRecords
<1> HIDE DEF c
<1>3. /\ calls' \in [Thread -> CallType] /\ Calling' = Calling \cup {t} /\ CallInv' /\ calls'[t] = c
  BY <1>1, <1>2, CallSet
<1>4. t \notin Calling
  BY <1>1 DEF Calling
<1>5. CountsAreExact'
  BY <1>1, <1>3, <1>4, CallCounted
<1>6. overlap' \in BOOLEAN /\ (~overlap' => ~overlap /\ Calling = {})
  BY <1>1 DEF Calling
<1>7. TypeOK'
  <2>1. refs' \in Nat /\ inits' \in Nat
    BY <1>1
  <2> QED
    BY <1>1, <1>3, <1>6, <2>1, TypeParts, TypeFromParts
<1>8. OnceInv'
  <2>1. inits' <= 1 => inits = 0
    BY <1>1
  <2>2. inits = 0 => ~is_open
    BY NothingYet
  <2>3. ~(inits' <= 1)
    BY <1>1, <2>1, <2>2
  <2> QED
    BY <2>3 DEF OnceInv
<1>9. ApartInv'
  <2> SUFFICES ASSUME ~overlap' PROVE ApartInv'
    BY DEF ApartInv
  <2>1. Calling' = {t} /\ Live(mem) /\ ~overlap /\ fault' # "closed twice"
    BY <1>1, <1>3, <1>6 DEF ApartInv
  <2>2. \A m \in 1..Len(maps) : maps[m].open => m = mem
    BY <2>1, OnlyOpen
  <2>3. refs' > 0
    BY <1>1
  <2> QED
    BY <1>1, <1>2, <1>3, <2>1, <2>2, <2>3 DEF ApartInv, Live
<1> QED
  BY <1>1, <1>3, <1>5, <1>7, <1>8, <1>9, CallParts

\* __init__ is called on an object that is closed.
LEMMA InitOpenStep ==
  ASSUME ReaderInv, NEW t \in Thread, NEW src \in Sources, NEW f \in File, InitOpen(t, src, f)
  PROVE  ReaderInv'
<1> DEFINE c == Opening(src, f)
<1>1. /\ TypeOK /\ OnceInv /\ ApartInv /\ refs \in Nat /\ inits \in Nat /\ overlap \in BOOLEAN /\ ~is_open
      /\ calls[t] = Idle /\ calls' = [calls EXCEPT ![t] = c] /\ inits' = inits + 1 /\ refs' = refs + 1
      /\ overlap' = (overlap \/ \E u \in Thread : u # t /\ calls[u] # Idle)
      /\ UNCHANGED <<held, is_open, mem, header, maps, views, iters, buffers, fault>>
  BY TypeParts DEF ReaderInv, InitOpen, Enter
<1>2. c \in CallType /\ c # Idle /\ c.pc = "opening" /\ c.file = f
  BY CallRecords
<1> HIDE DEF c
<1>3. /\ calls' \in [Thread -> CallType] /\ Calling' = Calling \cup {t} /\ CallInv' /\ calls'[t] = c
  BY <1>1, <1>2, CallSet
<1>4. t \notin Calling
  BY <1>1 DEF Calling
<1>5. CountsAreExact'
  BY <1>1, <1>3, <1>4, CallCounted
<1>6. overlap' \in BOOLEAN /\ (~overlap' => ~overlap /\ Calling = {}) /\ (overlap' => overlap \/ Calling # {})
  BY <1>1 DEF Calling
<1>7. TypeOK'
  <2>1. refs' \in Nat /\ inits' \in Nat
    BY <1>1
  <2> QED
    BY <1>1, <1>3, <1>6, <2>1, TypeParts, TypeFromParts
<1>8. OnceInv'
  <2> SUFFICES ASSUME inits' <= 1 PROVE OnceInv'
    BY DEF OnceInv
  <2>1. inits = 0 /\ inits' # 0
    BY <1>1
  <2>2. /\ Calling = {} /\ maps = <<>> /\ ~overlap
        /\ \A w \in View : ~Free(w) => Live(header) /\ views[w].from = header
        /\ \A b \in Buffer : buffers[b].view # None => buffers[b].from = header
        /\ fault \notin {"view unmapped", "header unmapped"}
    BY <2>1, NothingYet
  <2>3. Calling' = {t} /\ ~overlap'
    BY <1>3, <1>6, <2>2
  <2>4. Len(maps) <= 1
    BY <2>1, NothingYet
  <2> QED
    BY <1>1, <1>2, <1>3, <2>1, <2>2, <2>3, <2>4 DEF OnceInv, Free, Live
<1>9. ApartInv'
  <2> SUFFICES ASSUME ~overlap' PROVE ApartInv'
    BY DEF ApartInv
  <2>1. Calling' = {t} /\ ~Live(mem) /\ ~overlap /\ fault' # "closed twice"
    BY <1>1, <1>3, <1>6 DEF ApartInv
  <2>2. \A m \in 1..Len(maps) : ~maps[m].open
    BY <2>1, OnlyOpen
  <2> QED
    BY <1>1, <1>2, <1>3, <2>1, <2>2 DEF ApartInv, Live
<1> QED
  BY <1>1, <1>3, <1>5, <1>7, <1>8, <1>9, CallParts

\* A call that closes is not the first.
LEMMA CloserIsLater ==
  ASSUME ReaderInv, NEW t \in Calling, calls[t].pc \in {"closing", "closed"}
  PROVE  ~(inits <= 1)
  BY DEF ReaderInv, OnceInv

\* The call closes the object first.
LEMMA InitCloseStep ==
  ASSUME ReaderInv, NEW t \in Thread, InitClose(t)
  PROVE  ReaderInv'
<1>1. /\ TypeOK /\ OnceInv /\ ApartInv /\ calls[t].pc = "closing" /\ Defined
      /\ calls' = [calls EXCEPT ![t].pc = "closed"] /\ Close
      /\ UNCHANGED <<refs, held, is_open, mem, header, views, iters, buffers, inits, overlap>>
      /\ mem \in 0..Len(maps)
  BY TypeParts DEF ReaderInv, InitClose
<1>2. /\ calls' \in [Thread -> CallType] /\ Calling' = Calling /\ CallInv' /\ t \in Calling
      /\ calls'[t].pc = "closed"
  BY <1>1, CallMoved
<1>3. CountsAreExact'
  BY <1>1, <1>2, CallCounted
<1>4. /\ maps' \in Seq(MapType) /\ Len(maps') = Len(maps) /\ fault' \in Faults
      /\ \A m \in 1..Len(maps) : m # mem => maps'[m] = maps[m]
      /\ mem # 0 => maps'[mem].open = FALSE
      /\ mem = 0 \/ maps[mem].open => fault' = fault
  BY <1>1, CloseEffect
<1>5. TypeOK'
  BY <1>1, <1>2, <1>4, TypeParts, TypeFromParts
<1>6. OnceInv'
  BY <1>1, <1>2, CloserIsLater DEF OnceInv
<1>7. ApartInv'
  <2> SUFFICES ASSUME ~overlap PROVE ApartInv'
    BY <1>1 DEF ApartInv
  <2>1. Calling = {t} /\ is_open /\ Live(mem)
    BY <1>1, <1>2, SoleCall DEF ApartInv
  <2>2. fault' # "closed twice"
    BY <1>1, <1>4, <2>1 DEF Live, Defined, None
  <2>3. \A m \in 1..Len(maps) : ~maps'[m].open
    BY <1>4, <2>1, OnlyOpen DEF Live
  <2>4. ~Live(mem)'
    BY <1>1, <1>4 DEF Live
  <2> QED
    BY <1>1, <1>2, <1>4, <2>1, <2>2, <2>3, <2>4 DEF ApartInv
<1> QED
  BY <1>1, <1>2, <1>3, <1>5, <1>6, <1>7, CallParts

\* Then it goes on to open it.
LEMMA InitReopenStep ==
  ASSUME ReaderInv, NEW t \in Thread, NEW src \in Sources, NEW f \in File, InitReopen(t, src, f)
  PROVE  ReaderInv'
<1> DEFINE c == Opening(src, f)
<1>1. /\ TypeOK /\ OnceInv /\ ApartInv /\ calls[t].pc = "closed"
      /\ is_open' = FALSE /\ calls' = [calls EXCEPT ![t] = c]
      /\ UNCHANGED <<refs, held, mem, header, maps, views, iters, buffers, inits, overlap, fault>>
  BY DEF ReaderInv, InitReopen
<1>2. c \in CallType /\ c # Idle /\ c.pc = "opening" /\ c.file = f
  BY CallRecords
<1> HIDE DEF c
<1>3. t \in Calling
  BY <1>1, BlankTypes DEF Calling
<1>4. calls' \in [Thread -> CallType] /\ Calling' = Calling /\ CallInv' /\ calls'[t] = c
  <2>1. calls' \in [Thread -> CallType] /\ Calling' = Calling \cup {t} /\ CallInv' /\ calls'[t] = c
    BY <1>1, <1>2, CallSet
  <2> QED
    BY <1>3, <2>1
<1>5. CountsAreExact'
  BY <1>1, <1>4, CallCounted
<1>6. TypeOK'
  BY <1>1, <1>4, TypeParts, TypeFromParts
<1>7. OnceInv'
  BY <1>1, <1>3, CloserIsLater DEF OnceInv
<1>8. ApartInv'
  <2> SUFFICES ASSUME ~overlap PROVE ApartInv'
    BY <1>1 DEF ApartInv
  <2>1. Calling = {t} /\ ~Live(mem) /\ fault # "closed twice"
    BY <1>1, <1>3, SoleCall DEF ApartInv
  <2>2. \A m \in 1..Len(maps) : ~maps[m].open
    BY <2>1, OnlyOpen
  <2> QED
    BY <1>1, <1>2, <1>4, <2>1, <2>2 DEF ApartInv, Live
<1> QED
  BY <1>1, <1>4, <1>5, <1>6, <1>7, <1>8, CallParts

\* Or it is refused, and leaves the object closed.
LEMMA InitRefusedStep ==
  ASSUME ReaderInv, NEW t \in Thread, InitRefused(t)
  PROVE  ReaderInv'
<1>1. /\ TypeOK /\ OnceInv /\ ApartInv /\ calls[t].pc = "closed"
      /\ calls' = [calls EXCEPT ![t] = Idle] /\ refs' = refs - 1 /\ is_open' = FALSE
      /\ UNCHANGED <<held, mem, header, maps, views, iters, buffers, inits, overlap, fault>>
  BY DEF ReaderInv, InitRefused, ObjectUnref
<1>2. calls' \in [Thread -> CallType] /\ Calling' = Calling \ {t} /\ CallInv' /\ t \in Calling
  BY <1>1, CallReturned
<1>3. refs > 0 /\ refs \in Nat
  BY <1>2, HeldObject DEF Calling
<1>4. CountsAreExact'
  BY <1>1, <1>2, CallCounted
<1>5. TypeOK'
  <2>1. refs' \in Nat
    BY <1>1, <1>3
  <2> QED
    BY <1>1, <1>2, <2>1, TypeParts, TypeFromParts
<1>6. OnceInv'
  BY <1>1, <1>2, CloserIsLater DEF OnceInv
<1>7. ApartInv'
  <2> SUFFICES ASSUME ~overlap PROVE ApartInv'
    BY <1>1 DEF ApartInv
  <2>1. Calling' = {} /\ ~Live(mem) /\ fault # "closed twice"
    BY <1>1, <1>2, SoleCall DEF ApartInv
  <2>2. \A m \in 1..Len(maps) : ~maps[m].open
    BY <2>1, OnlyOpen
  <2> QED
    BY <1>1, <2>1, <2>2 DEF ApartInv, Live
<1> QED
  BY <1>1, <1>2, <1>4, <1>5, <1>6, <1>7, CallParts

\* The buffer that the object reads from is resized.
LEMMA SourceResizedStep ==
  ASSUME ReaderInv, NEW t \in Thread, SourceResized(t)
  PROVE  ReaderInv'
<1> DEFINE c == [calls[t] EXCEPT !.lost = TRUE]
<1>1. /\ TypeOK /\ OnceInv /\ ApartInv /\ CallInv /\ calls \in [Thread -> CallType]
      /\ calls[t].pc = "opening" /\ calls' = [calls EXCEPT ![t] = c]
      /\ UNCHANGED <<refs, held, is_open, mem, header, maps, views, iters, buffers, inits, overlap, fault>>
  BY TypeParts DEF ReaderInv, SourceResized, objvars
<1>2. c \in CallType /\ c.pc = "opening" /\ c.file = calls[t].file
  BY <1>1 DEF CallType
<1>3. c # Idle /\ t \in Calling
  BY <1>1, <1>2, BlankTypes DEF Calling
<1> HIDE DEF c
<1>4. calls' \in [Thread -> CallType] /\ Calling' = Calling /\ CallInv'
  <2>1. calls' \in [Thread -> CallType] /\ Calling' = Calling \cup {t} /\ CallInv'
    BY <1>1, <1>2, <1>3, CallSet DEF CallInv
  <2> QED
    BY <1>3, <2>1
<1>5. \A u \in Thread : calls'[u].pc = calls[u].pc
  BY <1>1, <1>2
<1>6. CountsAreExact'
  BY <1>1, <1>4, CallCounted
<1>7. TypeOK'
  BY <1>1, <1>4, TypeParts, TypeFromParts
<1>8. \A u \in Calling : u \in Thread
  BY DEF Calling
<1>9. OnceInv'
  BY <1>1, <1>4, <1>5, <1>8 DEF OnceInv, Free, Live
<1>10. ApartInv'
  BY <1>1, <1>4, <1>5, <1>8 DEF ApartInv, Live
<1> QED
  BY <1>1, <1>4, <1>6, <1>7, <1>9, <1>10, CallParts

\* Before the header of the first file is read there are no views.
LEMMA NoViewsYet ==
  ASSUME ReaderInv, inits <= 1, header = 0
  PROVE  /\ \A w \in View : Free(w)
         /\ \A b \in Buffer : buffers[b].view = None
<1>1. ASSUME NEW w \in View PROVE Free(w)
  <2>1. ~Live(header)
    BY DEF Live
  <2> QED
    BY <2>1 DEF ReaderInv, OnceInv
<1>2. ASSUME NEW b \in Buffer, buffers[b].view # None PROVE FALSE
  <2>1. buffers[b].view \in View
    BY <1>2, TypeParts DEF ReaderInv, BufferType
  <2> QED
    BY <1>1, <2>1, HeldIsCounted
<1> QED
  BY <1>1, <1>2

\* The file is mapped.
LEMMA OpenMapStep ==
  ASSUME ReaderInv, NEW t \in Thread, OpenMap(t)
  PROVE  ReaderInv'
<1> DEFINE m0 == [file |-> calls[t].file, open |-> TRUE]
<1>1. /\ TypeOK /\ OnceInv /\ ApartInv /\ calls[t].pc = "opening" /\ Defined
      /\ calls \in [Thread -> CallType] /\ maps \in Seq(MapType)
      /\ mem \in 0..Len(maps) /\ header \in 0..Len(maps)
      /\ maps' = Append(maps, m0) /\ mem' = Len(maps) + 1
      /\ calls' = [calls EXCEPT ![t].pc = "mapped"]
      /\ UNCHANGED <<refs, held, is_open, header, views, iters, buffers, inits, overlap>>
  BY TypeParts DEF ReaderInv, OpenMap
<1>2. m0 \in MapType /\ m0.open
  BY <1>1 DEF ReaderInv, CallInv, MapType
<1> HIDE DEF m0
<1>3. /\ calls' \in [Thread -> CallType] /\ Calling' = Calling /\ CallInv' /\ t \in Calling
      /\ calls'[t].pc = "mapped"
  BY <1>1, CallMoved
<1>4. CountsAreExact'
  BY <1>1, <1>3, CallCounted
<1>5. /\ maps' \in Seq(MapType) /\ Len(maps') = Len(maps) + 1 /\ maps'[Len(maps) + 1] = m0
      /\ \A m \in 1..Len(maps) : maps'[m] = maps[m]
      /\ Len(maps) \in Nat
  BY <1>1, <1>2
<1>6. fault' \in {None, "source freed"} /\ fault' \in Faults
  BY DEF OpenMap, Defined, Faults
<1>7. mem' \in 0..Len(maps') /\ header' \in 0..Len(maps')
  BY <1>1, <1>5
<1>8. TypeOK'
  BY <1>1, <1>3, <1>5, <1>6, <1>7, TypeParts, TypeFromParts
<1>9. OnceInv'
  <2> SUFFICES ASSUME inits <= 1 PROVE OnceInv'
    BY <1>1 DEF OnceInv
  <2>1. maps = <<>> /\ ~overlap /\ inits # 0
    BY <1>1, <1>3 DEF OnceInv
  <2>2. Calling = {t} /\ ~is_open
    BY <1>1, <1>3, <2>1, SoleCall DEF ApartInv
  <2>3. header = 0 /\ Len(maps') <= 1
    BY <1>1, <1>5, <2>1
  <2>4. (\A w \in View : Free(w)) /\ \A b \in Buffer : buffers[b].view = None
    BY <2>3, NoViewsYet
  <2> QED
    BY <1>1, <1>3, <1>6, <2>1, <2>2, <2>3, <2>4 DEF OnceInv, Free, None
<1>10. ApartInv'
  <2> SUFFICES ASSUME ~overlap PROVE ApartInv'
    BY <1>1 DEF ApartInv
  <2>1. Calling = {t} /\ ~is_open /\ ~Live(mem)
    BY <1>1, <1>3, SoleCall DEF ApartInv
  <2>2. \A m \in 1..Len(maps) : ~maps[m].open
    BY <2>1, OnlyOpen
  <2>3. \A m \in 1..Len(maps') : maps'[m].open => m = mem'
    BY <1>1, <1>5, <2>2
  <2>4. refs' > 0
    BY <1>1, <1>3, HeldObject DEF Calling
  <2>5. Live(mem)'
    BY <1>1, <1>2, <1>5 DEF Live
  <2> QED
    BY <1>1, <1>3, <1>6, <2>1, <2>3, <2>4, <2>5 DEF ApartInv, None
<1> QED
  BY <1>1, <1>3, <1>4, <1>8, <1>9, <1>10, CallParts

\* It is not.
LEMMA OpenMapFailsStep ==
  ASSUME ReaderInv, NEW t \in Thread, OpenMapFails(t)
  PROVE  ReaderInv'
<1>1. /\ TypeOK /\ OnceInv /\ ApartInv /\ calls[t].pc = "opening"
      /\ mem' = 0 /\ calls' = [calls EXCEPT ![t].pc = "failed"]
      /\ UNCHANGED <<refs, held, is_open, header, maps, views, iters, buffers, inits, overlap, fault>>
      /\ maps \in Seq(MapType)
  BY TypeParts DEF ReaderInv, OpenMapFails
<1>2. /\ calls' \in [Thread -> CallType] /\ Calling' = Calling /\ CallInv' /\ t \in Calling
      /\ calls'[t].pc = "failed"
  BY <1>1, CallMoved
<1>3. CountsAreExact'
  BY <1>1, <1>2, CallCounted
<1>4. TypeOK'
  <2>1. mem' \in 0..Len(maps')
    BY <1>1
  <2> QED
    BY <1>1, <1>2, <2>1, TypeParts, TypeFromParts
<1>5. OnceInv'
  <2> SUFFICES ASSUME inits <= 1 PROVE OnceInv'
    BY <1>1 DEF OnceInv
  <2>1. ~overlap
    BY DEF ReaderInv, OnceInv
  <2>2. Calling = {t} /\ ~is_open
    BY <1>1, <1>2, <2>1, SoleCall DEF ApartInv
  <2> QED
    BY <1>1, <1>2, <2>1, <2>2 DEF OnceInv, Free, Live
<1>6. ApartInv'
  <2> SUFFICES ASSUME ~overlap PROVE ApartInv'
    BY <1>1 DEF ApartInv
  <2>1. Calling = {t} /\ ~is_open /\ ~Live(mem) /\ fault # "closed twice"
    BY <1>1, <1>2, SoleCall DEF ApartInv
  <2>2. \A m \in 1..Len(maps) : ~maps[m].open
    BY <2>1, OnlyOpen
  <2>3. ~Live(mem)'
    BY <1>1 DEF Live
  <2> QED
    BY <1>1, <1>2, <2>1, <2>2, <2>3 DEF ApartInv
<1> QED
  BY <1>1, <1>2, <1>3, <1>4, <1>5, <1>6, CallParts

\* The header is good.
LEMMA OpenHeaderStep ==
  ASSUME ReaderInv, NEW t \in Thread, OpenHeader(t)
  PROVE  ReaderInv'
<1>1. /\ TypeOK /\ OnceInv /\ ApartInv /\ calls[t].pc = "mapped" /\ Defined
      /\ calls' = [calls EXCEPT ![t].pc = "opened"]
      /\ UNCHANGED <<refs, held, is_open, mem, maps, views, iters, buffers, inits, overlap>>
      /\ mem \in 0..Len(maps) /\ header \in 0..Len(maps)
  BY TypeParts DEF ReaderInv, OpenHeader
<1>2. /\ calls' \in [Thread -> CallType] /\ Calling' = Calling /\ CallInv' /\ t \in Calling
      /\ calls'[t].pc = "opened"
  BY <1>1, CallMoved
<1>3. CountsAreExact'
  BY <1>1, <1>2, CallCounted
<1>4. header' \in {header, mem} /\ fault' \in {None, "header unmapped"} /\ fault' \in Faults
  BY DEF OpenHeader, Defined, Faults
<1>5. ~overlap => Live(mem) /\ ~is_open /\ Calling = {t} /\ header' = mem /\ fault' = None
  BY <1>1, <1>2, SoleCall DEF ApartInv, OpenHeader, Defined
<1>6. TypeOK'
  BY <1>1, <1>2, <1>4, TypeParts, TypeFromParts
<1>7. OnceInv'
  <2> SUFFICES ASSUME inits <= 1 PROVE OnceInv'
    BY <1>1 DEF OnceInv
  <2>1. /\ ~overlap /\ header = 0 /\ Len(maps) <= 1 /\ inits # 0
    BY <1>1, <1>2 DEF OnceInv
  <2>2. (\A w \in View : Free(w)) /\ \A b \in Buffer : buffers[b].view = None
    BY <2>1, NoViewsYet
  <2> QED
    BY <1>1, <1>2, <1>5, <2>1, <2>2 DEF OnceInv, Free, None
<1>8. ApartInv'
  <2> SUFFICES ASSUME ~overlap PROVE ApartInv'
    BY <1>1 DEF ApartInv
  <2>1. \A m \in 1..Len(maps) : maps[m].open => m = mem /\ refs > 0
    BY <1>1 DEF ApartInv
  <2> QED
    BY <1>1, <1>2, <1>5, <2>1 DEF ApartInv, Live, None
<1> QED
  BY <1>1, <1>2, <1>3, <1>6, <1>7, <1>8, CallParts

\* It is not.
LEMMA OpenHeaderFailsStep ==
  ASSUME ReaderInv, NEW t \in Thread, NEW short \in BOOLEAN, OpenHeaderFails(t, short)
  PROVE  ReaderInv'
<1>1. /\ TypeOK /\ OnceInv /\ ApartInv /\ calls[t].pc = "mapped" /\ Defined /\ Close
      /\ calls' = [calls EXCEPT ![t].pc = "failed"]
      /\ UNCHANGED <<refs, held, is_open, mem, views, iters, buffers, inits, overlap>>
      /\ mem \in 0..Len(maps) /\ header \in 0..Len(maps) /\ header' \in {header, mem}
  BY TypeParts DEF ReaderInv, OpenHeaderFails
<1>2. /\ calls' \in [Thread -> CallType] /\ Calling' = Calling /\ CallInv' /\ t \in Calling
      /\ calls'[t].pc = "failed"
  BY <1>1, CallMoved
<1>3. CountsAreExact'
  BY <1>1, <1>2, CallCounted
<1>4. /\ maps' \in Seq(MapType) /\ Len(maps') = Len(maps) /\ fault' \in Faults
      /\ \A m \in 1..Len(maps) : m # mem => maps'[m] = maps[m]
      /\ mem # 0 => maps'[mem].open = FALSE
      /\ mem = 0 \/ maps[mem].open => fault' = fault
  BY <1>1, CloseEffect
<1>5. ~overlap => Live(mem) /\ ~is_open /\ Calling = {t} /\ fault' = None
  BY <1>1, <1>2, <1>4, SoleCall DEF ApartInv, Live, Defined
<1>6. TypeOK'
  BY <1>1, <1>2, <1>4, TypeParts, TypeFromParts
<1>7. OnceInv'
  <2> SUFFICES ASSUME inits <= 1 PROVE OnceInv'
    BY <1>1 DEF OnceInv
  <2>1. /\ ~overlap /\ header = 0 /\ Len(maps) <= 1 /\ inits # 0
    BY <1>1, <1>2 DEF OnceInv
  <2>2. (\A w \in View : Free(w)) /\ \A b \in Buffer : buffers[b].view = None
    BY <2>1, NoViewsYet
  <2> QED
    BY <1>1, <1>2, <1>4, <1>5, <2>1, <2>2 DEF OnceInv, Free, None
<1>8. ApartInv'
  <2> SUFFICES ASSUME ~overlap PROVE ApartInv'
    BY <1>1 DEF ApartInv
  <2>1. \A m \in 1..Len(maps) : ~maps'[m].open
    BY <1>4, <1>5, OnlyOpen DEF Live
  <2>2. ~Live(mem)'
    BY <1>1, <1>4 DEF Live
  <2> QED
    BY <1>1, <1>2, <1>4, <1>5, <2>1, <2>2 DEF ApartInv, None
<1> QED
  BY <1>1, <1>2, <1>3, <1>6, <1>7, <1>8, CallParts

\* The call returns.
LEMMA InitEndStep ==
  ASSUME ReaderInv, NEW t \in Thread, InitEnd(t)
  PROVE  ReaderInv'
<1> DEFINE open == is_open \/ calls[t].pc = "opened"
<1>1. /\ TypeOK /\ OnceInv /\ ApartInv /\ calls[t].pc \in {"opened", "failed"} /\ Defined
      /\ calls' = [calls EXCEPT ![t] = Idle] /\ refs' = refs - 1
      /\ UNCHANGED <<held, mem, header, views, iters, buffers, inits, overlap>>
      /\ mem \in 0..Len(maps) /\ header \in 0..Len(maps) /\ is_open \in BOOLEAN
      /\ maps \in Seq(MapType) /\ fault \in Faults /\ held \in BOOLEAN
  BY TypeParts DEF ReaderInv, InitEnd, ObjectUnref
<1>2. calls' \in [Thread -> CallType] /\ Calling' = Calling \ {t} /\ CallInv' /\ t \in Calling
  BY <1>1, CallReturned
<1>3. refs > 0 /\ refs \in Nat /\ refs' \in Nat
  <2>1. refs > 0 /\ refs \in Nat
    BY <1>2, HeldObject DEF Calling
  <2> QED
    BY <1>1, <2>1
<1>4. CountsAreExact'
  BY <1>1, <1>2, CallCounted
<1>5. ~overlap => /\ Calling' = {} /\ ~is_open
                  /\ calls[t].pc = "opened" => Live(mem)
                  /\ calls[t].pc = "failed" => ~Live(mem)
  BY <1>1, <1>2, SoleCall DEF ApartInv
<1>6. inits <= 1 => /\ ~overlap /\ Len(maps) <= 1 /\ inits # 0
                    /\ calls[t].pc = "opened" => header = mem
                    /\ \A w \in View : ~Free(w) => Live(header) /\ views[w].from = header
                    /\ \A b \in Buffer : buffers[b].view # None => buffers[b].from = header
  BY <1>1, <1>2 DEF OnceInv
<1>7. CASE refs = 1 /\ open
  <2>1. Close /\ is_open' = FALSE
    BY <1>7 DEF InitEnd, ObjectUnref
  <2>2. /\ maps' \in Seq(MapType) /\ Len(maps') = Len(maps) /\ fault' \in Faults
        /\ \A m \in 1..Len(maps) : m # mem => maps'[m] = maps[m]
        /\ mem # 0 => maps'[mem].open = FALSE
        /\ mem = 0 \/ maps[mem].open => fault' = fault
    BY <1>1, <2>1, CloseEffect
  <2>3. Viewed' = {} /\ Calling' = {}
    BY <1>1, <1>4, <1>7, NobodyLeft
  <2>4. ~overlap => Live(mem) /\ fault' = None
    BY <1>1, <1>5, <1>7, <2>2 DEF Live, Defined
  <2>5. TypeOK'
    BY <1>1, <1>2, <1>3, <2>1, <2>2, TypeParts, TypeFromParts
  <2>6. OnceInv'
    BY <1>1, <1>6, <2>1, <2>2, <2>3, <2>4 DEF OnceInv, Viewed, None
  <2>7. ApartInv'
    <3> SUFFICES ASSUME ~overlap PROVE ApartInv'
      BY <1>1 DEF ApartInv
    <3>1. \A m \in 1..Len(maps) : ~maps'[m].open
      BY <2>2, OnlyOpen
    <3>2. ~Live(mem)'
      BY <1>1, <2>2 DEF Live
    <3> QED
      BY <2>1, <2>2, <2>3, <2>4, <3>1, <3>2 DEF ApartInv, None
  <2> QED
    BY <1>1, <1>2, <1>4, <2>5, <2>6, <2>7, CallParts
<1>8. CASE ~(refs = 1 /\ open)
  <2>1. is_open' = open /\ UNCHANGED <<maps, fault>>
    BY <1>8 DEF InitEnd, ObjectUnref
  <2>2. TypeOK'
    BY <1>1, <1>2, <1>3, <2>1, TypeParts, TypeFromParts
  <2>3. OnceInv'
    <3> SUFFICES ASSUME inits <= 1 PROVE OnceInv'
      BY <1>1 DEF OnceInv
    <3>1. Calling' = {} /\ (is_open' => header = mem)
      BY <1>5, <1>6, <2>1
    <3>2. fault = None
      BY <1>1 DEF Defined
    <3> QED
      BY <1>1, <1>6, <2>1, <3>1, <3>2 DEF OnceInv, Free, Live, None
  <2>4. ApartInv'
    <3> SUFFICES ASSUME ~overlap PROVE ApartInv'
      BY <1>1 DEF ApartInv
    <3>1. Calling' = {} /\ (is_open' <=> Live(mem)) /\ (is_open' => refs # 1)
      BY <1>1, <1>5, <1>8, <2>1
    <3>2. \A m \in 1..Len(maps) : maps[m].open => m = mem /\ Live(mem)
      BY <3>1, OnlyOpen
    <3>3. is_open' => refs' > 0
      BY <1>1, <1>3, <3>1
    <3>4. fault = None
      BY <1>1 DEF Defined
    <3> QED
      BY <1>1, <2>1, <3>1, <3>2, <3>3, <3>4 DEF ApartInv, Live, None
  <2> QED
    BY <1>1, <1>2, <1>4, <2>2, <2>3, <2>4, CallParts
<1> QED
  BY <1>7, <1>8

-----------------------------------------------------------------------------
(* The invariant. *)

\* At first there is no object.
LEMMA ReaderInit == Init => ReaderInv
<1> SUFFICES ASSUME Init PROVE ReaderInv
  OBVIOUS
<1>1. /\ refs = 1 /\ held = TRUE /\ is_open = FALSE /\ mem = 0 /\ header = 0 /\ maps = <<>>
      /\ views = [w \in View |-> NoView] /\ iters = [k \in Iter |-> NoIter]
      /\ buffers = [b \in Buffer |-> NoBuffer] /\ calls = [t \in Thread |-> Idle]
      /\ inits = 0 /\ overlap = FALSE /\ fault = None
  BY DEF Init
<1>2. maps \in Seq(MapType) /\ Len(maps) = 0
  <2>1. <<>> \in Seq(MapType) /\ Len(<<>>) = 0
    OBVIOUS
  <2> QED
    BY <1>1, <2>1
<1>3. /\ views \in [View -> ViewType] /\ iters \in [Iter -> IterType]
      /\ buffers \in [Buffer -> BufferType] /\ calls \in [Thread -> CallType]
  BY <1>1, BlankTypes
<1>4. mem \in 0..Len(maps) /\ header \in 0..Len(maps)
  BY <1>1, <1>2
<1>5. TypeOK
  BY <1>1, <1>2, <1>3, <1>4 DEF TypeOK, ViewType, IterType, BufferType, CallType, MapType
<1>6. /\ \A w \in View : views[w] = NoView
      /\ \A k \in Iter : iters[k] = NoIter
      /\ \A b \in Buffer : buffers[b] = NoBuffer
      /\ \A t \in Thread : calls[t] = Idle
  BY <1>1
<1>7. Viewed = {} /\ Calling = {} /\ \A w \in View : ItersOf(w) = {} /\ BuffersOf(w) = {}
  BY <1>6, BlankTypes, FiniteAssumption DEF Viewed, Calling, ItersOf, BuffersOf, Free
<1>8. CountsAreExact
  <2>1. refs = One(held) + Cardinality(Viewed) + Cardinality(Calling)
    BY <1>1, <1>7, FS_EmptySet DEF One
  <2>2. ASSUME NEW w \in View
        PROVE  views[w].refs = One(views[w].held) + Cardinality(ItersOf(w)) + Cardinality(BuffersOf(w))
    <3>1. Cardinality(ItersOf(w)) = 0 /\ Cardinality(BuffersOf(w)) = 0
      BY <1>7, FS_EmptySet
    <3>2. views[w].refs = 0 /\ One(views[w].held) = 0
      BY <1>6, BlankTypes DEF One
    <3> QED
      BY <3>1, <3>2
  <2>3. \A w \in View : Free(w)
    BY <1>6 DEF Free
  <2> QED
    BY <2>1, <2>2, <2>3, CountsByHolders
<1>9. CallInv
  BY <1>6, BlankTypes DEF CallInv
<1>10. OnceInv
  <2>1. Len(maps) <= 1
    BY <1>2
  <2>2. \A b \in Buffer : buffers[b].view = None
    BY <1>6, BlankTypes
  <2>3. fault \notin {"view unmapped", "header unmapped"}
    BY <1>1 DEF None
  <2> QED
    BY <1>1, <1>6, <1>7, <2>1, <2>2, <2>3 DEF OnceInv, Free
<1>11. ApartInv
  <2>1. 1..Len(maps) = {} /\ ~Live(mem)
    BY <1>1, <1>2 DEF Live
  <2> QED
    BY <1>1, <1>7, <2>1 DEF ApartInv, None
<1>12. ViewsInv /\ ViewsShowSlices
  BY <1>6 DEF ViewsInv, ViewsShowSlices, Free
<1>13. ItersInv /\ IteratorsAreExact
  BY <1>6, BlankTypes DEF ItersInv, IteratorsAreExact
<1> QED
  BY <1>5, <1>8, <1>9, <1>10, <1>11, <1>12, <1>13 DEF ReaderInv

\* Every step keeps the invariant.
LEMMA ReaderStep ==
  ASSUME ReaderInv, [Next]_vars
  PROVE  ReaderInv'
<1>1. CASE UNCHANGED vars
  <2>1. UNCHANGED <<objvars, views, iters, buffers, callvars>> /\ fault' = fault
    BY <1>1 DEF vars
  <2>2. OnceInv /\ ApartInv /\ TypeOK /\ fault \in Faults
    BY TypeParts DEF ReaderInv
  <2>3. CASE fault # "closed twice"
    BY <2>1, <2>2, <2>3, FaultMet DEF OnceInv
  <2>4. CASE fault = "closed twice"
    <3>1. UNCHANGED <<refs, held, is_open, mem, header, maps, calls, inits, overlap, fault,
                      views, iters, buffers>>
      BY <2>1 DEF objvars, callvars
    <3>5. TypeOK'
      BY <2>2, <3>1, TypeParts, TypeFromParts
    <3>2. CountsAreExact' /\ CallInv'
      <4>1. CountsAreExact /\ CallInv
        BY DEF ReaderInv
      <4>2. CountsAreExact'
        BY <3>1, <4>1 DEF CountsAreExact, Free
      <4>3. CallInv'
        BY <3>1, <4>1 DEF CallInv
      <4> QED
        BY <4>2, <4>3
    <3>3. OnceInv'
      BY <2>2, <3>1 DEF OnceInv, Calling, Free, Live
    <3>4. ApartInv'
      BY <2>2, <3>1 DEF ApartInv, Calling, Live
    <3> QED
      BY <3>1, <3>2, <3>3, <3>4, <3>5, CallParts
  <2> QED
    BY <2>3, <2>4
<1>2. CASE Viewing
  <2>1. PICK w \in View :
          \/ GetRoot(w) \/ ReadUnbacked(w) \/ DropView(w)
          \/ \E new \in View : (\E i \in Index : Subscript(w, i, new))
                               \/ (\E key \in Index : MapSubscript(w, key, new))
                               \/ \E lo, hi \in Index : Slice(w, lo, hi, new)
    BY <1>2 DEF Viewing
  <2> QED
    BY <2>1, GetRootStep, ReadUnbackedStep, DropViewStep, SubscriptStep, MapSubscriptStep, SliceStep
<1>3. CASE DropObject
  BY <1>3, DropObjectStep
<1>4. CASE Iterating
  <2>1. PICK k \in Iter :
          \/ \E w \in View : \E b \in BOOLEAN : SetIter(k, w) \/ VectorIter(k, w, b) \/ MapIter(k, w, b)
          \/ \E new \in View \cup {None} : IterNext(k, new)
          \/ IterNextFails(k) \/ IterEnd(k) \/ IterUnbacked(k) \/ IterDealloc(k)
    BY <1>4 DEF Iterating
  <2> QED
    BY <2>1, StartStep, IterNextStep, IterNextFailsStep, IterEndStep, IterUnbackedStep, IterDeallocStep
<1>5. CASE Exporting
  BY <1>5, GetBufferStep, ReleaseBufferStep DEF Exporting
<1>6. CASE Constructing
  <2>1. PICK t \in Thread :
          \/ InitBegin(t) \/ InitClose(t) \/ InitRefused(t)
          \/ \E src \in Sources, f \in File : InitReopen(t, src, f) \/ InitOpen(t, src, f)
          \/ SourceResized(t) \/ OpenMap(t) \/ OpenMapFails(t)
          \/ OpenHeader(t) \/ (\E short \in BOOLEAN : OpenHeaderFails(t, short))
          \/ InitEnd(t)
    BY <1>6 DEF Constructing
  <2>2. CASE InitBegin(t) \/ InitClose(t) \/ InitRefused(t)
    BY <2>2, InitBeginStep, InitCloseStep, InitRefusedStep
  <2>3. CASE \E src \in Sources, f \in File : InitReopen(t, src, f) \/ InitOpen(t, src, f)
    BY <2>3, InitReopenStep, InitOpenStep
  <2>4. CASE SourceResized(t) \/ OpenMap(t) \/ OpenMapFails(t) \/ OpenHeader(t)
    BY <2>4, SourceResizedStep, OpenMapStep, OpenMapFailsStep, OpenHeaderStep
  <2>5. CASE (\E short \in BOOLEAN : OpenHeaderFails(t, short)) \/ InitEnd(t)
    BY <2>5, OpenHeaderFailsStep, InitEndStep
  <2> QED
    BY <2>1, <2>2, <2>3, <2>4, <2>5
<1>7. CASE Over
  BY <1>1, <1>7 DEF Over
<1> QED
  BY <1>1, <1>2, <1>3, <1>4, <1>5, <1>6, <1>7 DEF Next

\* The inductive invariant of the object, its views, iterators and buffers.
THEOREM ReaderCorrect == Spec => []ReaderInv
<1>1. Init => ReaderInv
  BY ReaderInit
<1>2. ReaderInv /\ [Next]_vars => ReaderInv'
  BY ReaderStep
<1> QED
  BY <1>1, <1>2, PTL DEF Spec

\* Reference counts are what they should be, in whichever order the program,
\* iterators, buffers and calls of __init__ take hold of and let go of the
\* object and its views.
THEOREM CountsHold == Spec => []CountsAreExact
<1>1. ReaderInv => CountsAreExact
  BY DEF ReaderInv
<1> QED
  BY <1>1, ReaderCorrect, PTL

\* While __init__ has run only once, the file is there for every view, iterator
\* and buffer.
THEOREM BackingHolds == Spec => []ViewsAreBacked
<1>1. ASSUME ReaderInv PROVE ViewsAreBacked
  <2> SUFFICES ASSUME inits <= 1
               PROVE  /\ \A w \in View : views[w].refs > 0 => Backed(w)
                      /\ \A k \in Iter : iters[k].view # None => views[iters[k].view].refs > 0
                      /\ \A b \in Buffer : buffers[b].view # None =>
                            Live(buffers[b].from) /\ views[buffers[b].view].from = buffers[b].from
                      /\ fault \notin {"view unmapped", "closed twice", "header unmapped"}
    BY DEF ViewsAreBacked
  <2>1. TypeOK /\ OnceInv /\ ApartInv /\ iters \in [Iter -> IterType] /\ buffers \in [Buffer -> BufferType]
    BY <1>1, TypeParts DEF ReaderInv
  <2>2. \A w \in View : views[w].refs > 0 => Backed(w)
    BY <1>1, ViewedIsBacked
  <2>3. \A k \in Iter : iters[k].view # None => views[iters[k].view].refs > 0
    BY <1>1, <2>1, HeldIsCounted DEF IterType
  <2>4. ASSUME NEW b \in Buffer, buffers[b].view # None
        PROVE  Live(buffers[b].from) /\ views[buffers[b].view].from = buffers[b].from
    <3>1. buffers[b].view \in View
      BY <2>1, <2>4 DEF BufferType
    <3>2. ~Free(buffers[b].view)
      BY <1>1, <3>1, HeldIsCounted
    <3> QED
      BY <2>1, <2>4, <3>1, <3>2 DEF OnceInv
  <2>5. fault \notin {"view unmapped", "header unmapped"} /\ ~overlap
    BY <2>1 DEF OnceInv
  <2>6. fault # "closed twice"
    BY <2>1, <2>5 DEF ApartInv
  <2> QED
    BY <2>2, <2>3, <2>4, <2>5, <2>6
<1> QED
  BY <1>1, ReaderCorrect, PTL

\* Calls of __init__ that do not overlap leave no file open that nobody can
\* close any more, and close none twice.
THEOREM NoLeaks == Spec => []NothingLeaks
<1>1. ASSUME ReaderInv PROVE NothingLeaks
  BY <1>1 DEF ReaderInv, ApartInv, NothingLeaks, Calling
<1> QED
  BY <1>1, ReaderCorrect, PTL

-----------------------------------------------------------------------------
(* Searching and comparing. *)

\* A set of numbers that is not empty has a least member.
LEMMA LeastMember ==
  ASSUME NEW T, T \subseteq Nat, T # {}
  PROVE  \E x \in T : \A y \in T : x <= y
<1>1. PICK x \in T : \A y \in T : ~(<<y, x>> \in OpToRel(<, Nat))
  BY NatLessThanWellFounded, WFMin
<1>2. \A y \in T : ~(y < x)
  BY <1>1 DEF OpToRel
<1> QED
  BY <1>2

\* A set that holds 0, and n + 1 when it holds n, holds every number.
LEMMA SetInduction ==
  ASSUME NEW S, 0 \in S, \A n \in Nat : n \in S => n + 1 \in S
  PROVE  Nat \subseteq S
<1> SUFFICES ASSUME Nat \ S # {} PROVE FALSE
  OBVIOUS
<1>1. PICK x \in Nat \ S : \A y \in Nat \ S : x <= y
  BY LeastMember
<1>2. x - 1 \in Nat /\ x - 1 \in S
  BY <1>1
<1> QED
  BY <1>1, <1>2

Sorted(a) == \A i, j \in 1..Len(a) : i < j => a[i] <= a[j]
Below(a, x) == {j \in 1..Len(a) : a[j] < x}

\* The items of a sorted vector that are less than x are the first of them.
LEMMA BelowIsPrefix ==
  ASSUME NEW a \in Seq(Int), Sorted(a), NEW x \in Int
  PROVE  /\ Cardinality(Below(a, x)) \in 0..Len(a)
         /\ \A j \in 1..Len(a) : a[j] < x <=> j <= Cardinality(Below(a, x))
<1> DEFINE n == Len(a)
           T == {k \in 0..n : k = n \/ ~(a[k + 1] < x)}
<1>1. n \in Nat /\ \A j \in 1..n : a[j] \in Int
  OBVIOUS
<1>2. n \in T /\ T \subseteq Nat
  BY <1>1
<1>3. PICK c \in T : \A k \in T : c <= k
  BY <1>2, LeastMember
<1>4. c \in 0..n
  OBVIOUS
<1>5. ASSUME NEW j \in 1..n PROVE a[j] < x <=> j <= c
  <2>1. CASE j <= c
    <3>1. j - 1 \in 0..n /\ j - 1 < c /\ (j - 1) + 1 = j
      BY <1>1, <1>4, <2>1
    <3>2. j - 1 \notin T
      <4>1. ~(c <= j - 1)
        BY <1>4, <3>1
      <4> HIDE DEF T
      <4> QED
        BY <1>3, <4>1
    <3> QED
      BY <2>1, <3>1, <3>2
  <2>2. CASE ~(j <= c)
    <3>1. c # n /\ c + 1 \in 1..n /\ ~(a[c + 1] < x)
      BY <1>1, <1>3, <1>4, <2>2
    <3>2. c + 1 = j \/ c + 1 < j
      BY <1>4, <2>2
    <3>3. a[c + 1] <= a[j]
      BY <1>1, <3>1, <3>2 DEF Sorted
    <3>4. a[c + 1] \in Int /\ a[j] \in Int
      BY <1>1, <3>1
    <3> QED
      BY <2>2, <3>1, <3>3, <3>4
  <2> QED
    BY <2>1, <2>2
<1> HIDE DEF T
<1>6. Below(a, x) = 1..c
  BY <1>1, <1>4, <1>5 DEF Below
<1>7. Cardinality(1..c) = c
  <2>1. (1 \in Int /\ c \in Int /\ ~(1 > c)) \/ c = 0
    BY <1>4
  <2>2. c = 0 => 1..c = {}
    OBVIOUS
  <2> QED
    BY <1>4, <2>1, <2>2, FS_Interval, FS_EmptySet
<1> QED
  BY <1>4, <1>5, <1>6, <1>7

\* The loop of bisect_left as a function of i and j.
Pairs(a) == (0..Len(a)) \X (0..Len(a))
Mid(p) == (p[1] + p[2]) \div 2
Halve(a, x, f, p) ==
    IF p[1] >= p[2] THEN p[1]
    ELSE IF a[Mid(p) + 1] < x THEN f[<<Mid(p) + 1, p[2]>>] ELSE f[<<p[1], Mid(p)>>]
Halves(a, x) == CHOOSE f : f = [p \in Pairs(a) |-> Halve(a, x, f, p)]

\* The loop of bisect_left, as a function of its bounds.
LEMMA BisectLoop ==
  ASSUME NEW a, NEW x
  PROVE  BisectLeft(a, x) = Halves(a, x)[<<0, Len(a)>>]
  BY Zenon DEF BisectLeft, Halves, Halve, Mid, Pairs

\* The middle lies between the bounds.
LEMMA MidBetween ==
  ASSUME NEW p \in Nat \X Nat, p[1] < p[2]
  PROVE  Mid(p) \in Nat /\ p[1] <= Mid(p) /\ Mid(p) < p[2]
  BY DEF Mid

\* Where the first c items of a are less than x, the loop has a value: c,
\* brought within i and j.
Within(c, p) == IF p[1] >= p[2] \/ c <= p[1] THEN p[1] ELSE IF c >= p[2] THEN p[2] ELSE c

\* That function exists.
LEMMA LoopExists ==
  ASSUME NEW a \in Seq(Int), NEW x \in Int, NEW c \in 0..Len(a),
         \A j \in 1..Len(a) : a[j] < x <=> j <= c
  PROVE  Halves(a, x) = [p \in Pairs(a) |-> Halve(a, x, Halves(a, x), p)]
<1> DEFINE f == [p \in Pairs(a) |-> Within(c, p)]
<1>1. ASSUME NEW p \in Pairs(a) PROVE Within(c, p) = Halve(a, x, f, p)
  <2>1. CASE p[1] >= p[2]
    BY <2>1 DEF Within, Halve
  <2>2. CASE ~(p[1] >= p[2])
    <3>1. p[1] \in 0..Len(a) /\ p[2] \in 0..Len(a) /\ p \in Nat \X Nat /\ Len(a) \in Nat
      BY DEF Pairs
    <3>2. p[1] < p[2]
      BY <2>2, <3>1
    <3>3. Mid(p) \in Nat /\ p[1] <= Mid(p) /\ Mid(p) < p[2]
      BY <3>1, <3>2, MidBetween
    <3>4. Mid(p) + 1 \in 1..Len(a) /\ Mid(p) \in 0..Len(a) /\ Mid(p) + 1 \in 0..Len(a)
      BY <3>1, <3>3
    <3>5. a[Mid(p) + 1] < x <=> Mid(p) + 1 <= c
      BY <3>4
    <3>6. <<Mid(p) + 1, p[2]>> \in Pairs(a) /\ <<p[1], Mid(p)>> \in Pairs(a)
      BY <3>1, <3>4 DEF Pairs
    <3>7. CASE Mid(p) + 1 <= c
      <4>1. Halve(a, x, f, p) = Within(c, <<Mid(p) + 1, p[2]>>)
        BY <2>2, <3>5, <3>6, <3>7 DEF Halve
      <4>2. Within(c, <<Mid(p) + 1, p[2]>>) = Within(c, p)
        <5> DEFINE q == <<Mid(p) + 1, p[2]>>
        <5>1. q[1] = Mid(p) + 1 /\ q[2] = p[2]
          OBVIOUS
        <5> HIDE DEF q
        <5>2. Within(c, q) = Within(c, p)
          BY <3>1, <3>2, <3>3, <3>7, <5>1 DEF Within
        <5> QED
          BY <5>2 DEF q
      <4> QED
        BY <4>1, <4>2
    <3>8. CASE ~(Mid(p) + 1 <= c)
      <4>1. Halve(a, x, f, p) = Within(c, <<p[1], Mid(p)>>)
        BY <2>2, <3>5, <3>6, <3>8 DEF Halve
      <4>2. Within(c, <<p[1], Mid(p)>>) = Within(c, p)
        BY <3>1, <3>2, <3>3, <3>8 DEF Within
      <4> QED
        BY <4>1, <4>2
    <3> QED
      BY <3>7, <3>8
  <2> QED
    BY <2>1, <2>2
<1> HIDE DEF f
<1>2. f = [p \in Pairs(a) |-> Halve(a, x, f, p)]
  BY <1>1 DEF f
<1> QED
  BY <1>2, Zenon DEF Halves

\* And every value of it is that one: by induction on j - i.
LEMMA LoopIsExact ==
  ASSUME NEW a \in Seq(Int), NEW x \in Int, NEW c \in 0..Len(a),
         \A j \in 1..Len(a) : a[j] < x <=> j <= c
  PROVE  BisectLeft(a, x) = c
<1> DEFINE f == Halves(a, x)
           R(p) == p[1] <= c /\ c <= p[2]
           S == {d \in Nat : \A p \in Pairs(a) : R(p) /\ p[2] - p[1] <= d => f[p] = c}
<1>1. \A p \in Pairs(a) : f[p] = Halve(a, x, f, p)
  BY LoopExists
<1> HIDE DEF f
<1>2. \A p \in Pairs(a) : p[1] \in 0..Len(a) /\ p[2] \in 0..Len(a) /\ p \in Nat \X Nat
  BY DEF Pairs
<1>3. 0 \in S
  <2> SUFFICES ASSUME NEW p \in Pairs(a), R(p), p[2] - p[1] <= 0 PROVE f[p] = c
    OBVIOUS
  <2>1. p[1] >= p[2] /\ p[1] = c
    BY <1>2
  <2> QED
    BY <1>1, <2>1 DEF Halve
<1>4. ASSUME NEW d \in Nat, d \in S PROVE d + 1 \in S
  <2> SUFFICES ASSUME NEW p \in Pairs(a), R(p), p[2] - p[1] <= d + 1 PROVE f[p] = c
    BY <1>4
  <2>1. CASE p[1] >= p[2]
    <3>1. p[1] = c
      BY <1>2, <2>1
    <3> QED
      BY <1>1, <2>1, <3>1 DEF Halve
  <2>2. CASE ~(p[1] >= p[2])
    <3>1. p[1] \in 0..Len(a) /\ p[2] \in 0..Len(a) /\ p[1] < p[2] /\ Len(a) \in Nat
      BY <1>2, <2>2
    <3>2. Mid(p) \in Nat /\ p[1] <= Mid(p) /\ Mid(p) < p[2]
      BY <1>2, <3>1, MidBetween
    <3>3. Mid(p) + 1 \in 1..Len(a) /\ Mid(p) \in 0..Len(a) /\ Mid(p) + 1 \in 0..Len(a)
      BY SMTT(30), <3>1, <3>2
    <3>4. a[Mid(p) + 1] < x <=> Mid(p) + 1 <= c
      BY <3>3
    <3>5. <<Mid(p) + 1, p[2]>> \in Pairs(a) /\ <<p[1], Mid(p)>> \in Pairs(a)
      BY <3>1, <3>3 DEF Pairs
    <3>6. \A q \in Pairs(a) : R(q) /\ q[2] - q[1] <= d => f[q] = c
      BY <1>4
    <3>7. CASE Mid(p) + 1 <= c
      <4> DEFINE q == <<Mid(p) + 1, p[2]>>
      <4>3. q[1] = Mid(p) + 1 /\ q[2] = p[2]
        OBVIOUS
      <4> HIDE DEF q
      <4>1. R(q) /\ q[2] - q[1] <= d
        <5>1. R(p) /\ p[2] - p[1] <= d + 1
          OBVIOUS
        <5>2. q[1] <= c /\ c <= q[2]
          BY <3>7, <4>3, <5>1
        <5>3. q[2] - q[1] <= d
          <6>1. \A m, lo, hi \in Nat : hi - lo <= d + 1 /\ lo <= m => hi - (m + 1) <= d
            OBVIOUS
          <6> QED
            BY SMTT(30), <3>1, <3>2, <4>3, <5>1, <6>1
        <5> QED
          BY <5>2, <5>3
      <4>2. f[q] = c
        BY <3>5, <3>6, <4>1 DEF q
      <4> QED
        <5>1. f[p] = f[<<Mid(p) + 1, p[2]>>]
          <6>1. a[Mid(p) + 1] < x
            BY <3>4, <3>7
          <6>2. Halve(a, x, f, p) = f[<<Mid(p) + 1, p[2]>>]
            BY <2>2, <6>1, Zenon DEF Halve
          <6> QED
            BY <1>1, <6>2
        <5> QED
          BY <4>2, <5>1 DEF q
    <3>8. CASE ~(Mid(p) + 1 <= c)
      <4> DEFINE q == <<p[1], Mid(p)>>
      <4>1. R(q) /\ q[2] - q[1] <= d
        BY <3>1, <3>2, <3>8
      <4>2. f[q] = c
        BY <3>5, <3>6, <4>1
      <4> QED
        BY <1>1, <2>2, <3>4, <3>8, <4>2 DEF Halve
    <3> QED
      BY <3>7, <3>8
  <2> QED
    BY <2>1, <2>2
<1>5. Len(a) \in S
  <2> HIDE DEF S
  <2>1. Nat \subseteq S
    BY <1>3, <1>4, SetInduction
  <2> QED
    BY <2>1
<1>6. f[<<0, Len(a)>>] = c
  <2>1. <<0, Len(a)>> \in Pairs(a)
    BY DEF Pairs
  <2> QED
    BY <1>5, <2>1
<1> QED
  BY <1>6, BisectLoop DEF f

\* In a sorted sequence of any length bisection finds how many items are less
\* than x, whatever x is.
LEMMA BisectCorrect ==
  ASSUME NEW a \in Seq(Int), Sorted(a), NEW x \in Int
  PROVE  BisectLeft(a, x) = Cardinality(Below(a, x))
  BY BelowIsPrefix, LoopIsExact

\* Two sequences have a first index at which they differ, and one only.
Differ(a, b, i) == /\ i \in 0..Shorter(a, b)
                   /\ \A j \in 1..i : a[j] = b[j]
                   /\ i < Shorter(a, b) => a[i + 1] # b[i + 1]

\* The length of the shorter one.
LEMMA ShorterType ==
  ASSUME NEW a \in Seq(Int), NEW b \in Seq(Int)
  PROVE  /\ Shorter(a, b) \in Nat /\ Shorter(a, b) = Shorter(b, a)
         /\ Shorter(a, b) <= Len(a) /\ Shorter(a, b) <= Len(b)
         /\ Shorter(a, b) = Len(a) \/ Shorter(a, b) = Len(b)
  BY DEF Shorter

\* There is one place where two vectors first differ.
LEMMA DifferOnce ==
  ASSUME NEW a \in Seq(Int), NEW b \in Seq(Int), NEW i, NEW k, Differ(a, b, i), Differ(b, a, k)
  PROVE  i = k
<1>1. /\ i \in Nat /\ k \in Nat /\ i <= Shorter(a, b) /\ k <= Shorter(a, b)
      /\ Shorter(a, b) \in Nat /\ Shorter(b, a) = Shorter(a, b)
  BY ShorterType DEF Differ
<1>2. CASE i < k
  <2>1. i + 1 \in 1..k /\ i < Shorter(a, b)
    BY <1>1, <1>2
  <2> QED
    BY <2>1 DEF Differ
<1>3. CASE k < i
  <2>1. k + 1 \in 1..i /\ k < Shorter(b, a)
    BY <1>1, <1>3
  <2> QED
    BY <2>1 DEF Differ
<1> QED
  BY <1>1, <1>2, <1>3

\* It is the one the comparison finds.
LEMMA FirstDiffers ==
  ASSUME NEW a \in Seq(Int), NEW b \in Seq(Int)
  PROVE  Differ(a, b, FirstDifference(a, b))
<1> DEFINE n == Shorter(a, b)
           T == {k \in 0..n : k = n \/ a[k + 1] # b[k + 1]}
<1>1. n \in Nat
  BY ShorterType
<1> HIDE DEF n
<1>2. n \in T /\ T \subseteq Nat
  BY <1>1
<1>3. PICK i \in T : \A k \in T : i <= k
  BY <1>2, LeastMember
<1>4. ASSUME NEW j \in 1..i PROVE a[j] = b[j]
  <2>1. j - 1 \in 0..n /\ j - 1 < i /\ (j - 1) + 1 = j
    BY <1>1
  <2>2. j - 1 \notin T
    <3>1. ~(i <= j - 1)
      BY <1>1, <2>1
    <3> HIDE DEF T
    <3> QED
      BY <1>3, <3>1
  <2> QED
    BY <2>1, <2>2
<1>5. i \in 0..n /\ (i < n => a[i + 1] # b[i + 1])
  BY <1>1
<1>6. \E k \in 0..n : /\ \A j \in 1..k : a[j] = b[j]
                      /\ k < n => a[k + 1] # b[k + 1]
  BY <1>4, <1>5
<1> QED
  BY <1>6 DEF FirstDifference, Differ, n

\* So of two different sequences one is less, and only one.
LEMMA OrderTotal ==
  ASSUME NEW a \in Seq(Int), NEW b \in Seq(Int)
  PROVE  /\ LessThan(a, b) \/ LessThan(b, a) \/ a = b
         /\ ~(LessThan(a, b) /\ LessThan(b, a))
<1> DEFINE i == FirstDifference(a, b)
<1>1. Differ(a, b, i) /\ FirstDifference(b, a) = i
  BY FirstDiffers, DifferOnce
<1>2. /\ i \in Nat /\ i <= Len(a) /\ i <= Len(b) /\ Len(a) \in Nat /\ Len(b) \in Nat
      /\ \A j \in 1..i : a[j] = b[j]
      /\ i < Len(a) /\ i < Len(b) => a[i + 1] # b[i + 1]
  BY <1>1, ShorterType DEF Differ
<1>3. /\ LessThan(a, b) <=> IF i >= Len(a) \/ i >= Len(b) THEN Len(a) < Len(b) ELSE a[i + 1] < b[i + 1]
      /\ LessThan(b, a) <=> IF i >= Len(b) \/ i >= Len(a) THEN Len(b) < Len(a) ELSE b[i + 1] < a[i + 1]
  BY <1>1 DEF LessThan
<1> HIDE DEF i
<1>4. CASE i >= Len(a) \/ i >= Len(b)
  <2>1. Len(a) = Len(b) => a = b
    <3> SUFFICES ASSUME Len(a) = Len(b) PROVE a = b
      OBVIOUS
    <3>1. i = Len(a)
      BY <1>2, <1>4
    <3> QED
      BY SMTT(30), <1>2, <3>1
  <2> QED
    BY <1>2, <1>3, <1>4, <2>1
<1>5. CASE ~(i >= Len(a) \/ i >= Len(b))
  <2>1. i + 1 \in 1..Len(a) /\ i + 1 \in 1..Len(b) /\ a[i + 1] # b[i + 1]
    BY <1>2, <1>5
  <2>2. a[i + 1] \in Int /\ b[i + 1] \in Int
    BY <2>1
  <2> QED
    BY <1>3, <1>5, <2>1, <2>2
<1> QED
  BY <1>4, <1>5

\* The items of a view of numbers.
LEMMA ItemsAreNumbers ==
  ASSUME ReaderInv, NEW w \in View, ~Free(w), Kind[views[w].node] = "numbers"
  PROVE  Items(w) \in Seq(Nat) /\ Items(w) \in Seq(Int)
<1> DEFINE c == views[w].node
           i == views[w].i
           n == views[w].n
<1>1. views[w] \in ViewType /\ ViewsInv
  BY TypeParts DEF ReaderInv
<1>2. c \in Container /\ i \in Nat /\ n \in Nat /\ i + n <= Len(Cells[c])
  BY <1>1 DEF ViewsInv, ViewType
<1>3. Cells[c] \in Seq(Nat)
  BY <1>2, VectorAssumption
<1>4. Items(w) = [j \in 1..n |-> Cells[c][i + (j - 1) + 1]]
  BY DEF Items, At
<1> HIDE DEF c, i, n
<1>5. ASSUME NEW j \in 1..n PROVE Cells[c][i + (j - 1) + 1] \in Nat
  <2>1. i + (j - 1) + 1 \in 1..Len(Cells[c])
    BY <1>2, <1>3
  <2> QED
    BY <1>3, <2>1
<1>6. Items(w) \in [1..n -> Nat]
  BY <1>4, <1>5
<1> QED
  BY <1>2, <1>6

\* Views show what Python's slices would, iterators return every item of their
\* view once and in order, bisection finds the place of a number, and comparing
\* orders vectors totally, whatever the files hold and how long they are.
THEOREM IterationHolds == Spec => []IterationIsExact
<1>1. ASSUME ReaderInv PROVE IterationIsExact
  <2>1. ViewsShowSlices /\ IteratorsAreExact
    BY <1>1 DEF ReaderInv
  <2>2. BisectIsExact
    <3> SUFFICES ASSUME NEW w \in View, ~Free(w), Kind[views[w].node] = "numbers", Sorted(Items(w)),
                        NEW x \in 0..3
                 PROVE  BisectLeft(Items(w), x) = Cardinality(Below(Items(w), x))
      BY DEF BisectIsExact, Sorted, Below
    <3> QED
      BY <1>1, ItemsAreNumbers, BisectCorrect
  <2>3. OrderIsTotal
    <3> SUFFICES ASSUME NEW v \in View, NEW w \in View, ~Free(v), ~Free(w),
                        {Kind[views[v].node], Kind[views[w].node]} = {"numbers"}
                 PROVE  /\ LessThan(Items(v), Items(w)) \/ LessThan(Items(w), Items(v)) \/ Items(v) = Items(w)
                        /\ ~(LessThan(Items(v), Items(w)) /\ LessThan(Items(w), Items(v)))
      BY DEF OrderIsTotal
    <3>1. Kind[views[v].node] = "numbers" /\ Kind[views[w].node] = "numbers"
      OBVIOUS
    <3> QED
      BY <1>1, <3>1, ItemsAreNumbers, OrderTotal
  <2> QED
    BY <2>1, <2>2, <2>3 DEF IterationIsExact
<1> QED
  BY <1>1, ReaderCorrect, PTL
=============================================================================
