-------------------------- MODULE ValidateProofs --------------------------
(***************************************************************************)
(* WalkInv is an inductive invariant of the validator, for every set of    *)
(* files and every limit; that accepted files are sound, that nothing is   *)
(* read unchecked and that hashing ends follow from it.                    *)
(***************************************************************************)
EXTENDS Validate, FiniteSetTheorems, TLAPS

-----------------------------------------------------------------------------
(* Facts about the file, which never changes *)

\* Every child of a value in the file is in the file (pointless_walk.c:20).
LEMMA ChildrenInFile ==
    ASSUME file \in Files, NEW u
    PROVE  /\ Children(u) \in Seq(Value)
           /\ \A j \in DOMAIN Children(u) : Children(u)[j] \in Values
<1> DEFINE Tabled == Range(file.vectors) \cup Range(file.sets) \cup Range(file.maps)
<1>1. /\ file.root \in Value /\ file.vectors \in Seq(VectorObject)
      /\ file.sets \in Seq(TableObject) /\ file.maps \in Seq(TableObject)
    BY FilesAssumption DEF FileType
<1>2. CASE u = Header
    BY <1>1, <1>2 DEF Children, Values
<1>3. CASE u # Header /\ IsContainer(u) /\ InBounds(u)
  <2>1. ObjectOf(u) \in Tabled /\ ObjectOf(u).items \in Seq(Value)
    <3>1. CASE u.type \in Vector
      <4>1. Objects(u.type) = file.vectors
        BY <3>1 DEF Objects
      <4>2. ObjectOf(u) \in Range(file.vectors) /\ ObjectOf(u) \in VectorObject
        BY <1>1, <1>3, <4>1 DEF ObjectOf, InBounds, Range
      <4> QED
        BY <4>2 DEF VectorObject
    <3>2. CASE u.type = "set"
      <4>1. Objects(u.type) = file.sets
        BY <3>2 DEF Objects, Vector
      <4>2. ObjectOf(u) \in Range(file.sets) /\ ObjectOf(u) \in TableObject
        BY <1>1, <1>3, <4>1 DEF ObjectOf, InBounds, Range
      <4> QED
        BY <4>2 DEF TableObject
    <3>3. CASE u.type = "map"
      <4>1. Objects(u.type) = file.maps
        BY <3>3 DEF Objects, Vector
      <4>2. ObjectOf(u) \in Range(file.maps) /\ ObjectOf(u) \in TableObject
        BY <1>1, <1>3, <4>1 DEF ObjectOf, InBounds, Range
      <4> QED
        BY <4>2 DEF TableObject
    <3> QED
      BY <1>3, <3>1, <3>2, <3>3 DEF IsContainer, Container, Vector
  <2>2. Children(u) = ObjectOf(u).items
    BY <1>3 DEF Children
  <2>3. \A j \in DOMAIN ObjectOf(u).items : ObjectOf(u).items[j] \in Range(ObjectOf(u).items)
    BY DEF Range
  <2>4. Range(ObjectOf(u).items) \subseteq Values
    BY <2>1 DEF Values
  <2> QED
    BY <2>1, <2>2, <2>3, <2>4
<1>4. CASE u # Header /\ ~(IsContainer(u) /\ InBounds(u))
    BY <1>4 DEF Children
<1> QED
    BY <1>2, <1>3, <1>4

\* Two references to one container lead to the same children, whatever tag each
\* gives it (pointless_reader.c:712).
LEMMA SameChildren ==
    ASSUME NEW u, NEW v, IsContainer(u), IsContainer(v), IdOf(u) = IdOf(v)
    PROVE  Children(u) = Children(v) /\ (u.type \in {"set", "map"} => u.type = v.type /\ u.data = v.data)
<1>1. u # Header /\ v # Header
    BY DEF IsContainer, Container, Header
<1>2. u.data = v.data
    BY DEF IdOf
<1>3. Objects(u.type) = Objects(v.type)
    BY DEF IdOf, IsContainer, Container, Objects, Vector
<1> QED
    BY <1>1, <1>2, <1>3 DEF Children, IdOf, IsContainer, Container, InBounds, ObjectOf, Vector

\* The header can be reached, and with a value its children.
LEMMA ReachableClosed ==
    ASSUME file \in Files
    PROVE  /\ Reachable \subseteq Values /\ Header \in Reachable
           /\ \A u \in Reachable : \A j \in DOMAIN Children(u) : Children(u)[j] \in Reachable
<1>1. Reachable \subseteq Values /\ Header \in Reachable
    BY DEF Reachable, Values
<1>2. ASSUME NEW u \in Reachable, NEW j \in DOMAIN Children(u)
      PROVE  Children(u)[j] \in Reachable
  <2>1. Children(u)[j] \in Values
    BY ChildrenInFile
  <2>2. Children(u)[j] \in Range(Children(u))
    BY DEF Range
  <2> QED
    BY <2>1, <2>2 DEF Reachable
<1> QED
    BY <1>1, <1>2

\* Whatever has the header and is closed under children has all that can be reached.
LEMMA ReachableLeast ==
    ASSUME file \in Files, NEW T, T \subseteq Values, Header \in T,
           \A u \in T : \A j \in DOMAIN Children(u) : Children(u)[j] \in T
    PROVE  Reachable \subseteq T
<1>1. \A u \in T : Range(Children(u)) \subseteq T
    BY DEF Range
<1> QED
    BY <1>1 DEF Reachable

\* What holds of the file in one state holds in the next.
LEMMA FileFixed ==
    ASSUME file' = file
    PROVE  /\ Values' = Values
           /\ \A v : Children(v)' = Children(v) /\ Checked(v)' = Checked(v) /\ TableOK(v)' = TableOK(v)
<1>1. Values' = Values
    BY DEF Values
<1>2. \A t : Objects(t)' = Objects(t)
    BY DEF Objects
<1>3. \A v : InBounds(v)' = InBounds(v) /\ ObjectOf(v)' = ObjectOf(v)
    BY <1>2 DEF InBounds, ObjectOf
<1>4. \A v : Children(v)' = Children(v)
    BY <1>3 DEF Children
<1>5. \A v : Checked(v)' = Checked(v)
    BY <1>3 DEF Checked, RefOK, InlineOK, HeapOK
<1>6. \A v : Keys(v)' = Keys(v) /\ SameLength(v)' = SameLength(v)
    BY <1>3 DEF Keys, SameLength
<1>7. \A v : TableOK(v)' = TableOK(v)
    BY <1>3, <1>6 DEF TableOK
<1> QED
    BY <1>1, <1>4, <1>5, <1>7

\* The same of what can be reached, and of the graph given to the cycle marker.
LEMMA GraphFixed ==
    ASSUME file' = file
    PROVE  /\ Reachable' = Reachable /\ Nodes' = Nodes
           /\ UniformTags' = UniformTags /\ HoldHashables' = HoldHashables
           /\ \A S : Marker!Acyclic(S)' = Marker!Acyclic(S)
           /\ \A c : Marker!OnCycle(c)' <=> Marker!OnCycle(c)
<1>1. Reachable' = Reachable
    BY FileFixed DEF Reachable
<1>2. Nodes' = Nodes
    BY <1>1 DEF Nodes
<1>3. UniformTags' = UniformTags
    BY <1>1 DEF UniformTags
<1>8. HoldHashables' = HoldHashables
    BY <1>1, FileFixed DEF HoldHashables
<1>4. \A c : ChildNodes(c)' = ChildNodes(c)
    BY FileFixed DEF ChildNodes
<1>5. \A v : Marker!Succ(v)' = Marker!Succ(v)
  <2>1. [c \in Node |-> ChildNodes(c)]' = [c \in Node |-> ChildNodes(c)]
    BY <1>4 DEF Node
  <2> QED
    BY <2>1 DEF Marker!Succ, Node
<1>6. \A S : Marker!Acyclic(S)' = Marker!Acyclic(S)
    BY <1>5 DEF Marker!Acyclic
<1>7. \A c : Marker!OnCycle(c)' <=> Marker!OnCycle(c)
    BY <1>5 DEF Marker!OnCycle, Node
<1> QED
    BY <1>1, <1>2, <1>3, <1>6, <1>7, <1>8

-----------------------------------------------------------------------------
(* Paths as sequences of frames *)

Frame(S) == [v : S, i : Nat \ {0}]

\* The fields of a frame on a path.
LEMMA FrameFields ==
    ASSUME NEW S, NEW p \in Seq(Frame(S)), NEW k \in 1..Len(p)
    PROVE  p[k].v \in S /\ p[k].i \in Nat \ {0}
<1>1. p[k] \in Frame(S)
    OBVIOUS
<1> QED
    BY <1>1 DEF Frame

\* The first frames of a path.
LEMMA Shorter ==
    ASSUME NEW S, NEW p \in Seq(S), NEW n \in 1..Len(p), NEW q, q = SubSeq(p, 1, n)
    PROVE  /\ q \in Seq(S) /\ Len(q) = n /\ q # <<>>
           /\ \A k \in 1..n : q[k] = p[k]
<1>1. n \in Nat \ {0} /\ \A k \in 1..n : k \in 1..Len(p)
    OBVIOUS
<1>2. \A k \in 1..n : p[k] \in S
    BY <1>1
<1>3. q = [k \in 1..n |-> p[k]]
    BY <1>1
<1>4. q \in Seq(S) /\ Len(q) = n
    BY <1>1, <1>2, <1>3
<1> QED
    BY <1>1, <1>3, <1>4

\* A path whose last frame has moved on to the next child.
Bumped(p) == [p EXCEPT ![Len(p)].i = @ + 1]

\* Only that frame changes.
LEMMA BumpLast ==
    ASSUME NEW S, NEW p \in Seq(Frame(S)), p # <<>>, NEW q, q = Bumped(p)
    PROVE  /\ q \in Seq(Frame(S)) /\ Len(q) = Len(p) /\ DOMAIN q = 1..Len(p)
           /\ \A k \in 1..Len(p) : q[k].v = p[k].v
           /\ \A k \in 1..(Len(p) - 1) : q[k].i = p[k].i
           /\ q[Len(p)].i = p[Len(p)].i + 1
<1>1. Len(p) \in Nat \ {0} /\ DOMAIN p = 1..Len(p)
    OBVIOUS
<1>2. p[Len(p)] \in Frame(S)
    BY <1>1
<1>3. [p[Len(p)] EXCEPT !.i = @ + 1] \in Frame(S)
  <2>1. ASSUME NEW f \in Frame(S) PROVE [f EXCEPT !.i = @ + 1] \in Frame(S)
    <3>1. f.i + 1 \in Nat \ {0} /\ f.v \in S
      BY <2>1 DEF Frame
    <3>2. [f EXCEPT !.i = @ + 1] = [v |-> f.v, i |-> f.i + 1]
      BY <2>1 DEF Frame
    <3> QED
      BY <3>1, <3>2 DEF Frame
  <2> QED
    BY <1>2, <2>1
<1>4. q = [p EXCEPT ![Len(p)] = [p[Len(p)] EXCEPT !.i = @ + 1]]
    BY DEF Bumped
<1>5. q \in Seq(Frame(S)) /\ Len(q) = Len(p) /\ DOMAIN q = 1..Len(p)
    BY <1>1, <1>3, <1>4
<1>6. \A k \in 1..(Len(p) - 1) : q[k] = p[k]
    BY <1>1, <1>4
<1>7. q[Len(p)] = [p[Len(p)] EXCEPT !.i = @ + 1]
    BY <1>1, <1>4
<1>8. q[Len(p)].v = p[Len(p)].v /\ q[Len(p)].i = p[Len(p)].i + 1
    BY <1>2, <1>7 DEF Frame
<1>9. \A k \in 1..Len(p) : k = Len(p) \/ k \in 1..(Len(p) - 1)
  <2>1. \A n \in Nat : \A k \in 1..n : k = n \/ k \in 1..(n - 1)
    OBVIOUS
  <2> QED
    BY <1>1, <2>1
<1> QED
    BY <1>5, <1>6, <1>8, <1>9

-----------------------------------------------------------------------------
(* What a pass establishes *)

IInv == TypeOK /\ WalkInv

\* A container that lies in the file has an id that the bitmaps have a bit for.
LEMMA IdInBitmap ==
    ASSUME file \in Files, NEW v, IsContainer(v), RefOK(v)
    PROVE  IdOf(v) \in Node
<1>1. /\ file.vectors \in Seq(VectorObject) /\ Len(file.vectors) <= MaxObjects
      /\ file.sets \in Seq(TableObject) /\ Len(file.sets) <= MaxObjects
      /\ file.maps \in Seq(TableObject) /\ Len(file.maps) <= MaxObjects
    BY FilesAssumption DEF FileType
<1>2. v.data \in DOMAIN Objects(v.type)
    BY DEF RefOK, InBounds, IsContainer, Container
<1>3. DOMAIN Objects(v.type) \subseteq 1..MaxObjects
    BY <1>1, FilesAssumption DEF Objects, IsContainer, Container, Vector
<1> QED
    BY <1>2, <1>3 DEF IdOf, Node, IsContainer, Container, Vector

\* A container that was seen before is as good under its new tag as under the old.
LEMMA SeenIsGood ==
    ASSUME IInv, VisitedInv, NEW v \in Reachable, Seen(v), pass = 1 => RefOK(v)
    PROVE  Good(v)
<1>1. PICK u \in Reachable : IsContainer(u) /\ IdOf(u) = IdOf(v) /\ Good(u)
    BY DEF VisitedInv, Seen
<1>2. IsContainer(v) /\ u.data = v.data
    BY <1>1 DEF Seen, IdOf
<1>3. \/ {u.type, v.type} \subseteq {"value", "hashable"}
      \/ u.type = v.type
    BY <1>1, <1>2 DEF IdOf, IsContainer, Container, Vector
<1>4. ObjectOf(u) = ObjectOf(v)
    BY <1>2, <1>3 DEF ObjectOf, Objects, Vector
<1>5. ASSUME pass = 1 PROVE Checked(v)
  <2>1. RefOK(v) /\ InlineOK(v) /\ HeapOK(u)
    BY <1>1, <1>2, <1>5 DEF Good, Checked, InlineOK, IsContainer, Container
  <2>2. CASE {u.type, v.type} \subseteq {"value", "hashable"}
    BY <2>1, <2>2, <1>4 DEF HeapOK, Checked, Vector, ItemSize
  <2>3. CASE u.type = v.type
    BY <2>1, <2>3, <1>4 DEF HeapOK, Checked
  <2> QED
    BY <2>2, <2>3, <1>3
<1>6. ASSUME pass = 2, UniformTags, v.type = "hashable" PROVE IdOf(v) \notin marked
    BY <1>1, <1>2, <1>6 DEF UniformTags, Good
<1>7. ASSUME pass = 3, v.type \in {"set", "map"} PROVE TableOK(v)
    BY <1>1, <1>3, <1>4, <1>7 DEF Good, TableOK, SameLength, Keys
<1> QED
    BY <1>5, <1>6, <1>7 DEF Good

\* A value that a pass lets through is good.
LEMMA PassedIsGood ==
    ASSUME IInv, NEW v, pass = 1 => RefOK(v), Passes(pass, v)
    PROVE  Good(v)
<1>1. pass \in 1..3
    BY DEF IInv, TypeOK
<1>2. CASE pass = 1
    BY <1>2 DEF Passes, Good, Checked
<1>3. CASE pass = 2
    BY <1>3 DEF Passes, Good
<1>4. CASE pass = 3
    BY <1>4 DEF Passes, Good
<1> QED
    BY <1>1, <1>2, <1>3, <1>4

\* When a walk has ended, all that can be reached is good: the values a pass is
\* done with are closed under children (pointless_validate.c:155).
LEMMA WalkIsExhaustive ==
    ASSUME IInv, WalkEnds
    PROVE  \A v \in Reachable \ {Header} : Good(v)
<1> DEFINE T == {v \in Values : v = Header \/ Done(v)}
<1>1. file \in Files /\ PathInv /\ ProgressInv /\ VisitedInv
    BY DEF IInv, WalkInv, WalkEnds
<1>2. path \in Seq(Frame(Values)) /\ Len(path) = 1 /\ path[1].v = Header
    BY <1>1 DEF IInv, TypeOK, WalkEnds, PathInv, Frame
<1>3. ASSUME NEW u \in T, NEW j \in DOMAIN Children(u) PROVE Children(u)[j] \in T
  <2>1. Children(u)[j] \in Values
    BY <1>1, ChildrenInFile
  <2>2. CASE u = Header
    <3>1. Children(u) \in Seq(Value)
      BY <1>1, ChildrenInFile
    <3>2. path[1].i > Len(Children(u))
      BY <1>2, <2>2 DEF WalkEnds, Top
    <3>3. path[1].i \in Nat
      BY SMTT(30), <1>2, FrameFields
    <3>4. j \in 1..(path[1].i - 1)
      BY <1>3, <3>1, <3>2, <3>3
    <3> QED
      BY <1>1, <1>2, <2>1, <2>2, <3>4 DEF ProgressInv
  <2>3. CASE u # Header
    <3>1. IsContainer(u)
      BY <2>3 DEF Children
    <3>2. u \in Values /\ IdOf(u) \in visited
      BY <2>3, <3>1 DEF Done
    <3> QED
      BY <1>1, <1>2, <2>1, <3>1, <3>2 DEF VisitedInv
  <2> QED
    BY <2>2, <2>3
<1>4. Header \in T /\ T \subseteq Values
    BY DEF Values
<1> HIDE DEF T
<1>5. Reachable \subseteq T
    BY <1>1, <1>3, <1>4, ReachableLeast
<1> QED
    BY <1>5 DEF T, Done

\* What is good stays good for the rest of the pass.
LEMMA GoodFixed ==
    ASSUME file' = file, pass' = pass, marked' = marked
    PROVE  \A v : Good(v)' = Good(v)
BY FileFixed, GraphFixed DEF Good, IdOf

-----------------------------------------------------------------------------
(* Steps of a walk *)

\* What a step of a walk starts from.
LEMMA WalkFacts ==
    ASSUME IInv, status = "walk"
    PROVE  /\ file \in Files /\ PathInv /\ ProgressInv /\ VisitedInv
           /\ path \in Seq(Frame(Values)) /\ Len(path) \in Nat \ {0}
           /\ DOMAIN path = 1..Len(path)
           /\ Top = path[Len(path)] /\ Top.v \in Reachable /\ Top.i \in Nat \ {0}
           /\ \A u : Children(u) \in Seq(Value)
<1>1. file \in Files /\ PathInv /\ ProgressInv /\ VisitedInv
    BY DEF IInv, WalkInv
<1>2. path \in Seq(Frame(Values)) /\ path # <<>>
    BY <1>1 DEF IInv, TypeOK, PathInv, Frame
<1>3. Len(path) \in Nat \ {0} /\ DOMAIN path = 1..Len(path)
    BY <1>2
<1>4. Top.v \in Reachable /\ Top.i \in Nat \ {0}
    BY <1>1, <1>2, <1>3, FrameFields DEF Top, PathInv
<1> QED
    BY <1>1, <1>2, <1>3, <1>4, ChildrenInFile DEF Top

\* The value that a walk visits can be reached; in later passes it was checked.
LEMMA VisitedValue ==
    ASSUME IInv, NEW v, Visiting(v)
    PROVE  /\ v \in Reachable
           /\ pass > 1 /\ IsContainer(v) => RefOK(v)
<1>1. status = "walk" /\ Top.i <= Len(Children(Top.v)) /\ v = Children(Top.v)[Top.i]
    BY DEF Visiting
<1>2. Top.i \in DOMAIN Children(Top.v)
    BY <1>1, WalkFacts
<1>3. v \in Reachable
    BY <1>1, <1>2, WalkFacts, ReachableClosed
<1>4. ASSUME pass > 1, IsContainer(v) PROVE RefOK(v)
  <2>1. v # Header
    BY <1>4 DEF IsContainer, Container, Header
  <2> QED
    BY <1>3, <1>4, <2>1 DEF IInv, WalkInv, PassInv, Checked
<1> QED
    BY <1>3, <1>4

\* The walk moves on to the next child when it is done with one.
LEMMA Advance ==
    ASSUME IInv, NEW v, Visiting(v), Done(v), NextVisit,
           UNCHANGED <<file, pass, visited, marked, status>>
    PROVE  IInv'
<1>0. file' = file /\ pass' = pass /\ visited' = visited /\ marked' = marked /\ status' = status
    OBVIOUS
<1>1. /\ status = "walk" /\ Top.i <= Len(Children(Top.v)) /\ v = Children(Top.v)[Top.i]
    BY DEF Visiting
<1> DEFINE L == Len(path)
<1>2. /\ file \in Files /\ PathInv /\ ProgressInv /\ VisitedInv
      /\ path \in Seq(Frame(Values)) /\ L \in Nat \ {0} /\ DOMAIN path = 1..L
      /\ Top = path[L] /\ Top.i \in Nat \ {0}
      /\ \A u : Children(u) \in Seq(Value)
    BY <1>1, WalkFacts
<1>3. /\ path' \in Seq(Frame(Values)) /\ Len(path') = L /\ DOMAIN path' = 1..L
      /\ \A k \in 1..L : path'[k].v = path[k].v
      /\ \A k \in 1..(L - 1) : path'[k].i = path[k].i
      /\ path'[L].i = path[L].i + 1
  <2>1. path # <<>> /\ path' = Bumped(path)
    BY <1>2 DEF PathInv, NextVisit, Bumped
  <2> QED
    BY <1>2, <2>1, BumpLast
<1>4. /\ Values' = Values /\ Reachable' = Reachable
      /\ \A u : Children(u)' = Children(u) /\ Good(u)' = Good(u) /\ Done(u)' = Done(u)
    <2>1. \A u : Good(u)' = Good(u)
      BY <1>0, GoodFixed
    <2> QED
      BY <1>0, <2>1, FileFixed, GraphFixed DEF Done, IdOf, IsContainer
<1> HIDE DEF L
<1>5. PathInv'
  <2>1. path' # <<>> /\ path'[1].v = Header
    BY <1>2, <1>3 DEF PathInv
  <2>2. \A k \in 1..L : path'[k].v \in Reachable
    BY <1>2, <1>3 DEF PathInv
  <2>3. ASSUME NEW k \in 1..(L - 1)
        PROVE  /\ path'[k].i <= Len(Children(path'[k].v))
               /\ path'[k + 1].v = Children(path'[k].v)[path'[k].i]
    <3>1. k \in 1..L /\ k + 1 \in 1..L
      BY <1>2, <2>3
    <3>2. path[k].i <= Len(Children(path[k].v)) /\ path[k + 1].v = Children(path[k].v)[path[k].i]
      BY <1>2, <2>3 DEF PathInv, L
    <3> QED
      BY <1>3, <2>3, <3>1, <3>2
  <2>4. ASSUME NEW k \in 2..L
        PROVE  IsContainer(path'[k].v) /\ IdOf(path'[k].v) \in visited /\ Good(path'[k].v)
    <3>1. k \in 1..L
      BY <1>2, <2>4
    <3>2. IsContainer(path[k].v) /\ IdOf(path[k].v) \in visited /\ Good(path[k].v)
      BY <1>2, <2>4 DEF PathInv, L
    <3> QED
      BY <1>3, <3>1, <3>2
  <2> QED
    BY <1>0, <1>3, <1>4, <2>1, <2>2, <2>3, <2>4 DEF PathInv, IsContainer, IdOf
<1>6. ProgressInv'
  <2>1. ASSUME NEW k \in 1..L
        PROVE  /\ path'[k].i <= Len(Children(path'[k].v)) + 1
               /\ \A j \in 1..(path'[k].i - 1) : Done(Children(path'[k].v)[j])
    <3>0. /\ path[k].i <= Len(Children(path[k].v)) + 1
          /\ \A j \in 1..(path[k].i - 1) : Done(Children(path[k].v)[j])
      BY <1>2, <2>1 DEF ProgressInv
    <3>1. CASE k = L
      <4>1. path'[k].i = Top.i + 1 /\ path'[k].v = Top.v /\ path[k] = Top
        BY <1>2, <1>3, <3>1
      <4>2. \A j \in 1..Top.i : j \in 1..(Top.i - 1) \/ j = Top.i
        BY <1>2
      <4>3. \A j \in 1..Top.i : Done(Children(Top.v)[j])
        BY <1>1, <3>0, <4>1, <4>2
      <4>4. (Top.i + 1) - 1 = Top.i /\ Top.i + 1 <= Len(Children(Top.v)) + 1
        BY <1>1, <1>2
      <4> QED
        BY <4>1, <4>3, <4>4
    <3>2. CASE k # L
      <4>1. k \in 1..(L - 1)
        BY <1>2, <2>1, <3>2
      <4> QED
        BY <1>3, <2>1, <3>0, <4>1
    <3> QED
      BY <3>1, <3>2
  <2> QED
    BY <1>3, <1>4, <2>1 DEF ProgressInv
<1>7. VisitedInv'
  <2>1. \A c \in visited : \E u \in Reachable : IsContainer(u) /\ IdOf(u) = c /\ Good(u)
    BY <1>2 DEF VisitedInv
  <2>2. ASSUME NEW u \in Values, IsContainer(u), IdOf(u) \in visited
        PROVE  \/ \E k \in 2..L : IdOf(path'[k].v) = IdOf(u)
               \/ \A j \in DOMAIN Children(u) : Done(Children(u)[j])
    BY <1>2, <1>3, <2>2 DEF VisitedInv, L
  <2> QED
    BY <1>0, <1>3, <1>4, <2>1, <2>2 DEF VisitedInv, IsContainer, IdOf
<1>8. TypeOK'
    BY <1>0, <1>2, <1>3, <1>4, <1>6 DEF IInv, TypeOK, ProgressInv, L, Frame
<1>9. PassInv'
    BY <1>0, FileFixed, GraphFixed DEF IInv, WalkInv, PassInv, IdOf
<1> QED
    BY <1>0, <1>1, <1>2, <1>5, <1>6, <1>7, <1>8, <1>9 DEF IInv, WalkInv

\* The walk goes down into a container it has not seen.
LEMMA Descend ==
    ASSUME IInv, NEW v, VisitContainer(v)
    PROVE  IInv'
<1> DEFINE L == Len(path)
<1>0. /\ file' = file /\ pass' = pass /\ marked' = marked /\ status' = status
      /\ visited' = visited \cup {IdOf(v)} /\ path' = Append(path, [v |-> v, i |-> 1])
      /\ IsContainer(v) /\ Visiting(v) /\ DepthOK
    BY DEF VisitContainer, Fresh, Allowed
<1>1. /\ status = "walk" /\ Top.i <= Len(Children(Top.v)) /\ v = Children(Top.v)[Top.i]
    BY <1>0 DEF Visiting
<1>2. /\ file \in Files /\ PathInv /\ ProgressInv /\ VisitedInv
      /\ path \in Seq(Frame(Values)) /\ L \in Nat \ {0} /\ DOMAIN path = 1..L
      /\ Top = path[L] /\ Top.i \in Nat \ {0}
      /\ \A u : Children(u) \in Seq(Value)
    BY <1>1, WalkFacts
<1>3. v \in Reachable /\ v \in Values /\ RefOK(v) /\ Good(v) /\ IdOf(v) \in Node
  <2>1. v \in Reachable /\ v \in Values
    BY <1>0, <1>2, VisitedValue, ReachableClosed
  <2>2. pass = 1 => RefOK(v)
    BY DEF VisitContainer, Fresh
  <2>3. pass = 1 \/ pass > 1
    BY DEF IInv, TypeOK
  <2>4. RefOK(v)
    BY <1>0, <2>2, <2>3, VisitedValue
  <2>5. Good(v)
    BY <2>4, PassedIsGood DEF VisitContainer
  <2> QED
    BY <1>0, <1>2, <2>1, <2>4, <2>5, IdInBitmap
<1>4. /\ path' \in Seq(Frame(Values)) /\ Len(path') = L + 1 /\ DOMAIN path' = 1..(L + 1)
      /\ \A k \in 1..L : path'[k] = path[k]
      /\ path'[L + 1] = [v |-> v, i |-> 1]
  <2>1. [v |-> v, i |-> 1] \in Frame(Values)
    BY <1>3 DEF Frame
  <2> QED
    BY <1>0, <1>2, <2>1
<1>5. /\ Values' = Values /\ Reachable' = Reachable
      /\ \A u : Children(u)' = Children(u) /\ Good(u)' = Good(u) /\ (Done(u) => Done(u)')
    <2>1. \A u : Good(u)' = Good(u)
      BY <1>0, GoodFixed
    <2> QED
      BY <1>0, <2>1, FileFixed, GraphFixed DEF Done, IdOf, IsContainer
<1> HIDE DEF L
<1>6. PathInv'
  <2>1. path' # <<>> /\ path'[1].v = Header
    BY <1>2, <1>4 DEF PathInv
  <2>2. \A k \in 1..(L + 1) : path'[k].v \in Reachable
    <3>1. \A k \in 1..L : path'[k].v \in Reachable
      BY <1>2, <1>4 DEF PathInv
    <3>2. path'[L + 1].v \in Reachable
      BY <1>3, <1>4
    <3> QED
      BY <1>2, <3>1, <3>2
  <2>3. ASSUME NEW k \in 1..L
        PROVE  /\ path'[k].i <= Len(Children(path'[k].v))
               /\ path'[k + 1].v = Children(path'[k].v)[path'[k].i]
    <3>1. CASE k = L
      BY <1>1, <1>2, <1>4, <3>1
    <3>2. CASE k # L
      <4>1. k \in 1..(L - 1) /\ k + 1 \in 1..L
        BY <1>2, <2>3, <3>2
      <4>2. path[k].i <= Len(Children(path[k].v)) /\ path[k + 1].v = Children(path[k].v)[path[k].i]
        BY <1>2, <4>1 DEF PathInv, L
      <4> QED
        BY <1>4, <2>3, <4>1, <4>2
    <3> QED
      BY <3>1, <3>2
  <2>4. ASSUME NEW k \in 2..(L + 1)
        PROVE  IsContainer(path'[k].v) /\ IdOf(path'[k].v) \in visited' /\ Good(path'[k].v)
    <3>1. CASE k = L + 1
      BY <1>0, <1>3, <1>4, <3>1
    <3>2. CASE k # L + 1
      <4>1. k \in 2..L /\ k \in 1..L
        BY <1>2, <2>4, <3>2
      <4>2. IsContainer(path[k].v) /\ IdOf(path[k].v) \in visited /\ Good(path[k].v)
        BY <1>2, <4>1 DEF PathInv, L
      <4> QED
        BY <1>0, <1>4, <4>1, <4>2
    <3> QED
      BY <3>1, <3>2
  <2> QED
    BY <1>2, <1>4, <1>5, <2>1, <2>2, <2>3, <2>4 DEF PathInv, IsContainer, IdOf
<1>7. ProgressInv'
  <2>1. ASSUME NEW k \in 1..(L + 1)
        PROVE  /\ path'[k].i <= Len(Children(path'[k].v)) + 1
               /\ \A j \in 1..(path'[k].i - 1) : Done(Children(path'[k].v)[j])
    <3>1. CASE k = L + 1
      BY <1>2, <1>4, <3>1
    <3>2. CASE k # L + 1
      <4>1. k \in 1..L
        BY <1>2, <2>1, <3>2
      <4> QED
        BY <1>2, <1>4, <4>1 DEF ProgressInv
    <3> QED
      BY <3>1, <3>2
  <2> QED
    BY <1>4, <1>5, <2>1 DEF ProgressInv
<1>8. VisitedInv'
  <2>1. ASSUME NEW c \in visited' PROVE \E u \in Reachable : IsContainer(u) /\ IdOf(u) = c /\ Good(u)
    BY <1>0, <1>2, <1>3, <2>1 DEF VisitedInv
  <2>2. ASSUME NEW u \in Values, IsContainer(u), IdOf(u) \in visited'
        PROVE  \/ \E k \in 2..(L + 1) : IdOf(path'[k].v) = IdOf(u)
               \/ \A j \in DOMAIN Children(u) : Done(Children(u)[j])
    <3>1. CASE IdOf(u) = IdOf(v)
      BY <1>2, <1>4, <3>1
    <3>2. CASE IdOf(u) \in visited
      <4>1. \/ \E k \in 2..L : IdOf(path[k].v) = IdOf(u)
            \/ \A j \in DOMAIN Children(u) : Done(Children(u)[j])
        BY <1>2, <2>2, <3>2 DEF VisitedInv, L
      <4>2. \A k \in 2..L : k \in 1..L /\ k \in 2..(L + 1)
        BY <1>2
      <4> QED
        BY <1>4, <4>1, <4>2
    <3> QED
      BY <1>0, <2>2, <3>1, <3>2
  <2> QED
    BY <1>4, <1>5, <2>1, <2>2 DEF VisitedInv, IsContainer, IdOf
<1>9. TypeOK'
  <2>1. Len(path') <= MaxDepth + 1
    BY <1>0, <1>2, <1>4, FilesAssumption DEF DepthOK, L
  <2> QED
    BY <1>0, <1>3, <1>4, <1>5, <1>7, <2>1 DEF IInv, TypeOK, ProgressInv, Frame
<1>10. PassInv'
    BY <1>0, FileFixed, GraphFixed DEF IInv, WalkInv, PassInv, IdOf
<1> QED
    BY <1>0, <1>1, <1>2, <1>6, <1>7, <1>8, <1>9, <1>10 DEF IInv, WalkInv

\* The walk comes back from a container all of whose children it is done with.
LEMMA Ascend ==
    ASSUME IInv, Return
    PROVE  IInv'
<1> DEFINE L == Len(path)
           M == L - 1
           q == SubSeq(path, 1, M)
<1>0. /\ file' = file /\ pass' = pass /\ marked' = marked /\ status' = status /\ visited' = visited
      /\ status = "walk" /\ L > 1 /\ Top.i > Len(Children(Top.v))
      /\ path' = [q EXCEPT ![M].i = @ + 1]
    BY DEF Return
<1>1. /\ file \in Files /\ PathInv /\ ProgressInv /\ VisitedInv
      /\ path \in Seq(Frame(Values)) /\ L \in Nat \ {0} /\ DOMAIN path = 1..L
      /\ Top = path[L] /\ Top.i \in Nat \ {0}
      /\ \A u : Children(u) \in Seq(Value)
    BY <1>0, WalkFacts
<1>2. M \in Nat \ {0} /\ L = M + 1
    BY <1>0, <1>1
<1>3. /\ q \in Seq(Frame(Values)) /\ Len(q) = M /\ q # <<>>
      /\ \A k \in 1..M : q[k] = path[k]
  <2>1. M \in 1..Len(path)
    BY <1>1, <1>2
  <2>2. q = SubSeq(path, 1, M)
    OBVIOUS
  <2> HIDE DEF M, q
  <2> QED
    BY <1>1, <2>1, <2>2, Shorter
<1>4. /\ path' \in Seq(Frame(Values)) /\ Len(path') = M /\ DOMAIN path' = 1..M
      /\ \A k \in 1..M : path'[k].v = path[k].v
      /\ \A k \in 1..(M - 1) : path'[k].i = path[k].i
      /\ path'[M].i = path[M].i + 1
  <2>1. path' = Bumped(q)
    BY <1>0, <1>3 DEF Bumped
  <2> HIDE DEF q
  <2>2. /\ path' \in Seq(Frame(Values)) /\ Len(path') = M /\ DOMAIN path' = 1..M
        /\ \A k \in 1..M : path'[k].v = q[k].v
        /\ \A k \in 1..(M - 1) : path'[k].i = q[k].i
        /\ path'[M].i = q[M].i + 1
    BY <1>3, <2>1, BumpLast
  <2>3. \A k \in 1..(M - 1) : k \in 1..M
    BY <1>2
  <2>4. M \in 1..M
    BY <1>2
  <2> QED
    BY <1>3, <2>2, <2>3, <2>4
<1> HIDE DEF L, M, q
<1>5. /\ Values' = Values /\ Reachable' = Reachable
      /\ \A u : Children(u)' = Children(u) /\ Good(u)' = Good(u) /\ Done(u)' = Done(u)
    <2>1. \A u : Good(u)' = Good(u)
      BY <1>0, GoodFixed
    <2> QED
      BY <1>0, <2>1, FileFixed, GraphFixed DEF Done, IdOf, IsContainer
<1>6. /\ path[M].i <= Len(Children(path[M].v)) /\ Top.v = Children(path[M].v)[path[M].i]
      /\ IsContainer(Top.v) /\ Done(Top.v)
  <2>1. M \in 1..(L - 1) /\ L \in 2..L
    BY <1>0, <1>1, <1>2
  <2>2. path[M].i <= Len(Children(path[M].v)) /\ path[M + 1].v = Children(path[M].v)[path[M].i]
    BY <1>1, <2>1 DEF PathInv, L
  <2>3. IsContainer(path[L].v) /\ IdOf(path[L].v) \in visited /\ Good(path[L].v)
    BY <1>1, <2>1 DEF PathInv, L
  <2> QED
    BY <1>1, <1>2, <2>2, <2>3 DEF Done
<1>7. \A j \in DOMAIN Children(Top.v) : Done(Children(Top.v)[j])
  <2>1. \A j \in 1..(Top.i - 1) : Done(Children(Top.v)[j])
    BY <1>1 DEF ProgressInv
  <2>2. \A j \in DOMAIN Children(Top.v) : j \in 1..(Top.i - 1)
    BY <1>0, <1>1
  <2> QED
    BY <2>1, <2>2
<1>8. PathInv'
  <2>1. path' # <<>> /\ path'[1].v = Header
    BY <1>1, <1>2, <1>4 DEF PathInv
  <2>2. \A k \in 1..M : path'[k].v \in Reachable
    <3>1. \A k \in 1..M : k \in 1..L
      BY <1>2
    <3> QED
      BY <1>1, <1>4, <3>1 DEF PathInv
  <2>3. ASSUME NEW k \in 1..(M - 1)
        PROVE  /\ path'[k].i <= Len(Children(path'[k].v))
               /\ path'[k + 1].v = Children(path'[k].v)[path'[k].i]
    <3>1. k \in 1..(L - 1) /\ k \in 1..M /\ k + 1 \in 1..M
      BY <1>2, <2>3
    <3>2. path[k].i <= Len(Children(path[k].v)) /\ path[k + 1].v = Children(path[k].v)[path[k].i]
      BY <1>1, <3>1 DEF PathInv, L
    <3> QED
      BY <1>4, <2>3, <3>1, <3>2
  <2>4. ASSUME NEW k \in 2..M
        PROVE  IsContainer(path'[k].v) /\ IdOf(path'[k].v) \in visited /\ Good(path'[k].v)
    <3>1. k \in 2..L /\ k \in 1..M
      BY <1>2, <2>4
    <3>2. IsContainer(path[k].v) /\ IdOf(path[k].v) \in visited /\ Good(path[k].v)
      BY <1>1, <3>1 DEF PathInv, L
    <3> QED
      BY <1>4, <3>1, <3>2
  <2> QED
    BY <1>0, <1>4, <1>5, <2>1, <2>2, <2>3, <2>4 DEF PathInv, IsContainer, IdOf
<1>9. ProgressInv'
  <2>1. ASSUME NEW k \in 1..M
        PROVE  /\ path'[k].i <= Len(Children(path'[k].v)) + 1
               /\ \A j \in 1..(path'[k].i - 1) : Done(Children(path'[k].v)[j])
    <3>0. k \in 1..L
      BY <1>2, <2>1
    <3>1. /\ path[k].i <= Len(Children(path[k].v)) + 1
          /\ \A j \in 1..(path[k].i - 1) : Done(Children(path[k].v)[j])
      BY <1>1, <3>0 DEF ProgressInv
    <3>2. path[k].i \in Nat \ {0}
      BY <1>1, <3>0, FrameFields DEF L
    <3>3. CASE k = M
      <4>1. path'[k].i = path[k].i + 1 /\ path'[k].v = path[k].v
        BY <1>4, <2>1, <3>3
      <4>2. \A n \in Nat \ {0} : \A j \in 1..((n + 1) - 1) : j \in 1..(n - 1) \/ j = n
        OBVIOUS
      <4>3. \A j \in 1..(path'[k].i - 1) : Done(Children(path[k].v)[j])
        BY <1>6, <3>1, <3>2, <3>3, <4>1, <4>2
      <4>4. path[k].i + 1 <= Len(Children(path[k].v)) + 1
        BY <1>1, <1>6, <3>2, <3>3
      <4> QED
        BY <4>1, <4>3, <4>4
    <3>4. CASE k # M
      <4>1. k \in 1..(M - 1)
        BY <1>2, <2>1, <3>4
      <4> QED
        BY <1>4, <2>1, <3>1, <4>1
    <3> QED
      BY <3>3, <3>4
  <2> QED
    BY <1>4, <1>5, <2>1 DEF ProgressInv
<1>10. VisitedInv'
  <2>1. \A c \in visited : \E u \in Reachable : IsContainer(u) /\ IdOf(u) = c /\ Good(u)
    BY <1>1 DEF VisitedInv
  <2>2. ASSUME NEW u \in Values, IsContainer(u), IdOf(u) \in visited
        PROVE  \/ \E k \in 2..M : IdOf(path'[k].v) = IdOf(u)
               \/ \A j \in DOMAIN Children(u) : Done(Children(u)[j])
    <3>1. \/ \E k \in 2..L : IdOf(path[k].v) = IdOf(u)
          \/ \A j \in DOMAIN Children(u) : Done(Children(u)[j])
      BY <1>1, <2>2 DEF VisitedInv, L
    <3>2. CASE IdOf(Top.v) = IdOf(u)
      BY <1>6, <1>7, <2>2, <3>2, SameChildren
    <3>3. ASSUME NEW k \in 2..L, IdOf(path[k].v) = IdOf(u), k # L
          PROVE  \E n \in 2..M : IdOf(path'[n].v) = IdOf(u)
      <4>1. k \in 2..M /\ k \in 1..M
        BY <1>2, <3>3
      <4> QED
        BY <1>4, <3>3, <4>1
    <3> QED
      BY <1>1, <3>1, <3>2, <3>3
  <2> QED
    BY <1>0, <1>4, <1>5, <2>1, <2>2 DEF VisitedInv, IsContainer, IdOf
<1>11. TypeOK'
  <2>1. Len(path') <= MaxDepth + 1
    BY <1>1, <1>2, <1>4, FilesAssumption DEF IInv, TypeOK, L
  <2> QED
    BY <1>0, <1>4, <1>5, <1>9, <2>1 DEF IInv, TypeOK, ProgressInv, Frame
<1>12. PassInv'
    BY <1>0, FileFixed, GraphFixed DEF IInv, WalkInv, PassInv, IdOf
<1> QED
    BY <1>0, <1>1, <1>8, <1>9, <1>10, <1>11, <1>12 DEF IInv, WalkInv

-----------------------------------------------------------------------------
(* Starts and ends of walks *)

\* pointless_init ends, with an error or without.
LEMMA Stops ==
    ASSUME IInv, status' \in Ended \cup {"lost"}, UNCHANGED <<file, pass, path, marked>>,
           visited' \subseteq Node, status' = "lost" => ~UniformTags \/ ~HoldHashables,
           status' = "ok" =>
               pass = 3 /\ \A v \in Reachable : v.type \in {"set", "map"} => TableOK(v)
    PROVE  IInv'
<1>1. file' = file /\ pass' = pass /\ path' = path /\ marked' = marked
    OBVIOUS
<1>2. status' # "init" /\ status' # "walk"
    BY DEF Ended, Errors
<1>3. TypeOK'
    BY <1>1, FileFixed DEF IInv, TypeOK
<1>4. PassInv'
    BY <1>1, FileFixed, GraphFixed DEF IInv, WalkInv, PassInv, IdOf
<1> QED
    BY <1>1, <1>2, <1>3, <1>4 DEF IInv, WalkInv

\* A pass starts its walk at the header, with no bit set (pointless_validate.c:155).
LEMMA Starts ==
    ASSUME file \in Files, file' = file, status' = "walk", WalkFrom(Header), visited' = {},
           pass' \in 1..3, marked' \subseteq Node, PassInv'
    PROVE  IInv'
<1>1. path' = <<[v |-> Header, i |-> 1]>>
    BY DEF WalkFrom
<1>2. Values' = Values /\ Reachable' = Reachable /\ \A v : Children(v)' = Children(v)
    BY FileFixed, GraphFixed
<1>3. Header \in Values /\ Header \in Reachable /\ Children(Header) \in Seq(Value)
    BY ReachableClosed, ChildrenInFile
<1>4. [v |-> Header, i |-> 1] \in Frame(Values)
    BY <1>3 DEF Frame
<1>5. /\ path' \in Seq(Frame(Values)) /\ Len(path') = 1 /\ DOMAIN path' = {1} /\ path' # <<>>
      /\ path'[1].v = Header /\ path'[1].i = 1
    BY <1>1, <1>4
<1>6. Len(Children(Header)) \in Nat
    BY <1>3
<1>7. PathInv'
  <2>1. \A k \in 1..(1 - 1) : FALSE
    OBVIOUS
  <2>2. \A k \in 2..1 : FALSE
    OBVIOUS
  <2> QED
    BY <1>2, <1>3, <1>5, <2>1, <2>2 DEF PathInv
<1>8. ProgressInv'
  <2>1. \A j \in 1..(1 - 1) : FALSE
    OBVIOUS
  <2> QED
    BY <1>2, <1>5, <1>6, <2>1 DEF ProgressInv
<1>9. VisitedInv'
    BY DEF VisitedInv
<1>10. TypeOK'
    BY <1>2, <1>5, <1>8, FilesAssumption DEF TypeOK, ProgressInv, Frame
<1> QED
    BY <1>7, <1>8, <1>9, <1>10 DEF IInv, WalkInv

\* When all that can be reached was checked, the bitmaps have a bit for every container.
LEMMA NodesInBitmap ==
    ASSUME file \in Files, \A v \in Reachable \ {Header} : Checked(v)
    PROVE  Nodes \subseteq Node
<1>1. ASSUME NEW v \in Reachable, IsContainer(v) PROVE IdOf(v) \in Node
  <2>1. v # Header
    BY <1>1 DEF IsContainer, Container, Header
  <2> QED
    BY <1>1, <2>1, IdInBitmap DEF Checked
<1> QED
    BY <1>1 DEF Nodes

\* Opening a file, up to the first walk.
LEMMA Opens ==
    ASSUME IInv, Open \/ OpenFails
    PROVE  IInv'
<1>1. /\ status = "init" /\ pass = 1 /\ visited = {} /\ marked = {} /\ path = <<>> /\ file \in Files
      /\ file' = file /\ pass' = pass /\ visited' = visited /\ marked' = marked
    BY DEF Open, OpenFails, IInv, WalkInv
<1>2. CASE status' = "walk" /\ WalkFrom(Header)
  <2>1. PassInv'
    BY <1>1, <1>2 DEF PassInv
  <2> QED
    BY <1>1, <1>2, <2>1, Starts
<1>3. CASE status' \in {"unchecked", "oom", "format"} /\ path' = path
    BY <1>1, <1>3, Stops DEF Ended, Errors
<1> QED
    BY <1>2, <1>3 DEF Open, OpenFails

-----------------------------------------------------------------------------
(* Hashing a key in pass 3 *)

\* Where hashing gets to from x: to x, and on into hashable vectors; no further than into
\* any set of values that is closed in that way.
HashClosed(T) == \A w \in T : w.type = "hashable" => Range(Children(w)) \subseteq T

LEMMA HashReachFacts ==
    ASSUME file \in Files, NEW x \in Values
    PROVE  /\ x \in HashReach(x) /\ HashReach(x) \subseteq Values /\ HashClosed(HashReach(x))
           /\ \A T \in SUBSET Values : x \in T /\ HashClosed(T) => HashReach(x) \subseteq T
<1>1. x \in HashReach(x) /\ HashReach(x) \subseteq Values
    BY DEF HashReach
<1>2. \A T \in SUBSET Values : x \in T /\ HashClosed(T) => HashReach(x) \subseteq T
    BY DEF HashReach, HashClosed
<1>3. ASSUME NEW w \in HashReach(x), w.type = "hashable", NEW y \in Range(Children(w))
      PROVE  y \in HashReach(x)
  <2>1. y \in Values
    BY <1>3, ChildrenInFile DEF Range
  <2>2. ASSUME NEW T \in SUBSET Values, x \in T,
               \A z \in T : z.type = "hashable" => Range(Children(z)) \subseteq T
        PROVE  y \in T
    <3>1. w \in T
      BY <2>2 DEF HashReach
    <3> QED
      BY <1>3, <2>2, <3>1
  <2> QED
    BY <2>1, <2>2 DEF HashReach
<1> QED
    BY <1>1, <1>2, <1>3 DEF HashClosed

\* It gets further than to x only through the items of x.
LEMMA HashGoesThroughItems ==
    ASSUME file \in Files, NEW x \in Values, NEW u \in HashReach(x)
    PROVE  u = x \/ (x.type = "hashable" /\ \E y \in Range(Children(x)) : y \in Values /\ u \in HashReach(y))
<1> DEFINE C == IF x.type = "hashable" THEN Range(Children(x)) ELSE {}
           T == {x} \cup UNION {HashReach(y) : y \in C}
<1>1. C \subseteq Values
    BY ChildrenInFile DEF Range
<1>2. T \subseteq Values
    BY <1>1, HashReachFacts
<1>3. ASSUME NEW w \in T, w.type = "hashable" PROVE Range(Children(w)) \subseteq T
  <2>1. CASE w = x
    <3>1. Range(Children(w)) = C
      BY <1>3, <2>1
    <3> QED
      BY <1>1, <3>1, HashReachFacts
  <2>2. CASE w # x
    <3>1. PICK y \in C : w \in HashReach(y)
      BY <1>3, <2>2
    <3>2. Range(Children(w)) \subseteq HashReach(y)
      BY <1>1, <1>3, <3>1, HashReachFacts DEF HashClosed
    <3> QED
      BY <3>1, <3>2
  <2> QED
    BY <2>1, <2>2
<1>4. HashClosed(T)
    BY <1>3 DEF HashClosed
<1>5. x \in T
    OBVIOUS
<1>6. u \in T
  <2> HIDE DEF T
  <2> QED
    BY <1>2, <1>4, <1>5, HashReachFacts
<1> QED
    BY <1>1, <1>6

\* A container that an item of a vector refers to is a successor of the vector.
LEMMA ItemsAreSuccessors ==
    ASSUME NEW u, u.type = "hashable", NEW y \in Range(Children(u)), IsContainer(y),
           IdOf(u) \in Node, IdOf(y) \in Node
    PROVE  IdOf(y) \in Marker!Succ(IdOf(u))
<1> DEFINE c == IdOf(u)
           w == [type |-> IF c[1] = "vector" THEN "value" ELSE c[1], data |-> c[2]]
<1>1. c = <<"vector", u.data>> /\ IsContainer(u)
    BY DEF IdOf, Vector, IsContainer, Container
<1>2. w.type = "value" /\ w.data = u.data
    BY <1>1
<1>3. IsContainer(w) /\ IdOf(w) = IdOf(u)
    BY <1>1, <1>2 DEF IsContainer, Container, IdOf, Vector
<1>4. Children(w) = Children(u)
    BY <1>1, <1>3, SameChildren
<1>5. PICK j \in DOMAIN Children(u) : y = Children(u)[j]
    BY DEF Range
<1>6. ChildNodes(c) = [k \in DOMAIN Children(w) |->
                          IF IsContainer(Children(w)[k]) THEN IdOf(Children(w)[k]) ELSE <<"leaf", 1>>]
    BY DEF ChildNodes
<1> HIDE DEF c, w
<1>7. j \in DOMAIN ChildNodes(c) /\ ChildNodes(c)[j] = IdOf(y)
    BY <1>4, <1>5, <1>6
<1>8. c \in Node /\ [d \in Node |-> ChildNodes(d)][c] = ChildNodes(c)
    BY DEF c
<1>9. IdOf(y) \in Marker!Succ(c)
    BY <1>7, <1>8 DEF Marker!Succ
<1> QED
    BY <1>9 DEF c

\* No cycle is made of hashable vectors alone once pass 2 is over.
LEMMA NoHashableCycle ==
    ASSUME IInv, pass = 3, UniformTags
    PROVE  Marker!Acyclic({IdOf(v) : v \in {u \in Reachable : u.type = "hashable"}})
<1> DEFINE H == {IdOf(v) : v \in {u \in Reachable : u.type = "hashable"}}
<1>1. /\ Marker!Acyclic(Nodes \ marked)
      /\ \A v \in Reachable : v.type = "hashable" => IdOf(v) \notin marked
    BY DEF IInv, WalkInv, PassInv
<1>2. H \subseteq Nodes \ marked
    BY <1>1 DEF Nodes, IsContainer, Container
<1> HIDE DEF H
<1>3. Marker!Acyclic(H)
    BY <1>1, <1>2 DEF Marker!Acyclic
<1> QED
    BY <1>3 DEF H

\* So hashing does not come back to a vector: those that it passes on its way would
\* each have a successor among them.
LEMMA HashDoesNotReturn ==
    ASSUME IInv, pass = 3, UniformTags, NEW u \in Reachable, u.type = "hashable",
           NEW w \in Range(Children(u)), u \in HashReach(w)
    PROVE  FALSE
<1> DEFINE On(x) == x \in Reachable /\ x.type = "hashable" /\ u \in HashReach(x)
           T == {IdOf(x) : x \in {z \in Reachable : On(z)}}
<1>1. file \in Files /\ Reachable \subseteq Values
    BY ReachableClosed DEF IInv, WalkInv
<1>2. \A x \in Reachable \ {Header} : Checked(x)
    BY DEF IInv, WalkInv, PassInv
<1>3. ASSUME NEW x \in Reachable, x.type = "hashable" PROVE IsContainer(x) /\ IdOf(x) \in Node
  <2>1. x # Header /\ IsContainer(x)
    BY <1>3 DEF Header, IsContainer, Container
  <2> QED
    BY <1>1, <1>2, <2>1, IdInBitmap DEF Checked
<1>4. ASSUME NEW x, On(x), NEW y \in Range(Children(x)), u \in HashReach(y)
      PROVE  On(y) /\ IdOf(y) \in Marker!Succ(IdOf(x))
  <2>1. y \in Reachable /\ y \in Values
    BY <1>1, <1>4, ReachableClosed DEF Range
  <2>2. y.type = "hashable"
    BY <1>1, <1>4, <2>1, HashGoesThroughItems
  <2> QED
    BY <1>3, <1>4, <2>1, <2>2, ItemsAreSuccessors
<1>5. On(u)
    BY <1>1, HashReachFacts
<1>6. ASSUME NEW x, On(x) PROVE \E y : On(y) /\ IdOf(y) \in Marker!Succ(IdOf(x))
  <2>1. CASE x = u
    BY <1>4, <1>5, <2>1
  <2>2. CASE x # u
    <3>1. PICK y \in Range(Children(x)) : u \in HashReach(y)
      BY <1>1, <1>6, <2>2, HashGoesThroughItems
    <3> QED
      BY <1>4, <1>6, <3>1
  <2> QED
    BY <2>1, <2>2
<1>7. T \subseteq {IdOf(v) : v \in {z \in Reachable : z.type = "hashable"}}
    OBVIOUS
<1>8. T # {}
    BY <1>5
<1>9. ASSUME NEW c \in T PROVE Marker!Succ(c) \cap T # {}
  <2>1. PICK x : On(x) /\ c = IdOf(x)
    BY <1>9
  <2> QED
    BY <1>6, <2>1
<1> HIDE DEF T
<1> QED
    BY <1>7, <1>8, <1>9, NoHashableCycle DEF Marker!Acyclic

\* The keys of a set or map that lies in the file can be reached.
LEMMA KeysAreReachable ==
    ASSUME IInv, pass = 3, NEW v \in Reachable, v.type \in {"set", "map"}
    PROVE  Range(Keys(v)) \subseteq Reachable /\ Keys(v) \in Seq(Value)
<1>1. file \in Files /\ Checked(v) /\ IsContainer(v) /\ v # Header
  <2>1. v # Header /\ IsContainer(v)
    BY DEF Header, IsContainer, Container
  <2> QED
    BY <2>1 DEF IInv, WalkInv, PassInv
<1> DEFINE o == ObjectOf(v)
<1>2. v.data \in DOMAIN Objects(v.type)
    BY <1>1 DEF Checked, RefOK, InBounds
<1>3. o.items \in Seq(Value) /\ Len(o.items) \in {2, 3}
  <2>1. /\ file.sets \in Seq(TableObject) /\ file.maps \in Seq(TableObject)
        /\ \A x \in Range(file.sets) : Len(x.items) = 2
        /\ \A x \in Range(file.maps) : Len(x.items) = 3
    BY <1>1, FilesAssumption DEF FileType
  <2>2. Objects(v.type) = IF v.type = "set" THEN file.sets ELSE file.maps
    BY DEF Objects, Vector
  <2>3. o \in TableObject /\ Len(o.items) \in {2, 3}
    BY <1>2, <2>1, <2>2 DEF ObjectOf, Range
  <2> QED
    BY <2>3 DEF TableObject
<1>4. Children(v) = o.items
    BY <1>1, <1>2 DEF Children, InBounds
<1> DEFINE p == o.items[2]
<1>5. p \in Reachable /\ p.type = "hashable"
  <2>1. 2 \in DOMAIN Children(v)
    BY <1>3, <1>4
  <2>2. p \in Reachable
    BY <1>1, <1>4, <2>1, ReachableClosed
  <2> QED
    BY <1>1, <2>2 DEF Checked, HeapOK, Vector
<1> HIDE DEF p
<1>6. p # Header /\ IsContainer(p) /\ Checked(p)
  <2>1. p # Header /\ IsContainer(p)
    BY <1>5 DEF Header, IsContainer, Container
  <2> QED
    BY <1>5, <2>1 DEF IInv, WalkInv, PassInv
<1>7. Children(p) = ObjectOf(p).items
    BY <1>6 DEF Children, Checked, RefOK, IsContainer, Container
<1>8. Keys(v) = Children(p)
    BY <1>7 DEF Keys, p
<1> QED
    BY <1>1, <1>5, <1>8, ReachableClosed, ChildrenInFile DEF Range

\* Where the hash of a key does not return, tags disagree or a hashable vector holds
\* what is not hashable.
LEMMA KeysAnswer ==
    ASSUME IInv, NEW v \in Reachable, ~Answers(v)
    PROVE  ~UniformTags \/ ~HoldHashables
<1> SUFFICES ASSUME UniformTags, HoldHashables PROVE FALSE
    OBVIOUS
<1>1. pass = 3 /\ v.type \in {"set", "map"} /\ \E key \in HashedKeys(v) : ~HashReturns(key)
    BY DEF Answers
<1>2. PICK key \in HashedKeys(v) : ~HashReturns(key)
    BY <1>1
<1>3. key.type \notin Unhashable /\ key \in Range(Keys(v))
  <2>1. PICK k \in DOMAIN Keys(v) : key = Keys(v)[k] /\ \A n \in 1..k : Keys(v)[n].type \notin Unhashable
    BY <1>2 DEF HashedKeys
  <2>2. k \in 1..k
    <3>1. Keys(v) \in Seq(Value)
      BY <1>1, KeysAreReachable
    <3> QED
      BY <2>1, <3>1
  <2> QED
    BY <2>1, <2>2 DEF Range
<1>4. key \in Reachable
    BY <1>1, <1>3, KeysAreReachable
<1>5. file \in Files /\ Reachable \subseteq Values
    BY ReachableClosed DEF IInv, WalkInv
<1> DEFINE T == {x \in Reachable : x.type \notin Unhashable}
<1>6. HashReach(key) \subseteq T
  <2>1. ASSUME NEW x \in T, x.type = "hashable" PROVE Range(Children(x)) \subseteq T
    <3>1. \A y \in Range(Children(x)) : y \in Reachable /\ y.type \notin Unhashable
      BY <1>5, <2>1, ReachableClosed DEF HoldHashables, Range
    <3> QED
      BY <3>1
  <2>2. HashClosed(T) /\ T \in SUBSET Values /\ key \in T
    BY <1>3, <1>4, <1>5, <2>1 DEF HashClosed
  <2> HIDE DEF T
  <2> QED
    BY <1>4, <1>5, <2>2, HashReachFacts
<1>7. PICK x \in HashReach(key) : x.type = "hashable" /\ \E y \in Range(Children(x)) : x \in HashReach(y)
    BY <1>2, <1>6 DEF HashReturns
<1> QED
    BY <1>1, <1>6, <1>7, HashDoesNotReturn

\* A visit either stops the walk, moves on, or goes down.
LEMMA Visits ==
    ASSUME IInv, NEW v, Visit(v)
    PROVE  IInv'
<1>0. Visiting(v)
    BY DEF Visit, TooDeep, BadReference, MoveUp, NoAnswer, BadValue, VisitLeaf, VisitContainer, Fresh, Allowed
<1>1. status = "walk" /\ file \in Files /\ VisitedInv /\ visited \subseteq Node /\ v \in Reachable
    BY <1>0, WalkFacts, VisitedValue DEF Visiting, IInv, TypeOK
<1>2. CASE TooDeep(v) \/ BadReference(v)
    BY <1>1, <1>2, Stops DEF TooDeep, BadReference, Stop, Ended, Errors
<1>3. CASE MoveUp(v)
  <2>1. Done(v)
    BY <1>1, <1>3, SeenIsGood DEF MoveUp, Seen, Done
  <2> QED
    BY <1>0, <1>3, <2>1, Advance DEF MoveUp
<1>4. CASE NoAnswer(v) \/ BadValue(v)
  <2>1. pass \in 1..3
    BY DEF IInv, TypeOK
  <2>2. status' \in {"value", "cycle", "table", "lost"} /\ UNCHANGED <<file, pass, path, marked>>
    BY <1>4, <2>1 DEF NoAnswer, BadValue, Stop
  <2>5. status' = "lost" => ~UniformTags \/ ~HoldHashables
    <3>1. status' = "lost" => NoAnswer(v)
      BY <1>4, <2>1 DEF BadValue, Stop
    <3> QED
      BY <1>1, <3>1, KeysAnswer, VisitedValue DEF NoAnswer
  <2>3. IsContainer(v) => IdOf(v) \in Node
    <3>1. pass = 1 => RefOK(v)
      BY <1>4 DEF NoAnswer, BadValue, Fresh
    <3>2. pass = 1 \/ pass > 1
      BY <2>1
    <3> QED
      BY <1>0, <1>1, <3>1, <3>2, VisitedValue, IdInBitmap
  <2>4. visited' \subseteq Node
    BY <1>1, <1>4, <2>3 DEF NoAnswer, BadValue, Fresh
  <2> QED
    BY <2>2, <2>4, <2>5, Stops DEF Ended, Errors
<1>5. CASE VisitLeaf(v)
  <2>1. Done(v)
    BY <1>5, PassedIsGood DEF VisitLeaf, Fresh, Done
  <2>2. visited' = visited
    BY <1>5 DEF VisitLeaf, Fresh
  <2> QED
    BY <1>0, <1>5, <2>1, <2>2, Advance DEF VisitLeaf
<1>6. CASE VisitContainer(v)
    BY <1>6, Descend
<1> QED
    BY <1>2, <1>3, <1>4, <1>5, <1>6 DEF Visit

\* The end of a pass, and the start of the next.
LEMMA Changes ==
    ASSUME IInv, Mark \/ MarkFails \/ NextPass \/ Accept
    PROVE  IInv'
<1>1. WalkEnds /\ status = "walk" /\ file \in Files /\ visited \subseteq Node /\ marked \subseteq Node
    BY DEF Mark, MarkFails, NextPass, Accept, WalkEnds, IInv, WalkInv, TypeOK
<1>2. \A v \in Reachable \ {Header} : Good(v)
    BY <1>1, WalkIsExhaustive
<1>3. Header.type = "header"
    BY DEF Header
<1>4. CASE Mark
  <2>1. /\ pass = 1 /\ file' = file /\ pass' = 2 /\ visited' = {} /\ WalkFrom(Header)
        /\ status' = status /\ marked' \subseteq Nodes /\ Marker!Acyclic(Nodes \ marked')
    BY <1>4 DEF Mark
  <2>2. \A v \in Reachable \ {Header} : Checked(v)
    BY <1>2, <2>1 DEF Good
  <2>3. marked' \subseteq Node
    BY <1>1, <2>1, <2>2, NodesInBitmap
  <2>4. PassInv'
    <3>1. /\ Reachable' = Reachable /\ Nodes' = Nodes /\ \A v : Checked(v)' = Checked(v)
          /\ \A S : Marker!Acyclic(S)' = Marker!Acyclic(S)
      BY <2>1, FileFixed, GraphFixed
    <3>2. Marker!Acyclic(Nodes \ marked)'
      BY <2>1, <3>1
    <3> QED
      BY <1>1, <2>1, <2>2, <3>1, <3>2 DEF PassInv
  <2> QED
    BY <1>1, <2>1, <2>3, <2>4, Starts
<1>5. CASE MarkFails
    BY <1>1, <1>5, Stops DEF MarkFails, Stop, Ended, Errors
<1>6. CASE NextPass
  <2>1. /\ pass = 2 /\ file' = file /\ pass' = 3 /\ visited' = {} /\ WalkFrom(Header)
        /\ status' = status /\ marked' = marked
    BY <1>6 DEF NextPass
  <2>2. UniformTags => \A v \in Reachable : v.type = "hashable" => IdOf(v) \notin marked
    BY <1>2, <1>3, <2>1 DEF Good
  <2>3. PassInv'
    BY <1>1, <2>1, <2>2, FileFixed, GraphFixed DEF IInv, WalkInv, PassInv, IdOf
  <2> QED
    BY <1>1, <2>1, <2>3, Starts
<1>7. CASE Accept
  <2>1. \A v \in Reachable : v.type \in {"set", "map"} => TableOK(v)
    BY <1>2, <1>3, <1>7 DEF Accept, Good
  <2> QED
    BY <1>1, <1>7, <2>1, Stops DEF Accept, Stop, Ended, Errors
<1> QED
    BY <1>4, <1>5, <1>6, <1>7

-----------------------------------------------------------------------------
(* The theorems *)

\* At every point of opening a file, the walk is done with what lies behind it
\* (pointless_walk.c, pointless_validate.c).
THEOREM WalkIsSound == Spec => []IInv
<1>1. Init => IInv
  <2> SUFFICES ASSUME Init PROVE IInv
    OBVIOUS
  <2>1. path = <<>> /\ Len(path) = 0 /\ DOMAIN path = {} /\ path \in Seq([v : Values, i : Nat \ {0}])
    BY DEF Init
  <2>2. TypeOK
    BY <2>1, FilesAssumption DEF Init, TypeOK
  <2>3. PassInv
    BY DEF Init, PassInv
  <2> QED
    BY <2>2, <2>3 DEF Init, IInv, WalkInv
<1>2. IInv /\ [Next]_vars => IInv'
  <2> SUFFICES ASSUME IInv, [Next]_vars PROVE IInv'
    OBVIOUS
  <2>1. CASE Next
    BY <2>1, Opens, Visits, Ascend, Changes DEF Next
  <2>2. CASE UNCHANGED vars
    <3>1. /\ file' = file /\ pass' = pass /\ path' = path /\ visited' = visited
          /\ marked' = marked /\ status' = status
      BY <2>2 DEF vars
    <3>2. /\ Values' = Values /\ Reachable' = Reachable
          /\ \A v : Children(v)' = Children(v) /\ Good(v)' = Good(v) /\ Done(v)' = Done(v)
      <4>1. \A v : Good(v)' = Good(v)
        BY <3>1, GoodFixed
      <4> QED
        BY <3>1, <4>1, FileFixed, GraphFixed DEF Done, IdOf, IsContainer
    <3>3. TypeOK'
      BY <3>1, <3>2 DEF IInv, TypeOK
    <3>4. PassInv'
      BY <3>1, FileFixed, GraphFixed DEF IInv, WalkInv, PassInv, IdOf
    <3>5. PathInv' = PathInv
      BY <3>1, <3>2 DEF PathInv, IdOf, IsContainer
    <3>6. ProgressInv' = ProgressInv
      BY <3>1, <3>2 DEF ProgressInv
    <3>7. VisitedInv' = VisitedInv
      BY <3>1, <3>2 DEF VisitedInv, IdOf, IsContainer
    <3> QED
      BY <3>1, <3>3, <3>4, <3>5, <3>6, <3>7 DEF IInv, WalkInv
  <2> QED
    BY <2>1, <2>2
<1> QED
    BY <1>1, <1>2, PTL DEF Spec

\* The C stack and the bitmaps are within their bounds, whatever the file
\* (pointless_validate.c:67, :145).
THEOREM TypeCorrect == Spec => []TypeOK
<1>1. IInv => TypeOK
    BY DEF IInv
<1> QED
    BY <1>1, WalkIsSound, PTL

\* A file that is accepted is sound wherever it can be reached, although each
\* container is visited only once in each pass (pointless_validate.c:80).
THEOREM AcceptedFilesAreSound == Spec => []AcceptedIsSound
<1>1. IInv => AcceptedIsSound
    BY DEF IInv, WalkInv, PassInv, AcceptedIsSound
<1> QED
    BY <1>1, WalkIsSound, PTL

\* Nothing is read before it was checked, neither by the walks nor by the cycle
\* marker (pointless_validate.c:161).
THEOREM NothingReadUnchecked == Spec => []ReadsAreChecked
<1>1. IInv => ReadsAreChecked
  <2> SUFFICES ASSUME IInv, status = "walk" PROVE ReadsAreChecked
    BY DEF ReadsAreChecked
  <2>1. PathInv /\ PassInv /\ pass \in 1..3 /\ file \in Files /\ \A k \in 2..Len(path) : k \in DOMAIN path
    BY WalkFacts DEF IInv, WalkInv, TypeOK
  <2>2. ASSUME NEW k \in 2..Len(path) PROVE Checked(path[k].v)
    <3>1. IsContainer(path[k].v) /\ Good(path[k].v) /\ path[k].v \in Reachable
      BY <2>1, <2>2 DEF PathInv
    <3>2. path[k].v # Header
      BY <3>1 DEF IsContainer, Container, Header
    <3>3. pass = 1 \/ pass > 1
      BY <2>1
    <3> QED
      BY <2>1, <3>1, <3>2, <3>3 DEF Good, PassInv
  <2>3. ASSUME pass = 1, WalkEnds PROVE \A v \in Reachable \ {Header} : Checked(v)
    BY <2>3, WalkIsExhaustive DEF Good
  <2> QED
    BY <2>2, <2>3 DEF ReadsAreChecked
<1> QED
    BY <1>1, WalkIsSound, PTL

\* From pass 3 on no cycle is made of hashable vectors alone, so that hashing one, which has
\* no limit on the depth, ends, if the tags of a vector agree; and hashing a key has returned
\* if hashable vectors hold hashable values (pointless_hash.c:230).
THEOREM HashingAlwaysEnds == Spec => []HashingEnds
<1>1. IInv => HashingEnds
  <2> SUFFICES ASSUME IInv, pass = 3, UniformTags
               PROVE  /\ Marker!Acyclic({IdOf(v) : v \in {u \in Reachable : u.type = "hashable"}})
                      /\ status = "lost" => ~HoldHashables
    BY DEF HashingEnds
  <2>1. status = "lost" => ~HoldHashables
    BY DEF IInv, WalkInv, PassInv
  <2> QED
    BY <2>1, NoHashableCycle
<1> QED
    BY <1>1, WalkIsSound, PTL

-----------------------------------------------------------------------------
(* Why a file is rejected *)

\* Different containers are counted once each.
LEMMA PlacesCounted ==
    ASSUME path \in Seq(Frame(Values)),
           \A j, k \in 2..Len(path) : IdOf(path[j].v) = IdOf(path[k].v) => j = k
    PROVE  Len(path) > 0 => Cardinality({IdOf(path[k].v) : k \in 2..Len(path)}) = Len(path) - 1
<1> SUFFICES ASSUME Len(path) > 0
             PROVE  Cardinality({IdOf(path[k].v) : k \in 2..Len(path)}) = Len(path) - 1
    OBVIOUS
<1> DEFINE S == 2..Len(path)
           T == {IdOf(path[k].v) : k \in S}
           f == [k \in S |-> IdOf(path[k].v)]
<1>1. Len(path) \in Nat \ {0}
    OBVIOUS
<1>2. f \in Surjection(S, T)
  <2>1. f \in [S -> T]
    OBVIOUS
  <2>2. \A t \in T : \E s \in S : f[s] = t
    OBVIOUS
  <2> QED
    BY <2>1, <2>2 DEF Surjection
<1>3. f \in Injection(S, T)
  <2>1. f \in [S -> T] /\ \A j, k \in S : f[j] = f[k] => j = k
    OBVIOUS
  <2> QED
    BY <2>1 DEF Injection, IsInjective
<1>4. IsFiniteSet(S) /\ Cardinality(S) = Len(path) - 1
  <2>1. /\ IsFiniteSet(2..Len(path))
        /\ Cardinality(2..Len(path)) = IF 2 > Len(path) THEN 0 ELSE Len(path) - 2 + 1
    BY <1>1, FS_Interval
  <2> QED
    BY <1>1, <2>1
<1> HIDE DEF S, T, f
<1>5. Cardinality(T) = Cardinality(S)
    BY <1>2, <1>3, <1>4, FS_Surjection
<1>6. Cardinality(T) = Len(path) - 1
    BY <1>4, <1>5
<1> QED
    BY <1>6 DEF S, T

\* While nothing has been rejected there is nothing to explain.
LEMMA NotRejected ==
    ASSUME status \notin {"depth", "reference", "value", "cycle", "table"}
    PROVE  RejectedForCause
BY DEF RejectedForCause

\* The path keeps its containers, or loses the last ones.
LEMMA PathKeepsIds ==
    ASSUME CauseInv, status = "walk", UNCHANGED <<file, pass, marked, status>>,
           Len(path) \in Nat, Len(path') \in Nat, Len(path') <= Len(path),
           \A k \in 1..Len(path') : path'[k].v = path[k].v
    PROVE  CauseInv'
<1>1. file' = file /\ pass' = pass /\ marked' = marked /\ status' = "walk"
    OBVIOUS
<1>2. ASSUME NEW j \in 2..Len(path'), NEW k \in 2..Len(path'),
             IdOf(path'[j].v) = IdOf(path'[k].v)
      PROVE  j = k
  <2>1. j \in 2..Len(path) /\ k \in 2..Len(path) /\ j \in 1..Len(path') /\ k \in 1..Len(path')
    OBVIOUS
  <2>2. IdOf(path[j].v) = IdOf(path[k].v)
    BY <1>2, <2>1
  <2> QED
    BY <2>1, <2>2 DEF CauseInv
<1>3. pass' > 1 => \A c \in marked' : Marker!OnCycle(c)'
    BY <1>1, GraphFixed DEF CauseInv
<1>4. RejectedForCause'
    BY <1>1 DEF RejectedForCause
<1> QED
    BY <1>1, <1>2, <1>3, <1>4 DEF CauseInv, IdOf

\* A visit: the path grows by a container that was not visited, and what is
\* rejected is the value that the walk has come to.
LEMMA CauseOfVisit ==
    ASSUME IInv, CauseInv, NEW v, Visit(v)
    PROVE  CauseInv'
<1>0. Visiting(v)
    BY DEF Visit, TooDeep, BadReference, MoveUp, NoAnswer, BadValue, VisitLeaf, VisitContainer, Fresh, Allowed
<1>1. /\ status = "walk" /\ file \in Files /\ PathInv
      /\ path \in Seq(Frame(Values)) /\ Len(path) \in Nat \ {0}
    BY <1>0, WalkFacts DEF Visiting
<1>2. v \in Reachable /\ pass \in 1..3
    BY <1>0, VisitedValue DEF IInv, TypeOK
<1>3. v # Header
  <2>1. Top.i \in DOMAIN Children(Top.v) /\ v = Children(Top.v)[Top.i]
    BY <1>0, <1>1, WalkFacts DEF Visiting
  <2>2. v \in Value
    BY <1>1, <2>1, ChildrenInFile
  <2> QED
    BY <2>2 DEF Value, Header, Type, Vector, Container
<1>4. /\ \A j, k \in 2..Len(path) : IdOf(path[j].v) = IdOf(path[k].v) => j = k
      /\ pass > 1 => \A c \in marked : Marker!OnCycle(c)
    BY <1>1 DEF CauseInv
<1>5. ASSUME UNCHANGED <<file, pass, path, marked>>, status' # "walk", RejectedForCause'
      PROVE  CauseInv'
  <2>1. pass' > 1 => \A c \in marked' : Marker!OnCycle(c)'
    BY <1>4, <1>5, GraphFixed
  <2> QED
    BY <1>5, <2>1 DEF CauseInv
<1>6. CASE TooDeep(v)
  <2>1. status' = "depth" /\ UNCHANGED <<file, pass, path, marked>> /\ ~DepthOK
    BY <1>6 DEF TooDeep, Stop
  <2>2. Cardinality({IdOf(path[k].v) : k \in 2..Len(path)}) = Len(path) - 1
    BY <1>1, <1>4, PlacesCounted
  <2>3. Len(path) - 1 >= MaxDepth
    BY <1>1, <2>1, FilesAssumption DEF DepthOK
  <2>4. Cardinality({IdOf(path[k].v) : k \in 2..Len(path)}) >= MaxDepth
    BY <2>2, <2>3
  <2>5. Cardinality({IdOf(path'[k].v) : k \in 2..Len(path')}) >= MaxDepth
    BY <2>1, <2>4
  <2>6. RejectedForCause'
    BY <2>1, <2>5 DEF RejectedForCause, IdOf
  <2> QED
    BY <1>5, <2>1, <2>6
<1>7. CASE BadReference(v)
  <2>1. status' = "reference" /\ UNCHANGED <<file, pass, path, marked>> /\ ~RefOK(v)
    BY <1>7 DEF BadReference, Stop
  <2>2. v \in Reachable \ {Header} /\ ~Checked(v)
    BY <1>2, <1>3, <2>1 DEF Checked
  <2>3. Reachable' = Reachable /\ Checked(v)' = Checked(v)
    BY <2>1, FileFixed, GraphFixed
  <2>4. RejectedForCause'
    BY <2>1, <2>2, <2>3 DEF RejectedForCause
  <2> QED
    BY <1>5, <2>1, <2>4
<1>8. CASE BadValue(v)
  <2>1. /\ status' = <<"value", "cycle", "table">>[pass] /\ UNCHANGED <<file, pass, path, marked>>
        /\ ~Passes(pass, v)
    BY <1>8 DEF BadValue, Stop, Fresh
  <2>2. /\ Reachable' = Reachable /\ \A u : Checked(u)' = Checked(u) /\ TableOK(u)' = TableOK(u)
        /\ \A c : Marker!OnCycle(c)' <=> Marker!OnCycle(c)
    BY <2>1, FileFixed, GraphFixed
  <2>3. CASE pass = 1
    <3>1. ~Checked(v)
      BY <1>8, <2>3 DEF BadValue, Passes, Checked
    <3>2. status' = "value"
      BY <2>1, <2>3
    <3> QED
      BY <1>2, <1>3, <1>5, <2>1, <2>2, <3>1, <3>2 DEF RejectedForCause
  <2>4. CASE pass = 2
    <3>1. v.type = "hashable" /\ IdOf(v) \in marked
      BY <1>8, <2>4 DEF BadValue, Passes
    <3>2. Marker!OnCycle(IdOf(v))
      BY <1>4, <2>4, <3>1
    <3>3. status' = "cycle"
      BY <2>1, <2>4
    <3>4. RejectedForCause'
      BY <1>2, <2>2, <3>1, <3>2, <3>3 DEF RejectedForCause, IdOf
    <3> QED
      BY <1>5, <2>1, <3>3, <3>4
  <2>5. CASE pass = 3
    <3>1. v.type \in {"set", "map"} /\ ~TableOK(v)
      BY <1>8, <2>5 DEF BadValue, Passes
    <3>2. status' = "table"
      BY <2>1, <2>5
    <3>3. RejectedForCause'
      BY <1>2, <2>2, <3>1, <3>2 DEF RejectedForCause
    <3> QED
      BY <1>5, <2>1, <3>2, <3>3
  <2> QED
    BY <1>2, <2>3, <2>4, <2>5
<1>11. CASE NoAnswer(v)
  <2>1. status' = "lost" /\ UNCHANGED <<file, pass, path, marked>>
    BY <1>11 DEF NoAnswer, Stop
  <2>2. RejectedForCause'
    BY <2>1 DEF RejectedForCause
  <2> QED
    BY <1>5, <2>1, <2>2
<1>9. CASE MoveUp(v) \/ VisitLeaf(v)
  <2>1. NextVisit /\ UNCHANGED <<file, pass, marked, status>>
    BY <1>9 DEF MoveUp, VisitLeaf
  <2>2. path # <<>> /\ path' = Bumped(path)
    BY <1>1, <2>1 DEF PathInv, NextVisit, Bumped
  <2>3. Len(path') = Len(path) /\ \A k \in 1..Len(path) : path'[k].v = path[k].v
    BY <1>1, <2>2, BumpLast
  <2> QED
    BY <1>1, <2>1, <2>3, PathKeepsIds
<1>10. CASE VisitContainer(v)
  <2>1. /\ file' = file /\ pass' = pass /\ marked' = marked /\ status' = "walk"
        /\ path' = Append(path, [v |-> v, i |-> 1]) /\ IdOf(v) \notin visited
    BY <1>1, <1>10 DEF VisitContainer, Fresh, Seen
  <2>2. PICK L : L = Len(path)
    OBVIOUS
  <2>3. /\ L \in Nat \ {0} /\ Len(path') = L + 1 /\ \A k \in 1..L : path'[k] = path[k]
        /\ path'[L + 1].v = v
    BY <1>1, <2>1, <2>2
  <2>4. \A k \in 2..L : IdOf(path'[k].v) = IdOf(path[k].v) /\ IdOf(path[k].v) \in visited
    BY <1>1, <2>2, <2>3 DEF PathInv
  <2>5. \A k \in 2..(L + 1) : k \in 2..L \/ k = L + 1
    BY <2>3
  <2>6. \A j, k \in 2..(L + 1) : IdOf(path'[j].v) = IdOf(path'[k].v) => j = k
    BY <1>4, <2>1, <2>2, <2>3, <2>4, <2>5
  <2>7. pass' > 1 => \A c \in marked' : Marker!OnCycle(c)'
    BY <1>4, <2>1, GraphFixed
  <2>8. RejectedForCause'
    BY <2>1, NotRejected DEF RejectedForCause
  <2> QED
    BY <2>1, <2>3, <2>6, <2>7, <2>8 DEF CauseInv, IdOf
<1> QED
    BY <1>6, <1>7, <1>8, <1>9, <1>10, <1>11 DEF Visit

\* All children of a container have been visited.
LEMMA CauseOfReturn ==
    ASSUME IInv, CauseInv, Return
    PROVE  CauseInv'
<1>1. /\ UNCHANGED <<file, pass, marked, status>> /\ status = "walk" /\ Len(path) > 1
      /\ path' = [SubSeq(path, 1, Len(path) - 1) EXCEPT ![Len(path) - 1].i = @ + 1]
    BY DEF Return
<1>2. path \in Seq(Frame(Values)) /\ Len(path) \in Nat \ {0}
    BY <1>1, WalkFacts
<1>3. PICK M : M = Len(path) - 1
    OBVIOUS
<1>4. PICK q : q = SubSeq(path, 1, M)
    OBVIOUS
<1>5. M \in Nat \ {0} /\ M \in 1..Len(path) /\ M <= Len(path)
    BY <1>1, <1>2, <1>3
<1>6. q \in Seq(Frame(Values)) /\ Len(q) = M /\ q # <<>> /\ \A k \in 1..M : q[k] = path[k]
    BY <1>2, <1>4, <1>5, Shorter
<1>7. path' = Bumped(q)
    BY <1>1, <1>3, <1>4, <1>6 DEF Bumped
<1>8. Len(path') = M /\ \A k \in 1..M : path'[k].v = q[k].v
    BY <1>6, <1>7, BumpLast
<1> QED
    BY <1>1, <1>2, <1>5, <1>6, <1>8, PathKeepsIds

\* A walk that starts, and one that ends.
LEMMA CauseOfChange ==
    ASSUME IInv, CauseInv, Open \/ OpenFails \/ Mark \/ MarkFails \/ NextPass \/ Accept
    PROVE  CauseInv'
<1>1. file' = file
    BY DEF Open, OpenFails, Mark, MarkFails, NextPass, Accept, Stop
<1>2. \A c : Marker!OnCycle(c)' <=> Marker!OnCycle(c)
    BY <1>1, GraphFixed
<1>3. status' \in {"walk", "unchecked", "oom", "format", "marker", "ok"}
    BY DEF Open, OpenFails, Mark, MarkFails, NextPass, Accept, Stop, WalkEnds
<1>4. RejectedForCause'
    BY <1>3 DEF RejectedForCause
<1>5. status' = "walk" => \A j, k \in 2..Len(path') : FALSE
  <2>1. status' = "walk" => WalkFrom(Header)
    BY DEF Open, OpenFails, Mark, MarkFails, NextPass, Accept, Stop
  <2>2. WalkFrom(Header) => Len(path') = 1
    BY DEF WalkFrom
  <2> QED
    BY <2>1, <2>2
<1>6. pass' > 1 => \A c \in marked' : Marker!OnCycle(c)'
  <2>1. CASE Mark
    <3>1. \A c \in marked' : Marker!OnCycle(c)
      BY <2>1 DEF Mark
    <3> QED
      BY <1>2, <3>1
  <2>2. CASE ~Mark
    <3>1. marked' = marked /\ (pass' > 1 => pass > 1)
      BY <2>2 DEF Open, OpenFails, MarkFails, NextPass, Accept, Stop
    <3> QED
      BY <1>2, <3>1 DEF CauseInv
  <2> QED
    BY <2>1, <2>2
<1> QED
    BY <1>4, <1>5, <1>6 DEF CauseInv

\* A file is rejected for what is wrong with it, and for its depth only if that
\* many different containers are nested (pointless_validate.c:67, pointless_walk.c).
THEOREM RejectionsHaveCauses == Spec => []RejectedForCause
<1>1. Init => CauseInv
  <2> SUFFICES ASSUME Init PROVE CauseInv
    OBVIOUS
  <2>1. status = "init" /\ pass = 1
    BY DEF Init
  <2> QED
    BY <2>1, NotRejected DEF CauseInv
<1>2. IInv /\ CauseInv /\ [Next]_vars => CauseInv'
  <2> SUFFICES ASSUME IInv, CauseInv, [Next]_vars PROVE CauseInv'
    OBVIOUS
  <2>1. CASE Next
    BY <2>1, CauseOfVisit, CauseOfReturn, CauseOfChange DEF Next
  <2>2. CASE UNCHANGED vars
    <3>1. /\ file' = file /\ pass' = pass /\ path' = path /\ marked' = marked /\ status' = status
      BY <2>2 DEF vars
    <3>2. /\ Reachable' = Reachable /\ \A u : Checked(u)' = Checked(u) /\ TableOK(u)' = TableOK(u)
          /\ \A c : Marker!OnCycle(c)' <=> Marker!OnCycle(c)
      BY <3>1, FileFixed, GraphFixed
    <3>3. RejectedForCause'
      BY <3>1, <3>2 DEF CauseInv, RejectedForCause, IdOf
    <3> QED
      BY <3>1, <3>2, <3>3 DEF CauseInv, IdOf
  <2> QED
    BY <2>1, <2>2
<1>3. CauseInv => RejectedForCause
    BY DEF CauseInv
<1> QED
    BY <1>1, <1>2, <1>3, WalkIsSound, PTL DEF Spec
=============================================================================
