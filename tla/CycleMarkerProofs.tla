------------------------- MODULE CycleMarkerProofs -------------------------
(***************************************************************************)
(* Proofs about CycleMarker: the search is type correct, it never reports  *)
(* an internal error, when it ends it has visited and settled every        *)
(* reachable container, every cycle passes through a marked container, all *)
(* that is marked lies on cycles, and the recursion is bounded.            *)
(***************************************************************************)
EXTENDS CycleMarker, SequenceTheorems, FiniteSetTheorems, WellFoundedInduction, TLAPS

-----------------------------------------------------------------------------
(* Sequences used as stacks, and Judy arrays. *)

\* Front and Last take a non-empty sequence apart.
LEMMA FrontLast ==
  ASSUME NEW S, NEW s \in Seq(S), s # <<>>
  PROVE  /\ Len(s) \in Nat \ {0}
         /\ s[Len(s)] \in S
         /\ Last(s) = s[Len(s)]
         /\ Front(s) \in Seq(S)
         /\ Len(Front(s)) = Len(s) - 1
         /\ DOMAIN Front(s) = 1..(Len(s) - 1)
         /\ DOMAIN s = 1..Len(s)
         /\ \A j \in 1..(Len(s) - 1) : Front(s)[j] = s[j]
<1>1. Len(s) \in Nat \ {0}
  BY EmptySeq
<1>2. DOMAIN s = 1..Len(s) /\ \A j \in 1..Len(s) : s[j] \in S
  BY LenProperties
<1>3. /\ Front(s) \in Seq(S)
      /\ Len(Front(s)) = Len(s) - 1
      /\ \A j \in 1..(Len(s) - 1) : Front(s)[j] = s[j]
  <2>1. \A j \in 1..(Len(s) - 1) : s[j] \in S
    BY <1>1, <1>2
  <2>2. 1 \in Int /\ Len(s) - 1 \in Int
    BY <1>1
  <2>3. /\ SubSeq(s, 1, Len(s) - 1) \in Seq(S)
        /\ Len(SubSeq(s, 1, Len(s) - 1)) = IF 1 <= Len(s) - 1 THEN (Len(s) - 1) - 1 + 1 ELSE 0
        /\ \A j \in 1..((Len(s) - 1) - 1 + 1) : SubSeq(s, 1, Len(s) - 1)[j] = s[1 + j - 1]
    BY <2>1, <2>2, SubSeqProperties
  <2>4. /\ Front(s) \in Seq(S)
        /\ Len(Front(s)) = IF 1 <= Len(s) - 1 THEN (Len(s) - 1) - 1 + 1 ELSE 0
        /\ \A j \in 1..((Len(s) - 1) - 1 + 1) : Front(s)[j] = s[1 + j - 1]
    <3>1. Front(s) = SubSeq(s, 1, Len(s) - 1)
      BY DEF Front
    <3> QED BY ONLY <2>3, <3>1, Zenon
  <2>5. Len(Front(s)) = Len(s) - 1
    <3>1. ASSUME NEW m \in Nat \ {0}, NEW l, l = IF 1 <= m - 1 THEN (m - 1) - 1 + 1 ELSE 0
          PROVE  l = m - 1
      BY <3>1
    <3> QED BY <1>1, <2>4, <3>1
  <2>6. ASSUME NEW j \in 1..(Len(s) - 1) PROVE Front(s)[j] = s[j]
    <3>1. j \in 1..((Len(s) - 1) - 1 + 1) /\ 1 + j - 1 = j
      BY <1>1
    <3> QED BY <2>4, <3>1
  <2> QED
    BY <2>4, <2>5, <2>6
<1>4. DOMAIN Front(s) = 1..(Len(s) - 1)
  BY <1>3, LenProperties
<1> QED
  BY <1>1, <1>2, <1>3, <1>4 DEF Last

\* A push keeps the old entries and adds one at the end.
LEMMA AppendLast ==
  ASSUME NEW S, NEW s \in Seq(S), NEW e \in S
  PROVE  /\ Append(s, e) \in Seq(S)
         /\ Append(s, e) # <<>>
         /\ Len(s) \in Nat
         /\ Len(Append(s, e)) = Len(s) + 1
         /\ DOMAIN s = 1..Len(s)
         /\ DOMAIN Append(s, e) = 1..(Len(s) + 1)
         /\ Append(s, e)[Len(s) + 1] = e
         /\ \A j \in 1..Len(s) : Append(s, e)[j] = s[j]
  OBVIOUS

\* JudyLIns adds a key or replaces the value of one.
LEMMA JudyInsType ==
  ASSUME NEW f, f \in [DOMAIN f -> Nat], NEW k, NEW x \in Nat
  PROVE  /\ DOMAIN JudyIns(f, k, x) = DOMAIN f \cup {k}
         /\ JudyIns(f, k, x) \in [DOMAIN f \cup {k} -> Nat]
         /\ JudyIns(f, k, x)[k] = x
         /\ \A j \in DOMAIN f : j # k => JudyIns(f, k, x)[j] = f[j]
  BY DEF JudyIns

\* The Judy arrays and the stacks start empty.
LEMMA EmptyJudy == DOMAIN <<>> = {} /\ <<>> \in [{} -> Nat]
  OBVIOUS

\* The activation on top, when there is one.
LEMMA TopFrame ==
  ASSUME TypeOK, frames # <<>>
  PROVE  /\ Len(frames) \in Nat \ {0}
         /\ DOMAIN frames = 1..Len(frames)
         /\ Top = frames[Len(frames)]
         /\ Top \in Frame
         /\ Top.v \in Container /\ Top.i \in Nat \ {0}
         /\ \A k \in DOMAIN frames : frames[k].v \in Container /\ frames[k].i \in Nat \ {0}
<1>1. frames \in Seq(Frame)
  BY DEF TypeOK
<1>2. Len(frames) \in Nat \ {0} /\ Top \in Frame /\ DOMAIN frames = 1..Len(frames)
  BY <1>1, FrontLast DEF Top
<1>3. \A k \in DOMAIN frames : frames[k] \in Frame
  BY <1>1, <1>2
<1> QED
  BY <1>2, <1>3 DEF Top, Frame

\* Going on to the next child changes the index of the top activation only.
LEMMA NextChildFrames ==
  ASSUME TypeOK, frames # <<>>, NextChild
  PROVE  /\ frames' \in Seq(Frame)
         /\ frames' # <<>>
         /\ Len(frames') = Len(frames)
         /\ DOMAIN frames' = DOMAIN frames
         /\ \A k \in DOMAIN frames : frames'[k].v = frames[k].v
         /\ \A k \in DOMAIN frames : k # Len(frames) => frames'[k] = frames[k]
         /\ frames'[Len(frames)].i = Top.i + 1
         /\ Active' = Active
<1> DEFINE n == Len(frames)
           e == [frames[n] EXCEPT !.i = @ + 1]
<1>1. /\ n \in Nat \ {0} /\ DOMAIN frames = 1..n /\ frames \in Seq(Frame)
      /\ Top = frames[n] /\ Top \in Frame
  BY TopFrame DEF TypeOK
<1>2. e \in Frame /\ e.v = frames[n].v /\ e.i = frames[n].i + 1
  BY <1>1 DEF Frame
<1>3. frames' = [frames EXCEPT ![n] = e]
  BY DEF NextChild
<1>4. /\ frames' \in Seq(Frame)
      /\ Len(frames') = n
      /\ \A k \in 1..n : frames'[k] = IF k = n THEN e ELSE frames[k]
  <2> HIDE DEF e, n
  <2> QED BY <1>1, <1>2, <1>3, ExceptSeq, n \in 1..Len(frames) DEF n
<1>5. DOMAIN frames' = 1..n
  BY <1>4, LenProperties
<1>6. frames' # <<>>
  BY <1>4, <1>1, EmptySeq
<1>7. \A k \in DOMAIN frames : frames'[k].v = frames[k].v
  BY <1>1, <1>2, <1>4
<1>8. Active' = Active
  BY <1>1, <1>5, <1>7 DEF Active
<1>9. \A k \in DOMAIN frames : k # n => frames'[k] = frames[k]
  BY <1>1, <1>4
<1>10. frames'[n].i = Top.i + 1
  <2>1. frames'[n] = e
    BY <1>1, <1>4
  <2> QED BY <1>1, <1>2, <2>1
<1> QED
  BY <1>1, <1>4, <1>5, <1>6, <1>7, <1>8, <1>9, <1>10

-----------------------------------------------------------------------------
(* Types *)

\* Every variable keeps its type, whatever the graph.
THEOREM TypeCorrect == Spec => []TypeOK
<1>1. Init => TypeOK
  <2> SUFFICES ASSUME Init PROVE TypeOK
    OBVIOUS
  <2>1. frames \in Seq(Frame) /\ stack \in Seq(Container)
    BY EmptySeq DEF Init
  <2>2. DOMAIN visited = {} /\ visited \in [{} -> Nat] /\ root \in [{} -> Nat]
    BY EmptyJudy DEF Init
  <2>3. children \in [Container -> Seq(Value)] /\ start \in Value
    BY GraphAssumption, RootAssumption DEF Init
  <2>4. component \subseteq Container /\ marked \subseteq Container /\ status \in Status
    BY DEF Init, Status, Running
  <2> QED
    BY <2>1, <2>2, <2>3, <2>4 DEF TypeOK
<1>2. TypeOK /\ [Next]_vars => TypeOK'
  <2> SUFFICES ASSUME TypeOK, [Next]_vars PROVE TypeOK'
    OBVIOUS
  <2> USE DEF TypeOK
  <2>0. ASSUME NEW v \in Container, Visit(v) PROVE TypeOK'
    <3>1. CASE status' = "running"
      <4>1. [v |-> v, i |-> 1] \in Frame
        BY DEF Frame
      <4>2. frames' \in Seq(Frame) /\ stack' \in Seq(Container) /\ Len(frames) \in Nat
        <5>1. frames' = Append(frames, [v |-> v, i |-> 1]) /\ stack' = Append(stack, v)
          BY <2>0, <3>1 DEF Visit
        <5> QED BY <4>1, <5>1, AppendLast
      <4>3. /\ DOMAIN visited' = DOMAIN visited \cup {v}
            /\ visited' \in [DOMAIN visited' -> Nat]
            /\ root' \in [DOMAIN visited' -> Nat]
        <5>1. /\ visited' = JudyIns(visited, v, Len(frames))
              /\ root' = JudyIns(root, v, Len(frames))
          BY <2>0, <3>1 DEF Visit
        <5>2. visited \in [DOMAIN visited -> Nat] /\ root \in [DOMAIN root -> Nat]
              /\ DOMAIN root = DOMAIN visited
          OBVIOUS
        <5>3. /\ DOMAIN visited' = DOMAIN visited \cup {v}
              /\ visited' \in [DOMAIN visited \cup {v} -> Nat]
          BY <4>2, <5>1, <5>2, JudyInsType
        <5>4. root' \in [DOMAIN root \cup {v} -> Nat]
          BY <4>2, <5>1, <5>2, JudyInsType
        <5> QED BY <5>2, <5>3, <5>4
      <4> QED
        BY <2>0, <3>1, <4>2, <4>3 DEF Visit, Status, Running
    <3>2. CASE status' # "running"
      BY <2>0, <3>2 DEF Visit, VisitError, Status, Running
    <3> QED BY <3>1, <3>2
  <2>1. CASE Start
    BY <2>0, <2>1 DEF Start
  <2>2. CASE StartLeaf
    BY <2>2 DEF StartLeaf, Status
  <2>3. CASE SkipLeaf
    BY <2>3, NextChildFrames DEF SkipLeaf, HasChild
  <2>4. CASE SelfLoop
    BY <2>4, NextChildFrames, TopFrame DEF SelfLoop, HasChild
  <2>5. CASE Descend
    BY <2>0, <2>5 DEF Descend
  <2>6. CASE Link
    <3>1. frames' \in Seq(Frame) /\ status' \in Status
      BY <2>6, NextChildFrames DEF Link, HasChild, Status, Running
    <3>2. root' \in [DOMAIN visited -> Nat]
      <4>1. CASE root' = root
        BY <4>1
      <4>2. CASE root' # root
        <5>1. /\ root' = JudyIns(root, Top.v, root[Child])
              /\ Top.v \in DOMAIN root /\ Child \in DOMAIN root
          BY <2>6, <4>2 DEF Link
        <5>2. root[Child] \in Nat /\ DOMAIN root = DOMAIN visited
          BY <5>1
        <5>3. root' \in [DOMAIN root \cup {Top.v} -> Nat]
          BY <5>1, <5>2, JudyInsType, root \in [DOMAIN root -> Nat]
        <5> QED BY <5>1, <5>2, <5>3
      <4> QED BY <4>1, <4>2
    <3> QED BY <2>6, <3>1, <3>2 DEF Link
  <2>7. CASE PopMember
    <3>1. stack \in Seq(Container) /\ stack # <<>> /\ stack' = Front(stack)
      BY <2>7 DEF PopMember
    <3>2. stack' \in Seq(Container) /\ Last(stack) \in Container
      BY <3>1, FrontLast
    <3> QED BY <2>7, <3>2 DEF PopMember
  <2>8. CASE CloseRoot
    BY <2>8, FrontLast, TopFrame DEF CloseRoot, Exhausted, Return, Status, Running
  <2>9. CASE LeaveMember
    BY <2>9, FrontLast DEF LeaveMember, Exhausted, Return, Status, Running
  <2>10. CASE OutOfMemory
    BY <2>10 DEF OutOfMemory, Status
  <2>11. CASE UNCHANGED vars
    BY <2>11 DEF vars
  <2> QED
    BY <2>1, <2>2, <2>3, <2>4, <2>5, <2>6, <2>7, <2>8, <2>9, <2>10, <2>11 DEF Next, Step
<1> QED
  BY <1>1, <1>2, PTL DEF Spec

-----------------------------------------------------------------------------
(* The inductive invariant, one lemma for each way a step changes the search. *)

\* Activations are of different containers.
LEMMA FramesDistinct ==
  ASSUME TypeOK, FramesInv
  PROVE  \A k, l \in DOMAIN frames : frames[k].v = frames[l].v => k = l
<1>1. DOMAIN frames = 1..Len(frames) /\ Len(frames) \in Nat
  BY DEF TypeOK
<1> QED
  BY <1>1 DEF FramesInv

\* What all steps to the next child (SkipLeaf, SelfLoop, Link) have in common.
LEMMA NextChildInv ==
  ASSUME TypeOK, TypeOK', SearchInv, HasChild, NextChild,
         status = "running", status' = "running",
         UNCHANGED <<children, visited, component, stack>>,
         marked \subseteq marked',
         \A v \in DOMAIN visited : root'[v] <= root[v],
         Child \in Container =>
            /\ Child \in DOMAIN visited
            /\ Child = Top.v => Top.v \in marked'
            /\ Child \in Active => root'[Top.v] <= visited[Child]
  PROVE  SearchInv'
<1> DEFINE n == Len(frames)
<1>0. frames # <<>> /\ Top.i <= Len(children[Top.v])
  BY DEF HasChild
<1>1. /\ n \in Nat \ {0} /\ DOMAIN frames = 1..n /\ Top = frames[n]
      /\ \A k \in DOMAIN frames : frames[k].v \in Container /\ frames[k].i \in Nat \ {0}
  BY <1>0, TopFrame
<1>2. /\ frames' # <<>> /\ DOMAIN frames' = DOMAIN frames
      /\ \A k \in DOMAIN frames : frames'[k].v = frames[k].v
      /\ \A k \in DOMAIN frames : k # n => frames'[k] = frames[k]
      /\ frames'[n].i = Top.i + 1
      /\ Active' = Active
  BY <1>0, NextChildFrames
<1>3. FramesInv'
  <2>1. \A k \in DOMAIN frames : frames'[k].i <= Len(children[frames[k].v]) + 1
    <3> SUFFICES ASSUME NEW k \in DOMAIN frames
                 PROVE  frames'[k].i <= Len(children[frames[k].v]) + 1
      OBVIOUS
    <3>1. Len(children[frames[k].v]) \in Nat
      BY <1>1 DEF TypeOK
    <3>2. CASE k = n
      BY <3>1, <3>2, <1>0, <1>1, <1>2
    <3>3. CASE k # n
      BY <3>3, <1>2 DEF SearchInv, FramesInv
    <3> QED BY <3>2, <3>3
  <2> QED BY <2>1, <1>2 DEF SearchInv, FramesInv
<1>4. StackInv'
  <2>1. OnStack' = OnStack
    BY DEF OnStack
  <2>2. frames'[1].v = frames[1].v
    BY <1>1, <1>2
  <2> QED BY <1>0, <1>2, <2>1, <2>2 DEF SearchInv, StackInv
<1>5. EdgeInv'
  <2>1. \A v \in DOMAIN visited : root'[v] <= visited[v]
    BY DEF SearchInv, EdgeInv, TypeOK
  <2>2. ASSUME NEW k \in DOMAIN frames, NEW j \in 1..(frames'[k].i - 1),
               children[frames[k].v][j] \in Container
        PROVE  LET v == frames[k].v
                   w == children[v][j]
               IN  /\ w \in DOMAIN visited
                   /\ w = v => v \in marked'
                   /\ w \in Active => root'[v] <= visited[w]
    <3> DEFINE v == frames[k].v
               w == children[v][j]
    <3>1. CASE k = n /\ j = Top.i
      <4>1. w = Child /\ v = Top.v
        BY <3>1, <1>1 DEF Child
      <4> QED BY <4>1, <2>2
    <3>2. CASE ~(k = n /\ j = Top.i)
      <4>1. j \in 1..(frames[k].i - 1)
        BY <3>2, <1>1, <1>2
      <4>2. /\ w \in DOMAIN visited
            /\ w = v => v \in marked
            /\ w \in Active => root[v] <= visited[w]
        BY <4>1, <2>2 DEF SearchInv, EdgeInv
      <4>3. v \in DOMAIN visited
        BY DEF SearchInv, FramesInv
      <4>4. w \in Active => root'[v] <= visited[w]
        BY SMTT(30), <4>2, <4>3 DEF TypeOK
      <4> QED BY <4>2, <4>4
    <3> QED BY <3>1, <3>2
  <2> QED BY <1>2, <2>1, <2>2 DEF EdgeInv
<1>6. SettledInv'
  BY <1>2 DEF SearchInv, SettledInv, Succ
<1> QED
  BY <1>3, <1>4, <1>5, <1>6 DEF SearchInv

\* An active container is on the stack, so it has no component yet.
LEMMA ActiveOnStack ==
  ASSUME TypeOK, StackInv
  PROVE  Active \subseteq OnStack /\ Active \cap component = {}
<1>1. \A k \in DOMAIN frames : k <= k
  BY DEF TypeOK
<1>2. \A k \in DOMAIN frames : \E p \in DOMAIN stack : stack[p] = frames[k].v
  BY <1>1 DEF StackInv
<1> QED
  BY <1>2 DEF Active, OnStack, StackInv

\* Start and Descend, when visit's guards let them pass.
LEMMA VisitInv ==
  ASSUME TypeOK, TypeOK', SearchInv, NEW v \in Container, v \notin DOMAIN visited,
         Visit(v), status \in {"init", "running"}, status' = "running"
  PROVE  SearchInv'
<1> DEFINE n == Len(frames)
           m == Len(stack)
<1>1. /\ n \in Nat /\ DOMAIN frames = 1..n /\ DOMAIN frames' = 1..(n + 1)
      /\ frames' # <<>> /\ frames'[n + 1] = [v |-> v, i |-> 1]
      /\ \A k \in 1..n : frames'[k] = frames[k]
  <2>1. frames \in Seq(Frame) /\ [v |-> v, i |-> 1] \in Frame
    BY DEF TypeOK, Frame
  <2>2. frames' = Append(frames, [v |-> v, i |-> 1])
    BY DEF Visit
  <2> QED BY <2>1, <2>2, AppendLast
<1>2. /\ m \in Nat /\ DOMAIN stack = 1..m /\ DOMAIN stack' = 1..(m + 1)
      /\ stack' # <<>> /\ stack'[m + 1] = v
      /\ \A p \in 1..m : stack'[p] = stack[p]
  <2>1. stack \in Seq(Container) /\ stack' = Append(stack, v)
    BY DEF TypeOK, Visit
  <2> QED BY <2>1, AppendLast
<1>3. /\ DOMAIN visited' = DOMAIN visited \cup {v}
      /\ visited'[v] = n /\ root'[v] = n
      /\ \A u \in DOMAIN visited : visited'[u] = visited[u] /\ root'[u] = root[u]
  <2>1. visited' = JudyIns(visited, v, n) /\ root' = JudyIns(root, v, n)
    BY DEF Visit
  <2>2. /\ visited \in [DOMAIN visited -> Nat] /\ root \in [DOMAIN root -> Nat]
        /\ DOMAIN root = DOMAIN visited
    BY DEF TypeOK
  <2>3. /\ DOMAIN visited' = DOMAIN visited \cup {v} /\ visited'[v] = n
        /\ \A u \in DOMAIN visited : u # v => visited'[u] = visited[u]
    BY <2>1 DEF JudyIns
  <2>4. root'[v] = n /\ \A u \in DOMAIN root : u # v => root'[u] = root[u]
    BY <2>1 DEF JudyIns
  <2> QED BY <2>2, <2>3, <2>4
<1>4. UNCHANGED <<children, component, marked>>
  BY DEF Visit
<1>5. /\ Active' = Active \cup {v}
      /\ Active \subseteq DOMAIN visited /\ component \subseteq DOMAIN visited
      /\ Active \cap component = {}
  <2>1. Active' = Active \cup {v}
    BY <1>1 DEF Active
  <2> QED BY <2>1, ActiveOnStack DEF SearchInv, StackInv, FramesInv, Active
<1>6. OnStack' = OnStack \cup {v}
  BY <1>2 DEF OnStack
<1>7. frames = <<>> => stack = <<>>
  BY DEF SearchInv, FramesInv
<1>8. FramesInv'
  <2>1. ASSUME NEW k \in 1..(n + 1)
        PROVE  /\ frames'[k].v \in DOMAIN visited'
               /\ visited'[frames'[k].v] = k - 1
               /\ frames'[k].i <= Len(children'[frames'[k].v]) + 1
    <3>1. CASE k = n + 1
      <4>1. Len(children[v]) \in Nat
        BY DEF TypeOK
      <4> QED BY <3>1, <4>1, <1>1, <1>3, <1>4
    <3>2. CASE k # n + 1
      <4>1. k \in 1..n
        BY <3>2, <1>1
      <4>2. /\ frames[k].v \in DOMAIN visited
            /\ visited[frames[k].v] = k - 1
            /\ frames[k].i <= Len(children[frames[k].v]) + 1
        BY <4>1, <1>1 DEF SearchInv, FramesInv
      <4> QED BY <4>1, <4>2, <1>1, <1>3, <1>4
    <3> QED BY <3>1, <3>2
  <2> QED BY <2>1, <1>1 DEF FramesInv
<1>9. StackInv'
  <2>1. component' \cap OnStack' = {}
    BY <1>4, <1>5, <1>6 DEF SearchInv, StackInv
  <2>2. component' \cup OnStack' = DOMAIN visited'
    BY <1>3, <1>4, <1>6 DEF SearchInv, StackInv
  <2>3. \A p \in 1..m : stack'[p] # v
    <3>1. \A p \in DOMAIN stack : stack[p] \in DOMAIN visited
      BY DEF SearchInv, StackInv, OnStack
    <3> QED BY <3>1, <1>2
  <2>4. ASSUME NEW p \in 1..(m + 1), NEW q \in 1..(m + 1), stack'[p] = stack'[q]
        PROVE  p = q
    <3>1. CASE p \in 1..m /\ q \in 1..m
      <4>1. stack[p] = stack[q]
        BY <2>4, <3>1, <1>2
      <4> QED BY <3>1, <4>1, <1>2 DEF SearchInv, StackInv
    <3>2. CASE p = m + 1 \/ q = m + 1
      BY <2>3, <2>4, <3>2, <1>2
    <3> QED BY <3>1, <3>2, <1>2
  <2>5. ASSUME NEW k \in 1..(n + 1), NEW l \in 1..(n + 1), k <= l
        PROVE  \E p, q \in DOMAIN stack' :
                  p <= q /\ stack'[p] = frames'[k].v /\ stack'[q] = frames'[l].v
    <3>1. CASE l \in 1..n
      <4>1. k \in 1..n
        BY <3>1, <2>5, <1>1
      <4>2. PICK p, q \in DOMAIN stack :
                p <= q /\ stack[p] = frames[k].v /\ stack[q] = frames[l].v
        BY <3>1, <4>1, <2>5, <1>1 DEF SearchInv, StackInv
      <4> QED BY <3>1, <4>1, <4>2, <1>1, <1>2
    <3>2. CASE l = n + 1 /\ k \in 1..n
      <4>1. k <= k
        BY <3>2
      <4>2. PICK p \in DOMAIN stack : stack[p] = frames[k].v
        BY <3>2, <4>1, <1>1 DEF SearchInv, StackInv
      <4>3. p \in 1..(m + 1) /\ p <= m + 1 /\ m + 1 \in 1..(m + 1)
        BY <1>2
      <4> QED BY <3>2, <4>2, <4>3, <1>1, <1>2
    <3>3. CASE l = n + 1 /\ k = n + 1
      <4>1. m + 1 \in 1..(m + 1) /\ m + 1 <= m + 1
        BY <1>2
      <4> QED BY <3>3, <4>1, <1>1, <1>2
    <3> QED BY <3>1, <3>2, <3>3, <1>1
  <2>6. stack' # <<>> /\ stack'[1] = frames'[1].v
    <3>1. CASE n = 0
      <4>1. frames = <<>>
        BY <3>1, EmptySeq DEF TypeOK
      <4>2. m = 0
        BY <4>1, <1>7, EmptySeq
      <4> QED BY <3>1, <4>2, <1>1, <1>2
    <3>2. CASE n # 0
      <4>1. frames # <<>>
        BY <3>2, EmptySeq
      <4>2. stack # <<>> /\ stack[1] = frames[1].v
        BY <4>1 DEF SearchInv, StackInv
      <4>3. m \in Nat \ {0}
        BY <4>2, EmptySeq DEF TypeOK
      <4> QED BY <3>2, <4>2, <4>3, <1>1, <1>2
    <3> QED BY <3>1, <3>2
  <2>7. \A p, q \in DOMAIN stack' : stack'[p] = stack'[q] => p = q
    BY <2>4, <1>2
  <2>8. \A k, l \in DOMAIN frames' : k <= l =>
          \E p, q \in DOMAIN stack' :
              p <= q /\ stack'[p] = frames'[k].v /\ stack'[q] = frames'[l].v
    BY <2>5, <1>1
  <2> QED BY <2>1, <2>2, <2>6, <2>7, <2>8 DEF StackInv
<1>10. EdgeInv'
  <2>1. \A u \in DOMAIN visited' : root'[u] <= visited'[u]
    BY <1>1, <1>3 DEF SearchInv, EdgeInv
  <2>2. ASSUME NEW k \in 1..(n + 1), NEW j \in 1..(frames'[k].i - 1),
               children[frames'[k].v][j] \in Container
        PROVE  LET x == frames'[k].v
                   w == children[x][j]
               IN  /\ w \in DOMAIN visited'
                   /\ w = x => x \in marked
                   /\ w \in Active' => root'[x] <= visited'[w]
    <3> DEFINE x == frames'[k].v
               w == children[x][j]
    <3>1. k # n + 1
      BY <1>1
    <3>2. k \in DOMAIN frames /\ frames'[k] = frames[k]
      BY <3>1, <1>1
    <3>3. /\ w \in DOMAIN visited
          /\ w = x => x \in marked
          /\ w \in Active => root[x] <= visited[w]
      BY <2>2, <3>2 DEF SearchInv, EdgeInv
    <3>4. x \in DOMAIN visited
      BY <3>2 DEF SearchInv, FramesInv
    <3> QED BY <3>3, <3>4, <1>3, <1>5
  <2> QED BY <1>1, <1>4, <2>1, <2>2 DEF EdgeInv
<1>11. SettledInv'
  <2>1. \A u : Succ(u)' = Succ(u)
    BY <1>4 DEF Succ
  <2>2. DOMAIN visited' \ Active' = DOMAIN visited \ Active
    BY <1>3, <1>5
  <2> QED BY <1>3, <1>4, <1>5, <2>1, <2>2 DEF SearchInv, SettledInv
<1> QED
  BY <1>8, <1>9, <1>10, <1>11 DEF SearchInv

\* The containers above the top activation's on the stack are not active.
LEMMA AboveTop ==
  ASSUME TypeOK, SearchInv, frames # <<>>, stack # <<>>, Last(stack) # Top.v
  PROVE  Last(stack) \notin Active
<1> DEFINE m == Len(stack)
           n == Len(frames)
<1>1. m \in Nat \ {0} /\ DOMAIN stack = 1..m /\ Last(stack) = stack[m]
  BY FrontLast DEF TypeOK
<1>2. n \in Nat \ {0} /\ DOMAIN frames = 1..n /\ Top = frames[n]
  BY TopFrame
<1> SUFFICES ASSUME NEW k \in 1..n, stack[m] = frames[k].v PROVE FALSE
  BY <1>1, <1>2 DEF Active
<1>3. PICK p, q \in DOMAIN stack :
          p <= q /\ stack[p] = frames[k].v /\ stack[q] = frames[n].v
  BY <1>2 DEF SearchInv, StackInv
<1>4. p = m
  BY <1>1, <1>3 DEF SearchInv, StackInv
<1>5. q = m
  BY <1>1, <1>3, <1>4
<1> QED
  BY <1>1, <1>2, <1>3, <1>5

\* What is left of the stack after a pop.
LEMMA PopStack ==
  ASSUME TypeOK, SearchInv, stack # <<>>, stack' = Front(stack)
  PROVE  /\ OnStack' = OnStack \ {Last(stack)}
         /\ Last(stack) \in OnStack
         /\ \A p \in DOMAIN stack' : p \in DOMAIN stack /\ stack'[p] = stack[p]
         /\ \A p \in DOMAIN stack : stack[p] # Last(stack) => p \in DOMAIN stack'
<1> DEFINE m == Len(stack)
<1>1. /\ m \in Nat \ {0} /\ DOMAIN stack = 1..m /\ Last(stack) = stack[m]
      /\ DOMAIN stack' = 1..(m - 1)
      /\ \A p \in 1..(m - 1) : stack'[p] = stack[p]
  BY FrontLast DEF TypeOK
<1>2. ASSUME NEW l \in Nat \ {0}
      PROVE  /\ \A p \in 1..(l - 1) : p \in 1..l /\ l \in 1..l /\ p # l
             /\ \A p \in 1..l : p = l \/ p \in 1..(l - 1)
  OBVIOUS
<1>3. /\ \A p \in 1..(m - 1) : p \in 1..m /\ m \in 1..m /\ p # m
      /\ \A p \in 1..m : p = m \/ p \in 1..(m - 1)
  BY <1>1, <1>2
<1>9. \A p \in 1..(m - 1) : stack[p] # stack[m]
  BY <1>1, <1>3 DEF SearchInv, StackInv
<1>4. Last(stack) \in OnStack
  BY <1>1 DEF OnStack
<1>5. \A p \in DOMAIN stack' : p \in DOMAIN stack /\ stack'[p] = stack[p]
  BY <1>1
<1>6. \A p \in DOMAIN stack : stack[p] # Last(stack) => p \in DOMAIN stack'
  BY <1>1, <1>3
<1>7. \A p \in DOMAIN stack' : stack[p] # Last(stack)
  BY <1>1, <1>9
<1>8. OnStack' = OnStack \ {Last(stack)}
  BY <1>5, <1>6, <1>7 DEF OnStack
<1> QED BY <1>4, <1>5, <1>6, <1>8

\* One turn of the loop that pops and marks the members of a component.
LEMMA PopMemberInv ==
  ASSUME TypeOK, TypeOK', SearchInv, PopMember
  PROVE  SearchInv'
<1> DEFINE x == Last(stack)
<1>1. /\ frames # <<>> /\ stack # <<>> /\ x # Top.v
      /\ stack' = Front(stack) /\ status = "running"
      /\ component' = component \cup {x} /\ marked' = marked \cup {x}
      /\ UNCHANGED <<children, frames, root, visited, status>>
  BY DEF PopMember, Exhausted
<1>2. x \notin Active
  BY <1>1, AboveTop
<1>3. /\ OnStack' = OnStack \ {x} /\ x \in OnStack
      /\ \A p \in DOMAIN stack' : p \in DOMAIN stack /\ stack'[p] = stack[p]
      /\ \A p \in DOMAIN stack : stack[p] # x => p \in DOMAIN stack'
  BY <1>1, PopStack
<1>4. Active' = Active /\ \A u : Succ(u)' = Succ(u)
  BY <1>1 DEF Active, Succ
<1>5. FramesInv'
  BY <1>1 DEF SearchInv, FramesInv
<1>6. StackInv'
  <2>1. component' \cap OnStack' = {} /\ component' \cup OnStack' = DOMAIN visited'
    <3>1. component \cap OnStack = {} /\ component \cup OnStack = DOMAIN visited
      BY DEF SearchInv, StackInv
    <3> QED BY ONLY <3>1, <1>1, <1>3
  <2>2. \A p, q \in DOMAIN stack' : stack'[p] = stack'[q] => p = q
    <3>1. \A p, q \in DOMAIN stack : stack[p] = stack[q] => p = q
      BY DEF SearchInv, StackInv
    <3> QED BY <3>1, <1>3
  <2>3. \A k \in DOMAIN frames : frames[k].v # x
    BY <1>2 DEF Active
  <2>4. ASSUME NEW k \in DOMAIN frames, NEW l \in DOMAIN frames, k <= l
        PROVE  \E p, q \in DOMAIN stack' :
                  p <= q /\ stack'[p] = frames[k].v /\ stack'[q] = frames[l].v
    <3>1. PICK p, q \in DOMAIN stack :
              p <= q /\ stack[p] = frames[k].v /\ stack[q] = frames[l].v
      BY <2>4 DEF SearchInv, StackInv
    <3>2. p \in DOMAIN stack' /\ q \in DOMAIN stack'
      BY <3>1, <2>3, <1>3
    <3> QED BY <3>1, <3>2, <1>3
  <2>5. stack' # <<>> /\ stack'[1] = frames[1].v
    <3>1. stack[1] = frames[1].v /\ 1 \in DOMAIN frames /\ 1 \in DOMAIN stack
      <4>1. DOMAIN frames = 1..Len(frames) /\ Len(frames) \in Nat \ {0}
        BY <1>1, TopFrame
      <4>2. DOMAIN stack = 1..Len(stack) /\ Len(stack) \in Nat \ {0}
        BY <1>1, FrontLast DEF TypeOK
      <4> QED BY <1>1, <4>1, <4>2 DEF SearchInv, StackInv
    <3>2. 1 \in DOMAIN stack'
      BY <3>1, <2>3, <1>3
    <3>3. stack' # <<>>
      BY <3>2, EmptyJudy
    <3> QED BY <3>1, <3>2, <3>3, <1>3
  <2> QED BY <1>1, <2>1, <2>2, <2>4, <2>5 DEF StackInv
<1>7. EdgeInv'
  BY <1>1, <1>4 DEF SearchInv, EdgeInv
<1>8. SettledInv'
  BY <1>1, <1>4 DEF SearchInv, SettledInv
<1> QED
  BY <1>5, <1>6, <1>7, <1>8 DEF SearchInv

\* What is left of the activations when visit returns.
LEMMA PopFrames ==
  ASSUME TypeOK, FramesInv, frames # <<>>, frames' = Front(frames)
  PROVE  /\ DOMAIN frames' = 1..(Len(frames) - 1)
         /\ \A k \in DOMAIN frames' : k \in DOMAIN frames /\ frames'[k] = frames[k]
         /\ \A k \in DOMAIN frames' : frames[k].v # Top.v
         /\ Active' = Active \ {Top.v}
         /\ Len(frames) = 1 => frames' = <<>>
         /\ Len(frames) # 1 => frames' # <<>> /\ 1 \in DOMAIN frames'
<1> DEFINE n == Len(frames)
<1>1. /\ n \in Nat \ {0} /\ DOMAIN frames = 1..n
      /\ frames' \in Seq(Frame) /\ Len(frames') = n - 1
      /\ DOMAIN frames' = 1..(n - 1)
      /\ \A k \in 1..(n - 1) : frames'[k] = frames[k]
  BY FrontLast DEF TypeOK
<1>2. Top = frames[n]
  BY DEF Top
<1>3. ASSUME NEW l \in Nat \ {0}
      PROVE  /\ \A p \in 1..(l - 1) : p \in 1..l /\ l \in 1..l /\ p # l
             /\ \A p \in 1..l : p = l \/ p \in 1..(l - 1)
             /\ l = 1 => l - 1 = 0
             /\ l # 1 => l - 1 # 0 /\ 1 \in 1..(l - 1)
  OBVIOUS
<1>4. /\ \A p \in 1..(n - 1) : p \in 1..n /\ n \in 1..n /\ p # n
      /\ \A p \in 1..n : p = n \/ p \in 1..(n - 1)
      /\ n = 1 => n - 1 = 0
      /\ n # 1 => n - 1 # 0 /\ 1 \in 1..(n - 1)
  BY <1>1, <1>3
<1>5. \A k \in DOMAIN frames' : k \in DOMAIN frames /\ frames'[k] = frames[k]
  BY <1>1, <1>4
<1>6. \A k \in DOMAIN frames' : frames[k].v # Top.v
  <2>1. \A k, l \in 1..n : frames[k].v = frames[l].v => k = l
    BY <1>1, FramesDistinct
  <2> QED BY <1>1, <1>2, <1>4, <2>1
<1>7. Active' = Active \ {Top.v}
  <2>1. Active = {frames[k].v : k \in 1..n}
    BY <1>1 DEF Active
  <2>2. Active' = {frames[k].v : k \in 1..(n - 1)}
    BY <1>1, <1>5 DEF Active
  <2> QED BY ZenonT(30), <1>1, <1>2, <1>4, <1>6, <2>1, <2>2
<1>8. n = 1 => frames' = <<>>
  BY <1>1, <1>4, EmptySeq
<1>9. n # 1 => frames' # <<>> /\ 1 \in DOMAIN frames'
  BY <1>1, <1>4, EmptySeq
<1> QED
  BY <1>1, <1>5, <1>6, <1>7, <1>8, <1>9

\* When the children of the top container are exhausted they are all visited.
LEMMA ExhaustedTop ==
  ASSUME TypeOK, SearchInv, Exhausted
  PROVE  /\ Top.v \in DOMAIN visited /\ visited[Top.v] = Len(frames) - 1
         /\ root[Top.v] \in Nat /\ root[Top.v] <= visited[Top.v]
         /\ \A w \in Succ(Top.v) :
               /\ w \in DOMAIN visited
               /\ w = Top.v => Top.v \in marked
               /\ w \in Active => root[Top.v] <= visited[w]
<1> DEFINE n == Len(frames)
           v == Top.v
<1>1. /\ n \in Nat \ {0} /\ DOMAIN frames = 1..n /\ Top = frames[n] /\ frames # <<>>
      /\ v \in Container /\ Top.i \in Nat \ {0} /\ Top.i > Len(children[v])
  BY TopFrame DEF Exhausted
<1>2. n \in DOMAIN frames
  BY <1>1
<1>3. /\ v \in DOMAIN visited /\ visited[v] = n - 1
      /\ Top.i <= Len(children[v]) + 1
  BY <1>1, <1>2 DEF SearchInv, FramesInv
<1>4. root[v] \in Nat /\ root[v] <= visited[v]
  BY <1>3 DEF SearchInv, EdgeInv, TypeOK
<1>5. Len(children[v]) \in Nat /\ DOMAIN children[v] = 1..Len(children[v])
  BY <1>1 DEF TypeOK
<1>6. DOMAIN children[v] = 1..(frames[n].i - 1)
  BY <1>1, <1>3, <1>5
<1>7. \A j \in 1..(frames[n].i - 1) : children[v][j] \in Container =>
          /\ children[v][j] \in DOMAIN visited
          /\ children[v][j] = v => v \in marked
          /\ children[v][j] \in Active => root[v] <= visited[children[v][j]]
  BY <1>1, <1>2 DEF SearchInv, EdgeInv
<1>8. \A w \in Succ(v) : \E j \in 1..(frames[n].i - 1) : w = children[v][j] /\ w \in Container
  BY <1>6 DEF Succ
<1> QED
  BY <1>3, <1>4, <1>7, <1>8

\* A container that closes a component without being marked has no active child.
LEMMA ClosedTop ==
  ASSUME TypeOK, SearchInv, Exhausted, root[Top.v] = visited[Top.v], Top.v \notin marked
  PROVE  Succ(Top.v) \cap Active = {}
<1> DEFINE n == Len(frames)
<1>1. /\ n \in Nat \ {0} /\ DOMAIN frames = 1..n /\ Top = frames[n]
  BY TopFrame DEF Exhausted
<1> SUFFICES ASSUME NEW w \in Succ(Top.v), w \in Active PROVE FALSE
  OBVIOUS
<1>2. PICK k \in 1..n : w = frames[k].v
  BY <1>1 DEF Active
<1>3. visited[w] = k - 1
  BY <1>1, <1>2 DEF SearchInv, FramesInv
<1>4. visited[Top.v] = n - 1 /\ root[Top.v] <= visited[w] /\ w # Top.v
  BY ExhaustedTop
<1>5. k = n
  <2>1. n - 1 <= k - 1
    BY <1>3, <1>4
  <2>2. ASSUME NEW a \in Nat \ {0}, NEW b \in 1..a, a - 1 <= b - 1 PROVE b = a
    BY <2>2
  <2> QED BY <1>1, <2>1, <2>2
<1> QED
  BY <1>1, <1>2, <1>4, <1>5

\* What the two ways of returning do to the parts of the invariant that do not
\* depend on the stack.
LEMMA ReturnInv ==
  ASSUME TypeOK, TypeOK', SearchInv, status = "running", Exhausted, Return,
         UNCHANGED <<children, root, visited, marked>>
  PROVE  /\ FramesInv'
         /\ EdgeInv'
         /\ \A u \in DOMAIN visited' \ Active' : Succ(u)' \subseteq DOMAIN visited'
         /\ \A u \in component \ marked : Succ(u)' \cap Active' = {}
<1> DEFINE n == Len(frames)
<1>1. frames # <<>> /\ frames' = Front(frames) /\ FramesInv
      /\ status' = IF n = 1 THEN "ok" ELSE "running"
  BY DEF Exhausted, Return, SearchInv
<1>2. /\ \A k \in DOMAIN frames' : k \in DOMAIN frames /\ frames'[k] = frames[k]
      /\ Active' = Active \ {Top.v}
      /\ n = 1 => frames' = <<>>
      /\ n # 1 => frames' # <<>>
  BY <1>1, PopFrames
<1>3. \A u : Succ(u)' = Succ(u)
  BY DEF Succ
<1>4. FramesInv'
  <2>1. \A k \in DOMAIN frames' :
          /\ frames'[k].v \in DOMAIN visited
          /\ visited[frames'[k].v] = k - 1
          /\ frames'[k].i <= Len(children[frames'[k].v]) + 1
    BY <1>1, <1>2 DEF FramesInv
  <2>2. status' \in {"ok", "running"} /\ (status' = "ok" <=> n = 1)
    BY <1>1
  <2> QED BY <1>2, <2>1, <2>2 DEF FramesInv
<1>5. EdgeInv'
  BY <1>2 DEF SearchInv, EdgeInv
<1>6. \A u \in DOMAIN visited' \ Active' : Succ(u)' \subseteq DOMAIN visited'
  BY <1>2, <1>3, ExhaustedTop DEF SearchInv, SettledInv
<1>7. \A u \in component \ marked : Succ(u)' \cap Active' = {}
  BY <1>2, <1>3 DEF SearchInv, SettledInv
<1> QED
  BY <1>4, <1>5, <1>6, <1>7

\* visit returns and leaves its container on the stack.
LEMMA LeaveMemberInv ==
  ASSUME TypeOK, TypeOK', SearchInv, LeaveMember
  PROVE  SearchInv'
<1> DEFINE n == Len(frames)
<1>1. /\ status = "running" /\ Exhausted /\ Return /\ frames # <<>>
      /\ root[Top.v] # visited[Top.v]
      /\ UNCHANGED <<children, root, visited, component, stack, marked>>
  BY DEF LeaveMember, Exhausted
<1>2. n # 1
  <2>1. root[Top.v] \in Nat /\ root[Top.v] <= visited[Top.v] /\ visited[Top.v] = n - 1
    BY <1>1, ExhaustedTop
  <2>2. n \in Nat
    BY DEF TypeOK
  <2> SUFFICES ASSUME n = 1 PROVE FALSE
    OBVIOUS
  <2>3. visited[Top.v] = 0
    BY <2>1
  <2>4. root[Top.v] = 0
    BY <2>1, <2>3
  <2> QED BY <1>1, <2>3, <2>4
<1>3. /\ \A k \in DOMAIN frames' : k \in DOMAIN frames /\ frames'[k] = frames[k]
      /\ frames' # <<>> /\ 1 \in DOMAIN frames'
  BY <1>1, <1>2, PopFrames DEF Return, SearchInv
<1>4. /\ FramesInv' /\ EdgeInv' /\ SettledInv'
  BY <1>1, ReturnInv DEF SettledInv
<1>5. StackInv'
  <2>1. OnStack' = OnStack /\ status' = "running"
    BY <1>1, <1>2 DEF OnStack, Return
  <2>2. \A k, l \in DOMAIN frames' : k <= l =>
          \E p, q \in DOMAIN stack' :
              p <= q /\ stack'[p] = frames'[k].v /\ stack'[q] = frames'[l].v
    BY <1>1, <1>3 DEF SearchInv, StackInv
  <2> QED BY <1>1, <1>3, <2>1, <2>2 DEF SearchInv, StackInv
<1> QED
  BY <1>4, <1>5 DEF SearchInv

\* visit pops its container from the stack and returns.
LEMMA CloseRootInv ==
  ASSUME TypeOK, TypeOK', SearchInv, CloseRoot
  PROVE  SearchInv'
<1> DEFINE n == Len(frames)
           v == Top.v
<1>1. /\ status = "running" /\ Exhausted /\ Return /\ frames # <<>>
      /\ root[v] = visited[v] /\ stack # <<>> /\ Last(stack) = v
      /\ component' = component \cup {v} /\ stack' = Front(stack)
      /\ UNCHANGED <<children, root, visited, marked>>
  BY DEF CloseRoot, Exhausted
<1>2. /\ \A k \in DOMAIN frames' : k \in DOMAIN frames /\ frames'[k] = frames[k]
      /\ \A k \in DOMAIN frames' : frames[k].v # v
      /\ Active' = Active \ {v}
      /\ n = 1 => frames' = <<>>
      /\ n # 1 => frames' # <<>> /\ 1 \in DOMAIN frames'
  BY <1>1, PopFrames DEF Return, SearchInv
<1>3. /\ OnStack' = OnStack \ {v} /\ v \in OnStack
      /\ \A p \in DOMAIN stack' : p \in DOMAIN stack /\ stack'[p] = stack[p]
      /\ \A p \in DOMAIN stack : stack[p] # v => p \in DOMAIN stack'
  BY <1>1, PopStack
<1>4. /\ FramesInv' /\ EdgeInv'
      /\ \A u \in DOMAIN visited' \ Active' : Succ(u)' \subseteq DOMAIN visited'
      /\ \A u \in component \ marked : Succ(u)' \cap Active' = {}
  BY <1>1, ReturnInv
<1>5. SettledInv'
  <2>1. v \notin marked => Succ(v) \cap Active = {}
    BY <1>1, ClosedTop
  <2>2. \A u : Succ(u)' = Succ(u)
    BY <1>1 DEF Succ
  <2>3. \A u \in component' \ marked' : u \in component \ marked \/ (u = v /\ v \notin marked)
    BY <1>1
  <2>4. \A u \in component' \ marked' : Succ(u)' \cap Active' = {}
    BY <1>2, <1>4, <2>1, <2>2, <2>3
  <2> QED BY <1>4, <2>4 DEF SettledInv
<1>6. StackInv'
  <2>1. component' \cap OnStack' = {} /\ component' \cup OnStack' = DOMAIN visited'
    <3>1. component \cap OnStack = {} /\ component \cup OnStack = DOMAIN visited
      BY DEF SearchInv, StackInv
    <3> QED BY ONLY <3>1, <1>1, <1>3
  <2>2. \A p, q \in DOMAIN stack' : stack'[p] = stack'[q] => p = q
    <3>1. \A p, q \in DOMAIN stack : stack[p] = stack[q] => p = q
      BY DEF SearchInv, StackInv
    <3> QED BY <3>1, <1>3
  <2>3. ASSUME NEW k \in DOMAIN frames', NEW l \in DOMAIN frames', k <= l
        PROVE  \E p, q \in DOMAIN stack' :
                  p <= q /\ stack'[p] = frames'[k].v /\ stack'[q] = frames'[l].v
    <3>1. PICK p, q \in DOMAIN stack :
              p <= q /\ stack[p] = frames[k].v /\ stack[q] = frames[l].v
      BY <2>3, <1>2 DEF SearchInv, StackInv
    <3>2. p \in DOMAIN stack' /\ q \in DOMAIN stack'
      BY <3>1, <1>2, <1>3
    <3> QED BY <3>1, <3>2, <1>2, <1>3
  <2>4. /\ Len(stack) \in Nat \ {0} /\ DOMAIN stack = 1..Len(stack)
        /\ Last(stack) = stack[Len(stack)]
        /\ stack' \in Seq(Container) /\ Len(stack') = Len(stack) - 1
        /\ stack[1] = frames[1].v
    BY <1>1, FrontLast DEF TypeOK, SearchInv, StackInv
  <2>5. 1 \in DOMAIN stack
    BY <2>4
  <2>6. n # 1 => stack' # <<>> /\ stack'[1] = frames'[1].v
    <3> SUFFICES ASSUME n # 1 PROVE stack' # <<>> /\ stack'[1] = frames'[1].v
      OBVIOUS
    <3>1. frames[1].v # v /\ frames'[1] = frames[1]
      BY <1>2
    <3>2. 1 \in DOMAIN stack'
      BY <3>1, <2>4, <2>5, <1>3
    <3>3. stack' # <<>>
      BY <3>2, EmptyJudy
    <3> QED BY <3>1, <3>2, <3>3, <2>4, <1>3
  <2>7. n = 1 => stack' = <<>>
    <3> SUFFICES ASSUME n = 1 PROVE stack' = <<>>
      OBVIOUS
    <3>1. Top = frames[1]
      BY DEF Top
    <3>2. stack[1] = stack[Len(stack)] /\ Len(stack) \in DOMAIN stack
      <4>1. Len(stack) \in 1..Len(stack)
        BY <2>4
      <4>2. stack[1] = v /\ stack[Len(stack)] = v
        BY <1>1, <2>4, <3>1
      <4> QED BY <2>4, <4>1, <4>2
    <3>3. Len(stack) = 1
      BY <3>2, <2>5 DEF SearchInv, StackInv
    <3>4. Len(stack') = 0
      <4>1. Len(stack') = Len(stack) - 1
        BY <2>4
      <4> QED BY ONLY <3>3, <4>1
    <3> QED BY <2>4, <3>4, EmptySeq
  <2>8. /\ n = 1 => frames' = <<>> /\ stack' = <<>>
        /\ n # 1 => status' # "ok"
    BY <1>1, <1>2, <2>7 DEF Return
  <2> QED BY <2>1, <2>2, <2>3, <2>6, <2>8 DEF StackInv
<1> QED
  BY <1>4, <1>5, <1>6 DEF SearchInv

\* A step that reports an error leaves the search as it was.
LEMMA ErrorInv ==
  ASSUME SearchInv, UNCHANGED <<children, frames, root, visited, component, stack, marked>>,
         status' \notin {"init", "running", "ok"}
  PROVE  SearchInv'
<1>1. Active' = Active /\ OnStack' = OnStack /\ \A u : Succ(u)' = Succ(u)
  BY DEF Active, OnStack, Succ
<1>2. FramesInv'
  BY DEF SearchInv, FramesInv
<1>3. StackInv'
  BY <1>1 DEF SearchInv, StackInv
<1>4. EdgeInv'
  BY <1>1 DEF SearchInv, EdgeInv
<1>5. SettledInv'
  BY <1>1 DEF SearchInv, SettledInv
<1> QED
  BY <1>2, <1>3, <1>4, <1>5 DEF SearchInv

\* The invariant holds in every initial state.
LEMMA SearchInvInit ==
  ASSUME Init
  PROVE  SearchInv
<1>1. /\ frames = <<>> /\ stack = <<>> /\ status = "init" /\ component = {}
      /\ DOMAIN frames = {} /\ DOMAIN stack = {} /\ DOMAIN visited = {}
  BY EmptyJudy DEF Init
<1>2. FramesInv
  BY <1>1 DEF FramesInv
<1>3. StackInv
  BY <1>1 DEF StackInv, OnStack
<1>4. EdgeInv
  BY <1>1 DEF EdgeInv
<1>5. SettledInv
  BY <1>1 DEF SettledInv
<1> QED
  BY <1>2, <1>3, <1>4, <1>5 DEF SearchInv

\* Every step preserves the invariant.
LEMMA SearchInvStep ==
  ASSUME TypeOK, TypeOK', SearchInv, [Next]_vars
  PROVE  SearchInv'
<1>0. ASSUME NEW v \in Container, v \notin DOMAIN visited, Visit(v),
             status \in {"init", "running"}
      PROVE  SearchInv'
  <2>1. CASE status' = "running"
    BY <1>0, <2>1, VisitInv
  <2>2. CASE status' # "running"
    <3>1. UNCHANGED <<children, frames, root, visited, component, stack, marked>>
      BY <1>0, <2>2 DEF Visit
    <3>2. status' \notin {"init", "running", "ok"}
      BY <1>0, <2>2 DEF Visit, VisitError
    <3> QED BY <3>1, <3>2, ErrorInv
  <2> QED BY <2>1, <2>2
<1>1. CASE Start
  <2>1. start \in Container /\ Visit(start) /\ status = "init"
    BY <1>1 DEF Start
  <2>2. start \notin DOMAIN visited
    BY <2>1 DEF SearchInv, FramesInv
  <2> QED BY <1>0, <2>1, <2>2
<1>2. CASE StartLeaf
  <2>1. /\ UNCHANGED <<children, frames, root, visited, component, stack, marked>>
        /\ status = "init" /\ status' = "ok"
    BY <1>2 DEF StartLeaf
  <2>2. Active' = Active /\ OnStack' = OnStack /\ \A u : Succ(u)' = Succ(u)
    BY <2>1 DEF Active, OnStack, Succ
  <2>3. FramesInv'
    BY <2>1 DEF SearchInv, FramesInv
  <2>4. StackInv'
    BY <2>1, <2>2 DEF SearchInv, FramesInv, StackInv
  <2>5. EdgeInv'
    BY <2>1, <2>2 DEF SearchInv, EdgeInv
  <2>6. SettledInv'
    BY <2>1, <2>2 DEF SearchInv, SettledInv
  <2> QED BY <2>3, <2>4, <2>5, <2>6 DEF SearchInv
<1>3. CASE SkipLeaf
  <2>1. /\ status = "running" /\ status' = "running" /\ HasChild /\ NextChild
        /\ Child \notin Container /\ root' = root
        /\ UNCHANGED <<children, visited, component, stack, marked>>
    BY <1>3 DEF SkipLeaf
  <2>2. \A v \in DOMAIN visited : root'[v] <= root[v]
    BY <2>1 DEF TypeOK
  <2> QED BY <2>1, <2>2, NextChildInv
<1>4. CASE SelfLoop
  <2>1. /\ status = "running" /\ status' = "running" /\ HasChild /\ NextChild
        /\ Child = Top.v /\ root' = root /\ marked' = marked \cup {Top.v}
        /\ UNCHANGED <<children, visited, component, stack>>
    BY <1>4 DEF SelfLoop
  <2>2. \A v \in DOMAIN visited : root'[v] <= root[v]
    BY <2>1 DEF TypeOK
  <2>3. Child \in DOMAIN visited /\ root[Child] <= visited[Child]
    <3>1. /\ Len(frames) \in Nat \ {0} /\ DOMAIN frames = 1..Len(frames)
          /\ Top = frames[Len(frames)]
      BY <2>1, TopFrame DEF HasChild
    <3>2. Child \in DOMAIN visited
      BY <2>1, <3>1 DEF SearchInv, FramesInv
    <3> QED BY <3>2 DEF SearchInv, EdgeInv
  <2> QED BY <2>1, <2>2, <2>3, NextChildInv
<1>5. CASE Descend
  BY <1>0, <1>5 DEF Descend
<1>6. CASE Link
  <2>1. /\ status = "running" /\ HasChild
        /\ Child \in Container /\ Child # Top.v /\ Child \in DOMAIN visited
        /\ UNCHANGED <<children, visited, component, stack, marked>>
    BY <1>6 DEF Link
  <2>2. /\ Top.v \in DOMAIN visited /\ DOMAIN root = DOMAIN visited
        /\ \A v \in DOMAIN visited : root[v] \in Nat /\ visited[v] \in Nat
    <3>1. /\ Len(frames) \in Nat \ {0} /\ DOMAIN frames = 1..Len(frames)
          /\ Top = frames[Len(frames)]
      BY <2>1, TopFrame DEF HasChild
    <3> QED BY <3>1 DEF SearchInv, FramesInv, TypeOK
  <2>3. CASE Child \in component
    <3>1. NextChild /\ root' = root /\ status' = "running"
      BY <1>6, <2>1, <2>3 DEF Link
    <3>2. Child \notin Active
      BY <2>3, ActiveOnStack DEF SearchInv
    <3>3. \A v \in DOMAIN visited : root'[v] <= root[v]
      BY <2>2, <3>1
    <3> QED BY <2>1, <3>1, <3>2, <3>3, NextChildInv
  <2>4. CASE Child \notin component
    <3>1. /\ NextChild /\ status' = "running"
          /\ root' = IF root[Child] < root[Top.v]
                       THEN JudyIns(root, Top.v, root[Child]) ELSE root
      BY <1>6, <2>1, <2>2, <2>4 DEF Link
    <3>2. root'[Top.v] <= root[Child] /\ \A v \in DOMAIN visited : root'[v] <= root[v]
      BY <2>1, <2>2, <3>1 DEF JudyIns
    <3>3. root[Child] <= visited[Child]
      BY <2>1 DEF SearchInv, EdgeInv
    <3>4. root'[Top.v] \in Nat
      BY <2>1, <2>2 DEF TypeOK
    <3>5. root'[Top.v] <= visited[Child]
      BY <2>1, <2>2, <3>2, <3>3, <3>4
    <3> QED BY <2>1, <3>1, <3>2, <3>5, NextChildInv
  <2> QED BY <2>3, <2>4
<1>7. CASE PopMember
  BY <1>7, PopMemberInv
<1>8. CASE CloseRoot
  BY <1>8, CloseRootInv
<1>9. CASE LeaveMember
  BY <1>9, LeaveMemberInv
<1>10. CASE OutOfMemory
  BY <1>10, ErrorInv DEF OutOfMemory
<1>11. CASE UNCHANGED vars
  <2>1. Active' = Active /\ OnStack' = OnStack /\ \A u : Succ(u)' = Succ(u)
    BY <1>11 DEF vars, Active, OnStack, Succ
  <2>2. FramesInv'
    BY <1>11 DEF vars, SearchInv, FramesInv
  <2>3. StackInv'
    BY <1>11, <2>1 DEF vars, SearchInv, StackInv
  <2>4. EdgeInv'
    BY <1>11, <2>1 DEF vars, SearchInv, EdgeInv
  <2>5. SettledInv'
    BY <1>11, <2>1 DEF vars, SearchInv, SettledInv
  <2> QED BY <2>2, <2>3, <2>4, <2>5 DEF SearchInv
<1> QED
  BY <1>1, <1>2, <1>3, <1>4, <1>5, <1>6, <1>7, <1>8, <1>9, <1>10, <1>11 DEF Next, Step

\* The invariant of the search holds on every graph.
THEOREM SearchInvariant == Spec => []SearchInv
<1>1. Init => SearchInv
  BY SearchInvInit
<1>2. TypeOK /\ TypeOK' /\ SearchInv /\ [Next]_vars => SearchInv'
  BY SearchInvStep
<1> QED
  BY <1>1, <1>2, TypeCorrect, PTL DEF Spec

-----------------------------------------------------------------------------
(* What the invariant gives. *)

\* Closing a component keeps the unmarked containers with a component acyclic:
\* none of them has an edge to the container that is closed, which was active
\* until now, and that one has no edge to itself.
LEMMA AcyclicStep ==
  ASSUME TypeOK, SearchInv, CyclesAreBroken, [Next]_vars
  PROVE  CyclesAreBroken'
<1>0. ASSUME children' = children, component' \ marked' \subseteq component \ marked
      PROVE  CyclesAreBroken'
  <2>1. \A u : Succ(u)' = Succ(u)
    BY <1>0 DEF Succ
  <2>2. ASSUME NEW T \in SUBSET (component' \ marked'), T # {}
        PROVE  \E u \in T : Succ(u) \cap T = {}
    <3>1. T \in SUBSET (component \ marked)
      BY <1>0
    <3> QED BY <2>2, <3>1 DEF CyclesAreBroken, Acyclic
  <2> QED BY <2>1, <2>2 DEF CyclesAreBroken, Acyclic
<1>1. CASE CloseRoot
  <2> DEFINE v == Top.v
  <2>1. /\ Exhausted /\ frames # <<>> /\ root[v] = visited[v]
        /\ children' = children /\ marked' = marked /\ component' = component \cup {v}
    BY <1>1 DEF CloseRoot, Exhausted
  <2>2. CASE v \in marked
    BY <2>1, <2>2, <1>0
  <2>3. CASE v \notin marked
    <3>1. v \in Active
      BY <2>1, TopFrame DEF Active
    <3>2. Succ(v) \cap Active = {}
      BY <2>1, <2>3, ClosedTop
    <3>3. ASSUME NEW T \in SUBSET (component' \ marked'), T # {}
          PROVE  \E u \in T : Succ(u) \cap T = {}
      <4>1. CASE T \subseteq {v}
        BY <3>1, <3>2, <3>3, <4>1
      <4>2. CASE ~(T \subseteq {v})
        <5>1. T \ {v} \subseteq component \ marked /\ T \ {v} # {}
          BY <2>1, <3>3, <4>2
        <5>2. PICK u \in T \ {v} : Succ(u) \cap (T \ {v}) = {}
          BY <5>1 DEF CyclesAreBroken, Acyclic
        <5>3. Succ(u) \cap Active = {}
          BY <5>1, <5>2 DEF SearchInv, SettledInv
        <5>4. v \notin Succ(u)
          BY <3>1, <5>3
        <5> QED BY <5>2, <5>4
      <4> QED BY <4>1, <4>2
    <3>4. \A u : Succ(u)' = Succ(u)
      BY <2>1 DEF Succ
    <3> QED BY <3>3, <3>4 DEF CyclesAreBroken, Acyclic
  <2> QED BY <2>2, <2>3
<1>2. CASE Start \/ Descend
  BY <1>0, <1>2 DEF Start, Descend, Visit
<1>3. CASE StartLeaf
  BY <1>0, <1>3 DEF StartLeaf
<1>4. CASE SkipLeaf
  BY <1>0, <1>4 DEF SkipLeaf
<1>5. CASE SelfLoop
  BY <1>0, <1>5 DEF SelfLoop
<1>6. CASE Link
  BY <1>0, <1>6 DEF Link
<1>7. CASE PopMember
  BY <1>0, <1>7 DEF PopMember
<1>8. CASE LeaveMember
  BY <1>0, <1>8 DEF LeaveMember
<1>9. CASE OutOfMemory \/ UNCHANGED vars
  BY <1>0, <1>9 DEF OutOfMemory, vars
<1> QED
  BY <1>1, <1>2, <1>3, <1>4, <1>5, <1>6, <1>7, <1>8, <1>9 DEF Next, Step

\* On every graph, every cycle of containers passes through a marked one: the
\* vectors that pointless_create.c:777 makes hashable contain no cycle.
THEOREM MarkerBreaksCycles == Spec => []CyclesAreBroken
<1>1. Init => CyclesAreBroken
  BY DEF Init, CyclesAreBroken, Acyclic
<1>2. TypeOK /\ SearchInv /\ CyclesAreBroken /\ [Next]_vars => CyclesAreBroken'
  BY AcyclicStep
<1> QED
  BY <1>1, <1>2, TypeCorrect, SearchInvariant, PTL DEF Spec

\* The search ends with every reachable container visited and in a component.
THEOREM MarkerIsComplete == Spec => []SearchIsComplete
<1>1. Init => RootInv
  BY DEF Init, RootInv
<1>2. TypeOK /\ RootInv /\ [Next]_vars => RootInv'
  <2> SUFFICES ASSUME TypeOK, RootInv, [Next]_vars PROVE RootInv'
    OBVIOUS
  <2> USE DEF RootInv
  <2>1. CASE Start
    <3>1. status' = "running" => visited' = JudyIns(visited, start, Len(frames)) /\ start' = start
      BY <2>1 DEF Start, Visit
    <3>2. status' \in {"running", "ok"} => status' = "running"
      BY <2>1 DEF Start, Visit, VisitError
    <3> QED BY <3>1, <3>2 DEF JudyIns
  <2>2. CASE Descend
    <3>1. status' = "running" => visited' = JudyIns(visited, Child, Len(frames))
      BY <2>2 DEF Descend, Visit
    <3>2. status' \in {"running", "ok"} => status' = "running"
      BY <2>2 DEF Descend, Visit, VisitError
    <3>3. status = "running" /\ start' = start
      BY <2>2 DEF Descend, Visit
    <3> QED BY <3>1, <3>2, <3>3 DEF JudyIns
  <2>3. CASE StartLeaf
    BY <2>3 DEF StartLeaf
  <2>4. CASE SkipLeaf
    BY <2>4 DEF SkipLeaf
  <2>5. CASE SelfLoop
    BY <2>5 DEF SelfLoop
  <2>6. CASE Link
    BY <2>6 DEF Link
  <2>7. CASE PopMember
    BY <2>7 DEF PopMember
  <2>8. CASE CloseRoot
    BY <2>8 DEF CloseRoot
  <2>9. CASE LeaveMember
    BY <2>9 DEF LeaveMember
  <2>10. CASE OutOfMemory \/ UNCHANGED vars
    BY <2>10 DEF OutOfMemory, vars
  <2> QED
    BY <2>1, <2>2, <2>3, <2>4, <2>5, <2>6, <2>7, <2>8, <2>9, <2>10 DEF Next, Step
<1>3. SearchInv /\ RootInv => SearchIsComplete
  <2> SUFFICES ASSUME SearchInv, RootInv, status = "ok" PROVE SearchIsComplete
    BY DEF SearchIsComplete
  <2>1. stack = <<>> /\ frames = <<>>
    BY DEF SearchInv, FramesInv, StackInv
  <2>2. OnStack = {} /\ Active = {}
    BY <2>1, EmptyJudy DEF OnStack, Active
  <2>3. component = DOMAIN visited /\ \A v \in DOMAIN visited : Succ(v) \subseteq DOMAIN visited
    BY <2>2 DEF SearchInv, StackInv, SettledInv
  <2> QED BY <2>1, <2>3 DEF SearchIsComplete, RootInv
<1> QED
  BY <1>1, <1>2, <1>3, TypeCorrect, SearchInvariant, PTL DEF Spec

\* There are fewer activations than containers while one is left to visit.
LEMMA LevelBelowCount ==
  ASSUME TypeOK, SearchInv, NEW v \in Container, v \notin DOMAIN visited
  PROVE  Len(frames) < NNodes
<1> DEFINE n == Len(frames)
           f == [k \in 1..n |-> frames[k].v]
           T == Container \ {v}
<1>1. n \in Nat /\ DOMAIN frames = 1..n /\ \A k \in 1..n : frames[k] \in Frame
  BY DEF TypeOK
<1>2. \A k \in 1..n : frames[k].v \in T
  BY <1>1 DEF SearchInv, FramesInv, Frame
<1>3. \A k, l \in 1..n : f[k] = f[l] => k = l
  BY <1>1, FramesDistinct DEF SearchInv
<1>4. f \in [1..n -> T]
  BY <1>2
<1>5. IsFiniteSet(T) /\ Cardinality(T) = Cardinality(Container) - 1
  BY CountAssumption, FS_RemoveElement
<1>6. IsFiniteSet(1..n) /\ Cardinality(1..n) = n
  <2>1. /\ IsFiniteSet(1..n)
        /\ Cardinality(1..n) = IF 1 > n THEN 0 ELSE n - 1 + 1
    <3>1. 1 \in Int /\ n \in Int
      BY <1>1
    <3> HIDE DEF n
    <3> QED BY ONLY <3>1, FS_Interval
  <2>2. ASSUME NEW a \in Nat, NEW c, c = IF 1 > a THEN 0 ELSE a - 1 + 1 PROVE c = a
    BY <2>2
  <2> QED BY <1>1, <2>1, <2>2
<1>7. ~(Cardinality(T) < Cardinality(1..n))
  <2> HIDE DEF f, T
  <2> QED BY <1>3, <1>4, <1>5, <1>6, FS_PigeonHole
<1>8. Cardinality(Container) \in Nat
  BY CountAssumption, FS_CardinalityType
<1>9. ASSUME NEW c \in Nat, NEW t, NEW a \in Nat, NEW N \in Nat,
             t = c - 1, ~(t < a), c <= N
      PROVE  a < N
  BY <1>9
<1>10. /\ Cardinality(T) = Cardinality(Container) - 1
       /\ ~(Cardinality(T) < n)
       /\ Cardinality(Container) <= NNodes /\ NNodes \in Nat
  BY <1>5, <1>6, <1>7, CountAssumption
<1> HIDE DEF n, T
<1> QED
  BY <1>1, <1>8, <1>9, <1>10 DEF n

\* The "internal error" reports of the search are unreachable on every graph.
THEOREM MarkerHasNoInternalError == Spec => []NoInternalError
<1>1. Init => NoInternalError
  BY DEF Init, NoInternalError
<1>2. TypeOK /\ SearchInv /\ NoInternalError /\ [Next]_vars => NoInternalError'
  <2> SUFFICES ASSUME TypeOK, SearchInv, NoInternalError, [Next]_vars PROVE status' # "internal"
    BY DEF NoInternalError
  <2> USE DEF NoInternalError
  <2>0. ASSUME NEW v \in Container, v \notin DOMAIN visited, Visit(v)
        PROVE  status' # "internal"
    <3>1. Len(frames) < NNodes /\ Len(frames) \in Nat
      BY <2>0, LevelBelowCount DEF TypeOK
    <3>2. ~(Len(frames) >= NNodes)
      BY <3>1, CountAssumption
    <3> QED BY <2>0, <3>2 DEF Visit, VisitError
  <2>1. CASE Start
    BY <2>0, <2>1 DEF Start, SearchInv, FramesInv
  <2>2. CASE Descend
    BY <2>0, <2>2 DEF Descend
  <2>3. CASE Link
    <3>1. /\ HasChild /\ Child \in DOMAIN visited /\ status = "running"
      BY <2>3 DEF Link
    <3>2. /\ Len(frames) \in Nat \ {0} /\ DOMAIN frames = 1..Len(frames)
          /\ Top = frames[Len(frames)]
      BY <3>1, TopFrame DEF HasChild
    <3>3. {Top.v, Child} \subseteq DOMAIN root
      <4>1. Top.v \in DOMAIN visited
        BY <3>2 DEF SearchInv, FramesInv
      <4>2. DOMAIN root = DOMAIN visited
        BY DEF TypeOK
      <4> QED BY <3>1, <4>1, <4>2
    <3> QED BY <2>3, <3>1, <3>3 DEF Link
  <2>4. CASE StartLeaf \/ SkipLeaf \/ SelfLoop \/ PopMember
    BY <2>4 DEF StartLeaf, SkipLeaf, SelfLoop, PopMember
  <2>5. CASE CloseRoot \/ LeaveMember
    BY <2>5 DEF CloseRoot, LeaveMember, Return
  <2>6. CASE OutOfMemory \/ UNCHANGED vars
    BY <2>6 DEF OutOfMemory, vars
  <2> QED
    BY <2>1, <2>2, <2>3, <2>4, <2>5, <2>6 DEF Next, Step
<1> QED
  BY <1>1, <1>2, TypeCorrect, SearchInvariant, PTL DEF Spec

-----------------------------------------------------------------------------
(* Marked containers lie on cycles. *)

\* Reachability is reflexive and transitive and follows the edges; two
\* containers that reach each other are on a cycle, and so is a self loop.
LEMMA ReachSelf == \A u : Reaches(u, u)
  BY DEF Reaches

\* A child is reachable.
LEMMA ReachEdge ==
  ASSUME NEW u, NEW x \in Succ(u)
  PROVE  Reaches(u, x)
  BY DEF Reaches

\* Reachability is transitive.
LEMMA ReachTrans ==
  ASSUME NEW u, NEW x, NEW y, Reaches(u, x), Reaches(x, y)
  PROVE  Reaches(u, y)
  BY DEF Reaches

\* Two containers that reach each other are on a cycle.
LEMMA CycleOfPair ==
  ASSUME NEW u \in Container, NEW x, x # u, Reaches(u, x), Reaches(x, u)
  PROVE  OnCycle(u)
<1> SUFFICES ASSUME NEW T \in SUBSET Container, Succ(u) \subseteq T,
                    \A w \in T : Succ(w) \subseteq T
             PROVE  u \in T
  BY DEF OnCycle
<1>1. T \cup {u} \in SUBSET Container /\ \A w \in T \cup {u} : Succ(w) \subseteq T \cup {u}
  OBVIOUS
<1>2. x \in T \cup {u}
  BY <1>1 DEF Reaches
<1> QED
  BY <1>2 DEF Reaches

\* A container that holds itself is on a cycle.
LEMMA CycleOfSelf ==
  ASSUME NEW u, u \in Succ(u)
  PROVE  OnCycle(u)
  BY DEF OnCycle

\* The graph is fixed, so that reachability and the cycles are too.
LEMMA SameGraph ==
  ASSUME children' = children
  PROVE  /\ \A u : Succ(u)' = Succ(u)
         /\ \A u : OnCycle(u)' <=> OnCycle(u)
<1>1. \A u : Succ(u)' = Succ(u)
  BY DEF Succ
<1> QED
  BY <1>1 DEF OnCycle

\* What is to be shown of a step, with reachability taken before it.
LEMMA MarkInvNext ==
  ASSUME children' = children,
         \A k \in DOMAIN frames' : \A p, q \in DOMAIN stack' :
            p <= q /\ stack'[p] = frames'[k].v => Reaches(stack'[p], stack'[q]),
         \A q \in DOMAIN stack' : \E k \in DOMAIN frames' : \E p \in DOMAIN stack' :
            /\ p <= q
            /\ stack'[p] = frames'[k].v
            /\ k - 1 <= root'[stack'[q]]
            /\ Reaches(stack'[q], stack'[p]),
         \A v \in marked' : OnCycle(v)
  PROVE  MarkInv'
<1>1. \A u : Succ(u)' = Succ(u)
  BY SameGraph
<1>2. DescendInv'
  BY <1>1 DEF DescendInv, Reaches
<1>3. AscendInv'
  BY <1>1 DEF AscendInv, Reaches
<1>4. \A v \in marked' : OnCycle(v)'
  BY SameGraph
<1> QED
  BY <1>2, <1>3, <1>4 DEF MarkInv

\* The top activation's container is on the stack, above those of the others.
LEMMA TopOnStack ==
  ASSUME TypeOK, SearchInv, frames # <<>>
  PROVE  \E t \in DOMAIN stack :
            /\ stack[t] = Top.v
            /\ \A k \in DOMAIN frames : \A p \in DOMAIN stack :
                  stack[p] = frames[k].v => p <= t
<1> DEFINE n == Len(frames)
<1>1. n \in Nat \ {0} /\ DOMAIN frames = 1..n /\ Top = frames[n]
  BY TopFrame
<1>2. n \in DOMAIN frames /\ n <= n /\ \A k \in DOMAIN frames : k <= n
  BY <1>1
<1>3. PICK t \in DOMAIN stack : stack[t] = frames[n].v
  BY <1>2 DEF SearchInv, StackInv
<1>4. ASSUME NEW k \in DOMAIN frames, NEW p \in DOMAIN stack, stack[p] = frames[k].v
      PROVE  p <= t
  <2>1. PICK a, b \in DOMAIN stack :
            a <= b /\ stack[a] = frames[k].v /\ stack[b] = frames[n].v
    BY <1>2 DEF SearchInv, StackInv
  <2>2. a = p /\ b = t
    BY <1>3, <1>4, <2>1 DEF SearchInv, StackInv
  <2> QED BY <2>1, <2>2
<1> QED
  BY <1>1, <1>3, <1>4

\* visit pushes a container that the top activation's has an edge to: everything
\* that reaches the latter reaches the former, which is its own witness.
LEMMA MarkVisit ==
  ASSUME TypeOK, SearchInv, MarkInv, NEW v \in Container, v \notin DOMAIN visited,
         Visit(v), status' = "running",
         frames # <<>> => v \in Succ(Top.v),
         frames = <<>> => stack = <<>>
  PROVE  MarkInv'
<1> DEFINE n == Len(frames)
           m == Len(stack)
<1>1. /\ n \in Nat /\ DOMAIN frames = 1..n /\ DOMAIN frames' = 1..(n + 1)
      /\ frames'[n + 1].v = v
      /\ \A k \in 1..n : frames'[k] = frames[k]
  <2>1. frames \in Seq(Frame) /\ [v |-> v, i |-> 1] \in Frame
    BY DEF TypeOK, Frame
  <2>2. frames' = Append(frames, [v |-> v, i |-> 1])
    BY DEF Visit
  <2>3. frames'[n + 1] = [v |-> v, i |-> 1]
    BY <2>1, <2>2, AppendLast
  <2> QED BY <2>1, <2>2, <2>3, AppendLast
<1>2. /\ m \in Nat /\ DOMAIN stack = 1..m /\ DOMAIN stack' = 1..(m + 1)
      /\ stack'[m + 1] = v
      /\ \A p \in 1..m : stack'[p] = stack[p]
  <2>1. stack \in Seq(Container) /\ stack' = Append(stack, v)
    BY DEF TypeOK, Visit
  <2> QED BY <2>1, AppendLast
<1>3. \A p \in 1..m : stack[p] \in DOMAIN visited /\ stack[p] # v
  BY <1>2 DEF SearchInv, StackInv, OnStack
<1>4. root'[v] = n /\ \A u \in DOMAIN visited : root'[u] = root[u]
  <2>1. root' = JudyIns(root, v, n) /\ DOMAIN root = DOMAIN visited
        /\ root \in [DOMAIN root -> Nat]
    BY DEF Visit, TypeOK
  <2>2. root'[v] = n /\ \A u \in DOMAIN root : u # v => root'[u] = root[u]
    BY <2>1 DEF JudyIns
  <2> QED BY <2>1, <2>2
<1>5. children' = children /\ marked' = marked
  BY DEF Visit
<1>6. ASSUME NEW k \in 1..n, NEW p \in 1..m, stack[p] = frames[k].v
      PROVE  Reaches(stack[p], v)
  <2>1. frames # <<>>
    BY <1>1, EmptySeq, 0 # n
  <2>2. PICK t \in DOMAIN stack :
            /\ stack[t] = Top.v
            /\ \A l \in DOMAIN frames : \A s \in DOMAIN stack :
                  stack[s] = frames[l].v => s <= t
    BY <2>1, TopOnStack
  <2>3. p <= t
    BY <1>1, <1>2, <1>6, <2>2
  <2>4. Reaches(stack[p], Top.v)
    BY <1>1, <1>2, <1>6, <2>2, <2>3 DEF MarkInv, DescendInv
  <2>5. Reaches(Top.v, v)
    BY <2>1, ReachEdge
  <2> QED BY <2>4, <2>5, ReachTrans
<1>7. ASSUME NEW k \in 1..(n + 1), NEW p \in 1..(m + 1), NEW q \in 1..(m + 1),
             p <= q, stack'[p] = frames'[k].v
      PROVE  Reaches(stack'[p], stack'[q])
  <2>1. CASE p = m + 1
    <3>1. q = m + 1
      BY <1>2, <1>7, <2>1
    <3> QED BY <2>1, <3>1, ReachSelf
  <2>2. CASE p \in 1..m
    <3>1. stack'[p] = stack[p] /\ stack[p] \in DOMAIN visited
      BY <1>2, <1>3, <2>2
    <3>2. k # n + 1
      BY <1>1, <1>3, <1>7, <2>2, <3>1
    <3>3. k \in 1..n /\ frames'[k] = frames[k]
      BY <1>1, <3>2
    <3>4. CASE q = m + 1
      BY <1>2, <1>6, <1>7, <2>2, <3>1, <3>3, <3>4
    <3>5. CASE q \in 1..m
      BY <1>1, <1>2, <1>7, <2>2, <3>1, <3>3, <3>5 DEF MarkInv, DescendInv
    <3> QED BY <1>2, <3>4, <3>5
  <2> QED BY <1>2, <2>1, <2>2
<1>8. ASSUME NEW q \in 1..(m + 1)
      PROVE  \E k \in 1..(n + 1) : \E p \in 1..(m + 1) :
                /\ p <= q
                /\ stack'[p] = frames'[k].v
                /\ k - 1 <= root'[stack'[q]]
                /\ Reaches(stack'[q], stack'[p])
  <2>1. CASE q = m + 1
    <3>1. n + 1 \in 1..(n + 1) /\ q <= q /\ (n + 1) - 1 <= n
      BY <1>1, <1>2
    <3>2. stack'[q] = frames'[n + 1].v /\ root'[stack'[q]] = n /\ Reaches(stack'[q], stack'[q])
      BY <1>1, <1>2, <1>4, <2>1, ReachSelf
    <3> QED BY <3>1, <3>2
  <2>2. CASE q \in 1..m
    <3>1. PICK k \in 1..n, p \in 1..m :
              /\ p <= q
              /\ stack[p] = frames[k].v
              /\ k - 1 <= root[stack[q]]
              /\ Reaches(stack[q], stack[p])
      BY <1>1, <1>2, <2>2 DEF MarkInv, AscendInv
    <3>2. k \in 1..(n + 1) /\ p \in 1..(m + 1)
      BY <1>1, <1>2
    <3>3. /\ stack'[p] = stack[p] /\ stack'[q] = stack[q] /\ frames'[k] = frames[k]
          /\ root'[stack[q]] = root[stack[q]]
      BY <1>1, <1>2, <1>3, <1>4, <2>2
    <3> QED BY <3>1, <3>2, <3>3
  <2> QED BY <1>2, <2>1, <2>2
<1>9. \A u \in marked' : OnCycle(u)
  BY <1>5 DEF MarkInv
<1> HIDE DEF n, m
<1> QED
  BY <1>1, <1>2, <1>5, <1>7, <1>8, <1>9, MarkInvNext

\* The steps to the next child: the stack stays, and root of the top activation's
\* container may be lowered to that of a container on the stack it has an edge to.
LEMMA MarkNextChild ==
  ASSUME TypeOK, SearchInv, MarkInv, HasChild, NextChild,
         UNCHANGED <<children, stack>>,
         \A v \in marked' : OnCycle(v),
         \A v \in DOMAIN visited :
            \/ root'[v] = root[v]
            \/ v = Top.v /\ Child \in OnStack /\ root'[v] = root[Child]
  PROVE  MarkInv'
<1>1. frames # <<>> /\ Child \in Value
  <2>1. frames # <<>> /\ Top.i \in 1..Len(children[Top.v]) /\ children[Top.v] \in Seq(Value)
    <3>1. frames # <<>> /\ Top.i <= Len(children[Top.v])
      BY DEF HasChild
    <3>2. Top.v \in Container /\ Top.i \in Nat \ {0}
      BY <3>1, TopFrame
    <3>3. children[Top.v] \in Seq(Value)
      BY <3>2 DEF TypeOK
    <3> QED BY <3>1, <3>2, <3>3
  <2> QED BY <2>1 DEF Child
<1>2. /\ DOMAIN frames' = DOMAIN frames
      /\ \A k \in DOMAIN frames : frames'[k].v = frames[k].v
  BY <1>1, NextChildFrames
<1>3. ASSUME NEW k \in DOMAIN frames, NEW p \in DOMAIN stack, NEW q \in DOMAIN stack,
             p <= q, stack[p] = frames'[k].v
      PROVE  Reaches(stack[p], stack[q])
  BY <1>2, <1>3 DEF MarkInv, DescendInv
<1>4. ASSUME NEW q \in DOMAIN stack
      PROVE  \E k \in DOMAIN frames : \E p \in DOMAIN stack :
                /\ p <= q
                /\ stack[p] = frames'[k].v
                /\ k - 1 <= root'[stack[q]]
                /\ Reaches(stack[q], stack[p])
  <2>1. stack[q] \in DOMAIN visited
    BY DEF SearchInv, StackInv, OnStack
  <2>2. CASE root'[stack[q]] = root[stack[q]]
    <3>1. PICK k \in DOMAIN frames, p \in DOMAIN stack :
              /\ p <= q
              /\ stack[p] = frames[k].v
              /\ k - 1 <= root[stack[q]]
              /\ Reaches(stack[q], stack[p])
      BY DEF MarkInv, AscendInv
    <3> QED BY <1>2, <2>2, <3>1
  <2>3. CASE stack[q] = Top.v /\ Child \in OnStack /\ root'[stack[q]] = root[Child]
    <3>1. PICK c \in DOMAIN stack : stack[c] = Child
      BY <2>3 DEF OnStack
    <3>2. PICK k \in DOMAIN frames, p \in DOMAIN stack :
              /\ p <= c
              /\ stack[p] = frames[k].v
              /\ k - 1 <= root[Child]
              /\ Reaches(Child, stack[p])
      BY <3>1 DEF MarkInv, AscendInv
    <3>3. p <= q
      <4>1. PICK t \in DOMAIN stack :
                /\ stack[t] = Top.v
                /\ \A l \in DOMAIN frames : \A s \in DOMAIN stack :
                      stack[s] = frames[l].v => s <= t
        BY <1>1, TopOnStack
      <4>2. t = q
        BY <2>3, <4>1 DEF SearchInv, StackInv
      <4> QED BY <3>2, <4>1, <4>2
    <3>4. Reaches(stack[q], Child)
      <4>1. Child \in Container
        BY <3>1 DEF TypeOK
      <4>2. Top.i \in DOMAIN children[Top.v]
        <5>1. Top.v \in Container /\ Top.i \in Nat \ {0} /\ Top.i <= Len(children[Top.v])
          BY <1>1, TopFrame DEF HasChild
        <5>2. DOMAIN children[Top.v] = 1..Len(children[Top.v]) /\ Len(children[Top.v]) \in Nat
          BY <5>1 DEF TypeOK
        <5> QED BY <5>1, <5>2
      <4>3. Child \in Succ(Top.v)
        BY <4>1, <4>2 DEF Succ, Child
      <4> QED BY <2>3, <4>3, ReachEdge
    <3>5. Reaches(stack[q], stack[p])
      BY <3>2, <3>4, ReachTrans
    <3> QED BY <1>2, <2>3, <3>2, <3>3, <3>5
  <2> QED BY <2>1, <2>2, <2>3
<1> QED
  BY <1>2, <1>3, <1>4, MarkInvNext

\* A member of a component that is popped: the activations on the stack below it
\* reach it, it reaches one of them, and that one reaches the top.
LEMMA MarkPopMember ==
  ASSUME TypeOK, SearchInv, MarkInv, PopMember
  PROVE  MarkInv'
<1> DEFINE x == Last(stack)
           m == Len(stack)
<1>1. /\ frames # <<>> /\ stack # <<>> /\ x # Top.v
      /\ stack' = Front(stack) /\ marked' = marked \cup {x}
      /\ UNCHANGED <<children, frames, root>>
  BY DEF PopMember, Exhausted
<1>2. /\ m \in Nat \ {0} /\ DOMAIN stack = 1..m /\ x = stack[m] /\ m \in DOMAIN stack
      /\ x \in Container
  BY <1>1, FrontLast DEF TypeOK
<1>3. x \notin Active
  BY <1>1, AboveTop
<1>4. /\ \A p \in DOMAIN stack' : p \in DOMAIN stack /\ stack'[p] = stack[p]
      /\ \A p \in DOMAIN stack : stack[p] # x => p \in DOMAIN stack'
  BY <1>1, PopStack
<1>5. OnCycle(x)
  <2>1. PICK k \in DOMAIN frames, p \in DOMAIN stack :
            p <= m /\ stack[p] = frames[k].v /\ Reaches(x, stack[p])
    BY <1>2 DEF MarkInv, AscendInv
  <2>2. Reaches(stack[p], x)
    BY <1>2, <2>1 DEF MarkInv, DescendInv
  <2>3. stack[p] # x
    BY <1>3, <2>1 DEF Active
  <2> QED BY <1>2, <2>1, <2>2, <2>3, CycleOfPair
<1>6. \A k \in DOMAIN frames : frames[k].v # x
  BY <1>3 DEF Active
<1>7. ASSUME NEW k \in DOMAIN frames', NEW p \in DOMAIN stack', NEW q \in DOMAIN stack',
             p <= q, stack'[p] = frames'[k].v
      PROVE  Reaches(stack'[p], stack'[q])
  BY <1>1, <1>4, <1>7 DEF MarkInv, DescendInv
<1>8. ASSUME NEW q \in DOMAIN stack'
      PROVE  \E k \in DOMAIN frames' : \E p \in DOMAIN stack' :
                /\ p <= q
                /\ stack'[p] = frames'[k].v
                /\ k - 1 <= root'[stack'[q]]
                /\ Reaches(stack'[q], stack'[p])
  <2>1. PICK k \in DOMAIN frames, p \in DOMAIN stack :
            /\ p <= q
            /\ stack[p] = frames[k].v
            /\ k - 1 <= root[stack[q]]
            /\ Reaches(stack[q], stack[p])
    BY <1>4 DEF MarkInv, AscendInv
  <2>2. p \in DOMAIN stack'
    BY <1>4, <1>6, <2>1
  <2> QED BY <1>1, <1>4, <2>1, <2>2
<1>9. \A u \in marked' : OnCycle(u)
  BY <1>1, <1>5 DEF MarkInv
<1> HIDE DEF x, m
<1> QED
  BY <1>1, <1>7, <1>8, <1>9, MarkInvNext

\* visit returns and leaves its container on the stack: what went back to it goes
\* on to where it went back to itself, since root[v] is less than its level.
LEMMA MarkLeaveMember ==
  ASSUME TypeOK, SearchInv, MarkInv, LeaveMember
  PROVE  MarkInv'
<1> DEFINE n == Len(frames)
           v == Top.v
<1>1. /\ frames # <<>> /\ frames' = Front(frames) /\ Exhausted
      /\ root[v] # visited[v]
      /\ UNCHANGED <<children, root, stack, marked>>
  BY DEF LeaveMember, Exhausted, Return
<1>2. n \in Nat \ {0} /\ DOMAIN frames = 1..n /\ Top = frames[n]
  BY <1>1, TopFrame
<1>3. /\ DOMAIN frames' = 1..(n - 1)
      /\ \A k \in 1..(n - 1) : k \in DOMAIN frames /\ frames'[k] = frames[k]
  BY <1>1, PopFrames DEF SearchInv
<1>4. root[v] \in Nat /\ root[v] < n - 1
  BY <1>1, <1>2, ExhaustedTop
<1>5. \A p \in DOMAIN stack : root[stack[p]] \in Nat
  BY DEF TypeOK, SearchInv, StackInv, OnStack
<1>6. PICK t \in DOMAIN stack :
          /\ stack[t] = v
          /\ \A k \in DOMAIN frames : \A p \in DOMAIN stack :
                stack[p] = frames[k].v => p <= t
  BY <1>1, TopOnStack
<1>7. PICK l \in DOMAIN frames, s \in DOMAIN stack :
          /\ s <= t
          /\ stack[s] = frames[l].v
          /\ l - 1 <= root[v]
          /\ Reaches(v, stack[s])
  BY <1>6 DEF MarkInv, AscendInv
<1>8. l \in 1..(n - 1)
  BY <1>2, <1>4, <1>7
<1>9. stack \in Seq(Container) /\ DOMAIN stack \subseteq Nat
  BY DEF TypeOK
<1>10. ASSUME NEW k \in 1..(n - 1), NEW p \in DOMAIN stack, NEW q \in DOMAIN stack,
              p <= q, stack[p] = frames'[k].v
       PROVE  Reaches(stack[p], stack[q])
  BY <1>3, <1>10 DEF MarkInv, DescendInv
<1>11. ASSUME NEW q \in DOMAIN stack
       PROVE  \E k \in 1..(n - 1) : \E p \in DOMAIN stack :
                 /\ p <= q
                 /\ stack[p] = frames'[k].v
                 /\ k - 1 <= root[stack[q]]
                 /\ Reaches(stack[q], stack[p])
  <2>1. PICK k \in DOMAIN frames, p \in DOMAIN stack :
            /\ p <= q
            /\ stack[p] = frames[k].v
            /\ k - 1 <= root[stack[q]]
            /\ Reaches(stack[q], stack[p])
    BY DEF MarkInv, AscendInv
  <2>2. CASE k = n
    <3>1. stack[p] = v
      BY <1>2, <2>1, <2>2
    <3>2. p = t
      BY <1>6, <3>1 DEF SearchInv, StackInv
    <3>3. s <= q
      BY <1>7, <1>9, <2>1, <3>2
    <3>4. l - 1 <= root[stack[q]]
      <4>1. root[stack[q]] \in Nat
        BY <1>5
      <4> QED BY <1>2, <1>4, <1>7, <1>8, <2>1, <2>2, <4>1
    <3>5. Reaches(stack[q], stack[s])
      BY <1>7, <2>1, <3>1, ReachTrans
    <3> QED BY <1>3, <1>7, <1>8, <3>3, <3>4, <3>5
  <2>3. CASE k # n
    <3>1. k \in 1..(n - 1)
      BY <1>2, <2>3
    <3> QED BY <1>3, <2>1, <3>1
  <2> QED BY <2>2, <2>3
<1>12. \A u \in marked' : OnCycle(u)
  BY <1>1 DEF MarkInv
<1>13. \A k \in DOMAIN frames' : \A p, q \in DOMAIN stack' :
          p <= q /\ stack'[p] = frames'[k].v => Reaches(stack'[p], stack'[q])
  BY <1>1, <1>3, <1>10
<1>14. \A q \in DOMAIN stack' : \E k \in DOMAIN frames' : \E p \in DOMAIN stack' :
          /\ p <= q
          /\ stack'[p] = frames'[k].v
          /\ k - 1 <= root'[stack'[q]]
          /\ Reaches(stack'[q], stack'[p])
  BY <1>1, <1>3, <1>11
<1> QED
  BY <1>1, <1>12, <1>13, <1>14, MarkInvNext

\* visit pops its container, the last on the stack, and returns: nothing below it
\* on the stack has its way back through it.
LEMMA MarkCloseRoot ==
  ASSUME TypeOK, SearchInv, MarkInv, CloseRoot
  PROVE  MarkInv'
<1> DEFINE n == Len(frames)
           v == Top.v
<1>1. /\ frames # <<>> /\ frames' = Front(frames)
      /\ stack # <<>> /\ Last(stack) = v /\ stack' = Front(stack)
      /\ UNCHANGED <<children, root, marked>>
  BY DEF CloseRoot, Exhausted, Return
<1>2. n \in Nat \ {0} /\ DOMAIN frames = 1..n /\ Top = frames[n]
  BY <1>1, TopFrame
<1>3. /\ DOMAIN frames' = 1..(n - 1)
      /\ \A k \in 1..(n - 1) : k \in DOMAIN frames /\ frames'[k] = frames[k]
  BY <1>1, PopFrames DEF SearchInv
<1>4. /\ Len(stack) \in Nat \ {0} /\ DOMAIN stack = 1..Len(stack)
      /\ DOMAIN stack' = 1..(Len(stack) - 1)
      /\ \A p \in DOMAIN stack' : p \in DOMAIN stack /\ stack'[p] = stack[p]
      /\ v = stack[Len(stack)]
  BY <1>1, FrontLast, PopStack DEF TypeOK
<1>5. ASSUME NEW k \in 1..(n - 1), NEW p \in DOMAIN stack', NEW q \in DOMAIN stack',
             p <= q, stack'[p] = frames'[k].v
      PROVE  Reaches(stack'[p], stack'[q])
  BY <1>3, <1>4, <1>5 DEF MarkInv, DescendInv
<1>6. ASSUME NEW q \in DOMAIN stack'
      PROVE  \E k \in DOMAIN frames' : \E p \in DOMAIN stack' :
                /\ p <= q
                /\ stack'[p] = frames'[k].v
                /\ k - 1 <= root[stack'[q]]
                /\ Reaches(stack'[q], stack'[p])
  <2>1. PICK k \in DOMAIN frames, p \in DOMAIN stack :
            /\ p <= q
            /\ stack[p] = frames[k].v
            /\ k - 1 <= root[stack[q]]
            /\ Reaches(stack[q], stack[p])
    BY <1>4 DEF MarkInv, AscendInv
  <2>2. p \in DOMAIN stack'
    BY <1>4, <2>1
  <2>3. k # n
    <3>1. SUFFICES ASSUME k = n PROVE FALSE
      OBVIOUS
    <3>2. stack[p] = stack[Len(stack)] /\ Len(stack) \in DOMAIN stack
      BY <1>2, <1>4, <2>1, <3>1
    <3>3. p = Len(stack)
      BY <3>2 DEF SearchInv, StackInv
    <3> QED BY <1>4, <2>2, <3>3
  <2>4. k \in DOMAIN frames' /\ frames'[k] = frames[k]
    BY <1>2, <1>3, <2>3
  <2>5. stack'[p] = stack[p] /\ stack'[q] = stack[q] /\ root' = root
    BY <1>1, <1>4, <2>2
  <2> QED BY <2>1, <2>2, <2>4, <2>5
<1>7. \A u \in marked' : OnCycle(u)
  BY <1>1 DEF MarkInv
<1>8. \A k \in DOMAIN frames' : \A p, q \in DOMAIN stack' :
          p <= q /\ stack'[p] = frames'[k].v => Reaches(stack'[p], stack'[q])
  BY <1>3, <1>5
<1> QED
  BY <1>1, <1>7, <1>6, <1>8, MarkInvNext

\* Every step preserves the invariant.
LEMMA MarkInvStep ==
  ASSUME TypeOK, SearchInv, MarkInv, [Next]_vars
  PROVE  MarkInv'
<1>0. ASSUME UNCHANGED <<children, frames, root, stack, marked>>
      PROVE  MarkInv'
  <2>1. \A u : Succ(u)' = Succ(u)
    BY <1>0 DEF Succ
  <2>2. DescendInv' /\ AscendInv'
    BY <1>0, <2>1 DEF MarkInv, DescendInv, AscendInv, Reaches
  <2>3. \A u \in marked' : OnCycle(u)'
    BY <1>0, SameGraph DEF MarkInv
  <2> QED BY <2>2, <2>3 DEF MarkInv
<1>1. \A v \in DOMAIN visited : root[v] = root[v]
  OBVIOUS
<1>2. CASE Start
  <2>1. start \in Container /\ Visit(start) /\ status = "init"
    BY <1>2 DEF Start
  <2>2. start \notin DOMAIN visited /\ frames = <<>> /\ stack = <<>>
    BY <2>1 DEF SearchInv, FramesInv
  <2>3. CASE status' = "running"
    BY <2>1, <2>2, <2>3, MarkVisit
  <2>4. CASE status' # "running"
    BY <1>0, <2>1, <2>4 DEF Visit
  <2> QED BY <2>3, <2>4
<1>3. CASE Descend
  <2>1. /\ HasChild /\ Child \in Container /\ Child \notin DOMAIN visited
        /\ Visit(Child) /\ frames # <<>>
    BY <1>3 DEF Descend, HasChild
  <2>2. Child \in Succ(Top.v)
    <3>1. Top.v \in Container /\ Top.i \in Nat \ {0} /\ Top.i <= Len(children[Top.v])
      BY <2>1, TopFrame DEF HasChild
    <3>2. DOMAIN children[Top.v] = 1..Len(children[Top.v]) /\ Len(children[Top.v]) \in Nat
      BY <3>1 DEF TypeOK
    <3>3. Top.i \in DOMAIN children[Top.v]
      BY <3>1, <3>2
    <3> QED BY <2>1, <3>3 DEF Succ, Child
  <2>3. CASE status' = "running"
    BY <2>1, <2>2, <2>3, MarkVisit
  <2>4. CASE status' # "running"
    BY <1>0, <2>1, <2>4 DEF Visit
  <2> QED BY <2>3, <2>4
<1>4. CASE StartLeaf \/ OutOfMemory \/ UNCHANGED vars
  BY <1>0, <1>4 DEF StartLeaf, OutOfMemory, vars
<1>5. CASE SkipLeaf
  <2>1. HasChild /\ NextChild /\ UNCHANGED <<children, root, stack, marked>>
    BY <1>5 DEF SkipLeaf
  <2>2. /\ \A u \in marked' : OnCycle(u)
        /\ \A v \in DOMAIN visited : root'[v] = root[v]
    BY <2>1 DEF MarkInv
  <2> QED BY <2>1, <2>2, MarkNextChild
<1>6. CASE SelfLoop
  <2>1. /\ HasChild /\ NextChild /\ UNCHANGED <<children, root, stack>>
        /\ Child = Top.v /\ marked' = marked \cup {Top.v} /\ frames # <<>>
    BY <1>6 DEF SelfLoop, HasChild
  <2>2. Top.v \in Succ(Top.v)
    <3>1. Top.v \in Container /\ Top.i \in Nat \ {0} /\ Top.i <= Len(children[Top.v])
      BY <2>1, TopFrame DEF HasChild
    <3>2. DOMAIN children[Top.v] = 1..Len(children[Top.v]) /\ Len(children[Top.v]) \in Nat
      BY <3>1 DEF TypeOK
    <3>3. Top.i \in DOMAIN children[Top.v] /\ children[Top.v][Top.i] = Top.v
      BY <2>1, <3>1, <3>2 DEF Child
    <3> QED BY <3>1, <3>3 DEF Succ
  <2>3. /\ \A u \in marked' : OnCycle(u)
        /\ \A v \in DOMAIN visited : root'[v] = root[v]
    BY <2>1, <2>2, CycleOfSelf DEF MarkInv
  <2> QED BY <2>1, <2>3, MarkNextChild
<1>7. CASE Link
  <2>1. /\ HasChild /\ Child \in DOMAIN visited /\ UNCHANGED <<children, stack, marked>>
    BY <1>7 DEF Link
  <2>2. CASE status' = "internal" /\ UNCHANGED <<frames, root>>
    BY <1>0, <2>1, <2>2
  <2>3. CASE Child \in component /\ NextChild /\ root' = root
    <3>1. /\ \A u \in marked' : OnCycle(u)
          /\ \A v \in DOMAIN visited : root'[v] = root[v]
      BY <2>1, <2>3 DEF MarkInv
    <3> QED BY <2>1, <2>3, <3>1, MarkNextChild
  <2>4. CASE /\ Child \notin component /\ NextChild
             /\ root' = IF root[Child] < root[Top.v]
                          THEN JudyIns(root, Top.v, root[Child]) ELSE root
    <3>1. Child \in OnStack
      BY <2>1, <2>4 DEF SearchInv, StackInv
    <3>2. DOMAIN root = DOMAIN visited
      BY DEF TypeOK
    <3>3. ASSUME NEW v \in DOMAIN visited
          PROVE  \/ root'[v] = root[v]
                 \/ v = Top.v /\ Child \in OnStack /\ root'[v] = root[Child]
      BY <2>4, <3>1, <3>2 DEF JudyIns
    <3>4. \A u \in marked' : OnCycle(u)
      BY <2>1 DEF MarkInv
    <3> QED BY <2>1, <2>4, <3>3, <3>4, MarkNextChild
  <2> QED BY <1>7, <2>2, <2>3, <2>4 DEF Link
<1>8. CASE PopMember
  BY <1>8, MarkPopMember
<1>9. CASE CloseRoot
  BY <1>9, MarkCloseRoot
<1>10. CASE LeaveMember
  BY <1>10, MarkLeaveMember
<1> QED
  BY <1>2, <1>3, <1>4, <1>5, <1>6, <1>7, <1>8, <1>9, <1>10 DEF Next, Step

\* On every graph, every container that the search marks lies on a cycle: a vector
\* on no cycle stays hashable, whatever the order of the children.
THEOREM MarksHaveCycles == Spec => []MarksAreOnCycles
<1>1. Init => MarkInv
  BY EmptyJudy DEF Init, MarkInv, DescendInv, AscendInv
<1>2. TypeOK /\ SearchInv /\ MarkInv /\ [Next]_vars => MarkInv'
  BY MarkInvStep
<1>3. MarkInv => MarksAreOnCycles
  BY DEF MarkInv, MarksAreOnCycles
<1> QED
  BY <1>1, <1>2, <1>3, TypeCorrect, SearchInvariant, PTL DEF Spec

-----------------------------------------------------------------------------
(* The nesting that is refused and the nesting that is accepted. *)

\* MaxDepth is twice the number of levels, or one less.
LEMMA LevelsFact ==
  /\ Levels \in Nat
  /\ \A n \in Nat : 2 * n >= MaxDepth /\ (n = 0 \/ 2 * (n - 1) < MaxDepth) => n = Levels
  /\ 2 * Levels >= MaxDepth
<1>1. MaxDepth \in Nat
  BY DepthAssumption
<1>2. ASSUME NEW D \in Nat
      PROVE  /\ (D + 1) \div 2 \in Nat
             /\ D + 1 = 2 * ((D + 1) \div 2) \/ D + 1 = 2 * ((D + 1) \div 2) + 1
  OBVIOUS
<1>3. /\ Levels \in Nat
      /\ MaxDepth + 1 = 2 * Levels \/ MaxDepth + 1 = 2 * Levels + 1
  BY <1>1, <1>2 DEF Levels
<1> QED
  BY <1>1, <1>3

\* The graph and the root are fixed.
LEMMA NestingNext ==
  ASSUME children' = children, start' = start
  PROVE  /\ \A u : Succ(u)' = Succ(u)
         /\ \A n \in Nat : HasNesting(n) => HasNesting(n)'
<1>1. \A u : Succ(u)' = Succ(u)
  BY DEF Succ
<1> QED
  BY <1>1 DEF HasNesting

\* visit is called for a container that is not visited: for the root first, and
\* then for a child of the top activation's.
LEMMA NestingVisit ==
  ASSUME TypeOK, SearchInv, NestingInv, NEW v \in Container, v \notin DOMAIN visited,
         Visit(v), status \in {"init", "running"},
         frames # <<>> => v \in Succ(Top.v) /\ v # start,
         frames = <<>> => v = start
  PROVE  NestingInv'
<1> DEFINE n == Len(frames)
<1>1. /\ children' = children /\ start' = start /\ \A u : Succ(u)' = Succ(u)
  BY NestingNext DEF Visit
<1>2. n \in Nat /\ DOMAIN frames = 1..n /\ (n = 0 <=> frames = <<>>)
  BY EmptySeq DEF TypeOK
<1>3. n # 0 => Top = frames[n] /\ n \in DOMAIN frames /\ Top.v \in DOMAIN visited
               /\ visited[Top.v] = n - 1
  BY <1>2 DEF SearchInv, FramesInv, Top
<1>4. CASE status' = "running"
  <2>1. ~(2 * n >= MaxDepth)
    BY <1>4 DEF Visit, VisitError
  <2>2. /\ DOMAIN frames' = 1..(n + 1) /\ frames' # <<>>
        /\ frames'[n + 1].v = v
        /\ \A k \in 1..n : frames'[k] = frames[k]
    <3>1. frames \in Seq(Frame) /\ [v |-> v, i |-> 1] \in Frame
      BY DEF TypeOK, Frame
    <3>2. frames' = Append(frames, [v |-> v, i |-> 1])
      BY <1>4 DEF Visit
    <3>3. frames'[n + 1] = [v |-> v, i |-> 1]
      BY <3>1, <3>2, AppendLast
    <3> QED BY <3>1, <3>2, <3>3, AppendLast
  <2>3. /\ DOMAIN visited' = DOMAIN visited \cup {v}
        /\ visited'[v] = n
        /\ \A u \in DOMAIN visited : visited'[u] = visited[u] /\ visited[u] \in Nat
    <3>1. visited' = JudyIns(visited, v, n)
      BY <1>4 DEF Visit
    <3> QED BY <3>1 DEF JudyIns, TypeOK
  <2>4. ChainInv'
    <3>1. frames'[1].v = start
      <4>1. CASE n = 0
        BY <4>1, <1>2, <2>2
      <4>2. CASE n # 0
        <5>1. frames'[1] = frames[1] /\ frames # <<>>
          BY <4>2, <1>2, <2>2
        <5> QED BY <5>1 DEF NestingInv, ChainInv
      <4> QED BY <4>1, <4>2
    <3>2. ASSUME NEW k \in 1..(n + 1), k > 1
          PROVE  frames'[k].v \in Succ(frames'[k - 1].v)
      <4>1. CASE k = n + 1
        <5>1. n # 0 /\ k - 1 = n /\ n \in 1..n
          BY <3>2, <4>1, <1>2
        <5> QED BY <4>1, <5>1, <1>2, <1>3, <2>2
      <4>2. CASE k # n + 1
        <5>1. k \in 1..n /\ k - 1 \in 1..n
          BY <3>2, <4>2, <1>2
        <5> QED BY <5>1, <3>2, <1>2, <2>2 DEF NestingInv, ChainInv
      <4> QED BY <4>1, <4>2
    <3> QED BY <1>1, <2>2, <3>1, <3>2 DEF ChainInv
  <2>5. LevelInv'
    <3>1. ASSUME NEW w \in DOMAIN visited'
          PROVE  /\ 2 * visited'[w] < MaxDepth
                 /\ IF w = start THEN visited'[w] = 0
                    ELSE \E u \in DOMAIN visited' :
                            w \in Succ(u) /\ visited'[w] = visited'[u] + 1
      <4>1. CASE w = v
        <5>1. 2 * visited'[w] < MaxDepth
          BY <4>1, <1>2, <2>1, <2>3, DepthAssumption
        <5>2. CASE n = 0
          BY <4>1, <5>1, <5>2, <1>2, <2>3
        <5>3. CASE n # 0
          <6>1. /\ Top.v \in DOMAIN visited' /\ w \in Succ(Top.v) /\ w # start
                /\ visited'[Top.v] = n - 1
            BY <4>1, <5>3, <1>2, <1>3, <2>3
          <6>2. visited'[w] = visited'[Top.v] + 1
            BY <4>1, <6>1, <1>2, <2>3
          <6> QED BY <5>1, <6>1, <6>2
        <5> QED BY <5>2, <5>3
      <4>2. CASE w # v
        <5>1. w \in DOMAIN visited /\ visited'[w] = visited[w]
          BY <4>2, <2>3
        <5>2. 2 * visited[w] < MaxDepth
          BY <5>1 DEF NestingInv, LevelInv
        <5>3. CASE w = start
          BY <5>1, <5>2, <5>3 DEF NestingInv, LevelInv
        <5>4. CASE w # start
          <6>1. PICK u \in DOMAIN visited : w \in Succ(u) /\ visited[w] = visited[u] + 1
            BY <5>1, <5>4 DEF NestingInv, LevelInv
          <6> QED BY <5>1, <5>2, <5>4, <6>1, <2>3
        <5> QED BY <5>3, <5>4
      <4> QED BY <4>1, <4>2
    <3> QED BY <1>1, <3>1 DEF LevelInv
  <2> QED BY <1>4, <2>4, <2>5 DEF NestingInv
<1>5. CASE status' = "too_deep"
  <2>1. 2 * n >= MaxDepth /\ UNCHANGED <<frames, visited>>
    BY <1>5 DEF Visit, VisitError
  <2>2. n = Levels
    <3>1. n = 0 \/ 2 * (n - 1) < MaxDepth
      BY <1>3 DEF NestingInv, LevelInv
    <3> HIDE DEF n
    <3> QED BY <1>2, <2>1, <3>1, LevelsFact
  <2>3. HasNesting(n + 1)
    <3> DEFINE p == [k \in 1..(n + 1) |-> IF k = n + 1 THEN v ELSE frames[k].v]
    <3>1. \A k \in 1..n : frames[k].v \in Container /\ frames[k].v \in DOMAIN visited
      BY <1>2 DEF SearchInv, FramesInv, TypeOK
    <3>2. /\ p \in [1..(n + 1) -> Container]
          /\ p[n + 1] = v
          /\ \A k \in 1..n : p[k] = frames[k].v
      BY <1>2, <3>1
    <3>3. p[1] = start
      <4>1. CASE n = 0
        BY <4>1, <1>2, <3>2
      <4>2. CASE n # 0
        BY <4>2, <1>2, <3>2 DEF NestingInv, ChainInv
      <4> QED BY <4>1, <4>2
    <3>4. ASSUME NEW j \in 1..(n + 1), NEW k \in 1..(n + 1), p[j] = p[k]
          PROVE  j = k
      <4>1. CASE j \in 1..n /\ k \in 1..n
        BY <4>1, <3>2, <3>4, <1>2, FramesDistinct DEF SearchInv
      <4>2. CASE j = n + 1 \/ k = n + 1
        <5>1. \A l \in 1..n : p[l] # v
          BY <3>1, <3>2
        <5>2. j = n + 1 \/ j \in 1..n
          BY <1>2
        <5>3. k = n + 1 \/ k \in 1..n
          BY <1>2
        <5> HIDE DEF p, n
        <5> QED BY <4>2, <5>1, <5>2, <5>3, <3>2, <3>4
      <4> QED BY <4>1, <4>2, <1>2
    <3>5. ASSUME NEW j \in 1..n
          PROVE  p[j + 1] \in Succ(p[j])
      <4>1. CASE j = n
        BY <4>1, <1>2, <1>3, <3>2
      <4>2. CASE j # n
        <5>1. j + 1 \in 1..n /\ j + 1 > 1 /\ (j + 1) - 1 = j
          <6>1. ASSUME NEW a \in Nat, NEW b \in 1..a, b # a
                PROVE  b + 1 \in 1..a /\ b + 1 > 1 /\ (b + 1) - 1 = b
            BY <6>1
          <6> HIDE DEF n
          <6> QED BY <4>2, <1>2, <6>1
        <5> QED BY <5>1, <1>2, <3>2 DEF NestingInv, ChainInv
      <4> QED BY <4>1, <4>2
    <3>6. (n + 1) - 1 = n
      BY <1>2
    <3> HIDE DEF p, n
    <3> QED BY <3>2, <3>3, <3>4, <3>5, <3>6 DEF HasNesting
  <2>4. HasNesting(Levels + 1)'
    <3>1. Levels + 1 \in Nat
      BY LevelsFact
    <3> QED BY <1>1, <2>2, <2>3, <3>1, NestingNext
  <2>5. ChainInv' /\ LevelInv'
    BY <1>1, <2>1 DEF NestingInv, ChainInv, LevelInv
  <2> QED BY <2>4, <2>5 DEF NestingInv
<1>6. CASE status' \notin {"running", "too_deep"}
  <2>1. UNCHANGED <<frames, visited>>
    BY <1>6 DEF Visit
  <2>2. ChainInv' /\ LevelInv'
    BY <1>1, <2>1 DEF NestingInv, ChainInv, LevelInv
  <2> QED BY <1>6, <2>2 DEF NestingInv
<1> QED
  BY <1>4, <1>5, <1>6

\* Every step preserves the invariant.
LEMMA NestingInvStep ==
  ASSUME TypeOK, SearchInv, NestingInv, [Next]_vars
  PROVE  NestingInv'
<1>0. children' = children /\ start' = start
  BY DEF Next, Step, Start, StartLeaf, SkipLeaf, SelfLoop, Descend, Visit, Link,
         PopMember, CloseRoot, LeaveMember, OutOfMemory, vars
<1>1. /\ \A u : Succ(u)' = Succ(u)
      /\ HasNesting(Levels + 1) => HasNesting(Levels + 1)'
  <2>1. Levels + 1 \in Nat
    BY LevelsFact
  <2> QED BY <1>0, <2>1, NestingNext
<1>2. ASSUME visited' = visited, ChainInv', status' = "too_deep" => status = "too_deep"
      PROVE  NestingInv'
  <2>1. LevelInv'
    BY <1>0, <1>1, <1>2 DEF NestingInv, LevelInv
  <2> QED BY <1>1, <1>2, <2>1 DEF NestingInv
<1>3. frames' = frames => ChainInv'
  BY <1>0, <1>1 DEF NestingInv, ChainInv
<1>4. ASSUME frames # <<>>, NextChild PROVE ChainInv'
  <2>1. /\ frames' # <<>> /\ DOMAIN frames' = DOMAIN frames /\ DOMAIN frames = 1..Len(frames)
        /\ Len(frames) \in Nat \ {0}
        /\ \A k \in DOMAIN frames : frames'[k].v = frames[k].v
    BY <1>4, NextChildFrames, TopFrame
  <2>2. 1 \in DOMAIN frames /\ \A k \in DOMAIN frames : k > 1 => k - 1 \in DOMAIN frames
    BY <2>1
  <2> QED BY <1>0, <1>1, <1>4, <2>1, <2>2 DEF NestingInv, ChainInv
<1>5. ASSUME frames # <<>>, frames' = Front(frames) PROVE ChainInv'
  <2>1. /\ DOMAIN frames' = 1..(Len(frames) - 1) /\ Len(frames) \in Nat \ {0}
        /\ \A k \in DOMAIN frames' : k \in DOMAIN frames /\ frames'[k] = frames[k]
        /\ Len(frames) = 1 => frames' = <<>>
        /\ Len(frames) # 1 => frames' # <<>> /\ 1 \in DOMAIN frames'
    BY <1>5, PopFrames, TopFrame DEF SearchInv
  <2>2. \A k \in DOMAIN frames' : k > 1 => k - 1 \in DOMAIN frames'
    BY <2>1
  <2>3. frames' # <<>> => frames'[1] = frames[1]
    BY <2>1
  <2> QED BY <1>0, <1>1, <1>5, <2>1, <2>2, <2>3 DEF NestingInv, ChainInv
<1>6. CASE Start
  <2>1. start \in Container /\ Visit(start) /\ status = "init"
    BY <1>6 DEF Start
  <2>2. start \notin DOMAIN visited /\ frames = <<>>
    BY <2>1 DEF SearchInv, FramesInv
  <2> QED BY <2>1, <2>2, NestingVisit
<1>7. CASE Descend
  <2>1. /\ HasChild /\ Child \in Container /\ Child \notin DOMAIN visited
        /\ Visit(Child) /\ frames # <<>> /\ status = "running"
    BY <1>7 DEF Descend, HasChild
  <2>2. Child \in Succ(Top.v)
    <3>1. Top.v \in Container /\ Top.i \in Nat \ {0} /\ Top.i <= Len(children[Top.v])
      BY <2>1, TopFrame DEF HasChild
    <3>2. DOMAIN children[Top.v] = 1..Len(children[Top.v]) /\ Len(children[Top.v]) \in Nat
      BY <3>1 DEF TypeOK
    <3>3. Top.i \in DOMAIN children[Top.v]
      BY <3>1, <3>2
    <3> QED BY <2>1, <3>3 DEF Succ, Child
  <2>3. Child # start
    <3>1. 1 \in DOMAIN frames
      BY <2>1, TopFrame
    <3>2. frames[1].v \in DOMAIN visited /\ frames[1].v = start
      BY <2>1, <3>1 DEF SearchInv, FramesInv, NestingInv, ChainInv
    <3> QED BY <2>1, <3>2
  <2> QED BY <2>1, <2>2, <2>3, NestingVisit
<1>8. CASE StartLeaf \/ PopMember \/ OutOfMemory \/ UNCHANGED vars
  BY <1>2, <1>3, <1>8 DEF StartLeaf, PopMember, OutOfMemory, vars
<1>9. CASE SkipLeaf \/ SelfLoop
  BY <1>2, <1>4, <1>9 DEF SkipLeaf, SelfLoop, HasChild
<1>10. CASE Link
  <2>1. /\ frames # <<>> /\ status = "running" /\ visited' = visited
        /\ \/ NextChild /\ UNCHANGED status
           \/ status' = "internal" /\ UNCHANGED frames
    BY <1>10 DEF Link, HasChild
  <2>2. ChainInv'
    BY <1>3, <1>4, <2>1
  <2> QED BY <1>2, <2>1, <2>2
<1>11. CASE CloseRoot \/ LeaveMember
  <2>1. /\ frames # <<>> /\ frames' = Front(frames) /\ visited' = visited
        /\ status' # "too_deep"
    BY <1>11 DEF CloseRoot, LeaveMember, Exhausted, Return
  <2> QED BY <1>2, <1>5, <2>1
<1> QED
  BY <1>6, <1>7, <1>8, <1>9, <1>10, <1>11 DEF Next, Step

\* A set that holds 1, and k + 1 for each k below n that it holds, holds 1..n.
LEMMA FirstNumbers ==
  ASSUME NEW n \in Nat, NEW S, 1 \in S, \A k \in 1..n : k \in S /\ k # n => k + 1 \in S
  PROVE  1..n \subseteq S
<1> DEFINE T == {k \in Nat : k \in 1..n /\ k \notin S}
<1> SUFFICES ASSUME T # {} PROVE FALSE
  OBVIOUS
<1>1. PICK x \in T : \A y \in T : ~(<<y, x>> \in OpToRel(<, Nat))
  BY NatLessThanWellFounded, WFMin
<1>2. x \in 1..n /\ x \notin S /\ \A y \in T : ~(y < x)
  BY <1>1 DEF OpToRel
<1>3. x # 1
  BY <1>2
<1>4. x - 1 \in 1..n /\ x - 1 < x /\ x - 1 # n /\ (x - 1) + 1 = x
  BY <1>2, <1>3
<1>5. x - 1 \in S
  BY <1>2, <1>4
<1> QED
  BY <1>2, <1>4, <1>5

\* In a tree, the container at place k of a path from the root is at level k - 1,
\* so that a path that has been visited in full is within the limit.
LEMMA TreeWithinLimit ==
  ASSUME TypeOK, NestingInv, SearchIsComplete, status = "ok", IsTree
  PROVE  ~HasNesting(Levels + 1)
<1> DEFINE n == Levels + 1
<1> SUFFICES ASSUME HasNesting(n) PROVE FALSE
  OBVIOUS
<1>1. Levels \in Nat /\ n \in Nat /\ n > 0 /\ n - 1 = Levels /\ 2 * Levels >= MaxDepth
  BY LevelsFact
<1>2. PICK p \in [1..n -> Container] :
          /\ n > 0 => p[1] = start
          /\ \A j, k \in 1..n : p[j] = p[k] => j = k
          /\ \A j \in 1..(n - 1) : p[j + 1] \in Succ(p[j])
  BY DEF HasNesting
<1> DEFINE S == {k \in 1..n : p[k] \in DOMAIN visited /\ visited[p[k]] = k - 1}
<1> HIDE DEF n
<1>3. 1 \in S
  <2>1. 1 \in 1..n /\ p[1] = start /\ p[1] \in Container
    BY <1>1, <1>2
  <2>2. p[1] \in DOMAIN visited
    BY <2>1 DEF SearchIsComplete
  <2>3. visited[p[1]] = 0
    BY <2>1, <2>2 DEF NestingInv, LevelInv
  <2> QED BY <2>1, <2>2, <2>3
<1>4. ASSUME NEW k \in 1..n, k \in S, k # n
      PROVE  k + 1 \in S
  <2>1. k \in 1..(n - 1) /\ k + 1 \in 1..n /\ k + 1 # 1 /\ 1 \in 1..n /\ (k + 1) - 1 = (k - 1) + 1
    BY <1>1, <1>4
  <2>2. /\ p[k] \in DOMAIN visited /\ visited[p[k]] = k - 1
        /\ p[k] \in Container /\ p[k + 1] \in Container
        /\ p[k + 1] \in Succ(p[k])
    BY <1>2, <1>4, <2>1
  <2>3. p[k + 1] \in DOMAIN visited
    BY <2>2 DEF SearchIsComplete
  <2>4. p[k + 1] # start
    BY <1>1, <1>2, <2>1
  <2>5. PICK u \in DOMAIN visited : p[k + 1] \in Succ(u) /\ visited[p[k + 1]] = visited[u] + 1
    BY <2>3, <2>4 DEF NestingInv, LevelInv
  <2>6. u = p[k]
    BY <2>2, <2>5 DEF IsTree, TypeOK
  <2> QED BY <2>1, <2>2, <2>3, <2>5, <2>6
<1>5. n \in S
  <2>1. 1..n \subseteq S
    <3> HIDE DEF S
    <3> QED BY <1>1, <1>3, <1>4, FirstNumbers
  <2>2. n \in 1..n
    BY <1>1
  <2> QED BY <2>1, <2>2
<1>6. 2 * visited[p[n]] < MaxDepth /\ visited[p[n]] = Levels
  BY <1>1, <1>5 DEF NestingInv, LevelInv
<1> QED
  BY <1>1, <1>6, DepthAssumption

\* On every graph and for every limit, the search refuses a value only when a path
\* of more levels than half of POINTLESS_MAX_DEPTH leads into it from the root,
\* and refuses every tree that has one.
THEOREM DepthIsLimited == Spec => []DepthLimit
<1>1. Init => NestingInv
  <2> SUFFICES ASSUME Init PROVE NestingInv
    OBVIOUS
  <2>1. frames = <<>> /\ DOMAIN frames = {} /\ DOMAIN visited = {} /\ status = "init"
    BY EmptyJudy DEF Init
  <2> QED BY <2>1 DEF NestingInv, ChainInv, LevelInv
<1>2. TypeOK /\ SearchInv /\ NestingInv /\ [Next]_vars => NestingInv'
  BY NestingInvStep
<1>3. TypeOK /\ NestingInv /\ SearchIsComplete => DepthLimit
  BY TreeWithinLimit DEF NestingInv, DepthLimit, Levels
<1> QED
  BY <1>1, <1>2, <1>3, TypeCorrect, SearchInvariant, MarkerIsComplete, PTL DEF Spec
=============================================================================
