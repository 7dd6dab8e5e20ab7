---------------------------- MODULE CycleMarker ----------------------------
(***************************************************************************)
(* The cycle detection of pointless_cycle_marker.c: a depth-first search   *)
(* in the style of Tarjan over the containers of a value graph, whose      *)
(* result is the bitmask "cycle_marker".  The serializer turns every       *)
(* vector that is not marked into a hashable one, and the validator        *)
(* rejects a hashable vector that is marked.                               *)
(*                                                                         *)
(* The recursion of pointless_cycle_marker_visit is the variable frames:   *)
(* frame k is the activation at nesting level k - 1.  The pre-order        *)
(* number "count" is passed down by value and never handed back, so it is  *)
(* the nesting level and siblings share it; "depth" grows by two for each  *)
(* level, once in visit and once in process_child.                         *)
(***************************************************************************)
EXTENDS Naturals, FiniteSets, SequencesExt

CONSTANTS
    Container,  \* the ids fn_container_id yields
    Leaf,       \* the values for which fn_is_container is false
    MaxDepth,   \* POINTLESS_MAX_DEPTH
    NNodes,     \* fn_n_nodes
    Graphs,     \* the value graphs considered: what fn_child_at yields
    Roots       \* the values considered for fn_get_root

Value == Container \cup Leaf

ASSUME LeafAssumption == Leaf \cap Container = {}
ASSUME DepthAssumption == MaxDepth \in Nat
\* Both users count at least the containers: pointless_n_containers in the
\* reader, the length of c->values in the serializer.
ASSUME CountAssumption == IsFiniteSet(Container) /\ NNodes \in Nat
                          /\ Cardinality(Container) <= NNodes
ASSUME GraphAssumption == Graphs \subseteq [Container -> Seq(Value)]
ASSUME RootAssumption == Roots \subseteq Value

VARIABLES
    children,   \* the value graph, fixed
    start,      \* fn_get_root, fixed
    frames,     \* the activations of pointless_cycle_marker_visit
    root,       \* root_judy
    visited,    \* visited_judy
    component,  \* the keys of component_judy (its values are never read)
    stack,      \* the node stack
    marked,     \* the bits set in cycle_marker
    status      \* "running", "ok", or the error string

graph == <<children, start>>
search == <<root, visited, component, stack, marked>>
vars == <<children, start, frames, root, visited, component, stack, marked, status>>

Running == {"init", "running"}
Status == Running \cup {"ok", "oom", "too_deep", "internal"}

\* A Judy array is a function on the keys that are present.
JudyIns(f, k, x) == [j \in DOMAIN f \cup {k} |-> IF j = k THEN x ELSE f[j]]

Top == frames[Len(frames)]
HasChild == frames # <<>> /\ Top.i <= Len(children[Top.v])
Child == children[Top.v][Top.i]
Exhausted == frames # <<>> /\ Top.i > Len(children[Top.v])

NextChild == frames' = [frames EXCEPT ![Len(frames)].i = @ + 1]

Init ==
    /\ children \in Graphs
    /\ start \in Roots
    /\ frames = <<>>
    /\ root = <<>>
    /\ visited = <<>>
    /\ component = {}
    /\ stack = <<>>
    /\ marked = {}
    /\ status = "init"

-----------------------------------------------------------------------------
(* pointless_cycle_marker_visit(v) *)

\* Faulty variant: depth grows by one for each level.
VisitErrorHalfDepth ==
    IF Len(frames) >= MaxDepth THEN "too_deep"
    ELSE IF Len(frames) >= NNodes THEN "internal"
    ELSE "running"

\* The two guards at the head of the function, in their order.
VisitError ==
    IF 2 * Len(frames) >= MaxDepth THEN "too_deep"
    ELSE IF Len(frames) >= NNodes THEN "internal"
    ELSE "running"

Visit(v) ==
    /\ status' = VisitError
    /\ IF status' = "running"
         THEN /\ frames' = Append(frames, [v |-> v, i |-> 1])
              /\ root' = JudyIns(root, v, Len(frames))
              /\ visited' = JudyIns(visited, v, Len(frames))
              /\ stack' = Append(stack, v)
         ELSE UNCHANGED <<frames, root, visited, stack>>
    /\ UNCHANGED <<children, start, component, marked>>

\* pointless_cycle_marker: visit the root, if it is a container at all.
Start ==
    /\ status = "init"
    /\ start \in Container
    /\ Visit(start)

StartLeaf ==
    /\ status = "init"
    /\ start \notin Container
    /\ status' = "ok"
    /\ UNCHANGED <<children, start, frames, root, visited, component, stack, marked>>

\* Faulty variant: the child index is not advanced.
SkipLeafForever ==
    /\ status = "running" /\ HasChild
    /\ Child \notin Container
    /\ UNCHANGED vars

\* process_child on a value that is no container returns at once.
SkipLeaf ==
    /\ status = "running" /\ HasChild
    /\ Child \notin Container
    /\ NextChild
    /\ UNCHANGED <<children, start, root, visited, component, stack, marked, status>>

\* "this algorithm does not support single-node cycles"
SelfLoop ==
    /\ status = "running" /\ HasChild
    /\ Child = Top.v
    /\ marked' = marked \cup {Top.v}
    /\ NextChild
    /\ UNCHANGED <<children, start, root, visited, component, stack, status>>

\* process_child: if w not in visited: visit(w, count).
Descend ==
    /\ status = "running" /\ HasChild
    /\ Child \in Container /\ Child # Top.v
    /\ Child \notin DOMAIN visited
    /\ Visit(Child)

\* Faulty variant: root[v] is never lowered.
LinkWithoutMin ==
    /\ status = "running" /\ HasChild
    /\ Child \in Container /\ Child # Top.v
    /\ Child \in DOMAIN visited
    /\ NextChild
    /\ UNCHANGED <<children, start, root, visited, component, stack, marked, status>>

\* process_child: if w not in component: root[v] = min(root[v], root[w]).
\* After Descend(w) returns, this is the step that the caller continues with.
Link ==
    /\ status = "running" /\ HasChild
    /\ Child \in Container /\ Child # Top.v
    /\ Child \in DOMAIN visited
    /\ IF Child \in component
         THEN NextChild /\ UNCHANGED <<root, status>>
         ELSE IF {Top.v, Child} \subseteq DOMAIN root
           THEN /\ root' = IF root[Child] < root[Top.v]
                             THEN JudyIns(root, Top.v, root[Child]) ELSE root
                /\ NextChild
                /\ UNCHANGED status
           ELSE status' = "internal" /\ UNCHANGED <<frames, root>>
    /\ UNCHANGED <<children, start, visited, component, stack, marked>>

\* Faulty variant: the members of a component are not marked.
PopMemberUnmarked ==
    /\ status = "running" /\ Exhausted
    /\ root[Top.v] = visited[Top.v]
    /\ stack # <<>> /\ Last(stack) # Top.v
    /\ component' = component \cup {Last(stack)}
    /\ stack' = Front(stack)
    /\ UNCHANGED <<children, start, frames, root, visited, marked, status>>

\* while stack[-1] != v: w = stack.pop(), mark w, component[w] = root[v].
\* (component[v] is set before this loop in the code; nothing reads it there,
\* so it is part of CloseRoot.)
PopMember ==
    /\ status = "running" /\ Exhausted
    /\ root[Top.v] = visited[Top.v]
    /\ stack # <<>> /\ Last(stack) # Top.v
    /\ marked' = marked \cup {Last(stack)}
    /\ component' = component \cup {Last(stack)}
    /\ stack' = Front(stack)
    /\ UNCHANGED <<children, start, frames, root, visited, status>>

\* return to process_child, or to pointless_cycle_marker.
Return ==
    /\ frames' = Front(frames)
    /\ status' = IF Len(frames) = 1 THEN "ok" ELSE "running"

\* Faulty variant: the root of a component is marked like its members.
CloseRootMarked ==
    /\ status = "running" /\ Exhausted
    /\ root[Top.v] = visited[Top.v]
    /\ stack # <<>> /\ Last(stack) = Top.v
    /\ marked' = marked \cup {Top.v}
    /\ component' = component \cup {Top.v}
    /\ stack' = Front(stack)
    /\ Return
    /\ UNCHANGED <<children, start, root, visited>>

\* stack.pop() of the component's root, which is not marked here.
CloseRoot ==
    /\ status = "running" /\ Exhausted
    /\ root[Top.v] = visited[Top.v]
    /\ stack # <<>> /\ Last(stack) = Top.v
    /\ component' = component \cup {Top.v}
    /\ stack' = Front(stack)
    /\ Return
    /\ UNCHANGED <<children, start, root, visited, marked>>

\* root[v] # visited[v]: v stays on the stack for an ancestor to pop.
LeaveMember ==
    /\ status = "running" /\ Exhausted
    /\ root[Top.v] # visited[Top.v]
    /\ Return
    /\ UNCHANGED <<children, start, root, visited, component, stack, marked>>

\* calloc, a JudyLIns or a push fails: the caller gets no marker.
OutOfMemory ==
    /\ status \in Running
    /\ status' = "oom"
    /\ UNCHANGED <<children, start, frames, root, visited, component, stack, marked>>

Step ==
    \/ Start \/ StartLeaf \/ SkipLeaf \/ SelfLoop \/ Descend
    \/ Link \/ PopMember \/ CloseRoot \/ LeaveMember

Next == Step \/ OutOfMemory

Spec == Init /\ [][Next]_vars

\* The search is one thread in a loop that nothing blocks.
FairSpec == Spec /\ WF_vars(Step)

-----------------------------------------------------------------------------
Frame == [v : Container, i : Nat \ {0}]

TypeOK ==
    /\ children \in [Container -> Seq(Value)]
    /\ start \in Value
    /\ frames \in Seq(Frame)
    /\ DOMAIN visited \subseteq Container
    /\ visited \in [DOMAIN visited -> Nat]
    /\ root \in [DOMAIN visited -> Nat]
    /\ component \subseteq Container
    /\ stack \in Seq(Container)
    /\ marked \subseteq Container
    /\ status \in Status

Succ(v) == {children[v][j] : j \in DOMAIN children[v]} \cap Container
Active == {frames[k].v : k \in DOMAIN frames}

\* A set of containers each of which has a successor in the set is what a
\* cycle among finitely many containers comes to.
Acyclic(S) == \A T \in SUBSET S : T # {} => \E v \in T : Succ(v) \cap T = {}

\* Every cycle of containers passes through a marked one, so that a recursion
\* which turns back at marked containers ends.  It is what the serializer and
\* the validator need of the marker, and it survives although the pre-order
\* numbers of siblings coincide (pointless_cycle_marker.c:215).
CyclesAreBroken == Acyclic(component \ marked)

\* v lies on a cycle: every set that contains the successors of v and is
\* closed under successors contains v.
OnCycle(v) ==
    \A T \in SUBSET Container :
        (Succ(v) \subseteq T /\ \A u \in T : Succ(u) \subseteq T) => v \in T

\* No container is marked without reason: a vector that is on no cycle stays
\* hashable (pointless_create.c:794), whatever the order of the children.
MarksAreOnCycles == status = "ok" => \A v \in marked : OnCycle(v)

\* "all hashable vectors are not part of a cycle" (pointless_validate.h:31), where
\* the hashable vectors are those the marker leaves unmarked.
HashableNotOnCycle == status = "ok" => \A v \in component \ marked : ~OnCycle(v)

\* The marker is finished when every container reachable from the root has
\* been visited and given a component, with nothing left on the node stack.
SearchIsComplete ==
    status = "ok" =>
        /\ stack = <<>>
        /\ component = DOMAIN visited
        /\ start \in Container => start \in DOMAIN visited
        /\ \A v \in DOMAIN visited : Succ(v) \subseteq DOMAIN visited

\* The "internal error" reports of visit and process_child are unreachable.
NoInternalError == status # "internal"

\* A path of n containers from the root.
HasNesting(n) ==
    \E p \in [1..n -> Container] :
        /\ n > 0 => p[1] = start
        /\ \A j, k \in 1..n : p[j] = p[k] => j = k
        /\ \A j \in 1..(n - 1) : p[j + 1] \in Succ(p[j])

\* Every container is the child of at most one other: there is one way to it.
IsTree == \A u, v, w \in Container : w \in Succ(u) \cap Succ(v) => u = v

\* depth starts at 0 and grows by two, so half of POINTLESS_MAX_DEPTH levels
\* are allowed: nothing shallower is refused, and a value without sharing that
\* is deeper is never accepted.  (A shared container may have been visited at a
\* smaller depth than its deepest occurrence, and is then not counted again.)
DepthLimit ==
    LET levels == (MaxDepth + 1) \div 2
    IN  /\ status = "too_deep" => HasNesting(levels + 1)
        /\ status = "ok" /\ IsTree => ~HasNesting(levels + 1)

\* The search ends: with a marker or with an error.
Terminates == <>(status \notin Running)

-----------------------------------------------------------------------------
(* The inductive invariant behind CyclesAreBroken, SearchIsComplete and     *)
(* NoInternalError.                                                         *)

OnStack == {stack[p] : p \in DOMAIN stack}

\* The activations are numbered by their level, and children are taken in turn.
FramesInv ==
    /\ \A k \in DOMAIN frames :
          /\ frames[k].v \in DOMAIN visited
          /\ visited[frames[k].v] = k - 1
          /\ frames[k].i <= Len(children[frames[k].v]) + 1
    /\ status = "init" => DOMAIN visited = {} /\ frames = <<>> /\ stack = <<>>
    /\ status = "running" => frames # <<>>
    /\ status = "ok" => frames = <<>>

\* A visited container is on the stack or in a component, once; the activations
\* are on the stack in their order, the first at its bottom.
StackInv ==
    /\ component \cap OnStack = {}
    /\ component \cup OnStack = DOMAIN visited
    /\ \A p, q \in DOMAIN stack : stack[p] = stack[q] => p = q
    /\ \A k, l \in DOMAIN frames : k <= l =>
          \E p, q \in DOMAIN stack :
              p <= q /\ stack[p] = frames[k].v /\ stack[q] = frames[l].v
    /\ frames # <<>> => stack # <<>> /\ stack[1] = frames[1].v
    /\ status = "ok" => stack = <<>>

\* A child that has been dealt with is visited; while it is active it is v
\* itself, which is then marked, or it bounds root[v].
EdgeInv ==
    /\ \A v \in DOMAIN visited : root[v] <= visited[v]
    /\ \A k \in DOMAIN frames : \A j \in 1..(frames[k].i - 1) :
          LET v == frames[k].v
              w == children[v][j]
          IN  w \in Container =>
                /\ w \in DOMAIN visited
                /\ w = v => v \in marked
                /\ w \in Active => root[v] <= visited[w]

\* The children of a container that is no longer active are visited; those of an
\* unmarked container with a component are not even active.  They need not have
\* a component: two activations of the same level can close it before them.
SettledInv ==
    /\ \A u \in DOMAIN visited \ Active : Succ(u) \subseteq DOMAIN visited
    /\ \A u \in component \ marked : Succ(u) \cap Active = {}

\* The root of the graph is the first container visited.
RootInv == status \in {"running", "ok"} /\ start \in Container => start \in DOMAIN visited

SearchInv == FramesInv /\ StackInv /\ EdgeInv /\ SettledInv

-----------------------------------------------------------------------------
(* The inductive invariant behind MarksAreOnCycles. *)

\* x can be reached from u along edges: it is in every set that contains u and
\* is closed under successors.
Reaches(u, x) ==
    \A T \in SUBSET Container :
        (u \in T /\ \A w \in T : Succ(w) \subseteq T) => x \in T

\* What lies above an active container on the node stack was found from it.
DescendInv ==
    \A k \in DOMAIN frames : \A p, q \in DOMAIN stack :
        p <= q /\ stack[p] = frames[k].v => Reaches(stack[p], stack[q])

\* What lies on the node stack has a way back to an active container at or below
\* it, at a level that root does not undercut.
AscendInv ==
    \A q \in DOMAIN stack : \E k \in DOMAIN frames : \E p \in DOMAIN stack :
        /\ p <= q
        /\ stack[p] = frames[k].v
        /\ k - 1 <= root[stack[q]]
        /\ Reaches(stack[q], stack[p])

MarkInv == DescendInv /\ AscendInv /\ \A v \in marked : OnCycle(v)

(* The inductive invariant behind DepthLimit. *)

Levels == (MaxDepth + 1) \div 2

\* The activations are a path from the root.
ChainInv ==
    /\ frames # <<>> => frames[1].v = start
    /\ \A k \in DOMAIN frames : k > 1 => frames[k].v \in Succ(frames[k - 1].v)

\* Every visited container but the root has a parent one level above it.
LevelInv ==
    \A w \in DOMAIN visited :
        /\ 2 * visited[w] < MaxDepth
        /\ IF w = start THEN visited[w] = 0
           ELSE \E u \in DOMAIN visited : w \in Succ(u) /\ visited[w] = visited[u] + 1

NestingInv == ChainInv /\ LevelInv /\ (status = "too_deep" => HasNesting(Levels + 1))
=============================================================================
