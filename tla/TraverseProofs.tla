--------------------------- MODULE TraverseProofs ---------------------------
(***************************************************************************)
(* Proofs about Traverse: whatever objects a program has and whatever the  *)
(* file of its views holds, a caller is told of an error exactly when one  *)
(* is pending, the walks are nested no deeper than the limit and the       *)
(* containers of the file allow, and what is written mirrors the objects:  *)
(* one handle for each container and one container for each handle.        *)
(***************************************************************************)
EXTENDS Traverse, FiniteSetTheorems, SequenceTheorems, WellFoundedInduction, TLAPS

Node == Obj \cup Val

-----------------------------------------------------------------------------
(* The graph. *)

\* An error is told from none.
LEMMA ErrorsAreNotNone ==
  /\ \A e \in Errors : e # None
  /\ None # "raised" /\ None # "written"
  BY NoneIsNone

\* Only Python objects are views or refused.
LEMMA FileKinds ==
  ASSUME NEW n, InFile(n)
  PROVE  KindOf(n) \in Leaf \cup Container /\ KindOf(n) # "view" /\ KindOf(n) # "bad"
<1>1. n \in Val /\ FileKind[n] \in Leaf \cup Container
  BY TraverseConstants DEF InFile
<1>2. KindOf(n) = FileKind[n]
  BY <1>1 DEF KindOf, InFile
<1> QED
  BY <1>1, <1>2 DEF Leaf, Container

\* The kinds of the graph's nodes.
LEMMA KindType ==
  ASSUME TypeOK, NEW n \in Obj \cup Val
  PROVE  KindOf(n) \in Leaf \cup Container \cup {"view", "bad"}
<1>1. CASE InFile(n)
  BY <1>1, FileKinds
<1>2. CASE ~InFile(n)
  <2>1. n \in Obj /\ KindOf(n) = kind[n]
    BY <1>2 DEF KindOf, InFile
  <2> QED
    BY <2>1 DEF TypeOK
<1> QED
  BY <1>1, <1>2

\* Bounded sequences are sequences.
LEMMA SeqsFacts ==
  ASSUME NEW S, NEW m, m \in Nat, NEW s \in Seqs(S, m)
  PROVE  s \in Seq(S) /\ \A i \in 1..Len(s) : s[i] \in S
<1>1. PICK k \in 0..m : s \in [1..k -> S]
  BY DEF Seqs
<1>2. s \in Seq(S)
  BY <1>1
<1> QED
  BY <1>2

\* What containers hold is on their own side, and a view is of the file.
LEMMA KidsAreNear ==
  ASSUME TypeOK, GraphInv, NEW n \in Obj \cup Val, KindOf(n) \in Container \cup {"view"}
  PROVE  /\ KindOf(n) \in Container =>
              \A i \in 1..Len(KidsOf(n)) :
                KidsOf(n)[i] \in Obj \cup Val /\ (InFile(KidsOf(n)[i]) <=> InFile(n))
         /\ KindOf(n) = "view" => kids[n][1] \in Val
<1>1. CASE InFile(n)
  <2>1. KidsOf(n) = FileKids[n] /\ n \in Val /\ FileKids[n] \in Seq(Val) /\ KindOf(n) # "view"
    BY <1>1, TraverseConstants, FileKinds DEF KidsOf, InFile
  <2> QED
    BY <1>1, <2>1 DEF InFile
<1>2. CASE ~InFile(n)
  <2>1. KidsOf(n) = kids[n] /\ n \in Obj /\ kids[n] \in KidsFor(kind[n]) /\ KindOf(n) = kind[n]
    BY <1>2 DEF KidsOf, KindOf, InFile, GraphInv
  <2>2. CASE kind[n] \in Container
    <3>1. \/ kids[n] \in Seqs(Obj, MaxKids)
          \/ kids[n] \in Seqs(Obj, 2 * MaxKids)
      BY <2>1, <2>2 DEF KidsFor, Container
    <3>2. MaxKids \in Nat /\ 2 * MaxKids \in Nat
      BY TraverseConstants
    <3>3. \A i \in 1..Len(kids[n]) : kids[n][i] \in Obj
      BY <3>1, <3>2, SeqsFacts
    <3>4. kind[n] # "view"
      BY <2>2 DEF Container
    <3> QED
      BY <1>2, <2>1, <3>3, <3>4, TraverseConstants DEF InFile
  <2>3. CASE kind[n] = "view"
    <3>1. kids[n] \in {<<v>> : v \in ViewOf}
      BY <2>1, <2>3 DEF KidsFor
    <3>2. PICK v \in ViewOf : kids[n] = <<v>>
      BY <3>1
    <3>3. kids[n][1] \in Val
      BY <3>2, TraverseConstants
    <3> QED
      BY <2>1, <2>3, <3>3 DEF Container
  <2> QED
    BY <2>1, <2>2, <2>3
<1> QED
  BY <1>1, <1>2

\* The graph does not change during a call.
LEMMA GraphKept ==
  ASSUME GraphInv, UNCHANGED graph
  PROVE  /\ GraphInv'
         /\ client' = client /\ start' = start /\ kind' = kind /\ kids' = kids
<1>1. client' = client /\ start' = start /\ kind' = kind /\ kids' = kids
  BY DEF graph
<1> QED
  BY <1>1 DEF GraphInv, KidsFor, Seqs, Odd

-----------------------------------------------------------------------------
(* The calls in progress. *)

\* What calls there are below one for the file, and in pointless_recreate_64.
LEMMA CallsInFile ==
  ASSUME TypeOK, NestInv
  PROVE  /\ ~FileBelow(Len(stack)) => \A k \in DOMAIN stack : ~InFile(stack[k].at)
         /\ client = "recreate" => /\ FileBelow(Len(stack))
                                   /\ \A k \in DOMAIN stack : InFile(stack[k].at)
<1> DEFINE n == Len(stack)
<1>1. n \in Nat /\ DOMAIN stack = 1..n
  BY DEF TypeOK
<1>2. \A k, l \in 1..n : k < l /\ InFile(stack[k].at) => InFile(stack[l].at)
  BY <1>1 DEF NestInv
<1>3. \A k \in 1..n : InFile(stack[k].at) <=> FileBelow(k - 1)
  BY <1>1 DEF NestInv, FrameInv
<1>4. ASSUME NEW k \in 1..n, InFile(stack[k].at) PROVE FileBelow(n)
  <2>1. InFile(stack[n].at)
    BY <1>1, <1>2, <1>4
  <2> QED
    BY <1>1, <2>1 DEF FileBelow
<1>5. ASSUME client = "recreate" PROVE \A k \in 1..n : InFile(stack[k].at)
  <2>1. FileBelow(0)
    BY <1>5 DEF FileBelow
  <2>2. n > 0 => InFile(stack[1].at)
    BY <1>1, <1>3, <2>1
  <2> QED
    BY <1>1, <1>2, <2>2
<1>6. client = "recreate" => FileBelow(n)
  BY <1>1, <1>5 DEF FileBelow
<1> QED
  BY <1>1, <1>4, <1>5, <1>6

\* The frame on top.
LEMMA TopFacts ==
  ASSUME TypeOK, NestInv, stack # <<>>
  PROVE  /\ Len(stack) \in Nat \ {0} /\ Len(stack) \in DOMAIN stack
         /\ Top \in Frames /\ Top.at \in Obj \cup Val /\ Top.handle \in Nat
         /\ FrameInv(Len(stack))
         /\ Pop \in Seq(Frames) /\ Len(Pop) = Len(stack) - 1
         /\ \A k \in 1..Len(Pop) : Pop[k] = stack[k]
         /\ FileBelow(Len(stack)) <=> (InFile(Top.at) \/ KindOf(Top.at) = "view")
         /\ InFile(Top.at) <=> FileBelow(Len(stack) - 1)
<1>1. stack \in Seq(Frames)
  BY DEF TypeOK
<1>2. Len(stack) \in Nat \ {0} /\ Len(stack) \in DOMAIN stack
  BY <1>1
<1>3. Top \in Frames
  BY <1>1, <1>2 DEF Top
<1>4. Top.at \in Obj \cup Val /\ Top.handle \in Nat
  BY <1>3 DEF Frames
<1>5. FrameInv(Len(stack))
  BY <1>2 DEF NestInv
<1>6. Pop \in Seq(Frames) /\ Len(Pop) = Len(stack) - 1 /\ \A k \in 1..Len(Pop) : Pop[k] = stack[k]
  <2>1. Len(stack) - 1 \in Int /\ 1 \in Int /\ \A k \in 1..(Len(stack) - 1) : stack[k] \in Frames
    BY <1>1, <1>2
  <2>2. /\ SubSeq(stack, 1, Len(stack) - 1) \in Seq(Frames)
        /\ Len(SubSeq(stack, 1, Len(stack) - 1))
             = IF 1 <= Len(stack) - 1 THEN Len(stack) - 1 - 1 + 1 ELSE 0
        /\ \A k \in 1..(Len(stack) - 1 - 1 + 1) :
             SubSeq(stack, 1, Len(stack) - 1)[k] = stack[1 + k - 1]
    BY <2>1, SubSeqProperties
  <2> DEFINE Length(n) == IF 1 <= n - 1 THEN n - 1 - 1 + 1 ELSE 0
  <2>3. \A n \in Nat \ {0} : Length(n) = n - 1
    OBVIOUS
  <2>4. Len(Pop) = Length(Len(stack))
    BY <2>2 DEF Pop
  <2> HIDE DEF Length
  <2>5. Len(Pop) = Len(stack) - 1
    BY <1>2, <2>3, <2>4
  <2>6. \A k \in 1..Len(Pop) : Pop[k] = stack[k]
    <3>1. \A k \in 1..(Len(stack) - 1) : k \in 1..(Len(stack) - 1 - 1 + 1) /\ 1 + k - 1 = k
      BY <1>2
    <3> QED
      BY <2>2, <2>5, <3>1 DEF Pop
  <2> QED
    BY <2>2, <2>5, <2>6 DEF Pop
<1>7. FileBelow(Len(stack)) <=> (InFile(Top.at) \/ KindOf(Top.at) = "view")
  BY <1>2 DEF FileBelow, Top
<1>8. InFile(Top.at) <=> FileBelow(Len(stack) - 1)
  BY <1>5 DEF FrameInv, Top
<1> QED
  BY <1>2, <1>3, <1>4, <1>5, <1>6, <1>7, <1>8

\* What NestInv says of the calls alone.
FramesInv ==
  /\ \A k \in DOMAIN stack : FrameInv(k)
  /\ \A k, l \in DOMAIN stack :
       k < l /\ InFile(stack[k].at) => InFile(stack[l].at) /\ stack[k].at # stack[l].at

\* Calls return, or move on, and nothing that the others need is forgotten.
LEMMA FramesKept ==
  ASSUME TypeOK, GraphInv, NestInv, UNCHANGED graph,
         stack' \in Seq(Frames), Len(stack') <= Len(stack), Len(values') >= Len(values),
         values' \in Seq(Written),
         \A k \in 1..Len(stack') : stack'[k].at = stack[k].at /\ stack'[k].handle = stack[k].handle,
         \A k \in 1..Len(stack') :
           InFile(stack[k].at) => mapping'[stack[k].at] # Fail,
         \A k \in 1..Len(stack') :
           InFile(stack[k].at) /\ KindOf(stack[k].at) = "dict" /\ stack'[k].i % 2 = 0
             => stack'[k].key # Fail
  PROVE  FramesInv' /\ \A k \in 0..Len(stack') : FileBelow(k)' <=> FileBelow(k)
<1>2. client' = client /\ kind' = kind
  BY DEF graph
<1>3. /\ Len(stack) \in Nat /\ Len(stack') \in Nat /\ DOMAIN stack = 1..Len(stack)
      /\ DOMAIN stack' = 1..Len(stack') /\ DOMAIN stack' \subseteq DOMAIN stack
  BY DEF TypeOK
<1>4. DOMAIN values \subseteq DOMAIN values'
  BY DEF TypeOK
<1>5. ASSUME NEW k \in 0..Len(stack') PROVE FileBelow(k)' <=> FileBelow(k)
  <2>1. CASE k = 0
    BY <1>2, <2>1 DEF FileBelow
  <2>2. CASE k # 0
    <3>1. stack'[k].at = stack[k].at
      BY <1>3, <2>2
    <3> QED
      BY <1>2, <2>2, <3>1 DEF FileBelow, InFile, KindOf
  <2> QED
    BY <2>1, <2>2
<1>6. ASSUME NEW k \in DOMAIN stack' PROVE FrameInv(k)'
  <2>1. k \in 1..Len(stack') /\ k - 1 \in 0..Len(stack') /\ k \in DOMAIN stack
    BY <1>3
  <2>2. FrameInv(k)
    BY <2>1 DEF NestInv
  <2>3. stack'[k].at = stack[k].at /\ stack'[k].handle = stack[k].handle
    BY <2>1
  <2>4. FileBelow(k - 1)' <=> FileBelow(k - 1)
    BY <1>5, <2>1
  <2>6. /\ KindOf(stack[k].at) \in Container \cup {"view"}
        /\ KindOf(stack[k].at) \in Container => stack[k].handle \in DOMAIN values'
        /\ InFile(stack[k].at) <=> FileBelow(k - 1)
        /\ ~InFile(stack[k].at) => k <= MaxDepth
    BY <1>4, <2>2 DEF FrameInv
  <2>7. InFile(stack[k].at) => mapping'[stack[k].at] # Fail
    BY <2>1
  <2>8. InFile(stack[k].at) /\ KindOf(stack[k].at) = "dict" /\ stack'[k].i % 2 = 0
          => stack'[k].key # Fail
    BY <2>1
  <2> QED
    BY <1>2, <2>3, <2>4, <2>6, <2>7, <2>8 DEF FrameInv, InFile, KindOf
<1>7. ASSUME NEW k \in DOMAIN stack', NEW l \in DOMAIN stack', k < l, InFile(stack'[k].at)
      PROVE  InFile(stack'[l].at) /\ stack'[k].at # stack'[l].at
  <2>1. k \in DOMAIN stack /\ l \in DOMAIN stack /\ stack'[k].at = stack[k].at /\ stack'[l].at = stack[l].at
    BY <1>3
  <2>2. InFile(stack[k].at)
    BY <1>7, <2>1
  <2>3. InFile(stack[l].at) /\ stack[k].at # stack[l].at
    BY <1>7, <2>1, <2>2 DEF NestInv
  <2> QED
    BY <2>1, <2>3
<1> QED
  BY <1>5, <1>6, <1>7 DEF FramesInv, InFile

\* A call begins: for a Python object, or for a value that was not remembered.
LEMMA FramesPushed ==
  ASSUME TypeOK, GraphInv, NestInv, UNCHANGED graph,
         NEW n \in Obj \cup Val, KindOf(n) \in Container \cup {"view"}, ~TooDeep(n),
         InFile(n) <=> FileBelow(Len(stack)),
         NEW h \in Nat, stack' = Append(stack, Frame(n, h)),
         Len(values') >= Len(values), values' \in Seq(Written),
         KindOf(n) \in Container => h \in DOMAIN values',
         \A k \in DOMAIN stack : InFile(stack[k].at) => mapping'[stack[k].at] # Fail,
         InFile(n) => mapping[n] = Fail /\ mapping'[n] # Fail
  PROVE  /\ stack' \in Seq(Frames) /\ stack' # <<>> /\ Len(stack') = Len(stack) + 1
         /\ FramesInv' /\ Top' = Frame(n, h)
         /\ FileBelow(Len(stack))' <=> (InFile(n) \/ KindOf(n) = "view")
<1>1. PICK m : m = Len(stack)
  OBVIOUS
<1>2. client' = client /\ kind' = kind
  BY DEF graph
<1>3. stack \in Seq(Frames) /\ m = Len(stack) /\ m \in Nat /\ DOMAIN stack = 1..m
  BY <1>1 DEF TypeOK
<1>4. Frame(n, h) \in Frames /\ Frame(n, h).at = n /\ Frame(n, h).handle = h /\ Frame(n, h).i = 1
  BY DEF Frame, Frames, Fail
<1>5. /\ stack' \in Seq(Frames) /\ Len(stack') = m + 1 /\ DOMAIN stack' = 1..(m + 1)
      /\ stack'[m + 1] = Frame(n, h) /\ \A k \in 1..m : stack'[k] = stack[k]
      /\ stack' # <<>>
  BY <1>3, <1>4
<1>6. Top' = Frame(n, h)
  BY <1>5 DEF Top
<1>7. DOMAIN values \subseteq DOMAIN values'
  BY DEF TypeOK
<1>8. ASSUME NEW k \in 0..m PROVE FileBelow(k)' <=> FileBelow(k)
  <2>1. CASE k = 0
    BY <1>2, <2>1 DEF FileBelow
  <2>2. CASE k # 0
    <3>1. stack'[k].at = stack[k].at
      BY <1>3, <1>5, <2>2
    <3> QED
      BY <1>2, <2>2, <3>1 DEF FileBelow, InFile, KindOf
  <2> QED
    BY <2>1, <2>2
<1>9. ASSUME NEW k \in 1..m PROVE FrameInv(k)'
  <2>1. FrameInv(k)
    BY <1>3 DEF NestInv
  <2>2. stack'[k] = stack[k] /\ k - 1 \in 0..m
    BY <1>3, <1>5
  <2>3. FileBelow(k - 1)' <=> FileBelow(k - 1)
    BY <1>8, <2>2
  <2>4. /\ KindOf(stack[k].at) \in Container \cup {"view"}
        /\ KindOf(stack[k].at) \in Container => stack[k].handle \in DOMAIN values'
        /\ InFile(stack[k].at) <=> FileBelow(k - 1)
        /\ ~InFile(stack[k].at) => k <= MaxDepth
        /\ InFile(stack[k].at) /\ KindOf(stack[k].at) = "dict" /\ stack[k].i % 2 = 0
             => stack[k].key # Fail
    BY <1>7, <2>1 DEF FrameInv
  <2>5. InFile(stack[k].at) => mapping'[stack[k].at] # Fail
    BY <1>3
  <2> QED
    BY <1>2, <2>2, <2>3, <2>4, <2>5 DEF FrameInv, InFile, KindOf
<1>10. FrameInv(m + 1)'
  <2>1. m + 1 - 1 = m /\ m \in 0..m
    BY <1>3
  <2>2. FileBelow(m + 1 - 1)' <=> FileBelow(m)
    BY <1>8, <2>1
  <2>3. ~InFile(n) => m + 1 <= MaxDepth
    BY <1>3, TraverseConstants DEF TooDeep, Depth
  <2>4. 1 % 2 # 0
    OBVIOUS
  <2> QED
    BY <1>2, <1>3, <1>4, <1>5, <2>2, <2>3, <2>4 DEF FrameInv, InFile, KindOf
<1>11. ASSUME NEW k \in 1..(m + 1), NEW l \in 1..(m + 1), k < l, InFile(stack'[k].at)
       PROVE  InFile(stack'[l].at) /\ stack'[k].at # stack'[l].at
  <2>1. k \in 1..m /\ stack'[k] = stack[k] /\ InFile(stack[k].at)
    BY <1>3, <1>5, <1>11
  <2>2. CASE l \in 1..m
    <3>1. InFile(stack[l].at) /\ stack[k].at # stack[l].at /\ stack'[l] = stack[l]
      BY <1>3, <1>5, <1>11, <2>1, <2>2 DEF NestInv
    <3> QED
      BY <2>1, <3>1
  <2>3. CASE l = m + 1
    <3>1. FileBelow(m)
      BY <1>3, <2>1, CallsInFile
    <3>2. InFile(n) /\ mapping[n] = Fail
      BY <1>3, <3>1
    <3>3. mapping[stack[k].at] # Fail
      BY <1>3, <2>1 DEF NestInv, FrameInv
    <3>4. stack'[l].at = n
      BY <1>4, <1>5, <2>3
    <3> QED
      BY <2>1, <3>2, <3>3, <3>4
  <2> QED
    BY <1>3, <2>2, <2>3
<1>12. FramesInv'
  <2>1. \A k \in 1..(m + 1) : FrameInv(k)'
    BY <1>3, <1>9, <1>10
  <2> QED
    BY <1>5, <1>11, <2>1 DEF FramesInv, InFile
<1>13. FileBelow(m + 1)' <=> (InFile(n) \/ KindOf(n) = "view")
  <2>1. m + 1 # 0
    BY <1>3
  <2> QED
    BY <1>2, <1>4, <1>5, <2>1 DEF FileBelow, InFile, KindOf
<1> QED
  BY <1>3, <1>5, <1>6, <1>12, <1>13

-----------------------------------------------------------------------------
(* What every step of a walk has to show. *)

\* The last two parts of NestInv.
ControlInv ==
  /\ ctl.mode = "call" => (InFile(ctl.node) <=> FileBelow(Len(stack)))
  /\ ctl.mode = "loop" => stack # <<>> /\ KindOf(Top.at) \in Container

\* WalkInv from what a step of the walk can disturb.
LEMMA StepShown ==
  ASSUME GraphInv, UNCHANGED graph, TypeOK', FramesInv', ControlInv', ErrorInv',
         result' = None
  PROVE  WalkInv'
<1>1. GraphInv'
  BY GraphKept
<1>2. NestInv'
  BY DEF FramesInv, ControlInv, NestInv
<1>3. OutcomeIsReported'
  BY DEF OutcomeIsReported
<1> QED
  BY <1>1, <1>2, <1>3 DEF WalkInv

\* The error of a walk over Python objects is noted, that of a walk over the
\* file is left to its caller.
LEMMA RaiseFacts ==
  ASSUME TypeOK, NEW n, NEW e \in Errors, Raise(n, e)
  PROVE  /\ err' = e /\ err' \in Errors /\ err' # None /\ is_error' \in BOOLEAN
         /\ ctl' = Return(Fail) /\ UNCHANGED graph /\ UNCHANGED final
         /\ ~InFile(n) => is_error'
         /\ InFile(n) => (is_error' <=> is_error)
<1>1. err' = e /\ ctl' = Return(Fail) /\ UNCHANGED graph /\ UNCHANGED final
  BY DEF Raise
<1>2. is_error' = IF InFile(n) THEN is_error ELSE TRUE
  BY DEF Raise
<1>3. CASE InFile(n)
  BY <1>1, <1>2, <1>3, ErrorsAreNotNone DEF TypeOK
<1>4. CASE ~InFile(n)
  BY <1>1, <1>2, <1>4, ErrorsAreNotNone
<1> QED
  BY <1>3, <1>4

\* A call that returns.
LEMMA ReturnFacts ==
  ASSUME NEW h \in Nat
  PROVE  Return(h) \in Controls /\ Return(h).mode = "return" /\ Return(h).handle = h
  BY DEF Return, Controls

\* ErrorInv after a call has returned h.
LEMMA ErrorsAfterReturn ==
  ASSUME TypeOK, NEW h \in Nat, ctl' = Return(h), result' = None,
         is_error' => err' # None,
         client' = "recreate" => ~is_error',
         h = Fail => err' # None,
         err' # None /\ ~is_error' => h = Fail /\ FileBelow(Len(stack))'
  PROVE  ErrorInv'
<1>1. ctl'.mode = "return" /\ ctl'.handle = h
  BY ReturnFacts
<1>2. Given' = h
  BY <1>1 DEF Given
<1> QED
  BY <1>1, <1>2 DEF ErrorInv

\* A call that returns at once.
LEMMA AnswerStep ==
  ASSUME WalkInv, Running("call"), NEW n \in Obj \cup Val, ctl.node = n, NEW h \in Nat, ctl' = Return(h),
         UNCHANGED graph, UNCHANGED final, UNCHANGED stack,
         used' \in [Obj -> Nat], mapping' \in [Val -> Nat], cache' \in [Obj \cup Val -> Nat],
         values' \in Seq(Written), Len(values') >= Len(values),
         \A v \in Val : mapping[v] # Fail => mapping'[v] # Fail,
         \/ h # Fail /\ UNCHANGED err /\ UNCHANGED is_error
         \/ h = Fail /\ \E e \in Errors : Raise(n, e)
  PROVE  WalkInv'
<1>1. TypeOK /\ GraphInv /\ NestInv /\ ErrorInv
  BY DEF WalkInv
<1>2. result = None /\ ctl.mode = "call"
  BY DEF Running
<1>3. client' = client /\ start' = start /\ kind' = kind /\ kids' = kids
      /\ root' = root /\ ended' = ended /\ result' = result
  BY DEF graph, final
<1>4. Return(h) \in Controls /\ Return(h).mode = "return"
  BY ReturnFacts
<1>5. err' \in Errors \cup {None} /\ is_error' \in BOOLEAN
  <2>1. CASE UNCHANGED err /\ UNCHANGED is_error
    BY <1>1, <2>1 DEF TypeOK
  <2>2. CASE \E e \in Errors : Raise(n, e)
    BY <1>1, <2>2, RaiseFacts
  <2> QED
    BY <2>1, <2>2
<1>6. TypeOK'
  BY <1>1, <1>3, <1>4, <1>5 DEF TypeOK
<1>7. \A k \in 1..Len(stack) : InFile(stack[k].at) => mapping'[stack[k].at] # Fail
  BY <1>1 DEF NestInv, FrameInv, InFile, TypeOK
<1>8. \A k \in 1..Len(stack) :
        InFile(stack[k].at) /\ KindOf(stack[k].at) = "dict" /\ stack[k].i % 2 = 0
          => stack[k].key # Fail
  <2>1. DOMAIN stack = 1..Len(stack)
    BY <1>1 DEF TypeOK
  <2>2. \A k \in 1..Len(stack) : FrameInv(k)
    BY <1>1, <2>1 DEF NestInv
  <2> QED
    BY <2>2 DEF FrameInv
<1>9. stack' \in Seq(Frames) /\ Len(stack) \in Nat
  BY <1>1 DEF TypeOK
<1>10. FramesInv' /\ \A k \in 0..Len(stack') : FileBelow(k)' <=> FileBelow(k)
  BY <1>1, <1>7, <1>8, <1>9, FramesKept
<1>11. FileBelow(Len(stack))' <=> InFile(n)
  <2>1. FileBelow(Len(stack))' <=> FileBelow(Len(stack))
    BY <1>9, <1>10
  <2> QED
    BY <1>1, <1>2, <2>1 DEF NestInv
<1>12. ControlInv'
  BY <1>4 DEF ControlInv
<1>13. is_error => err # None
  BY <1>1 DEF ErrorInv
<1>14. err # None => is_error
  BY <1>1, <1>2 DEF ErrorInv
<1>15. client = "recreate" => ~is_error /\ InFile(n)
  BY <1>1, <1>2, CallsInFile DEF ErrorInv, NestInv
<1>16. ErrorInv'
  <2>1. CASE h # Fail /\ UNCHANGED err /\ UNCHANGED is_error
    BY <1>1, <1>2, <1>3, <1>13, <1>14, <1>15, <2>1, ErrorsAfterReturn
  <2>2. CASE h = Fail /\ \E e \in Errors : Raise(n, e)
    <3>1. /\ err' # None
          /\ ~InFile(n) => is_error'
          /\ InFile(n) => (is_error' <=> is_error)
      BY <1>1, <2>2, RaiseFacts
    <3> QED
      BY <1>1, <1>2, <1>3, <1>11, <1>15, <2>2, <3>1, ErrorsAfterReturn
  <2> QED
    BY <2>1, <2>2
<1> QED
  BY <1>1, <1>2, <1>3, <1>6, <1>10, <1>12, <1>16, StepShown

\* A call that cannot go on.
LEMMA RaiseStep ==
  ASSUME WalkInv, Running("call"), NEW n \in Obj \cup Val, ctl.node = n, NEW e \in Errors, Raise(n, e),
         UNCHANGED stack, UNCHANGED used, UNCHANGED mapping, UNCHANGED cache,
         values' \in Seq(Written), Len(values') >= Len(values)
  PROVE  WalkInv'
<1>1. TypeOK
  BY DEF WalkInv
<1>2. ctl' = Return(Fail) /\ UNCHANGED graph /\ UNCHANGED final /\ Fail \in Nat
  BY <1>1, RaiseFacts DEF Fail
<1>3. used' \in [Obj -> Nat] /\ mapping' \in [Val -> Nat] /\ cache' \in [Obj \cup Val -> Nat]
  BY <1>1 DEF TypeOK
<1> QED
  BY <1>2, <1>3, AnswerStep

-----------------------------------------------------------------------------
(* A call for one object or value. *)

\* The values that there are, with one more.
LEMMA ValueAdded ==
  ASSUME TypeOK, NEW n \in Obj \cup Val, KindOf(n) \in Leaf \cup Container
  PROVE  /\ Append(values, NewValue(n)) \in Seq(Written)
         /\ Len(Append(values, NewValue(n))) = Len(values) + 1
         /\ NewHandle \in Nat \ {0} /\ NewHandle = Len(values) + 1 /\ NewHandle # Fail
         /\ NewHandle \in DOMAIN Append(values, NewValue(n))
         /\ Len(values) \in Nat
<1>1. NewValue(n) \in Written
  <2>1. <<>> \in Seq(Nat)
    OBVIOUS
  <2>2. (IF KindOf(n) \in Leaf THEN n ELSE None) \in Obj \cup Val \cup {None}
    OBVIOUS
  <2> QED
    BY <2>1, <2>2 DEF NewValue, Written
<1>2. values \in Seq(Written)
  BY DEF TypeOK
<1> QED
  BY <1>1, <1>2 DEF NewHandle, Fail

\* A handle is remembered on the side of what it was made of.
LEMMA SeenSet ==
  ASSUME TypeOK, NEW n \in Obj \cup Val, NEW h \in Nat \ {0}, SetSeen(n, h)
  PROVE  /\ used' \in [Obj -> Nat] /\ mapping' \in [Val -> Nat]
         /\ \A v \in Val : mapping[v] # Fail => mapping'[v] # Fail
         /\ InFile(n) => mapping'[n] # Fail
<1>1. CASE InFile(n)
  BY <1>1 DEF SetSeen, InFile, TypeOK, Fail
<1>2. CASE ~InFile(n)
  BY <1>2 DEF SetSeen, InFile, TypeOK, Fail
<1> QED
  BY <1>1, <1>2

\* The nesting is too deep.
LEMMA TooDeepStep ==
  ASSUME WalkInv, NEW n \in Obj \cup Val, VisitTooDeep(n)
  PROVE  WalkInv'
<1>1. values' \in Seq(Written) /\ Len(values') >= Len(values)
  <2>1. values' = values
    BY DEF VisitTooDeep
  <2>2. values \in Seq(Written) /\ Len(values) \in Nat
    BY DEF WalkInv, TypeOK
  <2> QED
    BY <2>1, <2>2
<1>2. "too deep" \in Errors
  BY DEF Errors
<1>3. /\ Running("call") /\ ctl.node = n /\ Raise(n, "too deep")
      /\ UNCHANGED stack /\ UNCHANGED used /\ UNCHANGED mapping /\ UNCHANGED cache
  BY DEF VisitTooDeep, Visiting
<1> QED
  BY <1>1, <1>2, <1>3, RaiseStep

\* An integer is too large while an error is pending.
LEMMA LongPendingStep ==
  ASSUME WalkInv, NEW n \in Obj \cup Val, VisitLongPending(n)
  PROVE  WalkInv'
<1>1. values' \in Seq(Written) /\ Len(values') >= Len(values)
  <2>1. values' = values
    BY DEF VisitLongPending
  <2>2. values \in Seq(Written) /\ Len(values) \in Nat
    BY DEF WalkInv, TypeOK
  <2> QED
    BY <2>1, <2>2
<1>2. "long beyond what we can store" \in Errors
  BY DEF Errors
<1>3. /\ Running("call") /\ ctl.node = n /\ Raise(n, "long beyond what we can store")
      /\ UNCHANGED stack /\ UNCHANGED used /\ UNCHANGED mapping /\ UNCHANGED cache
  BY DEF VisitLongPending, Visiting
<1> QED
  BY <1>1, <1>2, <1>3, RaiseStep

\* The object is of no type that can be exported.
LEMMA UnsupportedStep ==
  ASSUME WalkInv, NEW n \in Obj \cup Val, VisitUnsupported(n)
  PROVE  WalkInv'
<1>1. values' \in Seq(Written) /\ Len(values') >= Len(values)
  <2>1. values' = values
    BY DEF VisitUnsupported
  <2>2. values \in Seq(Written) /\ Len(values) \in Nat
    BY DEF WalkInv, TypeOK
  <2> QED
    BY <2>1, <2>2
<1>2. "type not supported" \in Errors
  BY DEF Errors
<1>3. /\ Running("call") /\ ctl.node = n /\ Raise(n, "type not supported")
      /\ UNCHANGED stack /\ UNCHANGED used /\ UNCHANGED mapping /\ UNCHANGED cache
  BY DEF VisitUnsupported, Visiting
<1> QED
  BY <1>1, <1>2, <1>3, RaiseStep

\* A view cannot be entered.
LEMMA VisitViewFailsStep ==
  ASSUME WalkInv, NEW n \in Obj \cup Val, VisitViewFails(n)
  PROVE  WalkInv'
<1>1. values' \in Seq(Written) /\ Len(values') >= Len(values)
  <2>1. values' = values
    BY DEF VisitViewFails
  <2>2. values \in Seq(Written) /\ Len(values) \in Nat
    BY DEF WalkInv, TypeOK
  <2> QED
    BY <2>1, <2>2
<1>2. "out of memory" \in Errors
  BY DEF Errors
<1>3. /\ Running("call") /\ ctl.node = n /\ Raise(n, "out of memory")
      /\ UNCHANGED stack /\ UNCHANGED used /\ UNCHANGED mapping /\ UNCHANGED cache
  BY DEF VisitViewFails, Visiting
<1> QED
  BY <1>1, <1>2, <1>3, RaiseStep

\* Memory runs out.
LEMMA OutOfMemoryStep ==
  ASSUME WalkInv, NEW n \in Obj \cup Val, VisitOutOfMemory(n)
  PROVE  WalkInv'
<1>1. TypeOK
  BY DEF WalkInv
<1>2. Running("call") /\ ctl.node = n /\ KindOf(n) \in Leaf \cup Container
  BY DEF VisitOutOfMemory, Visiting
<1>3. values' = values \/ values' = Append(values, NewValue(n))
  BY DEF VisitOutOfMemory
<1>4. values' \in Seq(Written) /\ Len(values') >= Len(values)
  <2>1. CASE values' = values
    BY <1>1, <2>1 DEF TypeOK
  <2>2. CASE values' = Append(values, NewValue(n))
    BY <1>1, <1>2, <2>2, ValueAdded
  <2> QED
    BY <1>3, <2>1, <2>2
<1>5. "out of memory" \in Errors
  BY DEF Errors
<1>6. /\ Raise(n, "out of memory")
      /\ UNCHANGED stack /\ UNCHANGED used /\ UNCHANGED mapping /\ UNCHANGED cache
  BY DEF VisitOutOfMemory
<1> QED
  BY <1>2, <1>4, <1>5, <1>6, RaiseStep

\* The object was visited before.
LEMMA SeenStep ==
  ASSUME WalkInv, NEW n \in Obj \cup Val, VisitSeen(n)
  PROVE  WalkInv'
<1>1. TypeOK
  BY DEF WalkInv
<1>2. Running("call") /\ ctl.node = n /\ SeenAs(n) # Fail /\ ctl' = Return(SeenAs(n))
  BY DEF VisitSeen, Visiting
<1>3. /\ UNCHANGED graph /\ UNCHANGED final /\ UNCHANGED stack /\ UNCHANGED err
      /\ UNCHANGED is_error /\ used' = used /\ mapping' = mapping /\ cache' = cache
      /\ values' = values
  BY DEF VisitSeen
<1>4. /\ used' \in [Obj -> Nat] /\ mapping' \in [Val -> Nat] /\ cache' \in [Obj \cup Val -> Nat]
      /\ values' \in Seq(Written) /\ Len(values') >= Len(values)
  BY <1>1, <1>3 DEF TypeOK
<1>5. SeenAs(n) \in Nat
  <2>1. CASE InFile(n)
    BY <1>1, <2>1 DEF SeenAs, InFile, TypeOK
  <2>2. CASE ~InFile(n)
    BY <1>1, <2>2 DEF SeenAs, InFile, TypeOK
  <2> QED
    BY <2>1, <2>2
<1> QED
  BY <1>2, <1>3, <1>4, <1>5, AnswerStep

\* A string or the like is created.
LEMMA TextStep ==
  ASSUME WalkInv, NEW n \in Obj \cup Val, VisitText(n)
  PROVE  WalkInv'
<1>1. TypeOK
  BY DEF WalkInv
<1>2. Running("call") /\ ctl.node = n /\ KindOf(n) = "text" /\ ctl' = Return(NewHandle)
  BY DEF VisitText, Visiting
<1>3. /\ UNCHANGED graph /\ UNCHANGED final /\ UNCHANGED stack /\ UNCHANGED err
      /\ UNCHANGED is_error /\ cache' = cache
      /\ values' = Append(values, NewValue(n)) /\ SetSeen(n, NewHandle)
  BY DEF VisitText
<1>4. KindOf(n) \in Leaf \cup Container
  BY <1>2 DEF Leaf
<1>5. /\ values' \in Seq(Written) /\ Len(values') >= Len(values)
      /\ NewHandle \in Nat \ {0} /\ NewHandle # Fail
  BY <1>1, <1>3, <1>4, ValueAdded
<1>6. /\ used' \in [Obj -> Nat] /\ mapping' \in [Val -> Nat]
      /\ \A v \in Val : mapping[v] # Fail => mapping'[v] # Fail
  BY <1>1, <1>3, <1>5, SeenSet
<1>7. cache' \in [Obj \cup Val -> Nat]
  BY <1>1, <1>3 DEF TypeOK
<1> QED
  BY <1>2, <1>3, <1>5, <1>6, <1>7, AnswerStep

\* An inline value is created.
LEMMA SimpleStep ==
  ASSUME WalkInv, NEW n \in Obj \cup Val, VisitSimple(n)
  PROVE  WalkInv'
<1>1. TypeOK
  BY DEF WalkInv
<1>2. Running("call") /\ ctl.node = n /\ KindOf(n) \in {"int", "float"}
  BY DEF VisitSimple, Visiting
<1>3. /\ UNCHANGED graph /\ UNCHANGED final /\ UNCHANGED stack /\ UNCHANGED err
      /\ UNCHANGED is_error /\ used' = used /\ mapping' = mapping
  BY DEF VisitSimple
<1>4. KindOf(n) \in Leaf \cup Container
  BY <1>2 DEF Leaf
<1>5. used' \in [Obj -> Nat] /\ mapping' \in [Val -> Nat] /\ cache[n] \in Nat
  BY <1>1, <1>3 DEF TypeOK
<1>6. CASE cache[n] # Fail
  <2>1. ctl' = Return(cache[n]) /\ values' = values /\ cache' = cache
    BY <1>6 DEF VisitSimple
  <2>2. /\ cache' \in [Obj \cup Val -> Nat]
        /\ values' \in Seq(Written) /\ Len(values') >= Len(values)
    BY <1>1, <2>1 DEF TypeOK
  <2> QED
    BY <1>2, <1>3, <1>5, <1>6, <2>1, <2>2, AnswerStep
<1>7. CASE cache[n] = Fail
  <2>1. /\ values' = Append(values, NewValue(n)) /\ ctl' = Return(NewHandle)
        /\ cache' = cache \/ cache' = [cache EXCEPT ![n] = NewHandle]
    BY <1>7 DEF VisitSimple
  <2>2. /\ values' \in Seq(Written) /\ Len(values') >= Len(values)
        /\ NewHandle \in Nat \ {0} /\ NewHandle # Fail
    BY <1>1, <1>4, <2>1, ValueAdded
  <2>3. cache' \in [Obj \cup Val -> Nat]
    BY <1>1, <2>1, <2>2 DEF TypeOK
  <2> QED
    BY <1>2, <1>3, <1>5, <2>1, <2>2, <2>3, AnswerStep
<1> QED
  BY <1>6, <1>7

-----------------------------------------------------------------------------
(* Calls that lead to more calls. *)

\* Calls and loops are well typed.
LEMMA LoopFacts ==
  /\ Loop \in Controls /\ Loop.mode = "loop"
  /\ \A n \in Obj \cup Val :
       Call(n) \in Controls /\ Call(n).mode = "call" /\ Call(n).node = n
  BY DEF Loop, Call, Controls, Fail

\* ErrorInv while there is more to visit.
LEMMA ErrorsAfterOther ==
  ASSUME ctl'.mode \in {"call", "loop"},
         is_error' => err' # None,
         client' = "recreate" => ~is_error',
         err' # None => is_error'
  PROVE  ErrorInv'
  BY DEF ErrorInv

\* While a walk goes on, what was set is what is pending.
LEMMA ErrorsSeen ==
  ASSUME WalkInv, result = None, ctl.mode \in {"call", "loop"}
  PROVE  /\ err # None => is_error
         /\ is_error => err # None
         /\ client = "recreate" => ~is_error
  BY DEF WalkInv, ErrorInv

\* A container is created and entered.
LEMMA ContainerStep ==
  ASSUME WalkInv, NEW n \in Obj \cup Val, VisitContainer(n)
  PROVE  WalkInv'
<1>1. TypeOK /\ GraphInv /\ NestInv
  BY DEF WalkInv
<1>2. /\ Running("call") /\ ctl.node = n /\ KindOf(n) \in Container /\ ~TooDeep(n)
      /\ SeenAs(n) = Fail /\ ctl' = Loop
  BY DEF VisitContainer, Visiting
<1>3. /\ UNCHANGED graph /\ UNCHANGED final /\ cache' = cache /\ err' = err
      /\ (is_error' <=> is_error) /\ is_error' = is_error
      /\ values' = Append(values, NewValue(n)) /\ SetSeen(n, NewHandle)
      /\ stack' = Append(stack, Frame(n, NewHandle))
  BY DEF VisitContainer
<1>4. result = None /\ ctl.mode = "call"
  BY <1>2 DEF Running
<1>5. client' = client /\ start' = start /\ kind' = kind /\ kids' = kids
      /\ root' = root /\ ended' = ended /\ result' = result
  BY <1>3 DEF graph, final
<1>6. KindOf(n) \in Leaf \cup Container
  BY <1>2
<1>7. /\ values' \in Seq(Written) /\ Len(values') >= Len(values)
      /\ NewHandle \in Nat \ {0} /\ NewHandle \in Nat /\ NewHandle \in DOMAIN values'
  BY <1>1, <1>3, <1>6, ValueAdded
<1>8. /\ used' \in [Obj -> Nat] /\ mapping' \in [Val -> Nat]
      /\ \A v \in Val : mapping[v] # Fail => mapping'[v] # Fail
      /\ InFile(n) => mapping'[n] # Fail
  BY <1>1, <1>3, <1>7, SeenSet
<1>9. InFile(n) => mapping[n] = Fail
  BY <1>2 DEF SeenAs
<1>10. InFile(n) <=> FileBelow(Len(stack))
  BY <1>1, <1>2, <1>4 DEF NestInv
<1>11. \A k \in DOMAIN stack : InFile(stack[k].at) => mapping'[stack[k].at] # Fail
  BY <1>1, <1>8 DEF NestInv, FrameInv, InFile
<1>12. KindOf(n) \in Container \cup {"view"}
  BY <1>2
<1>13. stack' \in Seq(Frames) /\ stack' # <<>> /\ FramesInv' /\ Top' = Frame(n, NewHandle)
  BY <1>1, <1>2, <1>3, <1>7, <1>8, <1>9, <1>10, <1>11, <1>12, FramesPushed
<1>14. TypeOK'
  BY <1>1, <1>2, <1>3, <1>5, <1>7, <1>8, <1>13, LoopFacts DEF TypeOK
<1>15. ControlInv'
  <2>1. Frame(n, NewHandle).at = n
    BY DEF Frame
  <2>2. ctl'.mode = "loop"
    BY <1>2, LoopFacts
  <2>3. KindOf(n)' = KindOf(n)
    BY <1>5 DEF KindOf, InFile
  <2> QED
    BY <1>2, <1>13, <2>1, <2>2, <2>3 DEF ControlInv, KindOf
<1>16. ErrorInv'
  <2>1. ctl'.mode \in {"call", "loop"}
    BY <1>2, LoopFacts
  <2> QED
    BY <1>3, <1>4, <1>5, <2>1, ErrorsSeen, ErrorsAfterOther
<1> QED
  BY <1>1, <1>3, <1>4, <1>5, <1>13, <1>14, <1>15, <1>16, StepShown

\* A view is entered.
LEMMA ViewStep ==
  ASSUME WalkInv, NEW n \in Obj \cup Val, VisitView(n)
  PROVE  WalkInv'
<1>1. TypeOK /\ GraphInv /\ NestInv
  BY DEF WalkInv
<1>2. /\ Running("call") /\ ctl.node = n /\ KindOf(n) = "view" /\ ~TooDeep(n)
      /\ ctl' = Call(kids[n][1])
  BY DEF VisitView, Visiting
<1>3. /\ UNCHANGED graph /\ UNCHANGED final /\ cache' = cache /\ err' = err
      /\ (is_error' <=> is_error) /\ is_error' = is_error /\ used' = used
      /\ values' = values /\ mapping' = [v \in Val |-> Fail]
      /\ stack' = Append(stack, Frame(n, Fail))
  BY DEF VisitView
<1>4. result = None /\ ctl.mode = "call"
  BY <1>2 DEF Running
<1>5. client' = client /\ start' = start /\ kind' = kind /\ kids' = kids
      /\ root' = root /\ ended' = ended /\ result' = result
  BY <1>3 DEF graph, final
<1>6. ~InFile(n)
  BY <1>2, FileKinds
<1>7. mapping' \in [Val -> Nat] /\ Fail \in Nat
  BY <1>3 DEF Fail
<1>8. values' \in Seq(Written) /\ Len(values') >= Len(values)
  <2>1. values \in Seq(Written) /\ Len(values) \in Nat
    BY <1>1 DEF TypeOK
  <2> QED
    BY <1>3, <2>1
<1>9. InFile(n) <=> FileBelow(Len(stack))
  BY <1>1, <1>2, <1>4 DEF NestInv
<1>10. \A k \in DOMAIN stack : InFile(stack[k].at) => mapping'[stack[k].at] # Fail
  BY <1>1, <1>6, <1>9, CallsInFile
<1>11. KindOf(n) \in Container \cup {"view"} /\ KindOf(n) \notin Container
  BY <1>2 DEF Container
<1>12. /\ stack' \in Seq(Frames) /\ stack' # <<>> /\ FramesInv'
       /\ FileBelow(Len(stack))' <=> (InFile(n) \/ KindOf(n) = "view")
  BY <1>1, <1>2, <1>3, <1>6, <1>7, <1>8, <1>9, <1>10, <1>11, FramesPushed
<1>13. kids[n][1] \in Val /\ kids[n][1] \in Obj \cup Val
  BY <1>1, <1>2, <1>11, KidsAreNear
<1>14. ctl' \in Controls /\ ctl'.mode = "call" /\ ctl'.node = kids[n][1]
  BY <1>2, <1>13, LoopFacts
<1>15. TypeOK'
  BY <1>1, <1>3, <1>5, <1>7, <1>8, <1>12, <1>14 DEF TypeOK
<1>16. ControlInv'
  <2>1. FileBelow(Len(stack))'
    BY <1>2, <1>12
  <2> QED
    BY <1>13, <1>14, <2>1 DEF ControlInv, InFile
<1>17. ErrorInv'
  BY <1>3, <1>4, <1>5, <1>14, ErrorsSeen, ErrorsAfterOther
<1> QED
  BY <1>1, <1>3, <1>4, <1>5, <1>12, <1>15, <1>16, <1>17, StepShown

\* A visit, whichever way it goes.
LEMMA VisitStep ==
  ASSUME WalkInv, NEW n \in Obj \cup Val, Visit(n)
  PROVE  WalkInv'
<1>1. CASE VisitTooDeep(n)      BY <1>1, TooDeepStep
<1>2. CASE VisitSimple(n)       BY <1>2, SimpleStep
<1>3. CASE VisitLongPending(n)  BY <1>3, LongPendingStep
<1>4. CASE VisitSeen(n)         BY <1>4, SeenStep
<1>5. CASE VisitText(n)         BY <1>5, TextStep
<1>6. CASE VisitContainer(n)    BY <1>6, ContainerStep
<1>7. CASE VisitOutOfMemory(n)  BY <1>7, OutOfMemoryStep
<1>8. CASE VisitUnsupported(n)  BY <1>8, UnsupportedStep
<1>9. CASE VisitView(n)         BY <1>9, ViewStep
<1>10. CASE VisitViewFails(n)   BY <1>10, VisitViewFailsStep
<1> QED
  BY <1>1, <1>2, <1>3, <1>4, <1>5, <1>6, <1>7, <1>8, <1>9, <1>10 DEF Visit

-----------------------------------------------------------------------------
(* A container's loop. *)

\* The loop goes on to the next child.
LEMMA NextChildStep ==
  ASSUME WalkInv, NextChild
  PROVE  WalkInv'
<1>1. TypeOK /\ GraphInv /\ NestInv
  BY DEF WalkInv
<1>2. /\ result = None /\ ctl.mode = "loop" /\ Top.i <= Len(KidsOf(Top.at))
      /\ ctl' = Call(KidsOf(Top.at)[Top.i])
  BY DEF NextChild, Running
<1>3. /\ UNCHANGED graph /\ UNCHANGED final /\ stack' = stack /\ used' = used
      /\ mapping' = mapping /\ cache' = cache /\ values' = values /\ err' = err
      /\ (is_error' <=> is_error) /\ is_error' = is_error
  BY DEF NextChild
<1>4. client' = client /\ start' = start /\ kind' = kind /\ kids' = kids
      /\ root' = root /\ ended' = ended /\ result' = result
  BY <1>3 DEF graph, final
<1>5. stack # <<>> /\ KindOf(Top.at) \in Container
  BY <1>1, <1>2 DEF NestInv
<1>6. /\ Top \in Frames /\ Top.at \in Obj \cup Val
      /\ FileBelow(Len(stack)) <=> (InFile(Top.at) \/ KindOf(Top.at) = "view")
  BY <1>1, <1>5, TopFacts
<1>7. Top.i \in 1..Len(KidsOf(Top.at))
  <2>1. Top.i \in Nat \ {0}
    BY <1>6 DEF Frames
  <2>2. Len(KidsOf(Top.at)) \in Nat
    <3>1. CASE InFile(Top.at)
      BY <3>1, TraverseConstants DEF KidsOf, InFile
    <3>2. CASE ~InFile(Top.at)
      BY <1>1, <1>6, <3>2 DEF KidsOf, InFile, TypeOK
    <3> QED
      BY <3>1, <3>2
  <2> QED
    BY <1>2, <2>1, <2>2
<1>8a. PICK c : c = KidsOf(Top.at)[Top.i]
  OBVIOUS
<1>8. KindOf(Top.at) # "view" /\ KindOf(Top.at) \in Container \cup {"view"}
  BY <1>5 DEF Container
<1>9. c \in Obj \cup Val /\ (InFile(c) <=> InFile(Top.at))
  BY <1>1, <1>5, <1>6, <1>7, <1>8, <1>8a, KidsAreNear
<1>10. ctl' \in Controls /\ ctl'.mode = "call" /\ ctl'.node = c
  BY <1>2, <1>8a, <1>9, LoopFacts
<1>11. FileBelow(Len(stack)) <=> InFile(ctl'.node)
  BY <1>6, <1>8, <1>9, <1>10
<1>12. TypeOK'
  BY <1>1, <1>3, <1>4, <1>10 DEF TypeOK
<1>13. FramesInv'
  BY <1>1, <1>3, <1>4 DEF FramesInv, NestInv, FrameInv, FileBelow, KindOf, InFile
<1>14. ControlInv'
  <2>1. FileBelow(Len(stack))' <=> FileBelow(Len(stack))
    BY <1>3, <1>4 DEF FileBelow, KindOf, InFile
  <2> QED
    BY <1>10, <1>11, <2>1 DEF ControlInv, InFile
<1>15. ErrorInv'
  BY <1>2, <1>3, <1>4, <1>10, ErrorsSeen, ErrorsAfterOther
<1> QED
  BY <1>1, <1>2, <1>3, <1>4, <1>12, <1>13, <1>14, <1>15, StepShown

\* The last call in progress ends.
LEMMA LeaveStep ==
  ASSUME WalkInv, result = None, stack # <<>>, UNCHANGED graph, UNCHANGED final,
         NEW h \in Nat, stack' = Pop, ctl' = Return(h),
         used' \in [Obj -> Nat], mapping' \in [Val -> Nat], cache' = cache, values' = values,
         mapping' = mapping \/ ~InFile(Top.at),
         err' \in Errors \cup {None}, is_error' \in BOOLEAN,
         is_error' => err' # None,
         client = "recreate" => ~is_error',
         h = Fail => err' # None,
         err' # None /\ ~is_error' => h = Fail /\ InFile(Top.at)
  PROVE  WalkInv'
<1>1. TypeOK /\ GraphInv /\ NestInv
  BY DEF WalkInv
<1>2. client' = client /\ start' = start /\ kind' = kind /\ kids' = kids
      /\ root' = root /\ ended' = ended /\ result' = result
  BY DEF graph, final
<1>3. /\ Len(stack) \in Nat \ {0} /\ Pop \in Seq(Frames) /\ Len(Pop) = Len(stack) - 1
      /\ \A k \in 1..Len(Pop) : Pop[k] = stack[k]
      /\ InFile(Top.at) <=> FileBelow(Len(stack) - 1)
  BY <1>1, TopFacts
<1>4. stack' \in Seq(Frames) /\ Len(stack') = Len(stack) - 1
      /\ \A k \in 1..Len(stack') : stack'[k] = stack[k]
  BY <1>3
<1>5. values' \in Seq(Written) /\ Len(values') >= Len(values)
  <2>1. values \in Seq(Written) /\ Len(values) \in Nat
    BY <1>1 DEF TypeOK
  <2> QED
    BY <2>1
<1>6. \A k \in 1..Len(stack') : k \in DOMAIN stack /\ k < Len(stack) /\ FrameInv(k)
  <2>1. DOMAIN stack = 1..Len(stack)
    BY <1>1 DEF TypeOK
  <2>2. \A k \in 1..Len(stack') : k \in DOMAIN stack /\ k < Len(stack)
    BY <1>3, <1>4, <2>1
  <2> QED
    BY <1>1, <2>2 DEF NestInv
<1>7. \A k \in 1..Len(stack') : InFile(stack[k].at) => mapping'[stack[k].at] # Fail
  <2>1. CASE mapping' = mapping
    BY <1>6, <2>1 DEF FrameInv
  <2>2. CASE ~InFile(Top.at)
    <3>1. Len(stack) \in DOMAIN stack
      BY <1>1, TopFacts
    <3>2. \A k \in 1..Len(stack') : ~InFile(stack[k].at)
      BY <1>1, <1>6, <2>2, <3>1 DEF NestInv, Top
    <3> QED
      BY <3>2
  <2> QED
    BY <2>1, <2>2
<1>8. \A k \in 1..Len(stack') :
        InFile(stack[k].at) /\ KindOf(stack[k].at) = "dict" /\ stack'[k].i % 2 = 0
          => stack'[k].key # Fail
  BY <1>4, <1>6 DEF FrameInv
<1>9. Len(stack') <= Len(stack) /\ Len(stack') \in 0..Len(stack')
  BY <1>3, <1>4
<1>10. FramesInv' /\ \A k \in 0..Len(stack') : FileBelow(k)' <=> FileBelow(k)
  BY <1>1, <1>4, <1>5, <1>7, <1>8, <1>9, FramesKept
<1>11. FileBelow(Len(stack))' <=> InFile(Top.at)
  <2>1. PICK k : k = Len(stack')
    OBVIOUS
  <2>2. FileBelow(k)' <=> FileBelow(k)
    BY <1>9, <1>10, <2>1
  <2>3. FileBelow(k) <=> InFile(Top.at)
    BY <1>3, <1>4, <2>1
  <2>4. FileBelow(Len(stack))' <=> FileBelow(k)'
    BY <2>1
  <2> QED
    BY <2>2, <2>3, <2>4
<1>12. TypeOK'
  BY <1>1, <1>2, <1>4, <1>5, ReturnFacts DEF TypeOK
<1>13. ControlInv'
  BY ReturnFacts DEF ControlInv
<1>14. ErrorInv'
  BY <1>1, <1>2, <1>11, ErrorsAfterReturn
<1> QED
  BY <1>1, <1>2, <1>10, <1>12, <1>13, <1>14, StepShown

\* The last call in progress goes on with its loop.
LEMMA MoveStep ==
  ASSUME WalkInv, result = None, stack # <<>>, UNCHANGED graph, UNCHANGED final,
         KindOf(Top.at) \in Container,
         NEW f \in Frames, f.at = Top.at, f.handle = Top.handle,
         InFile(f.at) /\ KindOf(f.at) = "dict" /\ f.i % 2 = 0 => f.key # Fail,
         stack' = Append(Pop, f), ctl' = Loop,
         used' = used, mapping' = mapping, cache' = cache, err' = err, UNCHANGED is_error,
         values' \in Seq(Written), Len(values') >= Len(values),
         err # None => is_error
  PROVE  WalkInv'
<1>1. TypeOK /\ GraphInv /\ NestInv
  BY DEF WalkInv
<1>2. client' = client /\ start' = start /\ kind' = kind /\ kids' = kids
      /\ root' = root /\ ended' = ended /\ result' = result
  BY DEF graph, final
<1>3. /\ Len(stack) \in Nat \ {0} /\ Pop \in Seq(Frames) /\ Len(Pop) = Len(stack) - 1
      /\ \A k \in 1..Len(Pop) : Pop[k] = stack[k]
  BY <1>1, TopFacts
<1>4. /\ stack' \in Seq(Frames) /\ Len(stack') = Len(stack) /\ stack' # <<>>
      /\ stack'[Len(stack)] = f
      /\ \A k \in 1..(Len(stack) - 1) : stack'[k] = stack[k]
  BY <1>3
<1>5. DOMAIN stack = 1..Len(stack) /\ Len(stack') \in Nat
  BY <1>1, <1>4 DEF TypeOK
<1>6. \A k \in 1..Len(stack') :
        stack'[k].at = stack[k].at /\ stack'[k].handle = stack[k].handle
  <2>1. stack[Len(stack)] = Top
    BY DEF Top
  <2>2. \A k \in 1..Len(stack') : k = Len(stack) \/ k \in 1..(Len(stack) - 1)
    BY <1>3, <1>4
  <2> QED
    BY <1>4, <2>1, <2>2
<1>7. \A k \in 1..Len(stack') : FrameInv(k)
  BY <1>1, <1>4, <1>5 DEF NestInv
<1>8. \A k \in 1..Len(stack') : InFile(stack[k].at) => mapping'[stack[k].at] # Fail
  BY <1>7 DEF FrameInv
<1>9. ASSUME NEW k \in 1..Len(stack'),
             InFile(stack[k].at), KindOf(stack[k].at) = "dict", stack'[k].i % 2 = 0
      PROVE  stack'[k].key # Fail
  <2>1. CASE k = Len(stack)
    BY <1>4, <1>9, <2>1 DEF Top
  <2>2. CASE k # Len(stack)
    <3>1. k \in 1..(Len(stack) - 1)
      BY <1>3, <1>4, <2>2
    <3>2. stack'[k] = stack[k]
      BY <1>4, <3>1
    <3> QED
      BY <1>7, <1>9, <3>2 DEF FrameInv
  <2> QED
    BY <2>1, <2>2
<1>10. Len(stack') <= Len(stack)
  BY <1>4, <1>5
<1>11. FramesInv'
  BY <1>1, <1>4, <1>6, <1>8, <1>9, <1>10, FramesKept
<1>12. TypeOK'
  BY <1>1, <1>2, <1>4, LoopFacts DEF TypeOK
<1>13. ControlInv'
  <2>1. Top' = f
    BY <1>4 DEF Top
  <2> QED
    BY <1>2, <1>4, <2>1, LoopFacts DEF ControlInv, KindOf, InFile
<1>14. is_error => err # None
  BY DEF WalkInv, ErrorInv
<1>15. client = "recreate" => ~is_error
  BY DEF WalkInv, ErrorInv
<1>16. ErrorInv'
  BY <1>2, <1>14, <1>15, LoopFacts, ErrorsAfterOther
<1> QED
  BY <1>1, <1>2, <1>11, <1>12, <1>13, <1>16, StepShown

\* What is pending when a call has returned.
LEMMA ReturnedFacts ==
  ASSUME WalkInv, NEW K, Returned(K), K \subseteq Container \cup {"view"}
  PROVE  /\ TypeOK /\ GraphInv /\ NestInv /\ result = None /\ stack # <<>>
         /\ KindOf(Top.at) \in K
         /\ Top \in Frames /\ Top.handle \in Nat /\ FrameInv(Len(stack))
         /\ Len(stack) \in DOMAIN stack
         /\ Given \in Nat
         /\ Given = Fail => err # None
         /\ err # None /\ ~is_error => Given = Fail /\ (InFile(Top.at) \/ KindOf(Top.at) = "view")
         /\ is_error => err # None
         /\ client = "recreate" => ~is_error /\ InFile(Top.at)
         /\ InFile(Top.at) /\ KindOf(Top.at) = "dict" /\ InValue => Top.key # Fail
         /\ KindOf(Top.at) \in Container => Top.handle # Fail /\ Top.handle \in DOMAIN values
<1>1. TypeOK /\ GraphInv /\ NestInv /\ ErrorInv
  BY DEF WalkInv
<1>2. result = None /\ ctl.mode = "return" /\ stack # <<>> /\ KindOf(Top.at) \in K
  BY DEF Returned, Running
<1>3. /\ Len(stack) \in DOMAIN stack /\ Top \in Frames /\ Top.handle \in Nat
      /\ FrameInv(Len(stack))
      /\ FileBelow(Len(stack)) <=> (InFile(Top.at) \/ KindOf(Top.at) = "view")
  BY <1>1, <1>2, TopFacts
<1>4. Given \in Nat
  BY <1>1 DEF Given, TypeOK, Controls
<1>5. /\ Given = Fail => err # None
      /\ err # None /\ ~is_error => Given = Fail /\ FileBelow(Len(stack))
      /\ is_error => err # None
      /\ client = "recreate" => ~is_error
  BY <1>1, <1>2 DEF ErrorInv
<1>6. client = "recreate" => InFile(Top.at)
  BY <1>1, <1>3, CallsInFile DEF Top
<1>7. InFile(Top.at) /\ KindOf(Top.at) = "dict" /\ InValue => Top.key # Fail
  BY <1>3 DEF FrameInv, Top, InValue
<1>8. KindOf(Top.at) \in Container => Top.handle \in DOMAIN values
  BY <1>3 DEF FrameInv, Top
<1>9. \A h \in DOMAIN values : h # Fail
  BY <1>1 DEF TypeOK, Fail
<1> QED
  BY <1>1, <1>2, <1>3, <1>4, <1>5, <1>6, <1>7, <1>8, <1>9

\* The loop ends.
LEMMA LoopEndStep ==
  ASSUME WalkInv, LoopEnd
  PROVE  WalkInv'
<1>1. TypeOK /\ GraphInv /\ NestInv
  BY DEF WalkInv
<1>2. /\ result = None /\ ctl.mode = "loop" /\ stack' = Pop
      /\ is_error' = (is_error \/ (Python("set") /\ err # None))
  BY DEF LoopEnd, Running, Leave
<1>3. /\ UNCHANGED graph /\ UNCHANGED final /\ used' = used
      /\ mapping' = mapping /\ cache' = cache /\ values' = values /\ err' = err
  BY DEF LoopEnd
<1>4. stack # <<>> /\ KindOf(Top.at) \in Container
  BY <1>1, <1>2 DEF NestInv
<1>5. /\ err # None => is_error
      /\ is_error => err # None
      /\ client = "recreate" => ~is_error
  BY <1>2, ErrorsSeen
<1>6. (is_error' <=> is_error) /\ is_error' \in BOOLEAN
  BY <1>1, <1>2, <1>5 DEF TypeOK
<1>7. Top.handle \in DOMAIN values /\ Top.handle # Fail /\ Top.handle \in Nat
  <2>1. FrameInv(Len(stack))
    BY <1>1, <1>4, TopFacts
  <2>2. Top.handle \in DOMAIN values
    BY <1>4, <2>1 DEF FrameInv, Top
  <2> QED
    BY <1>1, <2>2 DEF TypeOK, Fail
<1>8. PICK h : /\ ctl' = Return(h) /\ h \in {Fail, Top.handle}
               /\ h = Fail => is_error
  <2> DEFINE lost == is_error' /\ (Python("dict") \/ Python("set"))
  <2>1. ctl' = Return(IF lost THEN Fail ELSE Top.handle)
    BY DEF LoopEnd, Leave
  <2>2. CASE lost
    BY <1>6, <2>1, <2>2
  <2>3. CASE ~lost
    BY <1>7, <2>1, <2>3
  <2> QED
    BY <2>2, <2>3
<1>9. h \in Nat
  BY <1>7, <1>8 DEF Fail
<1>10. /\ used' \in [Obj -> Nat] /\ mapping' \in [Val -> Nat]
       /\ err' \in Errors \cup {None}
  BY <1>1, <1>3 DEF TypeOK
<1> QED
  BY <1>2, <1>3, <1>4, <1>5, <1>6, <1>8, <1>9, <1>10, LeaveStep

\* One more item, or pair, under the handle of a container.
LEMMA Added ==
  ASSUME TypeOK, NEW h \in DOMAIN values, NEW more \in Seq(Nat), Add(h, more)
  PROVE  values' \in Seq(Written) /\ Len(values') = Len(values) /\ Len(values) \in Nat
         /\ Len(values') >= Len(values)
<1>1. values \in Seq(Written) /\ Len(values) \in Nat
  BY DEF TypeOK
<1>2. values' = [values EXCEPT ![h].items = @ \o more]
  BY DEF Add
<1>3. values[h] \in Written
  BY <1>1
<1>4. values[h].items \o more \in Seq(Nat)
  BY <1>3 DEF Written
<1>5. [values[h] EXCEPT !.items = @ \o more] \in Written
  BY <1>3, <1>4 DEF Written
<1>6. values' = [values EXCEPT ![h] = [values[h] EXCEPT !.items = @ \o more]]
  BY <1>2
<1>7. values' \in Seq(Written) /\ Len(values') = Len(values)
  BY <1>1, <1>5, <1>6
<1> QED
  BY <1>1, <1>7

\* The frame on top, moved to its next child.
LEMMA MovedFacts ==
  ASSUME Top \in Frames
  PROVE  /\ Moved \in Frames /\ Moved.at = Top.at /\ Moved.handle = Top.handle
         /\ Moved.i = Top.i + 1 /\ Moved.key = Top.key /\ Top.i \in Nat \ {0}
         /\ \A h \in Nat : LET f == [Moved EXCEPT !.key = h]
                           IN  /\ f \in Frames /\ f.at = Top.at /\ f.handle = Top.handle
                               /\ f.i = Top.i + 1 /\ f.key = h
<1>1. Moved = [at |-> Top.at, handle |-> Top.handle, i |-> Top.i + 1, key |-> Top.key]
  BY DEF Moved, Frames
<1>2. /\ Top.at \in Obj \cup Val /\ Top.handle \in Nat /\ Top.key \in Nat /\ Top.i \in Nat \ {0}
      /\ Top.i + 1 \in Nat \ {0}
  BY DEF Frames
<1>3. \A h : [Moved EXCEPT !.key = h]
              = [at |-> Top.at, handle |-> Top.handle, i |-> Top.i + 1, key |-> h]
  BY <1>1
<1>4. \A h \in Nat :
        [at |-> Top.at, handle |-> Top.handle, i |-> Top.i + 1, key |-> h] \in Frames
  BY <1>2 DEF Frames
<1> QED
  BY <1>1, <1>2, <1>3, <1>4

\* A child of a list or set is added.
LEMMA ItemDoneStep ==
  ASSUME WalkInv, ItemDone
  PROVE  WalkInv'
<1>1. Returned({"list", "set"}) /\ {"list", "set"} \subseteq Container \cup {"view"}
  BY DEF ItemDone, Container
<1>2. /\ Given # Fail /\ Add(Top.handle, <<Given>>) /\ stack' = Append(Pop, Moved) /\ ctl' = Loop
      /\ UNCHANGED graph /\ UNCHANGED final /\ used' = used /\ mapping' = mapping
      /\ cache' = cache /\ err' = err /\ UNCHANGED is_error
  BY DEF ItemDone
<1>3. /\ TypeOK /\ result = None /\ stack # <<>> /\ KindOf(Top.at) \in {"list", "set"}
      /\ Top \in Frames /\ Given \in Nat
      /\ err # None /\ ~is_error => Given = Fail
      /\ KindOf(Top.at) \in Container => Top.handle \in DOMAIN values
  BY <1>1, ReturnedFacts
<1>4. KindOf(Top.at) \in Container /\ KindOf(Top.at) # "dict"
  BY <1>3 DEF Container
<1>5. /\ Moved \in Frames /\ Moved.at = Top.at /\ Moved.handle = Top.handle
  BY <1>3, MovedFacts
<1>6. <<Given>> \in Seq(Nat)
  BY <1>3
<1>7. values' \in Seq(Written) /\ Len(values') >= Len(values)
  BY <1>2, <1>3, <1>4, <1>6, Added
<1>8. err # None => is_error
  BY <1>2, <1>3
<1>9. KindOf(Moved.at) # "dict"
  BY <1>4, <1>5
<1> QED
  BY <1>2, <1>3, <1>4, <1>5, <1>7, <1>8, <1>9, MoveStep

\* A key is kept until its value is there.
LEMMA KeyDoneStep ==
  ASSUME WalkInv, KeyDone
  PROVE  WalkInv'
<1>1. Returned({"dict"}) /\ {"dict"} \subseteq Container \cup {"view"}
  BY DEF KeyDone, Container
<1> DEFINE f == [Moved EXCEPT !.key = Given]
<1>2. /\ InFile(Top.at) => Given # Fail
      /\ stack' = Append(Pop, f) /\ ctl' = Loop
      /\ UNCHANGED graph /\ UNCHANGED final /\ used' = used /\ mapping' = mapping
      /\ cache' = cache /\ err' = err /\ UNCHANGED is_error /\ values' = values
  BY DEF KeyDone
<1>3. /\ TypeOK /\ result = None /\ stack # <<>> /\ KindOf(Top.at) \in {"dict"}
      /\ Top \in Frames /\ Given \in Nat
      /\ err # None /\ ~is_error => Given = Fail /\ (InFile(Top.at) \/ KindOf(Top.at) = "view")
  BY <1>1, ReturnedFacts
<1>4. KindOf(Top.at) \in Container /\ KindOf(Top.at) # "view"
  BY <1>3 DEF Container
<1>5. f \in Frames /\ f.at = Top.at /\ f.handle = Top.handle /\ f.key = Given
  BY <1>3, MovedFacts
<1>6. values' \in Seq(Written) /\ Len(values') >= Len(values)
  <2>1. values \in Seq(Written) /\ Len(values) \in Nat
    BY <1>3 DEF TypeOK
  <2> QED
    BY <1>2, <2>1
<1>7. err # None => is_error
  BY <1>2, <1>3, <1>4
<1>8. InFile(f.at) => f.key # Fail
  BY <1>2, <1>5
<1> HIDE DEF f
<1> QED
  BY <1>2, <1>3, <1>4, <1>5, <1>6, <1>7, <1>8, MoveStep

\* A key is added with its value.
LEMMA PairDoneStep ==
  ASSUME WalkInv, PairDone
  PROVE  WalkInv'
<1>1. Returned({"dict"}) /\ {"dict"} \subseteq Container \cup {"view"}
  BY DEF PairDone, Container
<1>2. /\ Given # Fail /\ Top.key # Fail /\ Add(Top.handle, <<Top.key, Given>>)
      /\ stack' = Append(Pop, Moved) /\ ctl' = Loop
      /\ UNCHANGED graph /\ UNCHANGED final /\ used' = used /\ mapping' = mapping
      /\ cache' = cache /\ err' = err /\ UNCHANGED is_error
  BY DEF PairDone
<1>3. /\ TypeOK /\ result = None /\ stack # <<>> /\ KindOf(Top.at) \in {"dict"}
      /\ Top \in Frames /\ Given \in Nat
      /\ err # None /\ ~is_error => Given = Fail
      /\ KindOf(Top.at) \in Container => Top.handle \in DOMAIN values
  BY <1>1, ReturnedFacts
<1>4. KindOf(Top.at) \in Container
  BY <1>3 DEF Container
<1>5. /\ Moved \in Frames /\ Moved.at = Top.at /\ Moved.handle = Top.handle /\ Moved.key = Top.key
  BY <1>3, MovedFacts
<1>6. <<Top.key, Given>> \in Seq(Nat)
  BY <1>3 DEF Frames
<1>7. values' \in Seq(Written) /\ Len(values') >= Len(values)
  BY <1>2, <1>3, <1>4, <1>6, Added
<1>8. err # None => is_error
  BY <1>2, <1>3
<1>9. Moved.key # Fail
  BY <1>2, <1>5
<1> QED
  BY <1>2, <1>3, <1>4, <1>5, <1>7, <1>8, <1>9, MoveStep

\* A child cannot be added.
LEMMA ItemFailsStep ==
  ASSUME WalkInv, ItemFails
  PROVE  WalkInv'
<1>1. Returned({"list", "set"}) /\ {"list", "set"} \subseteq Container \cup {"view"}
  BY DEF ItemFails, Container
<1>2. /\ UNCHANGED graph /\ UNCHANGED final /\ used' = used /\ mapping' = mapping
      /\ cache' = cache /\ values' = values /\ stack' = Pop
  BY DEF ItemFails, Leave
<1>3. /\ TypeOK /\ result = None /\ stack # <<>> /\ KindOf(Top.at) \in {"list", "set"}
      /\ Top.handle \in Nat /\ Given \in Nat
      /\ Given = Fail => err # None
      /\ err # None /\ ~is_error => Given = Fail /\ (InFile(Top.at) \/ KindOf(Top.at) = "view")
      /\ is_error => err # None
      /\ client = "recreate" => ~is_error /\ InFile(Top.at)
      /\ KindOf(Top.at) \in Container => Top.handle # Fail
  BY <1>1, ReturnedFacts
<1>4. KindOf(Top.at) \in Container /\ KindOf(Top.at) # "view" /\ Top.handle # Fail
  BY <1>3 DEF Container
<1>5. PICK h : ctl' = Return(h) /\ h = Fail
  BY DEF ItemFails, Leave
<1>6. h \in Nat
  BY <1>3, <1>5 DEF Fail
<1>7. /\ err' \in Errors /\ err' # None /\ is_error' \in BOOLEAN
      /\ ~InFile(Top.at) => is_error'
      /\ client = "recreate" => ~is_error'
  <2>1. /\ \/ Given = Fail /\ err' = err
           \/ Given # Fail /\ err' = "item not added"
        /\ is_error' = (is_error \/ (~InFile(Top.at) /\ (Given # Fail \/ KindOf(Top.at) = "set")))
    BY DEF ItemFails
  <2>2. is_error \in BOOLEAN /\ err \in Errors \cup {None} /\ "item not added" \in Errors
    BY <1>3 DEF TypeOK, Errors
  <2>3. err' \in Errors /\ err' # None
    BY <1>3, <2>1, <2>2, ErrorsAreNotNone
  <2>4. is_error' \in BOOLEAN /\ (client = "recreate" => ~is_error')
    BY <1>3, <2>1, <2>2
  <2>5. ~InFile(Top.at) => is_error'
    BY <1>3, <1>4, <2>1
  <2> QED
    BY <2>3, <2>4, <2>5
<1>8. used' \in [Obj -> Nat] /\ mapping' \in [Val -> Nat]
  BY <1>2, <1>3 DEF TypeOK
<1>9. err' # None /\ ~is_error' => h = Fail /\ InFile(Top.at)
  BY <1>5, <1>7
<1>10. err' \in Errors \cup {None} /\ (is_error' => err' # None) /\ (h = Fail => err' # None)
  BY <1>7
<1>11. client = "recreate" => ~is_error'
  BY <1>7
<1>12. is_error' \in BOOLEAN /\ result = None /\ stack # <<>> /\ ctl' = Return(h)
  BY <1>3, <1>5, <1>7
<1> QED
  BY <1>2, <1>6, <1>8, <1>9, <1>10, <1>11, <1>12, LeaveStep

\* A pair cannot be added.
LEMMA PairFailsStep ==
  ASSUME WalkInv, PairFails
  PROVE  WalkInv'
<1>1. Returned({"dict"}) /\ {"dict"} \subseteq Container \cup {"view"}
  BY DEF PairFails, Container
<1>2. /\ UNCHANGED graph /\ UNCHANGED final /\ used' = used /\ mapping' = mapping
      /\ cache' = cache /\ values' = values /\ stack' = Pop
  BY DEF PairFails, Leave
<1>3. /\ TypeOK /\ result = None /\ stack # <<>> /\ KindOf(Top.at) \in {"dict"}
      /\ Top.handle \in Nat /\ Given \in Nat
      /\ Given = Fail => err # None
      /\ err # None /\ ~is_error => Given = Fail /\ (InFile(Top.at) \/ KindOf(Top.at) = "view")
      /\ is_error => err # None
      /\ client = "recreate" => ~is_error /\ InFile(Top.at)
      /\ InFile(Top.at) /\ KindOf(Top.at) = "dict" /\ InValue => Top.key # Fail
      /\ KindOf(Top.at) \in Container => Top.handle # Fail
  BY <1>1, ReturnedFacts
<1>4. KindOf(Top.at) \in Container /\ KindOf(Top.at) # "view" /\ Top.handle # Fail
  BY <1>3 DEF Container
<1>5. /\ \/ /\ Given = Fail \/ (InValue /\ Top.key = Fail)
            /\ InValue \/ InFile(Top.at)
            /\ err' = err /\ (is_error' <=> is_error) /\ is_error' = is_error
         \/ err' = "pair not added" /\ is_error' = (is_error \/ ~InFile(Top.at))
  BY DEF PairFails
<1>6. PICK h : /\ ctl' = Return(h) /\ h \in {Fail, Top.handle}
               /\ (is_error' \/ InFile(Top.at)) <=> h = Fail
  <2> DEFINE lost == is_error' \/ InFile(Top.at)
  <2>1. ctl' = Return(IF lost THEN Fail ELSE Top.handle)
    BY DEF PairFails, Leave
  <2>2. CASE lost
    BY <2>1, <2>2
  <2>3. CASE ~lost
    BY <1>4, <2>1, <2>3
  <2> QED
    BY <2>2, <2>3
<1>7. h \in Nat
  BY <1>3, <1>6 DEF Fail
<1>8. /\ err' \in Errors \cup {None} /\ is_error' \in BOOLEAN
      /\ is_error' => err' # None
      /\ client = "recreate" => ~is_error'
      /\ err' # None /\ ~is_error' => InFile(Top.at)
      /\ InFile(Top.at) => err' # None
  <2>1. CASE /\ Given = Fail \/ (InValue /\ Top.key = Fail)
             /\ err' = err /\ (is_error' <=> is_error) /\ is_error' = is_error
    BY <1>3, <1>4, <2>1 DEF TypeOK
  <2>2. CASE err' = "pair not added" /\ is_error' = (is_error \/ ~InFile(Top.at))
    <3>1. "pair not added" \in Errors
      BY DEF Errors
    <3>2. is_error \in BOOLEAN
      BY <1>3 DEF TypeOK
    <3> QED
      BY <1>3, <2>2, <3>1, <3>2, ErrorsAreNotNone
  <2> QED
    BY <1>5, <2>1, <2>2
<1>9. used' \in [Obj -> Nat] /\ mapping' \in [Val -> Nat]
  BY <1>2, <1>3 DEF TypeOK
<1>10. (h = Fail => err' # None) /\ (err' # None /\ ~is_error' => h = Fail /\ InFile(Top.at))
  BY <1>6, <1>8
<1>11. (is_error' => err' # None) /\ (client = "recreate" => ~is_error')
  BY <1>8
<1>12. /\ is_error' \in BOOLEAN /\ err' \in Errors \cup {None}
       /\ result = None /\ stack # <<>> /\ ctl' = Return(h)
  BY <1>3, <1>6, <1>8
<1> QED
  BY <1>2, <1>7, <1>9, <1>10, <1>11, <1>12, LeaveStep

\* A view's value is passed on.
LEMMA ViewDoneStep ==
  ASSUME WalkInv, ViewDone
  PROVE  WalkInv'
<1>1. Returned({"view"}) /\ {"view"} \subseteq Container \cup {"view"}
  BY DEF ViewDone
<1>2. /\ Given # Fail /\ mapping' = [v \in Val |-> Fail]
      /\ used' = [used EXCEPT ![Top.at] = Given] /\ stack' = Pop /\ ctl' = Return(Given)
      /\ UNCHANGED graph /\ UNCHANGED final /\ err' = err /\ (is_error' <=> is_error)
      /\ is_error' = is_error /\ cache' = cache /\ values' = values
  BY DEF ViewDone, Leave
<1>3. /\ TypeOK /\ result = None /\ stack # <<>> /\ KindOf(Top.at) = "view" /\ Given \in Nat
      /\ err # None /\ ~is_error => Given = Fail
      /\ is_error => err # None
      /\ client = "recreate" => ~is_error
  BY <1>1, ReturnedFacts
<1>4. ~InFile(Top.at)
  BY <1>3, FileKinds
<1>5. used' \in [Obj -> Nat] /\ mapping' \in [Val -> Nat]
  BY <1>2, <1>3 DEF TypeOK, Fail
<1>6. err' \in Errors \cup {None} /\ is_error' \in BOOLEAN
  BY <1>2, <1>3 DEF TypeOK
<1>7. /\ is_error' => err' # None
      /\ client = "recreate" => ~is_error'
      /\ ~(err' # None /\ ~is_error')
  BY <1>2, <1>3
<1> QED
  BY <1>2, <1>3, <1>4, <1>5, <1>6, <1>7, LeaveStep

\* A view's failure is passed on.
LEMMA ViewFailsStep ==
  ASSUME WalkInv, ViewFails
  PROVE  WalkInv'
<1>1. Returned({"view"}) /\ {"view"} \subseteq Container \cup {"view"}
  BY DEF ViewFails
<1>2. /\ mapping' = [v \in Val |-> Fail] /\ stack' = Pop
      /\ used' = used /\ cache' = cache /\ values' = values
  BY DEF ViewFails
<1>3. PICK e \in Errors : Raise(Top.at, e)
  <2>1. Raise(Top.at, "recreate failed") \/ Raise(Top.at, "out of memory")
    <3>1. CASE Given = Fail
      BY <3>1 DEF ViewFails
    <3>2. CASE Given # Fail
      BY <3>2 DEF ViewFails
    <3> QED
      BY <3>1, <3>2
  <2>2. "recreate failed" \in Errors /\ "out of memory" \in Errors
    BY DEF Errors
  <2> QED
    BY <2>1, <2>2
<1>4. /\ TypeOK /\ result = None /\ stack # <<>> /\ KindOf(Top.at) = "view"
      /\ client = "recreate" => InFile(Top.at)
  BY <1>1, ReturnedFacts
<1>5. ~InFile(Top.at)
  BY <1>4, FileKinds
<1>6. /\ err' \in Errors /\ err' # None /\ is_error' \in BOOLEAN /\ is_error'
      /\ ctl' = Return(Fail) /\ UNCHANGED graph /\ UNCHANGED final
  BY <1>3, <1>4, <1>5, RaiseFacts
<1>7. used' \in [Obj -> Nat] /\ mapping' \in [Val -> Nat] /\ Fail \in Nat
  BY <1>2, <1>4 DEF TypeOK, Fail
<1> QED
  BY <1>2, <1>4, <1>5, <1>6, <1>7, LeaveStep

-----------------------------------------------------------------------------
(* The clients. *)

\* Nothing is in progress when a client goes on.
LEMMA AtRest ==
  ASSUME WalkInv, UNCHANGED graph, UNCHANGED <<stack, used, mapping, cache, values>>,
         ctl' \in Controls, ctl'.mode \in {"return", "output"},
         root' \in Nat, err' \in Errors \cup {None}, is_error' = is_error,
         ended' \in BOOLEAN, result' \in {None, "raised", "written"},
         ErrorInv', OutcomeIsReported'
  PROVE  WalkInv'
<1>1. TypeOK /\ GraphInv /\ NestInv
  BY DEF WalkInv
<1>2. /\ client' = client /\ start' = start /\ kind' = kind /\ kids' = kids
      /\ stack' = stack /\ used' = used /\ mapping' = mapping /\ cache' = cache
      /\ values' = values
  BY DEF graph
<1>3. TypeOK'
  BY <1>1, <1>2 DEF TypeOK
<1>4. GraphInv'
  BY <1>1, GraphKept
<1>5. NestInv'
  BY <1>1, <1>2 DEF NestInv, FrameInv, FileBelow, KindOf, InFile
<1> QED
  BY <1>3, <1>4, <1>5 DEF WalkInv

\* The outermost call has returned.
LEMMA BackFacts ==
  ASSUME WalkInv, Back
  PROVE  /\ TypeOK /\ result = None /\ ctl.mode = "return" /\ Given \in Nat
         /\ is_error => err # None
         /\ client = "recreate" => ~is_error
         /\ Given = Fail => err # None
         /\ err # None /\ ~is_error => Given = Fail /\ client = "recreate"
<1>1. TypeOK /\ ErrorInv
  BY DEF WalkInv
<1>2. result = None /\ ctl.mode = "return" /\ stack = <<>>
  BY DEF Back, Running
<1>3. Given \in Nat
  BY <1>1 DEF Given, TypeOK, Controls
<1>4. Len(stack) = 0
  BY <1>2
<1>5. FileBelow(Len(stack)) <=> client = "recreate"
  BY <1>4 DEF FileBelow
<1> QED
  BY <1>1, <1>2, <1>3, <1>5 DEF ErrorInv

\* The output begins.
LEMMA ToOutput ==
  ASSUME TypeOK
  PROVE  /\ [ctl EXCEPT !.mode = "output"] \in Controls
         /\ [ctl EXCEPT !.mode = "output"].mode = "output"
<1>1. ctl \in Controls
  BY DEF TypeOK
<1> QED
  BY <1>1 DEF Controls

\* The walk over Python objects ends.
LEMMA ExportEndsStep ==
  ASSUME WalkInv, ExportEnds
  PROVE  WalkInv'
<1>1. Back /\ client = "python"
  BY DEF ExportEnds
<1>2. /\ UNCHANGED graph /\ UNCHANGED <<stack, used, mapping, cache, values>>
      /\ err' = err /\ is_error' = is_error /\ (is_error' <=> is_error) /\ ended' = ended
  BY DEF ExportEnds
<1>3. /\ TypeOK /\ result = None /\ ctl.mode = "return" /\ Given \in Nat
      /\ is_error => err # None
      /\ Given = Fail => err # None
      /\ err # None /\ ~is_error => client = "recreate"
  BY <1>1, BackFacts
<1>4. client' = client /\ client # "recreate"
  BY <1>1, <1>2 DEF graph
<1>5. root' = IF Given = Fail THEN root ELSE Given
  BY DEF ExportEnds
<1>6. root' \in Nat /\ (Given # Fail => root' # Fail)
  BY <1>3, <1>5 DEF TypeOK
<1>7. err' \in Errors \cup {None} /\ ended' \in BOOLEAN /\ result \in {None, "raised", "written"}
  BY <1>2, <1>3 DEF TypeOK
<1>8. CASE is_error
  <2>1. result' = "raised" /\ ctl' = ctl
    BY <1>8 DEF ExportEnds
  <2>2. ctl' \in Controls /\ ctl'.mode \in {"return", "output"}
    BY <1>3, <2>1 DEF TypeOK
  <2>3. ErrorInv'
    BY <1>2, <1>3, <1>4, <2>1, NoneIsNone DEF ErrorInv
  <2>4. OutcomeIsReported'
    BY <1>1, <1>2, <1>3, <1>4, <1>8, <2>1 DEF OutcomeIsReported
  <2> QED
    BY <1>2, <1>6, <1>7, <2>1, <2>2, <2>3, <2>4, AtRest
<1>9. CASE ~is_error
  <2>1. result' = result /\ ctl' = [ctl EXCEPT !.mode = "output"]
    BY <1>9 DEF ExportEnds
  <2>2. ctl' \in Controls /\ ctl'.mode = "output"
    BY <1>3, <2>1, ToOutput
  <2>3. err = None /\ root' # Fail
    BY <1>1, <1>3, <1>4, <1>6, <1>9
  <2>4. ErrorInv'
    BY <1>2, <1>4, <1>9, <2>2, <2>3 DEF ErrorInv
  <2>5. OutcomeIsReported'
    BY <1>3, <2>1 DEF OutcomeIsReported
  <2> QED
    BY <1>2, <1>6, <1>7, <2>1, <2>2, <2>4, <2>5, AtRest
<1> QED
  BY <1>8, <1>9

\* The walk over a file ends.
LEMMA RecreateEndsStep ==
  ASSUME WalkInv, RecreateEnds
  PROVE  WalkInv'
<1>1. Back /\ client = "recreate"
  BY DEF RecreateEnds
<1>2. /\ UNCHANGED graph /\ UNCHANGED <<stack, used, mapping, cache, values>>
      /\ err' = err /\ is_error' = is_error /\ (is_error' <=> is_error)
  BY DEF RecreateEnds
<1>3. /\ TypeOK /\ result = None /\ ctl.mode = "return" /\ Given \in Nat
      /\ ~is_error
      /\ Given = Fail <=> err # None
  BY <1>1, BackFacts
<1>4. err' \in Errors \cup {None} /\ result \in {None, "raised", "written"} /\ root \in Nat
      /\ ended \in BOOLEAN
  BY <1>2, <1>3 DEF TypeOK
<1>5. CASE Given = Fail
  <2>1. result' = "raised" /\ ended' = TRUE /\ root' = root /\ ctl' = ctl
    BY <1>5 DEF RecreateEnds
  <2>2. ctl' \in Controls /\ ctl'.mode \in {"return", "output"}
    BY <1>3, <2>1 DEF TypeOK
  <2>3. ErrorInv'
    BY <1>2, <1>3, <2>1, NoneIsNone DEF ErrorInv
  <2>4. OutcomeIsReported'
    BY <1>2, <1>3, <1>5, <2>1 DEF OutcomeIsReported
  <2> QED
    BY <1>2, <1>4, <2>1, <2>2, <2>3, <2>4, AtRest
<1>6. CASE Given # Fail
  <2>1. root' = Given /\ ctl' = [ctl EXCEPT !.mode = "output"] /\ ended' = ended /\ result' = result
    BY <1>6 DEF RecreateEnds
  <2>2. ctl' \in Controls /\ ctl'.mode = "output"
    BY <1>3, <2>1, ToOutput
  <2>3. ErrorInv'
    BY <1>2, <1>3, <1>6, <2>1, <2>2 DEF ErrorInv
  <2>4. OutcomeIsReported'
    BY <1>3, <2>1 DEF OutcomeIsReported
  <2> QED
    BY <1>2, <1>3, <1>4, <2>1, <2>2, <2>3, <2>4, AtRest
<1> QED
  BY <1>5, <1>6

\* The file is written, or cannot be.
LEMMA OutputStep ==
  ASSUME WalkInv, Output \/ OutputFails
  PROVE  WalkInv'
<1>1. /\ TypeOK /\ result = None /\ ctl.mode = "output"
      /\ err = None /\ ~is_error /\ root # Fail
  BY DEF WalkInv, Output, OutputFails, Running, ErrorInv
<1>2. /\ UNCHANGED graph /\ UNCHANGED <<stack, used, mapping, cache, values>>
      /\ ctl' = ctl /\ root' = root /\ is_error' = is_error /\ (is_error' <=> is_error)
      /\ ended' = TRUE
  <2>1. /\ UNCHANGED <<graph, walk, root, is_error>> /\ ended' = TRUE
    BY DEF Output, OutputFails
  <2>2. UNCHANGED graph /\ UNCHANGED walk /\ root' = root /\ is_error' = is_error
    BY <2>1
  <2> QED
    BY <2>1, <2>2 DEF walk
<1>3. \/ result' = "written" /\ err' = err
      \/ result' = "raised" /\ err' = "output failed"
  BY DEF Output, OutputFails
<1>4. "output failed" \in Errors /\ "output failed" # None /\ "raised" # "written"
  BY ErrorsAreNotNone DEF Errors
<1>5. err' \in Errors \cup {None}
  BY <1>1, <1>3, <1>4 DEF TypeOK
<1>9. root' \in Nat /\ ctl' \in Controls /\ ctl'.mode \in {"return", "output"} /\ ended' \in BOOLEAN
  BY <1>1, <1>2 DEF TypeOK
<1>6. result' # None /\ result' \in {None, "raised", "written"}
  BY <1>3, ErrorsAreNotNone
<1>7. ErrorInv'
  BY <1>1, <1>2, <1>6 DEF ErrorInv
<1>8. OutcomeIsReported'
  BY <1>1, <1>2, <1>3, <1>4 DEF OutcomeIsReported
<1> QED
  BY <1>2, <1>5, <1>6, <1>7, <1>8, <1>9, AtRest

-----------------------------------------------------------------------------
(* The beginning. *)

\* The children that a graph may have.
LEMMA KidsForType ==
  ASSUME NEW k, NEW s \in KidsFor(k)
  PROVE  s \in Seq(Obj \cup Val)
<1>1. MaxKids \in Nat /\ 2 * MaxKids \in Nat /\ ViewOf \subseteq Val
  BY TraverseConstants
<1>2. ASSUME s \in Seqs(Obj, MaxKids) \/ s \in Seqs(Obj, 2 * MaxKids)
      PROVE  s \in Seq(Obj \cup Val)
  <2>1. s \in Seq(Obj)
    BY <1>1, <1>2, SeqsFacts
  <2> QED
    BY <2>1
<1>3. CASE k = "list" \/ k = "set" \/ k = "dict"
  BY <1>2, <1>3 DEF KidsFor
<1>4. CASE k = "view"
  <2>1. PICK v \in ViewOf : s = <<v>>
    BY <1>4 DEF KidsFor
  <2> QED
    BY <1>1, <2>1
<1>5. CASE k \notin {"list", "set", "dict", "view"}
  <2>1. s = <<>>
    BY <1>5 DEF KidsFor
  <2> QED
    BY <2>1
<1> QED
  BY <1>3, <1>4, <1>5

\* What Python has at the start.
LEMMA PythonStarts ==
  ASSUME PythonGraph
  PROVE  /\ client = "python" /\ start \in Obj
         /\ kind \in [Obj -> Leaf \cup Container \cup {"view", "bad"}]
         /\ kids \in [Obj -> Seq(Obj \cup Val)]
         /\ \A o \in Obj : kids[o] \in KidsFor(kind[o])
<1>1. client = "python" /\ start \in Obj
  BY TraverseConstants DEF PythonGraph
<1>2. PICK shape \in [Obj -> Shape] :
        kind = [o \in Obj |-> shape[o][1]] /\ kids = [o \in Obj |-> shape[o][2]]
  BY DEF PythonGraph
<1>3. ASSUME NEW o \in Obj
      PROVE  kind[o] \in Leaf \cup Container \cup {"view", "bad"} /\ kids[o] \in KidsFor(kind[o])
  <2>1. shape[o] \in Shape
    BY <1>2
  <2>2. PICK k \in Leaf \cup Container \cup {"view", "bad"} : shape[o] \in {k} \X KidsFor(k)
    BY <2>1 DEF Shape
  <2>3. shape[o][1] = k /\ shape[o][2] \in KidsFor(k)
    BY <2>2
  <2> QED
    BY <1>2, <2>3
<1>4. \A o \in Obj : kids[o] \in Seq(Obj \cup Val)
  BY <1>3, KidsForType
<1> QED
  BY <1>1, <1>2, <1>3, <1>4

\* A walk over a file starts well typed.
LEMMA FileStarts ==
  ASSUME FileGraph
  PROVE  /\ client = "recreate" /\ start \in Val
         /\ kind \in [Obj -> Leaf \cup Container \cup {"view", "bad"}]
         /\ kids \in [Obj -> Seq(Obj \cup Val)]
         /\ \A o \in Obj : kids[o] \in KidsFor(kind[o])
<1>1. /\ client = "recreate" /\ start \in Val
      /\ kind = [o \in Obj |-> "bad"] /\ kids = [o \in Obj |-> <<>>]
  BY TraverseConstants DEF FileGraph
<1>2. <<>> \in Seq(Obj \cup Val) /\ <<>> \in KidsFor("bad")
  BY DEF KidsFor
<1> QED
  BY <1>1, <1>2

\* Every walk starts in a state of the invariant.
LEMMA InitOK == Init => WalkInv
<1> SUFFICES ASSUME Init PROVE WalkInv
  OBVIOUS
<1>1. PythonGraph \/ FileGraph
  BY DEF Init
<1>2. /\ (client = "python" /\ start \in Obj) \/ (client = "recreate" /\ start \in Val)
      /\ kind \in [Obj -> Leaf \cup Container \cup {"view", "bad"}]
      /\ kids \in [Obj -> Seq(Obj \cup Val)]
      /\ \A o \in Obj : kids[o] \in KidsFor(kind[o])
  <2>1. CASE PythonGraph  BY <2>1, PythonStarts
  <2>2. CASE FileGraph    BY <2>2, FileStarts
  <2> QED
    BY <1>1, <2>1, <2>2
<1>3. /\ stack = <<>> /\ ctl = Call(start)
      /\ used = [o \in Obj |-> Fail] /\ mapping = [v \in Val |-> Fail]
      /\ cache = [n \in Obj \cup Val |-> Fail]
      /\ values = <<>> /\ root = Fail
      /\ err = None /\ is_error = FALSE /\ ended = FALSE /\ result = None
  BY DEF Init
<1>4. start \in Obj \cup Val
  BY <1>2
<1>5. ctl \in Controls /\ ctl.mode = "call" /\ ctl.node = start
  BY <1>3, <1>4, LoopFacts
<1>6. stack \in Seq(Frames) /\ values \in Seq(Written) /\ Len(stack) = 0 /\ DOMAIN stack = {}
  BY <1>3
<1>7. /\ used \in [Obj -> Nat] /\ mapping \in [Val -> Nat] /\ cache \in [Obj \cup Val -> Nat]
      /\ root \in Nat
  BY <1>3 DEF Fail
<1>8. TypeOK
  BY <1>2, <1>3, <1>4, <1>5, <1>6, <1>7 DEF TypeOK
<1>9. GraphInv
  BY <1>2 DEF GraphInv
<1>10. NestInv
  <2>1. InFile(start) <=> client = "recreate"
    BY <1>2, TraverseConstants DEF InFile
  <2>2. FileBelow(Len(stack)) <=> client = "recreate"
    BY <1>6 DEF FileBelow
  <2> QED
    BY <1>5, <1>6, <2>1, <2>2 DEF NestInv
<1>11. ErrorInv
  BY <1>3, <1>5 DEF ErrorInv
<1>12. OutcomeIsReported
  BY <1>3 DEF OutcomeIsReported
<1> QED
  BY <1>8, <1>9, <1>10, <1>11, <1>12 DEF WalkInv

\* A step that changes nothing keeps the invariant.
LEMMA StutterOK ==
  ASSUME WalkInv, UNCHANGED vars
  PROVE  WalkInv'
<1>1. /\ client' = client /\ start' = start /\ kind' = kind /\ kids' = kids
      /\ stack' = stack /\ ctl' = ctl /\ used' = used /\ mapping' = mapping
      /\ cache' = cache /\ values' = values /\ root' = root /\ ended' = ended
      /\ result' = result /\ err' = err /\ is_error' = is_error /\ (is_error' <=> is_error)
  BY DEF vars, graph, walk, final
<1>2. TypeOK /\ GraphInv /\ NestInv /\ ErrorInv /\ OutcomeIsReported
  BY DEF WalkInv
<1>3. TypeOK'
  BY <1>1, <1>2 DEF TypeOK
<1>4. GraphInv'
  BY <1>1, <1>2, GraphKept DEF graph
<1>5. NestInv'
  BY <1>1, <1>2 DEF NestInv, FrameInv, FileBelow, KindOf, InFile, Top
<1>6. ErrorInv'
  BY <1>1, <1>2 DEF ErrorInv, FileBelow, KindOf, InFile, Given
<1>7. OutcomeIsReported'
  BY <1>1, <1>2 DEF OutcomeIsReported
<1> QED
  BY <1>3, <1>4, <1>5, <1>6, <1>7 DEF WalkInv

\* So does every step.
LEMMA StepOK == WalkInv /\ [Next]_vars => WalkInv'
<1> SUFFICES ASSUME WalkInv, [Next]_vars PROVE WalkInv'
  OBVIOUS
<1>1. CASE UNCHANGED vars  BY <1>1, StutterOK
<1>2. ASSUME NEW n \in Obj \cup Val, Visit(n) PROVE WalkInv'
  BY <1>2, VisitStep
<1>3. CASE NextChild     BY <1>3, NextChildStep
<1>4. CASE LoopEnd       BY <1>4, LoopEndStep
<1>5. CASE ItemDone      BY <1>5, ItemDoneStep
<1>6. CASE ItemFails     BY <1>6, ItemFailsStep
<1>7. CASE KeyDone       BY <1>7, KeyDoneStep
<1>8. CASE PairDone      BY <1>8, PairDoneStep
<1>9. CASE PairFails     BY <1>9, PairFailsStep
<1>10. CASE ViewDone     BY <1>10, ViewDoneStep
<1>11. CASE ViewFails    BY <1>11, ViewFailsStep
<1>12. CASE ExportEnds   BY <1>12, ExportEndsStep
<1>13. CASE RecreateEnds BY <1>13, RecreateEndsStep
<1>14. CASE Output \/ OutputFails  BY <1>14, OutputStep
<1> QED
  BY <1>1, <1>2, <1>3, <1>4, <1>5, <1>6, <1>7, <1>8, <1>9, <1>10, <1>11, <1>12, <1>13, <1>14
     DEF Next

\* Whatever the objects and the file are, the calls in progress nest as
\* NestInv says and errors are where ErrorInv says they are.
\* (pointless_export_py_rec, pointless_recreate_convert_rec)
THEOREM WalkCorrect == Spec => []WalkInv
  BY InitOK, StepOK, PTL DEF Spec

\* The caller is told of an error exactly when one is pending.
\* (pointless_write_object, pointless_recreate_64)
THEOREM OutcomeHolds == Spec => []OutcomeIsReported
<1>1. WalkInv => OutcomeIsReported
  BY DEF WalkInv
<1> QED
  BY <1>1, WalkCorrect, PTL

\* What bounds the recursion, in any state.
LEMMA Bounded ==
  ASSUME WalkInv
  PROVE  RecursionIsBounded
<1>1. TypeOK /\ NestInv
  BY DEF WalkInv
<1> DEFINE inside == {i \in DOMAIN stack : InFile(stack[i].at)}
           outside == {i \in DOMAIN stack : ~InFile(stack[i].at)}
           containers == {v \in Val : FileKind[v] \in Container}
           place == [i \in inside |-> stack[i].at]
<1>2. Len(stack) \in Nat /\ DOMAIN stack = 1..Len(stack)
  BY <1>1 DEF TypeOK
<1>3. place \in Injection(inside, containers)
  <2>1. ASSUME NEW i \in inside PROVE stack[i].at \in containers
    <3>1. FrameInv(i) /\ InFile(stack[i].at)
      BY <1>1 DEF NestInv
    <3>2. KindOf(stack[i].at) \in Container
      BY <3>1, FileKinds DEF FrameInv
    <3>3. stack[i].at \in Val /\ KindOf(stack[i].at) = FileKind[stack[i].at]
      BY <3>1 DEF InFile, KindOf
    <3> QED
      BY <3>2, <3>3
  <2>2. ASSUME NEW i \in inside, NEW j \in inside, i # j
        PROVE  stack[i].at # stack[j].at
    <3>1. i \in DOMAIN stack /\ j \in DOMAIN stack /\ InFile(stack[i].at) /\ InFile(stack[j].at)
      OBVIOUS
    <3>2. i < j \/ j < i
      BY <1>2, <2>2, <3>1
    <3> QED
      BY <1>1, <3>1, <3>2 DEF NestInv
  <2>3. place \in [inside -> containers]
    BY <2>1
  <2> QED
    BY <2>2, <2>3 DEF Injection, IsInjective
<1>4. IsFiniteSet(containers)
  BY TraverseConstants, FS_Subset
<1>5. Cardinality(inside) <= Cardinality(containers)
  BY <1>3, <1>4, FS_Injection
<1>6. outside \subseteq 1..MaxDepth
  BY <1>1, <1>2 DEF NestInv, FrameInv
<1>7. Cardinality(outside) <= MaxDepth
  <2>1. MaxDepth \in Nat \ {0}
    BY TraverseConstants
  <2>2. IsFiniteSet(1..MaxDepth) /\ Cardinality(1..MaxDepth) = MaxDepth
    BY <2>1, FS_Interval
  <2> QED
    BY <1>6, <2>2, FS_Subset
<1> QED
  BY <1>5, <1>7 DEF RecursionIsBounded

\* The walks are nested no deeper than the limit for Python objects and the
\* number of containers of the file, which has no limit of its own.
\* (pointless_recreate_convert_rec: the mapping is set before the children)
THEOREM RecursionHolds == Spec => []RecursionIsBounded
  BY Bounded, WalkCorrect, PTL

-----------------------------------------------------------------------------
(* The mirror: nodes and the handles that they have. *)

\* Where a node is when it is visited: a value of the file is in the view, or
\* in none.
Home(n, view) == [via |-> IF InFile(n) THEN view ELSE None, node |-> n]
Origins == [via : Obj \cup {None}, node : Obj \cup Val]

\* Handle h is that of a node.  Numbers and texts have any number of handles.
Matches(origin, via, n, h) ==
  /\ h \in DOMAIN values /\ values[h].kind = KindOf(n)
  /\ KindOf(n) \in Leaf => values[h].of = n
  /\ KindOf(n) \in Container => origin[h] = [via |-> via, node |-> n]
\* A view has that of the value that it is of.
Fits(origin, via, n, h) ==
  IF KindOf(n) = "view" THEN Matches(origin, n, kids[n][1], h) ELSE Matches(origin, via, n, h)
Suits(origin, view, n, h) == Fits(origin, Home(n, view).via, n, h)

\* What the last of the first k calls is visiting.
Child(k) ==
  IF k = 0 THEN start
  ELSE IF KindOf(stack[k].at) = "view" THEN kids[stack[k].at][1] ELSE KidsOf(stack[k].at)[stack[k].i]

\* What is remembered is right.
SeenOK(origin, view) ==
  /\ \A o \in Obj : used[o] # Fail => Suits(origin, view, o, used[o])
  /\ \A v \in Val : mapping[v] # Fail => Suits(origin, view, v, mapping[v])
  /\ \A n \in Obj \cup Val : cache[n] # Fail => KindOf(n) = "int" /\ Suits(origin, view, n, cache[n])
  /\ view = None /\ client = "python" => \A v \in Val : mapping[v] = Fail

\* A container is remembered, or was until the end of its view.
IsRemembered(at, view, h) ==
  IF InFile(at.node) THEN \/ at.via = view /\ mapping[at.node] = h
                          \/ at.via \in Obj /\ used[at.via] # Fail
                     ELSE at.via = None /\ used[at.node] = h
\* It holds the handles of what it was made of, all of them when its call is over.
HandleOK(origin, view, h) ==
  LET at == origin[h]  items == values[h].items IN
  /\ values[h].kind = KindOf(at.node)
  /\ values[h].kind \in Leaf => items = <<>>
  /\ values[h].kind \in Container =>
       /\ IsRemembered(at, view, h)
       /\ \A j \in DOMAIN items :
            j \in DOMAIN KidsOf(at.node) /\ Fits(origin, at.via, KidsOf(at.node)[j], items[j])
       /\ (\A k \in DOMAIN stack : stack[k].handle # h) => Len(items) = Len(KidsOf(at.node))
HandlesOK(origin, view) ==
  /\ \A h \in DOMAIN values : HandleOK(origin, view, h)
  /\ \A g, h \in DOMAIN values :
       values[g].kind \in Container /\ values[h].kind \in Container /\ origin[g] = origin[h] => g = h

Busy(k) == k < Len(stack) \/ ctl.mode # "loop"
CallOK(origin, view, k) ==
  LET n == stack[k].at  h == stack[k].handle  i == stack[k].i IN
  /\ n = Child(k - 1)
  /\ KindOf(n) = "view" => n = view /\ h = Fail
  /\ KindOf(n) \in Container =>
       /\ origin[h] = Home(n, view)
       /\ i <= Len(KidsOf(n)) + 1 /\ (Busy(k) => i <= Len(KidsOf(n)))
       /\ IF KindOf(n) = "dict" /\ i % 2 = 0
          THEN /\ Len(values[h].items) = i - 2
               /\ Suits(origin, view, KidsOf(n)[i - 1], stack[k].key)
          ELSE Len(values[h].items) = i - 1
CallsOK(origin, view) ==
  /\ \A k \in DOMAIN stack : CallOK(origin, view, k)
  /\ \A k, l \in DOMAIN stack : k # l => stack[k].handle # stack[l].handle
  /\ view # None => used[view] = Fail /\ \E k \in DOMAIN stack : stack[k].at = view /\ KindOf(view) = "view"
  /\ view = None /\ client = "python" => ~FileBelow(Len(stack))

TurnOK(origin, view) ==
  /\ ctl.mode = "call" => ctl.node = Child(Len(stack))
  /\ ctl.mode = "return" => Suits(origin, view, Child(Len(stack)), Given)
  /\ ctl.mode = "output" => stack = <<>> /\ Suits(origin, view, start, root)

Mirrors(origin, view) ==
  /\ Len(origin) = Len(values)
  /\ SeenOK(origin, view) /\ HandlesOK(origin, view) /\ CallsOK(origin, view) /\ TurnOK(origin, view)

Before(origin, view) ==
  WalkInv /\ origin \in Seq(Origins) /\ view \in Obj \cup {None} /\ Mirrors(origin, view)

\* Handles stay what they are.
Grows(origin, more) ==
  /\ DOMAIN values \subseteq DOMAIN values'
  /\ \A h \in DOMAIN values :
       values'[h].kind = values[h].kind /\ values'[h].of = values[h].of /\ more[h] = origin[h]

\* The graph stays what it is.
LEMMA SameGraph ==
  ASSUME UNCHANGED graph
  PROVE  /\ client' = client /\ start' = start /\ kind' = kind /\ kids' = kids
         /\ \A n : KindOf(n)' = KindOf(n) /\ KidsOf(n)' = KidsOf(n)
<1>1. client' = client /\ start' = start /\ kind' = kind /\ kids' = kids
  BY DEF graph
<1> QED BY <1>1 DEF KindOf, KidsOf, InFile

\* The sizes of things.
LEMMA Sizes ==
  ASSUME TypeOK
  PROVE  /\ values \in Seq(Written) /\ Len(values) \in Nat /\ DOMAIN values = 1..Len(values)
         /\ stack \in Seq(Frames) /\ Len(stack) \in Nat /\ DOMAIN stack = 1..Len(stack)
         /\ \A h \in DOMAIN values : h # Fail /\ values[h] \in Written /\ values[h].items \in Seq(Nat)
         /\ \A k \in DOMAIN stack : /\ stack[k] \in Frames /\ stack[k].at \in Obj \cup Val
                                    /\ stack[k].handle \in Nat /\ stack[k].i \in Nat \ {0} /\ stack[k].key \in Nat
         /\ \A n \in Obj \cup Val : KidsOf(n) \in Seq(Obj \cup Val)
<1>1. values \in Seq(Written) /\ Len(values) \in Nat /\ DOMAIN values = 1..Len(values)
  BY DEF TypeOK
<1>2. stack \in Seq(Frames) /\ Len(stack) \in Nat /\ DOMAIN stack = 1..Len(stack)
  BY DEF TypeOK
<1>3. \A h \in DOMAIN values : h # Fail /\ values[h] \in Written
  BY <1>1 DEF Fail
<1>4. \A h \in DOMAIN values : values[h].items \in Seq(Nat)
  BY <1>3 DEF Written
<1>5. \A k \in DOMAIN stack : stack[k] \in Frames
  BY <1>2
<1>6. \A k \in DOMAIN stack : /\ stack[k].at \in Obj \cup Val
                              /\ stack[k].handle \in Nat /\ stack[k].i \in Nat \ {0} /\ stack[k].key \in Nat
  BY <1>5 DEF Frames
<1>7. ASSUME NEW n \in Obj \cup Val PROVE KidsOf(n) \in Seq(Obj \cup Val)
  <2>1. CASE n \in Val
    <3>1. KidsOf(n) = FileKids[n] /\ FileKids[n] \in Seq(Val)
      BY <2>1, TraverseConstants DEF KidsOf, InFile
    <3>2. Val \subseteq Obj \cup Val
      OBVIOUS
    <3> QED BY <3>1, <3>2
  <2>2. CASE n \notin Val
    BY <2>2 DEF KidsOf, InFile, TypeOK
  <2> QED BY <2>1, <2>2
<1> QED BY <1>1, <1>2, <1>3, <1>4, <1>5, <1>6, <1>7

\* A handle that fits still does.
LEMMA FitsKept ==
  ASSUME UNCHANGED graph, NEW origin, NEW more, Grows(origin, more),
         NEW via, NEW n, NEW h, Fits(origin, via, n, h)
  PROVE  Fits(more, via, n, h)'
<1>1. ASSUME NEW v, NEW m, Matches(origin, v, m, h) PROVE Matches(more, v, m, h)'
  <2>1. KindOf(m)' = KindOf(m)
    BY SameGraph
  <2> QED BY <1>1, <2>1 DEF Matches, Grows
<1>2. KindOf(n)' = KindOf(n) /\ kids' = kids
  BY SameGraph
<1> QED BY <1>1, <1>2 DEF Fits

\* Python objects fit in any view.
LEMMA SuitsAnywhere ==
  ASSUME NEW origin, NEW view, NEW next, NEW n, NEW h, Suits(origin, view, n, h),
         view = next \/ ~InFile(n) \/ KindOf(n) \in Leaf
  PROVE  Suits(origin, next, n, h)
<1>1. CASE view = next \/ ~InFile(n)
  <2>1. Home(n, view).via = Home(n, next).via
    BY <1>1 DEF Home
  <2> QED BY <2>1 DEF Suits
<1>2. CASE KindOf(n) \in Leaf
  BY <1>2 DEF Suits, Fits, Matches, Leaf, Container
<1> QED BY <1>1, <1>2

\* And so does a handle that suits.
LEMMA SuitsKept ==
  ASSUME UNCHANGED graph, NEW origin, NEW more, Grows(origin, more),
         NEW view, NEW next, NEW n, NEW h, Suits(origin, view, n, h),
         view = next \/ ~InFile(n) \/ KindOf(n) \in Leaf
  PROVE  Suits(more, next, n, h)'
<1>1. Suits(origin, next, n, h)
  BY SuitsAnywhere
<1>2. PICK via : via = Home(n, next).via
  OBVIOUS
<1>3. Fits(origin, via, n, h)
  BY <1>1, <1>2 DEF Suits
<1>4. Fits(more, via, n, h)'
  BY <1>3, FitsKept
<1>5. Home(n, next)' = Home(n, next)
  BY DEF Home, InFile
<1> QED BY <1>2, <1>4, <1>5 DEF Suits

\* What fits is a handle.
LEMMA FitsHandle ==
  ASSUME NEW origin, NEW view, NEW n, NEW h, Suits(origin, view, n, h)
  PROVE  h \in DOMAIN values
BY DEF Suits, Fits, Matches

\* What was remembered stays so.
LEMMA SeenAfter ==
  ASSUME NEW origin, NEW more, NEW view, NEW next, TypeOK,
         UNCHANGED graph, Grows(origin, more), SeenOK(origin, view),
         view = next \/ \A v \in Val : mapping'[v] = Fail,
         \A o \in Obj : used'[o] \in {used[o], Fail} \/ Suits(more, next, o, used[o])',
         \A v \in Val : mapping'[v] \in {mapping[v], Fail} \/ Suits(more, next, v, mapping[v])',
         \A n \in Obj \cup Val : \/ cache'[n] = cache[n]
                                 \/ KindOf(n) = "int" /\ Suits(more, next, n, cache[n])',
         next = None /\ client = "python" => \A v \in Val : mapping'[v] = Fail
  PROVE  SeenOK(more, next)'
<1>1. ASSUME NEW o \in Obj, used'[o] # Fail PROVE Suits(more, next, o, used[o])'
  <2>1. CASE used'[o] = used[o]
    <3>1. Suits(origin, view, o, used[o]) /\ ~InFile(o)
      BY <1>1, <2>1, TraverseConstants DEF SeenOK, InFile
    <3>2. PICK h : h = used[o]
      OBVIOUS
    <3>3. Suits(more, next, o, h)'
      BY <3>1, <3>2, SuitsKept
    <3> QED BY <2>1, <3>2, <3>3 DEF Suits, Fits, Matches
  <2> QED BY <1>1, <2>1
<1>2. ASSUME NEW v \in Val, mapping'[v] # Fail PROVE Suits(more, next, v, mapping[v])'
  <2>1. CASE mapping'[v] = mapping[v]
    <3>1. Suits(origin, view, v, mapping[v]) /\ view = next
      BY <1>2, <2>1 DEF SeenOK
    <3>2. PICK h : h = mapping[v]
      OBVIOUS
    <3>3. Suits(more, next, v, h)'
      BY <3>1, <3>2, SuitsKept
    <3> QED BY <2>1, <3>2, <3>3 DEF Suits, Fits, Matches
  <2> QED BY <1>2, <2>1
<1>3. ASSUME NEW n \in Obj \cup Val, cache'[n] # Fail
      PROVE  KindOf(n)' = "int" /\ Suits(more, next, n, cache[n])'
  <2>1. KindOf(n)' = KindOf(n)
    BY SameGraph
  <2>2. CASE cache'[n] = cache[n]
    <3>1. Suits(origin, view, n, cache[n]) /\ KindOf(n) = "int"
      BY <1>3, <2>2 DEF SeenOK
    <3>2. PICK h : h = cache[n]
      OBVIOUS
    <3>3. Suits(more, next, n, h)'
      BY <3>1, <3>2, SuitsKept DEF Leaf
    <3> QED BY <2>1, <2>2, <3>1, <3>2, <3>3 DEF Suits, Fits, Matches
  <2> QED BY <1>3, <2>1, <2>2
<1>4. client' = client
  BY SameGraph
<1> QED BY <1>1, <1>2, <1>3, <1>4 DEF SeenOK

\* So does a handle that is not of the call that goes on.
LEMMA HandleKept ==
  ASSUME NEW origin, NEW more, NEW view, NEW next, UNCHANGED graph, Grows(origin, more),
         NEW h \in DOMAIN values, HandleOK(origin, view, h),
         values'[h].items = values[h].items,
         values[h].kind \in Container => IsRemembered(origin[h], next, h)',
         values[h].kind \in Container /\ (\A k \in DOMAIN stack' : stack'[k].handle # h) =>
           \/ \A k \in DOMAIN stack : stack[k].handle # h
           \/ Len(values[h].items) = Len(KidsOf(origin[h].node))
  PROVE  HandleOK(more, next, h)'
<1>1. more[h] = origin[h] /\ values'[h].kind = values[h].kind
  BY DEF Grows
<1>2. PICK at : at = origin[h]
  OBVIOUS
<1>3. KindOf(at.node)' = KindOf(at.node) /\ KidsOf(at.node)' = KidsOf(at.node)
  BY SameGraph
<1>4. ASSUME values[h].kind \in Container, NEW j \in DOMAIN values[h].items
      PROVE  /\ j \in DOMAIN KidsOf(at.node)
             /\ Fits(more, at.via, KidsOf(at.node)[j], values[h].items[j])'
  <2>1. j \in DOMAIN KidsOf(at.node) /\ Fits(origin, at.via, KidsOf(at.node)[j], values[h].items[j])
    BY <1>2, <1>4 DEF HandleOK
  <2>2. PICK n, g, via : n = KidsOf(at.node)[j] /\ g = values[h].items[j] /\ via = at.via
    OBVIOUS
  <2>3. Fits(more, via, n, g)'
    BY <2>1, <2>2, FitsKept
  <2>4. n = (KidsOf(at.node)[j])' /\ g = (values[h].items[j])'
    BY <1>3, <2>2
  <2> QED BY <2>1, <2>2, <2>3, <2>4 DEF Fits, Matches
<1> QED BY <1>1, <1>2, <1>3, <1>4 DEF HandleOK

\* What is kept is the way back from handles to nodes and the view that is
\* being visited.
MirrorInv ==
  err = None => \E origin \in Seq(Origins), view \in Obj \cup {None} : Mirrors(origin, view)

\* What every step has to show.
LEMMA MirrorShown ==
  ASSUME NEW more \in Seq(Origins), NEW next \in Obj \cup {None}, Len(more) = Len(values'),
         SeenOK(more, next)', HandlesOK(more, next)', CallsOK(more, next)', TurnOK(more, next)'
  PROVE  MirrorInv'
<1>1. Mirrors(more, next)'
  BY DEF Mirrors
<1> QED BY <1>1 DEF MirrorInv

\* What may be used of the state before.
LEMMA BeforeFacts ==
  ASSUME NEW origin, NEW view, Before(origin, view)
  PROVE  /\ TypeOK /\ GraphInv /\ NestInv /\ ErrorInv
         /\ origin \in Seq(Origins) /\ view \in Obj \cup {None} /\ Len(origin) = Len(values)
         /\ SeenOK(origin, view) /\ HandlesOK(origin, view) /\ CallsOK(origin, view) /\ TurnOK(origin, view)
BY DEF Before, WalkInv, Mirrors

\* There is one view in progress at most, and what it calls is in the file.
LEMMA ViewFacts ==
  ASSUME NEW origin, NEW view, TypeOK, NestInv, CallsOK(origin, view)
  PROVE  /\ view # None => FileBelow(Len(stack))
         /\ \A k, l \in DOMAIN stack : k < l /\ KindOf(stack[k].at) = "view" => InFile(stack[l].at)
<1>1. DOMAIN stack = 1..Len(stack) /\ Len(stack) \in Nat
  BY Sizes
<1>2. ASSUME NEW k \in DOMAIN stack, NEW l \in DOMAIN stack, k < l, KindOf(stack[k].at) = "view"
      PROVE  InFile(stack[l].at)
  <2>1. k + 1 \in DOMAIN stack
    BY <1>1, <1>2
  <2>2. PICK n : n = k + 1
    OBVIOUS
  <2>3. InFile(stack[n].at)
    <3>1. n \in DOMAIN stack /\ n - 1 = k /\ n - 1 # 0
      BY <1>1, <1>2, <2>2
    <3>2. FrameInv(n)
      BY <3>1 DEF NestInv
    <3>3. FileBelow(n - 1)
      BY <1>2, <3>1 DEF FileBelow
    <3> QED BY <3>2, <3>3 DEF FrameInv
  <2>4. l = k + 1 \/ k + 1 < l
    BY <1>1, <1>2
  <2> QED BY <2>1, <2>2, <2>3, <2>4 DEF NestInv
<1>3. ASSUME view # None PROVE FileBelow(Len(stack))
  <2>1. PICK k \in DOMAIN stack : KindOf(stack[k].at) = "view"
    BY <1>3 DEF CallsOK
  <2>2. CASE k = Len(stack)
    BY <1>1, <2>1, <2>2 DEF FileBelow
  <2>3. CASE k # Len(stack)
    <3>1. Len(stack) \in DOMAIN stack /\ k < Len(stack)
      BY <1>1, <2>3
    <3>2. InFile(stack[Len(stack)].at)
      BY <1>2, <2>1, <3>1
    <3> QED BY <1>1, <3>1, <3>2 DEF FileBelow
  <2> QED BY <2>2, <2>3
<1> QED BY <1>2, <1>3

\* A call that does not go on stays as it is.
LEMMA CallKept ==
  ASSUME NEW origin, NEW more, NEW view, NEW next, TypeOK, GraphInv, NestInv,
         UNCHANGED graph, Grows(origin, more),
         NEW k \in DOMAIN stack, CallOK(origin, view, k), stack'[k] = stack[k],
         k > 1 => stack'[k - 1].at = stack[k - 1].at /\ stack'[k - 1].i = stack[k - 1].i,
         Busy(k)' => Busy(k) \/ stack[k].i <= Len(KidsOf(stack[k].at)),
         KindOf(stack[k].at) \in Container => values'[stack[k].handle].items = values[stack[k].handle].items,
         view = next \/ (~InFile(stack[k].at) /\ KindOf(stack[k].at) # "view")
  PROVE  CallOK(more, next, k)'
<1>1. PICK n, h, i : n = stack[k].at /\ h = stack[k].handle /\ i = stack[k].i
  OBVIOUS
<1>2. /\ KindOf(n)' = KindOf(n) /\ KidsOf(n)' = KidsOf(n) /\ start' = start /\ kids' = kids
      /\ \A m : KindOf(m)' = KindOf(m) /\ KidsOf(m)' = KidsOf(m)
  BY SameGraph
<1>3. k \in Nat \ {0} /\ n \in Obj \cup Val /\ i \in Nat \ {0} /\ KidsOf(n) \in Seq(Obj \cup Val)
  BY <1>1, Sizes
<1>4. Child(k - 1)' = Child(k - 1)
  <2>1. CASE k = 1
    BY <1>2, <2>1 DEF Child
  <2>2. CASE k > 1
    <3>1. PICK m, j : m = stack[k - 1].at /\ j = stack[k - 1].i
      OBVIOUS
    <3>2. KindOf(m)' = KindOf(m) /\ KidsOf(m)' = KidsOf(m) /\ k - 1 # 0
      BY <1>2, <2>2
    <3> QED BY <1>2, <2>2, <3>1, <3>2 DEF Child
  <2> QED BY <1>3, <2>1, <2>2
<1>5. n = Child(k - 1) /\ (KindOf(n) = "view" => n = view /\ h = Fail)
  BY <1>1 DEF CallOK
<1>6. ASSUME KindOf(n) \in Container
      PROVE  /\ more[h] = Home(n, next)
             /\ i <= Len(KidsOf(n)) + 1 /\ (Busy(k)' => i <= Len(KidsOf(n)))
             /\ IF KindOf(n) = "dict" /\ i % 2 = 0
                THEN /\ Len(values[h].items) = i - 2
                     /\ Suits(more, next, KidsOf(n)[i - 1], stack[k].key)'
                ELSE Len(values[h].items) = i - 1
  <2>1. /\ origin[h] = Home(n, view)
        /\ i <= Len(KidsOf(n)) + 1 /\ (Busy(k) => i <= Len(KidsOf(n)))
        /\ IF KindOf(n) = "dict" /\ i % 2 = 0
           THEN Len(values[h].items) = i - 2 /\ Suits(origin, view, KidsOf(n)[i - 1], stack[k].key)
           ELSE Len(values[h].items) = i - 1
    BY <1>1, <1>6 DEF CallOK
  <2>2. more[h] = Home(n, next)
    <3>1. h \in DOMAIN values
      BY <1>1, <1>6 DEF NestInv, FrameInv
    <3> QED BY <1>1, <2>1, <3>1 DEF Grows, Home
  <2>3. ASSUME KindOf(n) = "dict", i % 2 = 0
        PROVE  Suits(more, next, KidsOf(n)[i - 1], stack[k].key)'
    <3>1. PICK m, g : m = KidsOf(n)[i - 1] /\ g = stack[k].key
      OBVIOUS
    <3>2. i - 1 \in 1..Len(KidsOf(n))
      BY <1>3, <2>1, <2>3
    <3>3. view = next \/ ~InFile(m)
      <4>1. InFile(m) <=> InFile(n)
        BY <1>3, <1>6, <3>1, <3>2, KidsAreNear
      <4> QED BY <1>1, <4>1
    <3>4. Suits(origin, view, m, g)
      BY <2>1, <2>3, <3>1
    <3>5. Suits(more, next, m, g)'
      BY <3>3, <3>4, SuitsKept
    <3>6. m = (KidsOf(n)[i - 1])' /\ g = stack'[k].key
      BY <1>2, <3>1
    <3> QED BY <3>5, <3>6 DEF Suits, Fits, Matches
  <2> QED BY <1>1, <2>1, <2>2, <2>3
<1>7. Home(n, next)' = Home(n, next)
  BY DEF Home, InFile
<1>8. KindOf(n) = "view" => view = next
  BY <1>1
<1>9. ASSUME KindOf(n) = "dict", i % 2 = 0, KindOf(n) \in Container
      PROVE  Suits(more, next, KidsOf(n)[i - 1], stack[k].key)'
  BY <1>6, <1>9
<1>10. n = stack'[k].at /\ h = stack'[k].handle /\ i = stack'[k].i
  BY <1>1
<1>11. KindOf(n) \in Container => (values[h].items)' = values[h].items
  BY <1>1
<1> HIDE DEF Child
<1> QED
  <2>1. n = Child(k - 1)' /\ (KindOf(n)' = "view" => n = next /\ h = Fail)
    BY <1>2, <1>4, <1>5, <1>8
  <2>2. ASSUME KindOf(n)' \in Container
        PROVE  /\ more[h] = Home(n, next)'
               /\ i <= Len(KidsOf(n)') + 1 /\ (Busy(k)' => i <= Len(KidsOf(n)'))
               /\ IF KindOf(n)' = "dict" /\ i % 2 = 0
                  THEN /\ Len(values'[h].items) = i - 2
                       /\ Suits(more, next, KidsOf(n)[i - 1], stack[k].key)'
                  ELSE Len(values'[h].items) = i - 1
    BY <1>2, <1>6, <1>7, <1>11, <2>2
  <2> QED BY <2>1, <2>2, <1>10 DEF CallOK, Suits, Fits, Matches

-----------------------------------------------------------------------------
(* Returns to a call. *)

\* The stack stays, and what it needs too.
LEMMA StackStays ==
  ASSUME NEW origin, NEW more, NEW view, Before(origin, view), UNCHANGED graph, Grows(origin, more),
         stack' = stack,
         \A h \in DOMAIN values : values'[h].items = values[h].items,
         ctl.mode = "loop" /\ ctl'.mode # "loop" => Top.i <= Len(KidsOf(Top.at)),
         view # None => used'[view] = used[view]
  PROVE  CallsOK(more, view)' /\ \A k \in 0..Len(stack) : Child(k)' = Child(k)
<1>1. TypeOK /\ GraphInv /\ NestInv /\ CallsOK(origin, view)
  BY BeforeFacts
<1>2. DOMAIN stack = 1..Len(stack) /\ Len(stack) \in Nat
  BY <1>1, Sizes
<1>3. ASSUME NEW k \in DOMAIN stack PROVE CallOK(more, view, k)'
  <2>1. CallOK(origin, view, k)
    BY <1>1 DEF CallsOK
  <2>2. Busy(k)' => Busy(k) \/ stack[k].i <= Len(KidsOf(stack[k].at))
    BY <1>2 DEF Busy, Top
  <2>3. KindOf(stack[k].at) \in Container => values'[stack[k].handle].items = values[stack[k].handle].items
    BY <1>1 DEF NestInv, FrameInv
  <2> QED BY <1>1, <2>1, <2>2, <2>3, CallKept
<1>4. view # None => used'[view] = Fail /\ \E k \in DOMAIN stack : stack[k].at = view /\ KindOf(view)' = "view"
  <2>1. KindOf(view)' = KindOf(view)
    BY SameGraph
  <2> QED BY <1>1, <2>1 DEF CallsOK
<1>5. \A k, l \in DOMAIN stack : k # l => stack[k].handle # stack[l].handle
  BY <1>1 DEF CallsOK
<1>6. ASSUME NEW k \in 0..Len(stack) PROVE Child(k)' = Child(k)
  <2>1. PICK m : m = stack[k].at
    OBVIOUS
  <2>2. KindOf(m)' = KindOf(m) /\ KidsOf(m)' = KidsOf(m) /\ start' = start /\ kids' = kids
    BY SameGraph
  <2> QED BY <2>1, <2>2 DEF Child
<1>7. client' = client /\ FileBelow(Len(stack))' = FileBelow(Len(stack))
  <2>1. PICK m : m = stack[Len(stack)].at
    OBVIOUS
  <2>2. KindOf(m)' = KindOf(m) /\ client' = client
    BY SameGraph
  <2> QED BY <2>1, <2>2 DEF FileBelow, InFile
<1>8. view = None /\ client = "python" => ~FileBelow(Len(stack))
  BY <1>1 DEF CallsOK
<1> QED BY <1>3, <1>4, <1>5, <1>6, <1>7, <1>8 DEF CallsOK

\* A call returns the handle that is asked for.
LEMMA ReturnsRight ==
  ASSUME NEW more, NEW next, NEW h, ctl' = Return(h), NEW n, n = Child(Len(stack))', Suits(more, next, n, h)'
  PROVE  TurnOK(more, next)'
<1>1. ctl'.mode = "return" /\ Given' = h
  BY DEF Return, Given
<1>2. Suits(more, next, Child(Len(stack)), Given)'
  BY <1>1 DEF Suits, Fits, Matches
<1> QED BY <1>1, <1>2 DEF TurnOK

\* Nothing is written and no call ends.
LEMMA NothingWritten ==
  ASSUME NEW origin, NEW view, Before(origin, view), UNCHANGED graph,
         used' = used, mapping' = mapping, cache' = cache, values' = values,
         DOMAIN stack' = DOMAIN stack, \A k \in DOMAIN stack : stack'[k].handle = stack[k].handle,
         CallsOK(origin, view)', TurnOK(origin, view)'
  PROVE  MirrorInv'
<1>1. /\ TypeOK /\ origin \in Seq(Origins) /\ view \in Obj \cup {None} /\ Len(origin) = Len(values)
      /\ SeenOK(origin, view) /\ HandlesOK(origin, view)
  BY BeforeFacts
<1>2. Grows(origin, origin)
  BY DEF Grows
<1>3. SeenOK(origin, view)'
  BY <1>1, <1>2, SeenAfter DEF SeenOK
<1>4. ASSUME NEW h \in DOMAIN values PROVE HandleOK(origin, view, h)'
  <2>1. HandleOK(origin, view, h)
    BY <1>1 DEF HandlesOK
  <2>2. IsRemembered(origin[h], view, h) => IsRemembered(origin[h], view, h)'
    BY DEF IsRemembered, InFile
  <2>3. values[h].kind \in Container => IsRemembered(origin[h], view, h)'
    BY <2>1, <2>2 DEF HandleOK
  <2> QED BY <1>2, <2>1, <2>3, HandleKept
<1>5. HandlesOK(origin, view)'
  BY <1>1, <1>4 DEF HandlesOK
<1> QED BY <1>1, <1>3, <1>5, MirrorShown

\* A number that is in the cache, or what was visited before.
LEMMA VisitSeenMirrors ==
  ASSUME NEW origin, NEW view, Before(origin, view), NEW n \in Obj \cup Val,
         \/ VisitSimple(n) /\ cache[n] # Fail
         \/ VisitSeen(n)
  PROVE  MirrorInv'
<1>1. /\ ctl.mode = "call" /\ ctl.node = n /\ UNCHANGED graph /\ stack' = stack
      /\ used' = used /\ mapping' = mapping /\ cache' = cache /\ values' = values
  BY DEF VisitSimple, VisitSeen, Running, Visiting
<1>2. TypeOK /\ SeenOK(origin, view) /\ TurnOK(origin, view)
  BY BeforeFacts
<1>3. PICK h : ctl' = Return(h) /\ h # Fail /\ (h = cache[n] \/ h = SeenAs(n))
  BY DEF VisitSimple, VisitSeen
<1>4. Suits(origin, view, n, h)
  BY <1>2, <1>3 DEF SeenOK, SeenAs, InFile
<1>5. Grows(origin, origin)
  BY <1>1 DEF Grows
<1>6. Suits(origin, view, n, h)'
  BY <1>1, <1>4, <1>5, SuitsKept
<1>7. CallsOK(origin, view)' /\ Child(Len(stack))' = Child(Len(stack))
  <2>1. Len(stack) \in 0..Len(stack)
    BY <1>2, Sizes
  <2>2. CallsOK(origin, view)' /\ \A k \in 0..Len(stack) : Child(k)' = Child(k)
    BY <1>1, <1>5, StackStays
  <2>3. PICK m : m = Len(stack)
    OBVIOUS
  <2>4. Child(m)' = Child(m)
    BY <2>1, <2>2, <2>3
  <2> QED BY <1>1, <2>2, <2>3, <2>4 DEF Child
<1>8. n = Child(Len(stack))'
  BY <1>1, <1>2, <1>7 DEF TurnOK
<1>9. TurnOK(origin, view)'
  BY <1>3, <1>6, <1>8, ReturnsRight
<1> QED BY <1>1, <1>7, <1>9, NothingWritten

\* A handle is made for node n.
Makes(origin, view, n, more, new) ==
  /\ values' = Append(values, NewValue(n)) /\ new = NewHandle
  /\ more = Append(origin, Home(n, view))

\* A new handle is of the node that is visited.
LEMMA HandleIsNew ==
  ASSUME NEW origin, NEW view, Before(origin, view), UNCHANGED graph,
         NEW n \in Obj \cup Val, KindOf(n) \in Leaf \cup Container,
         NEW more, NEW new, Makes(origin, view, n, more, new)
  PROVE  /\ more \in Seq(Origins) /\ Len(more) = Len(values') /\ Grows(origin, more)
         /\ DOMAIN values' = DOMAIN values \cup {new} /\ new \notin DOMAIN values
         /\ new \in Nat /\ new # Fail
         /\ values'[new] = NewValue(n) /\ more[new] = Home(n, view)
         /\ \A h \in DOMAIN values : values'[h] = values[h] /\ more[h] = origin[h]
         /\ Suits(more, view, n, new)'
<1> USE DEF Makes
<1>1. /\ TypeOK /\ origin \in Seq(Origins) /\ view \in Obj \cup {None} /\ Len(origin) = Len(values)
  BY BeforeFacts
<1>2. values \in Seq(Written) /\ Len(values) \in Nat /\ DOMAIN values = 1..Len(values)
  BY <1>1, Sizes
<1>3. Home(n, view) \in Origins
  BY <1>1 DEF Home, Origins, InFile
<1>4. /\ DOMAIN values' = 1..(Len(values) + 1) /\ values'[Len(values) + 1] = NewValue(n)
      /\ Len(values') = Len(values) + 1 /\ \A h \in 1..Len(values) : values'[h] = values[h]
  BY <1>2
<1>5. /\ more \in Seq(Origins) /\ Len(more) = Len(values) + 1 /\ more[Len(values) + 1] = Home(n, view)
      /\ \A h \in 1..Len(values) : more[h] = origin[h]
  BY <1>1, <1>2, <1>3
<1>6. /\ DOMAIN values' = DOMAIN values \cup {new} /\ new \notin DOMAIN values
      /\ new \in Nat /\ new # Fail
  BY <1>2, <1>4 DEF NewHandle, Fail
<1>7. Grows(origin, more)
  BY <1>2, <1>4, <1>5 DEF Grows
<1>8. Suits(more, view, n, new)'
  <2>1. KindOf(n)' = KindOf(n) /\ KindOf(n) # "view"
    BY SameGraph DEF Leaf, Container
  <2>2. Home(n, view)' = Home(n, view)
    BY DEF Home, InFile
  <2>3. values'[new] = NewValue(n) /\ more[new] = Home(n, view) /\ new \in DOMAIN values'
    BY <1>4, <1>5, <1>6 DEF NewHandle
  <2>4. values'[new].kind = KindOf(n) /\ (KindOf(n) \in Leaf => values'[new].of = n)
    BY <2>3 DEF NewValue
  <2> QED BY <2>1, <2>2, <2>3, <2>4 DEF Suits, Fits, Matches, Home
<1> QED BY <1>2, <1>4, <1>5, <1>6, <1>7, <1>8 DEF NewHandle

-----------------------------------------------------------------------------
(* New values. *)

\* A container of a node that has not been visited has not been written.
LEMMA NodeIsNew ==
  ASSUME NEW origin, NEW view, Before(origin, view), NEW n \in Obj \cup Val, SeenAs(n) = Fail,
         NEW h \in DOMAIN values, values[h].kind \in Container, origin[h].node = n
  PROVE  origin[h] # Home(n, view)
<1>1. TypeOK /\ HandlesOK(origin, view) /\ CallsOK(origin, view)
  BY BeforeFacts
<1>2. HandleOK(origin, view, h) /\ h # Fail
  BY <1>1, Sizes DEF HandlesOK
<1>3. IsRemembered(origin[h], view, h)
  BY <1>2 DEF HandleOK
<1>4. CASE ~InFile(n)
  BY <1>2, <1>3, <1>4 DEF IsRemembered, SeenAs
<1>5. CASE InFile(n)
  <2>1. origin[h].via \in Obj /\ used[origin[h].via] # Fail
    BY <1>2, <1>3, <1>5 DEF IsRemembered, SeenAs
  <2>2. SUFFICES ASSUME origin[h].via = view PROVE FALSE
    BY <1>5 DEF Home
  <2>3. view # None => used[view] = Fail
    BY <1>1 DEF CallsOK
  <2> QED BY <2>1, <2>2, <2>3, NoneIsNone
<1> QED BY <1>4, <1>5

\* A leaf is written.
LEMMA LeafMirrors ==
  ASSUME NEW origin, NEW view, Before(origin, view), UNCHANGED graph,
         NEW n \in Obj \cup Val, KindOf(n) \in Leaf, ctl.mode = "call", ctl.node = n,
         stack' = stack, values' = Append(values, NewValue(n)), ctl' = Return(NewHandle),
         \A o \in Obj : used'[o] = used[o] \/ (o = n /\ used'[o] = NewHandle),
         \A v \in Val : mapping'[v] = mapping[v] \/ (v = n /\ mapping'[v] = NewHandle),
         \A m \in Obj \cup Val : cache'[m] = cache[m] \/ (m = n /\ KindOf(m) = "int" /\ cache'[m] = NewHandle)
  PROVE  MirrorInv'
<1>1. /\ TypeOK /\ NestInv /\ origin \in Seq(Origins) /\ view \in Obj \cup {None} /\ Len(origin) = Len(values)
      /\ SeenOK(origin, view) /\ HandlesOK(origin, view) /\ CallsOK(origin, view) /\ TurnOK(origin, view)
  BY BeforeFacts
<1>2. PICK more : more = Append(origin, Home(n, view))
  OBVIOUS
<1>3. PICK new : new = NewHandle
  OBVIOUS
<1>4. /\ more \in Seq(Origins) /\ Len(more) = Len(values') /\ Grows(origin, more)
      /\ DOMAIN values' = DOMAIN values \cup {new} /\ new \notin DOMAIN values
      /\ new \in Nat /\ new # Fail
      /\ values'[new] = NewValue(n) /\ more[new] = Home(n, view)
      /\ \A h \in DOMAIN values : values'[h] = values[h] /\ more[h] = origin[h]
      /\ Suits(more, view, n, new)'
  <2>1. KindOf(n) \in Leaf \cup Container
    OBVIOUS
  <2>2. Makes(origin, view, n, more, new)
    BY <1>2, <1>3 DEF Makes
  <2> QED BY <2>1, <2>2, HandleIsNew
<1>5. KindOf(n) \notin Container /\ KindOf(n) # "view"
  BY DEF Leaf, Container
<1>6. SeenOK(more, view)'
  <2>1. ASSUME NEW o \in Obj PROVE used'[o] \in {used[o], Fail} \/ Suits(more, view, o, used[o])'
    <3>1. CASE o = n /\ used'[o] = new
      BY <1>4, <3>1 DEF Suits, Fits, Matches
    <3> QED BY <1>3, <3>1
  <2>2. ASSUME NEW v \in Val PROVE mapping'[v] \in {mapping[v], Fail} \/ Suits(more, view, v, mapping[v])'
    <3>1. CASE v = n /\ mapping'[v] = new
      BY <1>4, <3>1 DEF Suits, Fits, Matches
    <3> QED BY <1>3, <3>1
  <2>3. ASSUME NEW m \in Obj \cup Val
        PROVE  cache'[m] = cache[m] \/ (KindOf(m) = "int" /\ Suits(more, view, m, cache[m])')
    <3>1. CASE m = n /\ KindOf(m) = "int" /\ cache'[m] = new
      BY <1>4, <3>1 DEF Suits, Fits, Matches
    <3> QED BY <1>3, <3>1
  <2>4. view = None /\ client = "python" => \A v \in Val : mapping'[v] = Fail
    <3>1. view = None /\ client = "python" => \A v \in Val : mapping[v] = Fail
      BY <1>1 DEF SeenOK
    <3>2. view = None /\ client = "python" => ~InFile(n)
      BY <1>1 DEF CallsOK, NestInv
    <3> QED BY <3>1, <3>2 DEF InFile
  <2> QED BY <1>1, <1>4, <2>1, <2>2, <2>3, <2>4, SeenAfter
<1>7. ASSUME NEW h \in DOMAIN values PROVE HandleOK(more, view, h)'
  <2>1. HandleOK(origin, view, h) /\ h # Fail
    BY <1>1, Sizes DEF HandlesOK
  <2>2. ASSUME values[h].kind \in Container PROVE IsRemembered(origin[h], view, h)'
    <3>1. PICK at : at = origin[h]
      OBVIOUS
    <3>2. IsRemembered(at, view, h) /\ KindOf(at.node) \in Container
      BY <2>1, <2>2, <3>1 DEF HandleOK
    <3>3. at.node # n
      BY <1>5, <3>2
    <3>4. InFile(at.node)' = InFile(at.node) /\ (InFile(at.node) => at.node \in Val)
      BY DEF InFile
    <3>5. at.node \in Obj \cup Val
      <4>1. origin[h] \in Origins
        BY <1>1, Sizes
      <4> QED BY <3>1, <4>1 DEF Origins
    <3>6. at.via \in Obj /\ used[at.via] # Fail => used'[at.via] # Fail
      BY <1>3, <1>4
    <3>7. InFile(at.node) => mapping'[at.node] = mapping[at.node]
      BY <3>3, <3>4
    <3>8. ~InFile(at.node) => used'[at.node] = used[at.node]
      BY <3>3, <3>5 DEF InFile
    <3>9. IsRemembered(at, view, h)'
      BY <3>2, <3>4, <3>6, <3>7, <3>8 DEF IsRemembered
    <3> QED BY <3>1, <3>9
  <2> QED BY <1>4, <2>1, <2>2, HandleKept
<1>8. HandleOK(more, view, new)'
  <2>1. values'[new].kind = KindOf(n) /\ values'[new].items = <<>> /\ more[new].node = n
    BY <1>4 DEF NewValue, Home
  <2>2. KindOf(n)' = KindOf(n)
    BY SameGraph
  <2> QED BY <1>5, <2>1, <2>2 DEF HandleOK
<1>9. HandlesOK(more, view)'
  <2>1. values'[new].kind \notin Container
    BY <1>4, <1>5 DEF NewValue
  <2>2. ASSUME NEW g \in DOMAIN values, NEW h \in DOMAIN values,
               values'[g].kind \in Container, values'[h].kind \in Container, more[g] = more[h]
        PROVE  g = h
    BY <1>1, <1>4, <2>2 DEF HandlesOK
  <2> QED BY <1>4, <1>7, <1>8, <2>1, <2>2 DEF HandlesOK
<1>10. CallsOK(more, view)' /\ Child(Len(stack))' = Child(Len(stack))
  <2>1. Len(stack) \in 0..Len(stack)
    BY <1>1, Sizes
  <2>2. view # None => used'[view] = used[view]
    BY <1>1, <1>5 DEF CallsOK
  <2>3. CallsOK(more, view)' /\ \A k \in 0..Len(stack) : Child(k)' = Child(k)
    BY <1>4, <2>2, StackStays
  <2>4. PICK m : m = Len(stack)
    OBVIOUS
  <2>5. Child(m)' = Child(m)
    BY <2>1, <2>3, <2>4
  <2> QED BY <2>3, <2>4, <2>5 DEF Child
<1>11. TurnOK(more, view)'
  <2>1. n = Child(Len(stack))'
    BY <1>1, <1>10 DEF TurnOK
  <2> QED BY <1>3, <1>4, <2>1, ReturnsRight
<1> QED BY <1>1, <1>4, <1>6, <1>9, <1>10, <1>11, MirrorShown

\* A number that is not in the cache, or a text.
LEMMA VisitLeafMirrors ==
  ASSUME NEW origin, NEW view, Before(origin, view), NEW n \in Obj \cup Val,
         \/ VisitSimple(n) /\ cache[n] = Fail
         \/ VisitText(n)
  PROVE  MirrorInv'
<1>1. /\ ctl.mode = "call" /\ ctl.node = n /\ UNCHANGED graph /\ stack' = stack
      /\ values' = Append(values, NewValue(n)) /\ ctl' = Return(NewHandle)
  BY DEF VisitSimple, VisitText, Running, Visiting
<1>2. TypeOK
  BY BeforeFacts
<1>3. KindOf(n) \in Leaf
  BY DEF VisitSimple, VisitText, Visiting, Leaf
<1>4. \/ used' = used /\ mapping' = mapping /\ (cache' = cache \/ (KindOf(n) = "int" /\ cache' = [cache EXCEPT ![n] = NewHandle]))
      \/ SetSeen(n, NewHandle) /\ cache' = cache
  BY DEF VisitSimple, VisitText
<1>5. \A o \in Obj : used'[o] = used[o] \/ (o = n /\ used'[o] = NewHandle)
  BY <1>2, <1>4 DEF SetSeen, TypeOK
<1>6. \A v \in Val : mapping'[v] = mapping[v] \/ (v = n /\ mapping'[v] = NewHandle)
  BY <1>2, <1>4 DEF SetSeen, TypeOK
<1>7. \A m \in Obj \cup Val : cache'[m] = cache[m] \/ (m = n /\ KindOf(m) = "int" /\ cache'[m] = NewHandle)
  BY <1>2, <1>4 DEF TypeOK
<1> QED BY <1>1, <1>3, <1>5, <1>6, <1>7, LeafMirrors

-----------------------------------------------------------------------------
(* Calls that begin. *)

\* A call begins.
LEMMA Pushed ==
  ASSUME TypeOK, UNCHANGED graph, NEW n \in Obj \cup Val, NEW h \in Nat, stack' = Append(stack, Frame(n, h)),
         NEW m, m = Len(stack)
  PROVE  /\ m \in Nat /\ DOMAIN stack = 1..m /\ DOMAIN stack' = 1..(m + 1) /\ Len(stack') = m + 1
         /\ stack'[m + 1] = Frame(n, h) /\ \A k \in 1..m : stack'[k] = stack[k]
         /\ Child(m)' = Child(m)
         /\ FileBelow(Len(stack))' = (InFile(n) \/ KindOf(n) = "view")
<1>1. m \in Nat /\ DOMAIN stack = 1..m /\ stack \in Seq(Frames)
  BY Sizes
<1>2. Frame(n, h) \in Frames /\ Frame(n, h).at = n
  BY DEF Frame, Frames, Fail
<1>3. /\ DOMAIN stack' = 1..(m + 1) /\ Len(stack') = m + 1
      /\ stack'[m + 1] = Frame(n, h) /\ \A k \in 1..m : stack'[k] = stack[k]
  BY <1>1, <1>2
<1>4. Child(m)' = Child(m)
  <2>1. PICK x, i : x = stack[m].at /\ i = stack[m].i
    OBVIOUS
  <2>2. KindOf(x)' = KindOf(x) /\ KidsOf(x)' = KidsOf(x) /\ start' = start /\ kids' = kids
    BY SameGraph
  <2>3. m # 0 => stack'[m] = stack[m]
    BY <1>1, <1>3
  <2> QED BY <2>1, <2>2, <2>3 DEF Child
<1>5. FileBelow(Len(stack))' = (InFile(n) \/ KindOf(n) = "view")
  <2>1. KindOf(n)' = KindOf(n)
    BY SameGraph
  <2>2. m + 1 # 0
    BY <1>1
  <2> QED BY <1>2, <1>3, <2>1, <2>2 DEF FileBelow, InFile
<1> QED BY <1>1, <1>3, <1>4, <1>5

\* The calls below a new one.
LEMMA CallsBelow ==
  ASSUME NEW origin, NEW more, NEW view, NEW next, Before(origin, view), UNCHANGED graph, Grows(origin, more),
         NEW n \in Obj \cup Val, NEW h \in Nat, stack' = Append(stack, Frame(n, h)),
         NEW m, m = Len(stack), ctl.mode = "call",
         \A g \in DOMAIN values : values'[g] = values[g],
         view = next \/ \A k \in 1..m : ~InFile(stack[k].at) /\ KindOf(stack[k].at) # "view",
         NEW k \in 1..m
  PROVE  CallOK(more, next, k)'
<1>1. TypeOK /\ GraphInv /\ NestInv /\ CallsOK(origin, view)
  BY BeforeFacts
<1>2. /\ m \in Nat /\ DOMAIN stack = 1..m /\ DOMAIN stack' = 1..(m + 1)
      /\ \A l \in 1..m : stack'[l] = stack[l]
  BY <1>1, Pushed
<1>3. CallOK(origin, view, k) /\ stack'[k] = stack[k] /\ k \in DOMAIN stack
  BY <1>1, <1>2 DEF CallsOK
<1>4. k > 1 => stack'[k - 1] = stack[k - 1]
  BY <1>2
<1>5. Busy(k)' => Busy(k)
  BY DEF Busy
<1>6. KindOf(stack[k].at) \in Container => values'[stack[k].handle].items = values[stack[k].handle].items
  BY <1>1, <1>3 DEF NestInv, FrameInv
<1> QED BY <1>1, <1>3, <1>4, <1>5, <1>6, CallKept

\* A container is entered.
LEMMA VisitContainerMirrors ==
  ASSUME NEW origin, NEW view, Before(origin, view), NEW n \in Obj \cup Val, VisitContainer(n)
  PROVE  MirrorInv'
<1>1. /\ ctl.mode = "call" /\ ctl.node = n /\ KindOf(n) \in Container /\ SeenAs(n) = Fail
      /\ values' = Append(values, NewValue(n)) /\ SetSeen(n, NewHandle)
      /\ stack' = Append(stack, Frame(n, NewHandle)) /\ ctl' = Loop
      /\ UNCHANGED graph /\ cache' = cache
  BY DEF VisitContainer, Running, Visiting
<1>2. /\ TypeOK /\ NestInv /\ origin \in Seq(Origins) /\ view \in Obj \cup {None} /\ Len(origin) = Len(values)
      /\ SeenOK(origin, view) /\ HandlesOK(origin, view) /\ CallsOK(origin, view) /\ TurnOK(origin, view)
  BY BeforeFacts
<1>3. PICK more, new : more = Append(origin, Home(n, view)) /\ new = NewHandle
  OBVIOUS
<1>4. PICK m : m = Len(stack)
  OBVIOUS
<1>5. /\ more \in Seq(Origins) /\ Len(more) = Len(values') /\ Grows(origin, more)
      /\ DOMAIN values' = DOMAIN values \cup {new} /\ new \notin DOMAIN values
      /\ new \in Nat /\ new # Fail
      /\ values'[new] = NewValue(n) /\ more[new] = Home(n, view)
      /\ \A h \in DOMAIN values : values'[h] = values[h] /\ more[h] = origin[h]
      /\ Suits(more, view, n, new)'
  <2>1. Makes(origin, view, n, more, new)
    BY <1>1, <1>3 DEF Makes
  <2>2. KindOf(n) \in Leaf \cup Container
    BY <1>1
  <2> QED BY <1>1, <2>1, <2>2, HandleIsNew
<1>6. KindOf(n) \notin Leaf /\ KindOf(n) # "view"
  BY <1>1 DEF Leaf, Container
<1>7. /\ m \in Nat /\ DOMAIN stack = 1..m /\ DOMAIN stack' = 1..(m + 1) /\ Len(stack') = m + 1
      /\ stack'[m + 1] = Frame(n, new) /\ \A k \in 1..m : stack'[k] = stack[k]
      /\ Child(m)' = Child(m)
      /\ FileBelow(Len(stack))' = (InFile(n) \/ KindOf(n) = "view")
  BY <1>1, <1>2, <1>3, <1>4, <1>5, Pushed
<1>8. /\ \A o \in Obj : used'[o] = used[o] \/ (o = n /\ used'[o] = new)
      /\ \A v \in Val : mapping'[v] = mapping[v] \/ (v = n /\ mapping'[v] = new)
      /\ IF InFile(n) THEN mapping'[n] = new ELSE used'[n] = new
  BY <1>1, <1>2, <1>3 DEF SetSeen, TypeOK, InFile
<1>9. SeenOK(more, view)'
  <2>1. ASSUME NEW o \in Obj PROVE used'[o] \in {used[o], Fail} \/ Suits(more, view, o, used[o])'
    <3>1. CASE o = n /\ used'[o] = new
      BY <1>5, <3>1 DEF Suits, Fits, Matches
    <3> QED BY <1>8, <3>1
  <2>2. ASSUME NEW v \in Val PROVE mapping'[v] \in {mapping[v], Fail} \/ Suits(more, view, v, mapping[v])'
    <3>1. CASE v = n /\ mapping'[v] = new
      BY <1>5, <3>1 DEF Suits, Fits, Matches
    <3> QED BY <1>8, <3>1
  <2>3. view = None /\ client = "python" => \A v \in Val : mapping'[v] = Fail
    <3>1. view = None /\ client = "python" => \A v \in Val : mapping[v] = Fail
      BY <1>2 DEF SeenOK
    <3>2. view = None /\ client = "python" => ~InFile(n)
      BY <1>1, <1>2 DEF CallsOK, NestInv
    <3> QED BY <1>8, <3>1, <3>2 DEF InFile
  <2> QED BY <1>1, <1>2, <1>5, <2>1, <2>2, <2>3, SeenAfter
<1>10. ASSUME NEW h \in DOMAIN values PROVE HandleOK(more, view, h)'
  <2>1. HandleOK(origin, view, h) /\ h # Fail
    BY <1>2, Sizes DEF HandlesOK
  <2>2. ASSUME values[h].kind \in Container PROVE IsRemembered(origin[h], view, h)'
    <3>1. PICK at : at = origin[h]
      OBVIOUS
    <3>2. IsRemembered(at, view, h)
      BY <2>1, <2>2, <3>1 DEF HandleOK
    <3>3. at # Home(n, view)
      BY <1>1, <2>2, <3>1, NodeIsNew DEF Home
    <3>4. InFile(at.node)' = InFile(at.node) /\ (InFile(at.node) => at.node \in Val)
      BY DEF InFile
    <3>5. at \in Origins /\ at.node \in Obj \cup Val
      <4>1. origin[h] \in Origins
        BY <1>2, Sizes
      <4> QED BY <3>1, <4>1 DEF Origins
    <3>6. at.via \in Obj /\ used[at.via] # Fail => used'[at.via] # Fail
      BY <1>5, <1>8
    <3>7. InFile(at.node) /\ mapping[at.node] = h => mapping'[at.node] = h \/ at.node = n
      BY <1>8, <3>4
    <3>8. ~InFile(at.node) => used'[at.node] = used[at.node] \/ at.node = n
      BY <1>8, <3>5 DEF InFile
    <3>9. at.node = n /\ InFile(n) => at.via # view
      BY <3>3, <3>5 DEF Home, Origins
    <3>10. at.node = n /\ ~InFile(n) => at.via # None
      BY <3>3, <3>5 DEF Home, Origins
    <3>11. IsRemembered(at, view, h)'
      BY <3>2, <3>4, <3>6, <3>7, <3>8, <3>9, <3>10 DEF IsRemembered
    <3> QED BY <3>1, <3>11
  <2>3. (\A k \in DOMAIN stack' : stack'[k].handle # h) => \A k \in DOMAIN stack : stack[k].handle # h
    BY <1>7
  <2> QED BY <1>1, <1>5, <2>1, <2>2, <2>3, HandleKept
<1>11. HandleOK(more, view, new)'
  <2>1. values'[new].kind = KindOf(n) /\ values'[new].items = <<>>
    BY <1>5 DEF NewValue
  <2>2. PICK at : at = Home(n, view)
    OBVIOUS
  <2>3. KindOf(at.node)' = KindOf(n) /\ at.node = n
    BY <2>2, SameGraph, <1>1 DEF Home
  <2>4. IsRemembered(at, view, new)'
    BY <1>8, <2>2 DEF IsRemembered, Home, InFile
  <2>5. m + 1 \in DOMAIN stack' /\ stack'[m + 1].handle = new
    BY <1>7 DEF Frame
  <2> QED BY <1>5, <1>6, <2>1, <2>2, <2>3, <2>4, <2>5 DEF HandleOK
<1>12. HandlesOK(more, view)'
  <2>1. ASSUME NEW h \in DOMAIN values, values[h].kind \in Container, origin[h] = Home(n, view) PROVE FALSE
    BY <1>1, <2>1, NodeIsNew DEF Home
  <2>2. \A g, h \in DOMAIN values :
          values'[g].kind \in Container /\ values'[h].kind \in Container /\ more[g] = more[h] => g = h
    BY <1>2, <1>5 DEF HandlesOK
  <2>3. \A h \in DOMAIN values : values'[h].kind \in Container => more[h] # more[new]
    BY <1>5, <2>1
  <2> QED BY <1>5, <1>10, <1>11, <2>2, <2>3 DEF HandlesOK
<1>13. CallOK(more, view, m + 1)'
  <2>1. stack'[m + 1].at = n /\ stack'[m + 1].handle = new /\ stack'[m + 1].i = 1
    BY <1>7 DEF Frame
  <2>2. PICK k : k = m + 1 /\ k - 1 = m
    BY <1>7
  <2>3. Child(k - 1)' = n
    <3>1. Child(k - 1)' = Child(m)'
      BY <2>2
    <3> QED BY <1>1, <1>2, <1>4, <1>7, <3>1 DEF TurnOK
  <2>4. Home(n, view)' = Home(n, view) /\ KindOf(n)' = KindOf(n) /\ KidsOf(n)' = KidsOf(n)
    BY <1>1, SameGraph DEF Home, InFile
  <2>5. ~Busy(k)'
    BY <1>1, <1>7, <2>2 DEF Busy, Loop
  <2>6. Len(KidsOf(n)) \in Nat /\ 1 <= Len(KidsOf(n)) + 1 /\ 1 % 2 # 0 /\ Len(<<>>) = 1 - 1
    BY <1>2, Sizes
  <2>7. values'[new].items = <<>>
    BY <1>5 DEF NewValue
  <2>8. CallOK(more, view, k)'
    BY <1>5, <1>6, <2>1, <2>2, <2>3, <2>4, <2>5, <2>6, <2>7 DEF CallOK
  <2> QED BY <2>2, <2>8
<1>14. CallsOK(more, view)'
  <2>1. ASSUME NEW k \in 1..m PROVE CallOK(more, view, k)'
    BY <1>1, <1>3, <1>4, <1>5, CallsBelow
  <2>2. \A k \in 1..(m + 1) : k \in 1..m \/ k = m + 1
    BY <1>7
  <2>3. ASSUME NEW k \in 1..m PROVE stack[k].handle # new
    BY <1>2, <1>5, <1>7 DEF NestInv, FrameInv, CallsOK, CallOK
  <2>4. \A k, l \in 1..(m + 1) : k # l => stack'[k].handle # stack'[l].handle
    <3>1. \A k, l \in 1..m : k # l => stack'[k].handle # stack'[l].handle
      BY <1>2, <1>7 DEF CallsOK
    <3>2. stack'[m + 1].handle = new
      BY <1>7 DEF Frame
    <3> QED BY <1>7, <2>2, <2>3, <3>1, <3>2
  <2>5. ASSUME view # None
        PROVE  used'[view] = Fail /\ \E k \in 1..(m + 1) : stack'[k].at = view /\ KindOf(view)' = "view"
    <3>1. used[view] = Fail /\ KindOf(view) = "view"
      BY <1>2, <2>5 DEF CallsOK
    <3>2. PICK k \in 1..m : stack[k].at = view
      BY <1>2, <1>7, <2>5 DEF CallsOK
    <3>3. KindOf(view)' = "view" /\ view # n /\ view \in Obj
      BY <1>1, <1>2, <1>6, <2>5, <3>1, SameGraph
    <3>4. used'[view] = Fail
      BY <1>8, <3>1, <3>3
    <3>5. stack'[k].at = view /\ k \in 1..(m + 1)
      BY <1>7, <3>2
    <3> QED BY <3>3, <3>4, <3>5
  <2>6. view = None /\ client' = "python" => ~FileBelow(Len(stack))'
    <3>1. client' = client
      BY <1>1, SameGraph
    <3>2. view = None /\ client = "python" => ~InFile(n)
      BY <1>1, <1>2 DEF CallsOK, NestInv
    <3> QED BY <1>6, <1>7, <3>1, <3>2
  <2>7. \A k \in 1..(m + 1) : CallOK(more, view, k)'
    BY <1>13, <2>1, <2>2
  <2> QED BY <1>7, <2>4, <2>5, <2>6, <2>7 DEF CallsOK
<1>15. TurnOK(more, view)'
  BY <1>1 DEF TurnOK, Loop
<1> QED BY <1>2, <1>5, <1>9, <1>12, <1>14, <1>15, MirrorShown

\* A view is entered.
LEMMA VisitViewMirrors ==
  ASSUME NEW origin, NEW view, Before(origin, view), NEW n \in Obj \cup Val, VisitView(n)
  PROVE  MirrorInv'
<1>1. /\ ctl.mode = "call" /\ ctl.node = n /\ KindOf(n) = "view" /\ SeenAs(n) = Fail
      /\ mapping' = [v \in Val |-> Fail] /\ values' = values
      /\ stack' = Append(stack, Frame(n, Fail)) /\ ctl' = Call(kids[n][1])
      /\ UNCHANGED graph /\ cache' = cache /\ used' = used
  BY DEF VisitView, Running, Visiting
<1>2. /\ TypeOK /\ NestInv /\ origin \in Seq(Origins) /\ view \in Obj \cup {None} /\ Len(origin) = Len(values)
      /\ SeenOK(origin, view) /\ HandlesOK(origin, view) /\ CallsOK(origin, view) /\ TurnOK(origin, view)
  BY BeforeFacts
<1>3. ~InFile(n) /\ n \in Obj /\ n # None /\ n \in Obj \cup {None}
  BY <1>1, FileKinds, NoneIsNone DEF InFile
<1>4. ~FileBelow(Len(stack))
  BY <1>1, <1>2, <1>3 DEF NestInv
<1>5. view = None /\ client = "python"
  BY <1>2, <1>4, ViewFacts, CallsInFile DEF TypeOK
<1>6. PICK m : m = Len(stack)
  OBVIOUS
<1>7. Fail \in Nat
  BY DEF Fail
<1>8. /\ m \in Nat /\ DOMAIN stack = 1..m /\ DOMAIN stack' = 1..(m + 1) /\ Len(stack') = m + 1
      /\ stack'[m + 1] = Frame(n, Fail) /\ \A k \in 1..m : stack'[k] = stack[k]
      /\ Child(m)' = Child(m)
      /\ FileBelow(Len(stack))' = (InFile(n) \/ KindOf(n) = "view")
  BY <1>1, <1>2, <1>6, <1>7, Pushed
<1>9. Grows(origin, origin)
  BY <1>1 DEF Grows
<1>10. \A k \in 1..m : ~InFile(stack[k].at) /\ KindOf(stack[k].at) # "view"
  <2>1. ASSUME NEW k \in 1..m PROVE ~InFile(stack[k].at) /\ KindOf(stack[k].at) # "view"
    <3>1. ~InFile(stack[k].at)
      BY <1>2, <1>4, <1>8, CallsInFile
    <3>2. stack[k].at \in Obj \cup Val
      BY <1>2, <1>8, Sizes
    <3>3. KindOf(stack[k].at) = "view" => stack[k].at = view
      BY <1>2, <1>8 DEF CallsOK, CallOK
    <3> QED BY <1>5, <3>1, <3>2, <3>3, NoneIsNone
  <2> QED BY <2>1
<1>11. SeenOK(origin, n)'
  BY <1>1, <1>2, <1>3, <1>9, SeenAfter
<1>12. ASSUME NEW h \in DOMAIN values PROVE HandleOK(origin, n, h)'
  <2>1. HandleOK(origin, view, h) /\ h # Fail
    BY <1>2, Sizes DEF HandlesOK
  <2>2. ASSUME values[h].kind \in Container PROVE IsRemembered(origin[h], n, h)'
    <3>1. PICK at : at = origin[h]
      OBVIOUS
    <3>2. IsRemembered(at, view, h)
      BY <2>1, <2>2, <3>1 DEF HandleOK
    <3>3. InFile(at.node) => mapping[at.node] # h
      BY <1>2, <1>5, <2>1 DEF SeenOK, InFile
    <3>4. IsRemembered(at, n, h)'
      BY <1>1, <3>2, <3>3 DEF IsRemembered, InFile
    <3> QED BY <3>1, <3>4
  <2>3. (\A k \in DOMAIN stack' : stack'[k].handle # h) => \A k \in DOMAIN stack : stack[k].handle # h
    BY <1>8
  <2> QED BY <1>1, <1>9, <2>1, <2>2, <2>3, HandleKept
<1>13. HandlesOK(origin, n)'
  BY <1>1, <1>2, <1>12 DEF HandlesOK
<1>14. CallOK(origin, n, m + 1)'
  <2>1. stack'[m + 1].at = n /\ stack'[m + 1].handle = Fail
    BY <1>8 DEF Frame
  <2>2. PICK k : k = m + 1 /\ k - 1 = m
    BY <1>8
  <2>3. Child(k - 1)' = n
    <3>1. Child(k - 1)' = Child(m)'
      BY <2>2
    <3> QED BY <1>1, <1>2, <1>6, <1>8, <3>1 DEF TurnOK
  <2>4. KindOf(n)' = "view"
    BY <1>1, SameGraph
  <2>5. CallOK(origin, n, k)'
    BY <2>1, <2>2, <2>3, <2>4 DEF CallOK, Container
  <2> QED BY <2>2, <2>5
<1>15. CallsOK(origin, n)'
  <2>1. ASSUME NEW k \in 1..m PROVE CallOK(origin, n, k)'
    BY <1>1, <1>6, <1>7, <1>9, <1>10, CallsBelow
  <2>2. \A k \in 1..(m + 1) : k \in 1..m \/ k = m + 1
    BY <1>8
  <2>3. ASSUME NEW k \in 1..m PROVE stack[k].handle # Fail
    <3>1. stack[k].handle \in DOMAIN values
      BY <1>2, <1>8, <1>10 DEF NestInv, FrameInv
    <3> QED BY <1>2, <3>1, Sizes
  <2>4. \A k, l \in 1..(m + 1) : k # l => stack'[k].handle # stack'[l].handle
    <3>1. \A k, l \in 1..m : k # l => stack'[k].handle # stack'[l].handle
      BY <1>2, <1>8 DEF CallsOK
    <3>2. stack'[m + 1].handle = Fail
      BY <1>8 DEF Frame
    <3> QED BY <1>8, <2>2, <2>3, <3>1, <3>2
  <2>5. used'[n] = Fail /\ \E k \in 1..(m + 1) : stack'[k].at = n /\ KindOf(n)' = "view"
    <3>1. stack'[m + 1].at = n /\ m + 1 \in 1..(m + 1)
      BY <1>8 DEF Frame
    <3>2. KindOf(n)' = "view"
      BY <1>1, SameGraph
    <3> QED BY <1>1, <1>3, <3>1, <3>2 DEF SeenAs
  <2>6. \A k \in 1..(m + 1) : CallOK(origin, n, k)'
    BY <1>14, <2>1, <2>2
  <2> QED BY <1>3, <1>8, <2>4, <2>5, <2>6 DEF CallsOK
<1>16. TurnOK(origin, n)'
  <2>1. ctl'.mode = "call" /\ ctl'.node = kids[n][1]
    BY <1>1 DEF Call
  <2>2. Child(m + 1)' = kids[n][1]
    <3>1. m + 1 # 0 /\ stack'[m + 1].at = n
      BY <1>8 DEF Frame
    <3>2. KindOf(n)' = "view" /\ kids' = kids
      BY <1>1, SameGraph
    <3> QED BY <3>1, <3>2 DEF Child
  <2>3. Child(Len(stack))' = Child(m + 1)'
    BY <1>8 DEF Child
  <2> QED BY <2>1, <2>2, <2>3 DEF TurnOK
<1> QED BY <1>1, <1>2, <1>3, <1>11, <1>13, <1>15, <1>16, MirrorShown

\* A container calls for what it holds.
LEMMA NextChildMirrors ==
  ASSUME NEW origin, NEW view, Before(origin, view), NextChild
  PROVE  MirrorInv'
<1>1. /\ ctl.mode = "loop" /\ Top.i <= Len(KidsOf(Top.at)) /\ ctl' = Call(KidsOf(Top.at)[Top.i])
      /\ UNCHANGED graph /\ stack' = stack
      /\ used' = used /\ mapping' = mapping /\ cache' = cache /\ values' = values
  BY DEF NextChild, Running
<1>2. TypeOK /\ NestInv
  BY BeforeFacts
<1>3. Grows(origin, origin)
  BY <1>1 DEF Grows
<1>4. CallsOK(origin, view)' /\ \A k \in 0..Len(stack) : Child(k)' = Child(k)
  BY <1>1, <1>3, StackStays
<1>5. ctl'.node = Child(Len(stack)) /\ ctl'.mode = "call"
  <2>1. stack # <<>> /\ KindOf(Top.at) \in Container
    BY <1>1, <1>2 DEF NestInv
  <2>2. Len(stack) # 0 /\ KindOf(Top.at) # "view"
    BY <1>2, <2>1, TopFacts DEF Container
  <2> QED BY <1>1, <2>2 DEF Child, Top, Call
<1>6. Child(Len(stack))' = Child(Len(stack))
  <2>1. PICK m : m = Len(stack) /\ m \in 0..Len(stack)
    BY <1>2, Sizes
  <2>2. Child(m)' = Child(m)
    BY <1>4, <2>1
  <2> QED BY <1>1, <2>1, <2>2 DEF Child
<1>7. TurnOK(origin, view)'
  BY <1>5, <1>6 DEF TurnOK
<1> QED BY <1>1, <1>4, <1>7, NothingWritten

-----------------------------------------------------------------------------
(* Loops that go on. *)

\* Handle h holds more items.
Holding(h, new) ==
  /\ DOMAIN values' = DOMAIN values
  /\ \A g \in DOMAIN values :
       /\ values'[g].kind = values[g].kind /\ values'[g].of = values[g].of
       /\ values'[g].items = IF g = h THEN values[g].items \o new ELSE values[g].items

\* Children are where their container is.
LEMMA ChildHome ==
  ASSUME TypeOK, GraphInv, NEW view, NEW n \in Obj \cup Val, KindOf(n) \in Container, NEW j \in DOMAIN KidsOf(n)
  PROVE  Home(KidsOf(n)[j], view).via = Home(n, view).via
<1>1. j \in 1..Len(KidsOf(n))
  BY Sizes
<1>2. InFile(KidsOf(n)[j]) <=> InFile(n)
  BY <1>1, KidsAreNear
<1> QED BY <1>2 DEF Home

\* The call on top moves to its next child.
LEMMA TopMoves ==
  ASSUME NEW origin, NEW view, Before(origin, view), UNCHANGED graph, Grows(origin, origin),
         stack # <<>>, KindOf(Top.at) \in Container,
         NEW f \in Frames, f.at = Top.at, f.handle = Top.handle, stack' = Append(Pop, f),
         NEW new, Holding(Top.handle, new), used' = used,
         NEW m, m = Len(stack), CallOK(origin, view, m)'
  PROVE  /\ CallsOK(origin, view)'
         /\ DOMAIN stack' = DOMAIN stack /\ \A k \in DOMAIN stack : stack'[k].handle = stack[k].handle
<1>1. TypeOK /\ GraphInv /\ NestInv /\ CallsOK(origin, view)
  BY BeforeFacts
<1>2. /\ m \in Nat \ {0} /\ DOMAIN stack = 1..m /\ stack[m] = Top
      /\ Pop \in Seq(Frames) /\ Len(Pop) = m - 1 /\ \A k \in 1..(m - 1) : Pop[k] = stack[k]
  BY <1>1, TopFacts, Sizes DEF Top
<1>3. /\ DOMAIN stack' = 1..m /\ Len(stack') = m /\ stack'[m] = f
      /\ \A k \in 1..(m - 1) : stack'[k] = stack[k]
  <2>1. Len(Pop) \in Nat /\ Len(Pop) + 1 = m
    BY <1>2
  <2>2. /\ DOMAIN Append(Pop, f) = 1..(Len(Pop) + 1) /\ Len(Append(Pop, f)) = Len(Pop) + 1
        /\ Append(Pop, f)[Len(Pop) + 1] = f
        /\ \A k \in 1..Len(Pop) : Append(Pop, f)[k] = Pop[k]
    BY <1>2
  <2> QED BY <1>2, <2>1, <2>2
<1>4. \A k \in 1..m : k \in 1..(m - 1) \/ k = m
  BY <1>2
<1>5. \A k \in 1..m : stack'[k].at = stack[k].at /\ stack'[k].handle = stack[k].handle
  BY <1>2, <1>3, <1>4
<1>6. ASSUME NEW k \in 1..(m - 1) PROVE CallOK(origin, view, k)'
  <2>1. k \in DOMAIN stack /\ CallOK(origin, view, k) /\ stack'[k] = stack[k] /\ k < Len(stack)
    BY <1>1, <1>2, <1>3 DEF CallsOK
  <2>2. k > 1 => stack'[k - 1] = stack[k - 1]
    BY <1>2, <1>3
  <2>3. Busy(k)' => Busy(k)
    BY <2>1 DEF Busy
  <2>4. stack[k].handle # Top.handle
    BY <1>1, <1>2, <2>1 DEF CallsOK
  <2>5. KindOf(stack[k].at) \in Container => values'[stack[k].handle].items = values[stack[k].handle].items
    BY <1>1, <2>1, <2>4 DEF NestInv, FrameInv, Holding
  <2> QED BY <1>1, <2>1, <2>2, <2>3, <2>5, CallKept
<1>7. \A k \in 1..m : CallOK(origin, view, k)'
  BY <1>4, <1>6
<1>8. \A k, l \in 1..m : k # l => stack'[k].handle # stack'[l].handle
  <2>1. \A k, l \in 1..m : k # l => stack[k].handle # stack[l].handle
    BY <1>1, <1>2 DEF CallsOK
  <2>2. \A k \in 1..m : stack'[k].handle = stack[k].handle
    BY <1>5
  <2>3. ASSUME NEW k \in 1..m, NEW l \in 1..m, k # l PROVE stack'[k].handle # stack'[l].handle
    <3>1. stack'[k].handle = stack[k].handle /\ stack'[l].handle = stack[l].handle
      BY <2>2
    <3>2. stack[k].handle # stack[l].handle
      BY <2>1, <2>3
    <3> QED BY <3>1, <3>2
  <2> QED BY <2>3
<1>9. view # None => used'[view] = Fail /\ \E k \in 1..m : stack'[k].at = view /\ KindOf(view)' = "view"
  <2>1. KindOf(view)' = KindOf(view)
    BY SameGraph
  <2>2. view # None => used[view] = Fail /\ \E k \in 1..m : stack[k].at = view /\ KindOf(view) = "view"
    BY <1>1, <1>2 DEF CallsOK
  <2> QED BY <1>5, <2>1, <2>2
<1>10. client' = client /\ FileBelow(Len(stack))' = FileBelow(Len(stack))
  <2>1. PICK n : n = Top.at
    OBVIOUS
  <2>2. KindOf(n)' = KindOf(n) /\ client' = client
    BY SameGraph
  <2> QED BY <1>2, <1>3, <2>1, <2>2 DEF FileBelow, InFile
<1>11. view = None /\ client = "python" => ~FileBelow(Len(stack))
  BY <1>1 DEF CallsOK
<1>12. /\ \A k \in DOMAIN stack' : CallOK(origin, view, k)'
       /\ \A k, l \in DOMAIN stack' : k # l => stack'[k].handle # stack'[l].handle
       /\ view # None => used'[view] = Fail /\ \E k \in DOMAIN stack' : stack'[k].at = view /\ KindOf(view)' = "view"
  BY <1>3, <1>7, <1>8, <1>9
<1> QED BY <1>2, <1>3, <1>5, <1>10, <1>11, <1>12 DEF CallsOK

\* What the call on top has been given is added to its handle.
LEMMA TopHolds ==
  ASSUME NEW origin, NEW view, Before(origin, view), UNCHANGED graph, Grows(origin, origin),
         stack # <<>>, KindOf(Top.at) \in Container,
         used' = used, mapping' = mapping, cache' = cache,
         NEW new \in Seq(Nat), Holding(Top.handle, new),
         DOMAIN stack' = DOMAIN stack, \A k \in DOMAIN stack : stack'[k].handle = stack[k].handle,
         NEW n, NEW h, n = Top.at, h = Top.handle,
         \A j \in 1..Len(new) : /\ Len(values[h].items) + j \in DOMAIN KidsOf(n)
                                /\ Suits(origin, view, KidsOf(n)[Len(values[h].items) + j], new[j])
  PROVE  SeenOK(origin, view)' /\ HandlesOK(origin, view)'
<1>1. /\ TypeOK /\ GraphInv /\ NestInv /\ CallsOK(origin, view) /\ SeenOK(origin, view) /\ HandlesOK(origin, view)
  BY BeforeFacts
<1>2. SeenOK(origin, view)'
  BY <1>1, SeenAfter DEF SeenOK
<1>3. /\ Len(stack) \in DOMAIN stack /\ stack[Len(stack)] = Top /\ n \in Obj \cup Val /\ h \in DOMAIN values
      /\ origin[h] = Home(n, view)
  <2>1. Len(stack) \in DOMAIN stack /\ stack[Len(stack)] = Top /\ n \in Obj \cup Val
    BY <1>1, TopFacts DEF Top
  <2>2. h \in DOMAIN values
    BY <1>1, <2>1 DEF NestInv, FrameInv
  <2>3. CallOK(origin, view, Len(stack))
    BY <1>1, <2>1 DEF CallsOK
  <2> QED BY <2>1, <2>2, <2>3 DEF CallOK
<1>4. ASSUME NEW g \in DOMAIN values, values[g].kind \in Container
      PROVE  IsRemembered(origin[g], view, g)'
  <2>1. IsRemembered(origin[g], view, g)
    BY <1>1, <1>4 DEF HandlesOK, HandleOK
  <2> QED BY <2>1 DEF IsRemembered, InFile
<1>5. ASSUME NEW g \in DOMAIN values, g # h PROVE HandleOK(origin, view, g)'
  <2>1. HandleOK(origin, view, g) /\ values'[g].items = values[g].items
    BY <1>1, <1>5 DEF HandlesOK, Holding
  <2> QED BY <1>4, <2>1, HandleKept
<1>6. HandleOK(origin, view, h)'
  <2>1. HandleOK(origin, view, h) /\ KindOf(n) \in Container /\ origin[h].node = n
    BY <1>1, <1>3 DEF HandlesOK, Home
  <2>2. values'[h].kind = values[h].kind /\ values[h].kind = KindOf(n) /\ values'[h].items = values[h].items \o new
    BY <1>3, <2>1 DEF HandleOK, Holding
  <2>3. KindOf(n)' = KindOf(n) /\ KidsOf(n)' = KidsOf(n) /\ KindOf(n) \notin Leaf
    BY <2>1, SameGraph DEF Leaf, Container
  <2>4. PICK items, via : items = values[h].items /\ via = origin[h].via
    OBVIOUS
  <2>5. items \in Seq(Nat) /\ Len(items) \in Nat /\ Len(new) \in Nat
    BY <1>1, <1>3, <2>4, Sizes
  <2>6. /\ DOMAIN (items \o new) = 1..(Len(items) + Len(new))
        /\ \A j \in 1..Len(items) : (items \o new)[j] = items[j]
        /\ \A j \in 1..Len(new) : (items \o new)[Len(items) + j] = new[j]
    BY <2>5
  <2>7. ASSUME NEW j \in DOMAIN (items \o new)
        PROVE  j \in DOMAIN KidsOf(n) /\ Fits(origin, via, KidsOf(n)[j], (items \o new)[j])
    <3>1. CASE j \in 1..Len(items)
      <4>1. j \in DOMAIN items
        BY <2>5, <3>1
      <4>2. j \in DOMAIN KidsOf(n) /\ Fits(origin, via, KidsOf(n)[j], items[j])
        BY <2>1, <2>2, <2>4, <4>1 DEF HandleOK
      <4>3. (items \o new)[j] = items[j]
        BY <2>6, <3>1
      <4> QED BY <4>2, <4>3
    <3>2. CASE j \notin 1..Len(items)
      <4>1. PICK d \in 1..Len(new) : j = Len(items) + d
        <5>1. j \in 1..(Len(items) + Len(new))
          BY <2>6
        <5>2. j - Len(items) \in 1..Len(new) /\ j = Len(items) + (j - Len(items))
          BY <2>5, <3>2, <5>1
        <5> QED BY <5>2
      <4>2. j \in DOMAIN KidsOf(n) /\ Suits(origin, view, KidsOf(n)[j], new[d])
        BY <2>4, <4>1
      <4>3. Home(KidsOf(n)[j], view).via = Home(n, view).via
        BY <1>1, <1>3, <2>1, <4>2, ChildHome
      <4>4. via = Home(n, view).via
        BY <1>3, <2>4
      <4>5. (items \o new)[j] = new[d]
        BY <2>6, <4>1
      <4> QED BY <4>2, <4>3, <4>4, <4>5 DEF Suits
    <3> QED BY <3>1, <3>2
  <2>8. PICK all : all = items \o new
    OBVIOUS
  <2>9. ASSUME NEW j \in DOMAIN all PROVE j \in DOMAIN KidsOf(n) /\ Fits(origin, via, KidsOf(n)[j], all[j])'
    <3>1. PICK c, g : c = KidsOf(n)[j] /\ g = all[j]
      OBVIOUS
    <3>2. j \in DOMAIN KidsOf(n) /\ Fits(origin, via, c, g)
      BY <2>7, <2>8, <3>1
    <3>3. Fits(origin, via, c, g)'
      BY <3>2, FitsKept
    <3>4. c = (KidsOf(n)[j])'
      BY <2>3, <3>1
    <3> QED BY <3>1, <3>2, <3>3, <3>4 DEF Fits, Matches
  <2>10. values'[h].items = all
    BY <2>2, <2>4, <2>8
  <2>11. ~\A k \in DOMAIN stack' : stack'[k].handle # h
    BY <1>3
  <2>12. values[h].kind \in Container /\ origin[h].node = n /\ origin[h].via = via
    BY <2>1, <2>2, <2>4
  <2>13. IsRemembered(origin[h], view, h)'
    BY <1>3, <1>4, <2>12
  <2>14. KindOf(origin[h].node)' = KindOf(n) /\ KidsOf(origin[h].node)' = KidsOf(n)
    BY <2>12, SameGraph
  <2>15. \A j \in DOMAIN all : /\ j \in DOMAIN KidsOf(origin[h].node)'
                               /\ Fits(origin, origin[h].via, KidsOf(origin[h].node)[j], all[j])'
    BY <2>3, <2>9, <2>12, <2>14 DEF Fits, Matches
  <2>16. values'[h].kind \notin Leaf
    BY <2>2, <2>3
  <2>17. values'[h].kind = KindOf(origin[h].node)'
    BY <2>2, <2>14
  <2>18. ASSUME NEW j \in DOMAIN values'[h].items
         PROVE  /\ j \in DOMAIN KidsOf(origin[h].node)'
                /\ Fits(origin, origin[h].via, KidsOf(origin[h].node)[j], values[h].items[j])'
    BY <2>10, <2>15 DEF Fits, Matches
  <2> QED BY <2>11, <2>13, <2>16, <2>17, <2>18 DEF HandleOK
<1>7. HandlesOK(origin, view)'
  <2>1. DOMAIN values' = DOMAIN values /\ \A g \in DOMAIN values : values'[g].kind = values[g].kind
    BY DEF Holding
  <2> QED BY <1>1, <1>5, <1>6, <2>1 DEF HandlesOK
<1> QED BY <1>2, <1>7

\* The call on top goes on with frame f, and its handle h with the items new.
GoesOn(origin, view, n, h, i, f, new) ==
  /\ n = Top.at /\ h = Top.handle /\ i = Top.i
  /\ f \in Frames /\ f.at = n /\ f.handle = h /\ f.i = i + 1 /\ stack' = Append(Pop, f)
  /\ new \in Seq(Nat) /\ Holding(h, new)
  /\ \A j \in 1..Len(new) : /\ Len(values[h].items) + j \in DOMAIN KidsOf(n)
                            /\ Suits(origin, view, KidsOf(n)[Len(values[h].items) + j], new[j])
  /\ IF KindOf(n) = "dict" /\ (i + 1) % 2 = 0
     THEN Len(values[h].items) + Len(new) = i - 1 /\ Suits(origin, view, KidsOf(n)[i], f.key)
     ELSE Len(values[h].items) + Len(new) = i

\* It does so when a child has returned.
LEMMA LoopMirrors ==
  ASSUME NEW origin, NEW view, Before(origin, view), UNCHANGED graph,
         ctl.mode = "return", ctl' = Loop, stack # <<>>, KindOf(Top.at) \in Container,
         used' = used, mapping' = mapping, cache' = cache, TypeOK',
         NEW n, NEW h, NEW i, NEW f, NEW new, GoesOn(origin, view, n, h, i, f, new)
  PROVE  MirrorInv'
<1> USE DEF GoesOn
<1>1. /\ TypeOK /\ GraphInv /\ NestInv /\ origin \in Seq(Origins) /\ view \in Obj \cup {None}
      /\ Len(origin) = Len(values) /\ CallsOK(origin, view)
  BY BeforeFacts
<1>2. PICK m : m = Len(stack)
  OBVIOUS
<1>3. /\ m \in Nat \ {0} /\ m \in DOMAIN stack /\ stack[m] = Top
      /\ Pop \in Seq(Frames) /\ Len(Pop) = m - 1 /\ \A k \in 1..(m - 1) : Pop[k] = stack[k]
      /\ n \in Obj \cup Val /\ i \in Nat \ {0}
  <2>1. Top \in Frames
    BY <1>1, TopFacts
  <2>2. Top.i \in Nat \ {0}
    BY <2>1 DEF Frames
  <2> QED BY <1>1, <1>2, <2>2, TopFacts DEF Top
<1>4. Grows(origin, origin)
  BY DEF Grows, Holding
<1>5. /\ Len(stack') = m /\ stack'[m] = f /\ \A k \in 1..(m - 1) : stack'[k] = stack[k]
  <2>1. Len(Pop) \in Nat /\ Len(Pop) + 1 = m
    BY <1>3
  <2>2. /\ Len(Append(Pop, f)) = Len(Pop) + 1 /\ Append(Pop, f)[Len(Pop) + 1] = f
        /\ \A k \in 1..Len(Pop) : Append(Pop, f)[k] = Pop[k]
    BY <1>3
  <2> QED BY <1>3, <2>1, <2>2
<1>6. h \in DOMAIN values /\ KindOf(n) # "view"
  BY <1>1, <1>3 DEF NestInv, FrameInv, Container
<1>7. /\ n = Child(m - 1) /\ origin[h] = Home(n, view) /\ i <= Len(KidsOf(n))
  <2>1. CallOK(origin, view, m) /\ Busy(m)
    BY <1>1, <1>3 DEF CallsOK, Busy
  <2> QED BY <1>3, <2>1 DEF CallOK
<1>8. CallOK(origin, view, m)'
  <2>1. /\ KindOf(n)' = KindOf(n) /\ KidsOf(n)' = KidsOf(n) /\ Home(n, view)' = Home(n, view)
        /\ start' = start /\ kids' = kids
    BY SameGraph DEF Home, InFile
  <2>2. Child(m - 1)' = Child(m - 1)
    <3>1. PICK x, y : x = stack[m - 1].at /\ y = stack[m - 1].i
      OBVIOUS
    <3>2. KindOf(x)' = KindOf(x) /\ KidsOf(x)' = KidsOf(x)
      BY SameGraph
    <3>3. m - 1 # 0 => stack'[m - 1] = stack[m - 1]
      BY <1>3, <1>5
    <3> QED BY <2>1, <3>1, <3>2, <3>3 DEF Child
  <2>3. ~Busy(m)'
    BY <1>5 DEF Busy, Loop
  <2>4. Len(values'[h].items) = Len(values[h].items) + Len(new)
    <3>1. values[h].items \in Seq(Nat)
      BY <1>1, <1>6, Sizes
    <3>2. values'[h].items = values[h].items \o new
      BY <1>6 DEF Holding
    <3> QED BY <3>1, <3>2
  <2>5. PICK L : L = Len(KidsOf(n)) /\ L \in Nat
    <3>1. KidsOf(n) \in Seq(Obj \cup Val)
      BY <1>1, <1>3, Sizes
    <3>2. Len(KidsOf(n)) \in Nat
      BY <3>1
    <3> QED BY <3>2
  <2>6. ASSUME KindOf(n) = "dict" /\ (i + 1) % 2 = 0 PROVE Suits(origin, view, KidsOf(n)[i], f.key)'
    <3>1. PICK c, g : c = KidsOf(n)[i] /\ g = f.key
      OBVIOUS
    <3>2. Suits(origin, view, c, g)
      BY <2>6, <3>1
    <3>3. Suits(origin, view, c, g)'
      BY <1>4, <3>2, SuitsKept
    <3>4. c = (KidsOf(n)[i])'
      BY <2>1, <3>1
    <3> QED BY <3>1, <3>3, <3>4 DEF Suits, Fits, Matches
  <2>7. stack'[m].at = n /\ stack'[m].handle = h /\ stack'[m].i = i + 1 /\ stack'[m].key = f.key
    BY <1>5
  <2>8. PICK next : next = i + 1
    OBVIOUS
  <2>9. stack'[m].i = next /\ next - 1 = i /\ next - 2 = i - 1 /\ next <= Len(KidsOf(n)) + 1
    <3>1. i <= L /\ i \in Nat
      BY <1>3, <1>7, <2>5
    <3>2. next - 1 = i /\ next - 2 = i - 1 /\ next <= L + 1
      BY <2>5, <2>8, <3>1
    <3> QED BY <2>5, <2>7, <2>8, <3>2
  <2>10. IF KindOf(n) = "dict" /\ next % 2 = 0
         THEN Len(values'[h].items) = next - 2 /\ Suits(origin, view, KidsOf(n)[next - 1], f.key)'
         ELSE Len(values'[h].items) = next - 1
    BY <2>4, <2>6, <2>8, <2>9
  <2>11. n = Child(m - 1)' /\ origin[h] = Home(n, view)' /\ KindOf(n)' # "view"
    BY <1>6, <1>7, <2>1, <2>2
  <2> QED BY <2>1, <2>3, <2>7, <2>9, <2>10, <2>11 DEF CallOK, Suits, Fits, Matches
<1>9. /\ CallsOK(origin, view)'
      /\ DOMAIN stack' = DOMAIN stack /\ \A k \in DOMAIN stack : stack'[k].handle = stack[k].handle
  BY <1>2, <1>4, <1>8, TopMoves
<1>10. SeenOK(origin, view)' /\ HandlesOK(origin, view)'
  BY <1>4, <1>9, TopHolds
<1>11. TurnOK(origin, view)'
  BY DEF TurnOK, Loop
<1>12. Len(origin) = Len(values')
  <2>1. DOMAIN values' = DOMAIN values /\ values' \in Seq(Written)
    BY DEF Holding, TypeOK
  <2> QED BY <1>1, <2>1 DEF TypeOK
<1> QED BY <1>1, <1>9, <1>10, <1>11, <1>12, MirrorShown

\* Every other number is even.
LEMMA Parity ==
  ASSUME NEW x \in Nat
  PROVE  x % 2 = 0 <=> (x + 1) % 2 # 0
OBVIOUS

\* What is on top when a call returns.
LEMMA Returning ==
  ASSUME NEW origin, NEW view, Before(origin, view), ctl.mode = "return", stack # <<>>, KindOf(Top.at) \in Container,
         NEW n, NEW h, NEW i, n = Top.at, h = Top.handle, i = Top.i
  PROVE  /\ TypeOK /\ Top \in Frames
         /\ n \in Obj \cup Val /\ h \in DOMAIN values /\ i \in Nat \ {0} /\ i \in DOMAIN KidsOf(n)
         /\ Given \in Nat /\ Suits(origin, view, KidsOf(n)[i], Given)
         /\ IF KindOf(n) = "dict" /\ i % 2 = 0
            THEN Len(values[h].items) = i - 2 /\ Suits(origin, view, KidsOf(n)[i - 1], Top.key)
            ELSE Len(values[h].items) = i - 1
<1>1. TypeOK /\ GraphInv /\ NestInv /\ CallsOK(origin, view) /\ TurnOK(origin, view)
  BY BeforeFacts
<1>2. PICK m : m = Len(stack)
  OBVIOUS
<1>3. /\ m \in Nat \ {0} /\ m \in DOMAIN stack /\ stack[m] = Top /\ n \in Obj \cup Val /\ Top \in Frames
  BY <1>1, <1>2, TopFacts DEF Top
<1>4. i \in Nat \ {0}
  BY <1>3 DEF Frames
<1>5. CallOK(origin, view, m) /\ Busy(m)
  BY <1>1, <1>3 DEF CallsOK, Busy
<1>6. h \in DOMAIN values
  BY <1>1, <1>3 DEF NestInv, FrameInv
<1>7. i <= Len(KidsOf(n))
  BY <1>3, <1>5 DEF CallOK
<1>8. i \in DOMAIN KidsOf(n)
  <2>1. KidsOf(n) \in Seq(Obj \cup Val)
    BY <1>1, <1>3, Sizes
  <2> QED BY <1>4, <1>7, <2>1
<1>9. Given \in Nat
  BY <1>1 DEF TypeOK, Controls, Given
<1>10. Suits(origin, view, KidsOf(n)[i], Given)
  <2>1. KindOf(n) # "view"
    BY DEF Container
  <2>2. Child(Len(stack)) = KidsOf(n)[i]
    BY <1>2, <1>3, <2>1 DEF Child
  <2> QED BY <1>1, <2>2 DEF TurnOK
<1>11. IF KindOf(n) = "dict" /\ i % 2 = 0
       THEN Len(values[h].items) = i - 2 /\ Suits(origin, view, KidsOf(n)[i - 1], Top.key)
       ELSE Len(values[h].items) = i - 1
  BY <1>3, <1>5 DEF CallOK
<1> QED BY <1>1, <1>3, <1>4, <1>6, <1>8, <1>9, <1>10, <1>11

\* What it is to add items.
LEMMA AddHolds ==
  ASSUME TypeOK, NEW h \in DOMAIN values, NEW new \in Seq(Nat), Add(h, new)
  PROVE  Holding(h, new)
<1>1. values \in Seq(Written)
  BY DEF TypeOK
<1>2. \A g \in DOMAIN values : values[g] \in Written
  BY <1>1
<1>3. values' = [values EXCEPT ![h].items = @ \o new]
  BY DEF Add
<1>4. DOMAIN values' = DOMAIN values
  BY <1>3
<1>5. \A g \in DOMAIN values : values'[g] = IF g = h THEN [values[g] EXCEPT !.items = @ \o new] ELSE values[g]
  BY <1>3
<1>6. ASSUME NEW g \in DOMAIN values
      PROVE  /\ values'[g].kind = values[g].kind /\ values'[g].of = values[g].of
             /\ values'[g].items = IF g = h THEN values[g].items \o new ELSE values[g].items
  <2>1. PICK w : w = values[g] /\ w \in Written
    BY <1>2
  <2>2. /\ [w EXCEPT !.items = @ \o new].kind = w.kind /\ [w EXCEPT !.items = @ \o new].of = w.of
        /\ [w EXCEPT !.items = @ \o new].items = w.items \o new
    BY <2>1 DEF Written
  <2> QED BY <1>5, <2>1, <2>2
<1> QED BY <1>4, <1>6 DEF Holding

\* An item is added to a list or a set.
LEMMA ItemDoneMirrors ==
  ASSUME NEW origin, NEW view, Before(origin, view), TypeOK', ItemDone
  PROVE  MirrorInv'
<1>1. /\ ctl.mode = "return" /\ ctl' = Loop /\ stack # <<>> /\ KindOf(Top.at) \in {"list", "set"}
      /\ UNCHANGED graph /\ used' = used /\ mapping' = mapping /\ cache' = cache
      /\ Add(Top.handle, <<Given>>) /\ stack' = Append(Pop, Moved)
  BY DEF ItemDone, Returned, Running
<1>2. KindOf(Top.at) \in Container /\ KindOf(Top.at) # "dict"
  BY <1>1 DEF Container
<1>3. PICK n, h, i, g : n = Top.at /\ h = Top.handle /\ i = Top.i /\ g = Given
  OBVIOUS
<1>4. /\ TypeOK /\ Top \in Frames
      /\ n \in Obj \cup Val /\ h \in DOMAIN values /\ i \in Nat \ {0} /\ i \in DOMAIN KidsOf(n)
      /\ g \in Nat /\ Suits(origin, view, KidsOf(n)[i], g)
      /\ Len(values[h].items) = i - 1
  BY <1>1, <1>2, <1>3, Returning
<1>5. PICK new : new = <<g>>
  OBVIOUS
<1>6. new \in Seq(Nat) /\ Len(new) = 1 /\ new[1] = g
  BY <1>4, <1>5
<1>7. Holding(Top.handle, new)
  BY <1>1, <1>3, <1>4, <1>5, <1>6, AddHolds
<1>8. PICK f \in Frames : f = Moved /\ f.at = Top.at /\ f.handle = Top.handle /\ f.i = i + 1
  BY <1>3, <1>4, MovedFacts
<1>9. \A j \in 1..Len(new) : /\ Len(values[h].items) + j \in DOMAIN KidsOf(n)
                             /\ Suits(origin, view, KidsOf(n)[Len(values[h].items) + j], new[j])
  <2>1. \A j \in 1..1 : j = 1 /\ i - 1 + j = i
    BY <1>4
  <2> QED BY <1>4, <1>6, <2>1
<1>10. Len(values[h].items) + Len(new) = i
  BY <1>4, <1>6
<1>11. stack' = Append(Pop, f)
  BY <1>1, <1>8
<1>12. IF KindOf(n) = "dict" /\ (i + 1) % 2 = 0
       THEN Len(values[h].items) + Len(new) = i - 1 /\ Suits(origin, view, KidsOf(n)[i], f.key)
       ELSE Len(values[h].items) + Len(new) = i
  BY <1>2, <1>3, <1>10
<1>13. GoesOn(origin, view, n, h, i, f, new)
  BY <1>3, <1>6, <1>7, <1>8, <1>9, <1>11, <1>12 DEF GoesOn
<1> QED BY <1>1, <1>2, <1>13, LoopMirrors

\* A pair is added to a map.
LEMMA PairDoneMirrors ==
  ASSUME NEW origin, NEW view, Before(origin, view), TypeOK', PairDone
  PROVE  MirrorInv'
<1>1. /\ ctl.mode = "return" /\ ctl' = Loop /\ stack # <<>> /\ KindOf(Top.at) = "dict" /\ Top.i % 2 = 0
      /\ UNCHANGED graph /\ used' = used /\ mapping' = mapping /\ cache' = cache
      /\ Add(Top.handle, <<Top.key, Given>>) /\ stack' = Append(Pop, Moved)
  BY DEF PairDone, Returned, Running, InValue
<1>2. KindOf(Top.at) \in Container
  BY <1>1 DEF Container
<1>3. PICK n, h, i, g, key : n = Top.at /\ h = Top.handle /\ i = Top.i /\ g = Given /\ key = Top.key
  OBVIOUS
<1>4. /\ TypeOK /\ Top \in Frames
      /\ n \in Obj \cup Val /\ h \in DOMAIN values /\ i \in Nat \ {0} /\ i \in DOMAIN KidsOf(n)
      /\ g \in Nat /\ Suits(origin, view, KidsOf(n)[i], g)
      /\ Len(values[h].items) = i - 2 /\ Suits(origin, view, KidsOf(n)[i - 1], key)
  BY <1>1, <1>2, <1>3, Returning
<1>5. PICK new : new = <<key, g>>
  OBVIOUS
<1>6. new \in Seq(Nat) /\ Len(new) = 2 /\ new[1] = key /\ new[2] = g
  <2>1. key \in Nat
    BY <1>3, <1>4 DEF Frames
  <2> QED BY <1>4, <1>5, <2>1
<1>7. Holding(Top.handle, new)
  BY <1>1, <1>3, <1>4, <1>5, <1>6, AddHolds
<1>8. PICK f \in Frames : f = Moved /\ f.at = Top.at /\ f.handle = Top.handle /\ f.i = i + 1
  BY <1>3, <1>4, MovedFacts
<1>9. \A j \in 1..Len(new) : /\ Len(values[h].items) + j \in DOMAIN KidsOf(n)
                             /\ Suits(origin, view, KidsOf(n)[Len(values[h].items) + j], new[j])
  <2>1. \A j \in 1..2 : (j = 1 /\ i - 2 + j = i - 1) \/ (j = 2 /\ i - 2 + j = i)
    BY <1>4
  <2>2. i - 1 \in DOMAIN KidsOf(n)
    <3>1. i - 1 >= 1
      BY <1>1, <1>3, <1>4
    <3>2. KidsOf(n) \in Seq(Obj \cup Val)
      BY <1>4, Sizes
    <3> QED BY <1>4, <3>1, <3>2
  <2>3. ASSUME NEW j \in 1..2
        PROVE  i - 2 + j \in DOMAIN KidsOf(n) /\ Suits(origin, view, KidsOf(n)[i - 2 + j], new[j])
    <3>1. CASE j = 1 /\ i - 2 + j = i - 1
      BY <1>4, <1>6, <2>2, <3>1
    <3>2. CASE j = 2 /\ i - 2 + j = i
      BY <1>4, <1>6, <3>2
    <3> QED BY <2>1, <3>1, <3>2
  <2> QED BY <1>4, <1>6, <2>3
<1>10. Len(values[h].items) + Len(new) = i
  BY <1>4, <1>6
<1>11. stack' = Append(Pop, f)
  BY <1>1, <1>8
<1>12. IF KindOf(n) = "dict" /\ (i + 1) % 2 = 0
       THEN Len(values[h].items) + Len(new) = i - 1 /\ Suits(origin, view, KidsOf(n)[i], f.key)
       ELSE Len(values[h].items) + Len(new) = i
  <2>1. (i + 1) % 2 # 0
    BY <1>1, <1>3, <1>4, Parity
  <2> QED BY <1>10, <2>1
<1>13. GoesOn(origin, view, n, h, i, f, new)
  BY <1>3, <1>6, <1>7, <1>8, <1>9, <1>11, <1>12 DEF GoesOn
<1> QED BY <1>1, <1>2, <1>13, LoopMirrors

\* A key is kept until its value is there.
LEMMA KeyDoneMirrors ==
  ASSUME NEW origin, NEW view, Before(origin, view), TypeOK', KeyDone
  PROVE  MirrorInv'
<1>1. /\ ctl.mode = "return" /\ ctl' = Loop /\ stack # <<>> /\ KindOf(Top.at) = "dict" /\ Top.i % 2 # 0
      /\ UNCHANGED graph /\ used' = used /\ mapping' = mapping /\ cache' = cache /\ values' = values
      /\ stack' = Append(Pop, [Moved EXCEPT !.key = Given])
  BY DEF KeyDone, Returned, Running, InValue
<1>2. KindOf(Top.at) \in Container
  BY <1>1 DEF Container
<1>3. PICK n, h, i, g : n = Top.at /\ h = Top.handle /\ i = Top.i /\ g = Given
  OBVIOUS
<1>4. /\ TypeOK /\ Top \in Frames
      /\ n \in Obj \cup Val /\ h \in DOMAIN values /\ i \in Nat \ {0} /\ i \in DOMAIN KidsOf(n)
      /\ g \in Nat /\ Suits(origin, view, KidsOf(n)[i], g)
      /\ Len(values[h].items) = i - 1
  BY <1>1, <1>2, <1>3, Returning
<1>5. PICK new : new = <<>>
  OBVIOUS
<1>6. new \in Seq(Nat) /\ Len(new) = 0
  BY <1>5
<1>7. Holding(Top.handle, new)
  <2>1. \A x \in DOMAIN values : values[x].items \in Seq(Nat)
    BY <1>4, Sizes
  <2>2. \A s \in Seq(Nat) : s \o new = s
    BY <1>5
  <2> QED BY <1>1, <2>1, <2>2 DEF Holding
<1>8. PICK f \in Frames : f = [Moved EXCEPT !.key = g] /\ f.at = Top.at /\ f.handle = Top.handle /\ f.i = i + 1 /\ f.key = g
  <2>1. PICK f : f = [Moved EXCEPT !.key = g]
    OBVIOUS
  <2>2. f \in Frames /\ f.at = Top.at /\ f.handle = Top.handle /\ f.i = Top.i + 1 /\ f.key = g
    BY <1>4, <2>1, MovedFacts
  <2> QED BY <1>3, <2>1, <2>2
<1>9. \A j \in 1..Len(new) : /\ Len(values[h].items) + j \in DOMAIN KidsOf(n)
                             /\ Suits(origin, view, KidsOf(n)[Len(values[h].items) + j], new[j])
  BY <1>6
<1>10. Len(values[h].items) + Len(new) = i - 1
  BY <1>4, <1>6
<1>11. stack' = Append(Pop, f)
  BY <1>1, <1>3, <1>8
<1>12. IF KindOf(n) = "dict" /\ (i + 1) % 2 = 0
       THEN Len(values[h].items) + Len(new) = i - 1 /\ Suits(origin, view, KidsOf(n)[i], f.key)
       ELSE Len(values[h].items) + Len(new) = i
  <2>1. (i + 1) % 2 = 0
    BY <1>1, <1>3, <1>4, Parity
  <2> QED BY <1>1, <1>3, <1>4, <1>8, <1>10, <2>1
<1>13. GoesOn(origin, view, n, h, i, f, new)
  BY <1>3, <1>6, <1>7, <1>8, <1>9, <1>11, <1>12 DEF GoesOn
<1> QED BY <1>1, <1>2, <1>13, LoopMirrors

-----------------------------------------------------------------------------
(* Calls that end. *)

\* The call on top ends.
LEMMA Popped ==
  ASSUME TypeOK, NestInv, UNCHANGED graph, stack # <<>>, stack' = Pop, NEW m, m = Len(stack)
  PROVE  /\ m \in Nat \ {0} /\ m \in DOMAIN stack /\ DOMAIN stack = 1..m /\ stack[m] = Top
         /\ DOMAIN stack' = 1..(m - 1) /\ Len(stack') = m - 1
         /\ \A k \in 1..(m - 1) : stack'[k] = stack[k] /\ k < m /\ k \in DOMAIN stack
         /\ Child(Len(stack))' = Child(m - 1)
         /\ FileBelow(Len(stack))' = InFile(Top.at)
<1>1. /\ m \in Nat \ {0} /\ m \in DOMAIN stack /\ DOMAIN stack = 1..m /\ stack[m] = Top
      /\ Pop \in Seq(Frames) /\ Len(Pop) = m - 1 /\ \A k \in 1..(m - 1) : Pop[k] = stack[k]
  BY TopFacts, Sizes DEF Top
<1>2. /\ DOMAIN stack' = 1..(m - 1) /\ Len(stack') = m - 1
      /\ \A k \in 1..(m - 1) : stack'[k] = stack[k] /\ k < m /\ k \in DOMAIN stack
  BY <1>1
<1>3. PICK x, y : x = stack[m - 1].at /\ y = stack[m - 1].i
  OBVIOUS
<1>4. KindOf(x)' = KindOf(x) /\ KidsOf(x)' = KidsOf(x) /\ start' = start /\ kids' = kids /\ client' = client
  BY SameGraph
<1>5. m - 1 # 0 => stack'[m - 1] = stack[m - 1]
  BY <1>1, <1>2
<1>6. Child(Len(stack))' = Child(m - 1)
  BY <1>2, <1>3, <1>4, <1>5 DEF Child
<1>7. InFile(Top.at) <=> FileBelow(m - 1)
  BY TopFacts
<1>8. FileBelow(Len(stack))' = FileBelow(m - 1)
  BY <1>2, <1>3, <1>4, <1>5 DEF FileBelow, InFile
<1> QED BY <1>1, <1>2, <1>6, <1>7, <1>8 DEF FileBelow, InFile

\* The calls that are left.
LEMMA CallsLeft ==
  ASSUME NEW origin, NEW view, NEW next, Before(origin, view), UNCHANGED graph, values' = values,
         stack # <<>>, stack' = Pop, NEW m, m = Len(stack),
         view = next \/ \A k \in 1..(m - 1) : ~InFile(stack[k].at) /\ KindOf(stack[k].at) # "view"
  PROVE  /\ \A k \in 1..(m - 1) : CallOK(origin, next, k)'
         /\ \A k, l \in DOMAIN stack' : k # l => stack'[k].handle # stack'[l].handle
<1>1. TypeOK /\ GraphInv /\ NestInv /\ CallsOK(origin, view)
  BY BeforeFacts
<1>2. /\ m \in Nat \ {0} /\ m \in DOMAIN stack /\ DOMAIN stack = 1..m /\ stack[m] = Top
      /\ DOMAIN stack' = 1..(m - 1) /\ Len(stack') = m - 1
      /\ \A k \in 1..(m - 1) : stack'[k] = stack[k] /\ k < m /\ k \in DOMAIN stack
  BY <1>1, Popped
<1>3. Grows(origin, origin)
  BY DEF Grows
<1>4. ASSUME NEW k \in 1..(m - 1) PROVE CallOK(origin, next, k)'
  <2>1. CallOK(origin, view, k) /\ k \in DOMAIN stack /\ stack'[k] = stack[k]
    BY <1>1, <1>2 DEF CallsOK
  <2>2. k > 1 => stack'[k - 1] = stack[k - 1]
    BY <1>2
  <2>3. Busy(k)' => Busy(k)
    BY <1>2 DEF Busy
  <2>4. view = next \/ (~InFile(stack[k].at) /\ KindOf(stack[k].at) # "view")
    OBVIOUS
  <2> QED BY <1>1, <1>3, <2>1, <2>2, <2>3, <2>4, CallKept
<1>5. ASSUME NEW k \in 1..(m - 1), NEW l \in 1..(m - 1), k # l PROVE stack'[k].handle # stack'[l].handle
  <2>1. stack'[k] = stack[k] /\ stack'[l] = stack[l] /\ k \in DOMAIN stack /\ l \in DOMAIN stack
    BY <1>2
  <2>2. stack[k].handle # stack[l].handle
    BY <1>1, <1>5, <2>1 DEF CallsOK
  <2> QED BY <2>1, <2>2
<1> QED BY <1>2, <1>4, <1>5

\* Maps hold pairs.
LEMMA Pairs ==
  ASSUME TypeOK, GraphInv, NEW n \in Obj \cup Val, KindOf(n) = "dict"
  PROVE  Len(KidsOf(n)) % 2 = 0
<1>1. CASE InFile(n)
  BY <1>1, FileShape DEF KindOf, KidsOf, InFile
<1>2. CASE ~InFile(n)
  <2>1. n \in Obj /\ kind[n] = "dict" /\ KidsOf(n) = kids[n]
    BY <1>2 DEF KindOf, KidsOf, InFile
  <2>2. kids[n] \in KidsFor("dict")
    BY <2>1 DEF GraphInv
  <2> QED BY <2>1, <2>2 DEF KidsFor
<1> QED BY <1>1, <1>2

\* A container has been filled.
LEMMA LoopEndMirrors ==
  ASSUME NEW origin, NEW view, Before(origin, view), err = None, LoopEnd
  PROVE  MirrorInv'
<1>1. /\ TypeOK /\ GraphInv /\ NestInv /\ ErrorInv /\ origin \in Seq(Origins) /\ view \in Obj \cup {None}
      /\ Len(origin) = Len(values) /\ SeenOK(origin, view) /\ HandlesOK(origin, view) /\ CallsOK(origin, view)
  BY BeforeFacts
<1>2. PICK m, n, h, i : m = Len(stack) /\ n = Top.at /\ h = Top.handle /\ i = Top.i
  OBVIOUS
<1>3. ~is_error
  BY <1>1 DEF ErrorInv
<1>4. /\ ctl.mode = "loop" /\ i > Len(KidsOf(n)) /\ ctl' = Return(h) /\ stack' = Pop
      /\ UNCHANGED graph /\ used' = used /\ mapping' = mapping /\ cache' = cache /\ values' = values
  <2>1. ~is_error'
    BY <1>3 DEF LoopEnd
  <2> QED BY <1>2, <2>1 DEF LoopEnd, Running, Leave
<1>5. stack # <<>> /\ KindOf(n) \in Container /\ KindOf(n) # "view" /\ KindOf(n) \notin Leaf
  BY <1>1, <1>2, <1>4 DEF NestInv, Leaf, Container
<1>6. /\ m \in Nat \ {0} /\ m \in DOMAIN stack /\ DOMAIN stack = 1..m /\ stack[m] = Top
      /\ DOMAIN stack' = 1..(m - 1) /\ Len(stack') = m - 1
      /\ \A k \in 1..(m - 1) : stack'[k] = stack[k] /\ k < m /\ k \in DOMAIN stack
      /\ Child(Len(stack))' = Child(m - 1)
      /\ FileBelow(Len(stack))' = InFile(Top.at)
  BY <1>1, <1>2, <1>4, <1>5, Popped
<1>7. n \in Obj \cup Val /\ i \in Nat \ {0} /\ h \in DOMAIN values
  <2>1. n \in Obj \cup Val /\ i \in Nat \ {0}
    BY <1>1, <1>2, <1>6, Sizes
  <2>2. h \in DOMAIN values
    BY <1>1, <1>2, <1>5, <1>6 DEF NestInv, FrameInv
  <2> QED BY <2>1, <2>2
<1>8. /\ n = Child(m - 1) /\ origin[h] = Home(n, view)
      /\ i <= Len(KidsOf(n)) + 1
      /\ KindOf(n) # "dict" \/ i % 2 # 0 => Len(values[h].items) = i - 1
  <2>1. CallOK(origin, view, m)
    BY <1>1, <1>6 DEF CallsOK
  <2> QED BY <1>2, <1>5, <1>6, <2>1 DEF CallOK
<1>9. Len(values[h].items) = Len(KidsOf(n))
  <2>1. PICK L : L = Len(KidsOf(n)) /\ L \in Nat
    <3>1. KidsOf(n) \in Seq(Obj \cup Val)
      BY <1>1, <1>7, Sizes
    <3>2. Len(KidsOf(n)) \in Nat
      BY <3>1
    <3> QED BY <3>2
  <2>2. i = L + 1
    BY <1>4, <1>7, <1>8, <2>1
  <2>3. KindOf(n) = "dict" => L % 2 = 0
    BY <1>1, <1>7, <2>1, Pairs
  <2>4. KindOf(n) = "dict" => i % 2 # 0
    BY <2>1, <2>2, <2>3, Parity
  <2> QED BY <1>8, <2>1, <2>2, <2>4
<1>10. Grows(origin, origin)
  BY <1>4 DEF Grows
<1>11. SeenOK(origin, view)'
  <2>1. view = None /\ client = "python" => \A v \in Val : mapping'[v] = Fail
    BY <1>1, <1>4 DEF SeenOK
  <2> QED BY <1>1, <1>4, <1>10, <2>1, SeenAfter
<1>12. ASSUME NEW g \in DOMAIN values PROVE HandleOK(origin, view, g)'
  <2>1. HandleOK(origin, view, g)
    BY <1>1 DEF HandlesOK
  <2>2. IsRemembered(origin[g], view, g) => IsRemembered(origin[g], view, g)'
    BY <1>4 DEF IsRemembered, InFile
  <2>3. values[g].kind \in Container => IsRemembered(origin[g], view, g)'
    BY <2>1, <2>2 DEF HandleOK
  <2>4. (\A k \in DOMAIN stack' : stack'[k].handle # g) =>
           \/ \A k \in DOMAIN stack : stack[k].handle # g
           \/ Len(values[g].items) = Len(KidsOf(origin[g].node))
    <3>1. CASE g = h
      BY <1>8, <1>9, <3>1 DEF Home
    <3>2. CASE g # h
      <4>1. \A k \in 1..m : k = m \/ k \in 1..(m - 1)
        BY <1>6
      <4> QED BY <1>2, <1>6, <3>2, <4>1
    <3> QED BY <3>1, <3>2
  <2> QED BY <1>4, <1>10, <2>1, <2>3, <2>4, HandleKept
<1>13. HandlesOK(origin, view)'
  BY <1>1, <1>4, <1>12 DEF HandlesOK
<1>14. CallsOK(origin, view)'
  <2>1. /\ \A k \in 1..(m - 1) : CallOK(origin, view, k)'
        /\ \A k, l \in DOMAIN stack' : k # l => stack'[k].handle # stack'[l].handle
    BY <1>2, <1>4, <1>5, CallsLeft
  <2>2. ASSUME view # None
        PROVE  used'[view] = Fail /\ \E k \in 1..(m - 1) : stack'[k].at = view /\ KindOf(view)' = "view"
    <3>1. used[view] = Fail /\ KindOf(view) = "view"
      BY <1>1, <2>2 DEF CallsOK
    <3>2. PICK k \in 1..m : stack[k].at = view
      BY <1>1, <1>6, <2>2 DEF CallsOK
    <3>3. k # m
      BY <1>2, <1>5, <1>6, <3>1, <3>2
    <3>4. k \in 1..(m - 1) /\ stack'[k].at = view
      BY <1>6, <3>2, <3>3
    <3>5. KindOf(view)' = "view"
      BY <1>4, <3>1, SameGraph
    <3> QED BY <1>4, <3>1, <3>4, <3>5
  <2>3. view = None /\ client' = "python" => ~FileBelow(Len(stack))'
    <3>1. client' = client
      BY <1>4, SameGraph
    <3>2. view = None /\ client = "python" => ~FileBelow(Len(stack))
      BY <1>1 DEF CallsOK
    <3>3. InFile(Top.at) => FileBelow(Len(stack))
      BY <1>1, <1>5, TopFacts
    <3> QED BY <1>6, <3>1, <3>2, <3>3
  <2> QED BY <1>6, <2>1, <2>2, <2>3 DEF CallsOK
<1>15. Suits(origin, view, n, h)'
  <2>1. values[h].kind = KindOf(n)
    BY <1>1, <1>7, <1>8 DEF HandlesOK, HandleOK, Home
  <2>2. Suits(origin, view, n, h)
    BY <1>5, <1>7, <1>8, <2>1 DEF Suits, Fits, Matches, Home
  <2> QED BY <1>4, <1>10, <2>2, SuitsKept
<1>16. TurnOK(origin, view)'
  BY <1>4, <1>6, <1>8, <1>15, ReturnsRight
<1> QED BY <1>1, <1>4, <1>11, <1>13, <1>14, <1>16, MirrorShown

\* A view has been visited.
LEMMA ViewDoneMirrors ==
  ASSUME NEW origin, NEW view, Before(origin, view), ViewDone
  PROVE  MirrorInv'
<1>1. /\ TypeOK /\ GraphInv /\ NestInv /\ origin \in Seq(Origins) /\ view \in Obj \cup {None}
      /\ Len(origin) = Len(values) /\ SeenOK(origin, view) /\ HandlesOK(origin, view) /\ CallsOK(origin, view)
      /\ TurnOK(origin, view)
  BY BeforeFacts
<1>2. PICK m, n, g : m = Len(stack) /\ n = Top.at /\ g = Given
  OBVIOUS
<1>3. /\ ctl.mode = "return" /\ stack # <<>> /\ KindOf(n) = "view" /\ g # Fail
      /\ mapping' = [v \in Val |-> Fail] /\ used' = [used EXCEPT ![n] = g]
      /\ stack' = Pop /\ ctl' = Return(g)
      /\ UNCHANGED graph /\ cache' = cache /\ values' = values
  BY <1>2 DEF ViewDone, Returned, Running, Leave
<1>4. /\ m \in Nat \ {0} /\ m \in DOMAIN stack /\ DOMAIN stack = 1..m /\ stack[m] = Top
      /\ DOMAIN stack' = 1..(m - 1) /\ Len(stack') = m - 1
      /\ \A k \in 1..(m - 1) : stack'[k] = stack[k] /\ k < m /\ k \in DOMAIN stack
      /\ Child(Len(stack))' = Child(m - 1)
      /\ FileBelow(Len(stack))' = InFile(Top.at)
  BY <1>1, <1>2, <1>3, Popped
<1>5. n \in Obj /\ ~InFile(n) /\ n # None
  <2>1. n \in Obj \cup Val
    BY <1>1, <1>2, <1>4, Sizes
  <2>2. ~InFile(n)
    BY <1>3, FileKinds
  <2> QED BY <2>1, <2>2, NoneIsNone DEF InFile
<1>6. n = Child(m - 1) /\ view = n /\ stack[m].handle = Fail
  <2>1. CallOK(origin, view, m)
    BY <1>1, <1>4 DEF CallsOK
  <2> QED BY <1>2, <1>3, <1>4, <2>1 DEF CallOK
<1>7. \A k \in 1..(m - 1) : ~InFile(stack[k].at) /\ KindOf(stack[k].at) # "view"
  <2>1. ASSUME NEW k \in 1..(m - 1) PROVE ~InFile(stack[k].at) /\ KindOf(stack[k].at) # "view"
    <3>1. InFile(stack[k].at) => InFile(stack[m].at)
      BY <1>1, <1>4 DEF NestInv
    <3>2. KindOf(stack[k].at) = "view" => InFile(stack[m].at)
      BY <1>1, <1>4, ViewFacts
    <3> QED BY <1>2, <1>4, <1>5, <3>1, <3>2
  <2> QED BY <2>1
<1>8. Grows(origin, origin)
  BY <1>3 DEF Grows
<1>9. /\ used'[n] = g /\ \A o \in Obj : used'[o] = used[o] \/ (o = n /\ used'[o] = g)
  BY <1>1, <1>3, <1>5 DEF TypeOK
<1>10. Suits(origin, None, n, g)'
  <2>1. PICK c : c = kids[n][1]
    OBVIOUS
  <2>2. c \in Val /\ KindOf(c) # "view" /\ InFile(c)
    BY <1>1, <1>3, <1>5, <2>1, KidsAreNear, FileKinds DEF InFile
  <2>3. m # 0 /\ Child(Len(stack)) = c
    BY <1>2, <1>3, <1>4, <2>1 DEF Child
  <2>4. Suits(origin, view, c, g)
    BY <1>1, <1>2, <1>3, <2>3 DEF TurnOK
  <2>5. Matches(origin, n, c, g)
    BY <1>6, <2>2, <2>4 DEF Suits, Fits, Home
  <2>6. Suits(origin, None, n, g)
    BY <1>3, <2>1, <2>5 DEF Suits, Fits
  <2> QED BY <1>3, <1>8, <2>6, SuitsKept
<1>11. SeenOK(origin, None)'
  <2>1. ASSUME NEW o \in Obj PROVE used'[o] \in {used[o], Fail} \/ Suits(origin, None, o, used[o])'
    <3>1. CASE o = n /\ used'[o] = g
      BY <1>10, <3>1 DEF Suits, Fits, Matches
    <3> QED BY <1>9, <3>1
  <2>2. \A v \in Val : mapping'[v] = Fail
    BY <1>3
  <2> QED BY <1>1, <1>3, <1>8, <2>1, <2>2, SeenAfter
<1>12. ASSUME NEW h \in DOMAIN values PROVE HandleOK(origin, None, h)'
  <2>1. HandleOK(origin, view, h) /\ h # Fail
    BY <1>1, Sizes DEF HandlesOK
  <2>2. ASSUME values[h].kind \in Container PROVE IsRemembered(origin[h], None, h)'
    <3>1. PICK at : at = origin[h]
      OBVIOUS
    <3>2. IsRemembered(at, view, h) /\ KindOf(at.node) \in Container
      BY <2>1, <2>2, <3>1 DEF HandleOK
    <3>3. at.node # n
      BY <1>3, <3>2 DEF Container
    <3>4. InFile(at.node)' = InFile(at.node)
      BY DEF InFile
    <3>5. at.via \in Obj /\ (at.via = n \/ used[at.via] # Fail) => used'[at.via] # Fail
      BY <1>3, <1>9
    <3>6. ~InFile(at.node) => used'[at.node] = used[at.node]
      <4>1. origin[h] \in Origins
        BY <1>1, Sizes
      <4> QED BY <1>9, <3>1, <3>3, <4>1 DEF Origins, InFile
    <3>7. IsRemembered(at, None, h)'
      BY <1>5, <1>6, <3>2, <3>4, <3>5, <3>6 DEF IsRemembered
    <3> QED BY <3>1, <3>7
  <2>3. (\A k \in DOMAIN stack' : stack'[k].handle # h) => \A k \in DOMAIN stack : stack[k].handle # h
    <3>1. \A k \in 1..m : k = m \/ k \in 1..(m - 1)
      BY <1>4
    <3> QED BY <1>4, <1>6, <2>1, <3>1
  <2> QED BY <1>3, <1>8, <2>1, <2>2, <2>3, HandleKept
<1>13. HandlesOK(origin, None)'
  BY <1>1, <1>3, <1>12 DEF HandlesOK
<1>14. CallsOK(origin, None)'
  <2>1. /\ \A k \in 1..(m - 1) : CallOK(origin, None, k)'
        /\ \A k, l \in DOMAIN stack' : k # l => stack'[k].handle # stack'[l].handle
    BY <1>2, <1>3, <1>7, CallsLeft
  <2>2. ~FileBelow(Len(stack))'
    BY <1>2, <1>4, <1>5
  <2> QED BY <1>4, <2>1, <2>2 DEF CallsOK
<1>15. TurnOK(origin, None)'
  BY <1>3, <1>4, <1>6, <1>10, ReturnsRight
<1>16. None \in Obj \cup {None}
  OBVIOUS
<1> QED BY <1>1, <1>3, <1>11, <1>13, <1>14, <1>15, <1>16, MirrorShown

\* The walk is over, and its client goes on.
LEMMA EndsMirror ==
  ASSUME NEW origin, NEW view, Before(origin, view), err = None, ExportEnds \/ RecreateEnds
  PROVE  MirrorInv'
<1>1. TypeOK /\ ErrorInv /\ TurnOK(origin, view) /\ CallsOK(origin, view)
  BY BeforeFacts
<1>2. /\ ctl.mode = "return" /\ stack = <<>> /\ stack' = stack
      /\ UNCHANGED graph /\ used' = used /\ mapping' = mapping /\ cache' = cache /\ values' = values
  BY DEF ExportEnds, RecreateEnds, Back, Running
<1>3. Suits(origin, view, start, Given)
  BY <1>1, <1>2 DEF TurnOK, Child
<1>4. Given # Fail /\ ~is_error
  <2>1. Given \in DOMAIN values
    BY <1>3, FitsHandle
  <2> QED BY <1>1, <2>1, Sizes DEF ErrorInv
<1>5. root' = Given /\ ctl' = [ctl EXCEPT !.mode = "output"]
  BY <1>4 DEF ExportEnds, RecreateEnds
<1>6. ctl'.mode = "output"
  BY <1>1, <1>5, ToOutput
<1>7. Grows(origin, origin)
  BY <1>2 DEF Grows
<1>8. CallsOK(origin, view)'
  BY <1>2, <1>7, StackStays
<1>9. TurnOK(origin, view)'
  <2>1. PICK n, h : n = start /\ h = Given
    OBVIOUS
  <2>2. Suits(origin, view, n, h)
    BY <1>3, <2>1
  <2>3. Suits(origin, view, n, h)'
    BY <1>2, <1>7, <2>2, SuitsKept
  <2>4. n = start' /\ h = root'
    BY <1>2, <1>5, <2>1, SameGraph
  <2>5. Suits(origin, view, start, root)'
    BY <2>3, <2>4 DEF Suits, Fits, Matches
  <2> QED BY <1>2, <1>6, <2>5 DEF TurnOK
<1> QED BY <1>2, <1>8, <1>9, NothingWritten

\* The file is written.
LEMMA OutputMirrors ==
  ASSUME NEW origin, NEW view, Before(origin, view), Output
  PROVE  MirrorInv'
<1>1. TypeOK /\ TurnOK(origin, view) /\ CallsOK(origin, view)
  BY BeforeFacts
<1>2. /\ ctl.mode = "output" /\ UNCHANGED graph /\ UNCHANGED walk /\ root' = root
  BY DEF Output, Running
<1>3. /\ stack' = stack /\ ctl' = ctl
      /\ used' = used /\ mapping' = mapping /\ cache' = cache /\ values' = values
  BY <1>2 DEF walk
<1>4. Grows(origin, origin)
  BY <1>3 DEF Grows
<1>5. CallsOK(origin, view)'
  BY <1>2, <1>3, <1>4, StackStays
<1>6. TurnOK(origin, view)'
  <2>1. PICK n, h : n = start /\ h = root
    OBVIOUS
  <2>2. Suits(origin, view, n, h) /\ stack = <<>>
    BY <1>1, <1>2, <2>1 DEF TurnOK
  <2>3. Suits(origin, view, n, h)'
    BY <1>2, <1>4, <2>2, SuitsKept
  <2>4. n = start' /\ h = root'
    BY <1>2, <2>1, SameGraph
  <2>5. Suits(origin, view, start, root)'
    BY <2>3, <2>4 DEF Suits, Fits, Matches
  <2> QED BY <1>2, <1>3, <2>2, <2>5 DEF TurnOK
<1> QED BY <1>2, <1>3, <1>5, <1>6, NothingWritten

\* An error stays.
LEMMA ErrorsStay ==
  ASSUME WalkInv, Next, err # None
  PROVE  err' # None
<1>1. \A n, e : e \in Errors /\ Raise(n, e) => err' # None
  BY ErrorsAreNotNone DEF Raise
<1>2. ASSUME NEW n \in Obj \cup Val, Visit(n) PROVE err' # None
  <2>1. CASE \/ VisitTooDeep(n) \/ VisitLongPending(n) \/ VisitOutOfMemory(n)
             \/ VisitUnsupported(n) \/ VisitViewFails(n)
    BY <1>1, <2>1 DEF VisitTooDeep, VisitLongPending, VisitOutOfMemory, VisitUnsupported, VisitViewFails, Errors
  <2>2. CASE VisitSimple(n) \/ VisitSeen(n) \/ VisitText(n) \/ VisitContainer(n) \/ VisitView(n)
    BY <2>2 DEF VisitSimple, VisitSeen, VisitText, VisitContainer, VisitView
  <2> QED BY <1>2, <2>1, <2>2 DEF Visit
<1>3. CASE NextChild \/ LoopEnd \/ ItemDone \/ KeyDone \/ PairDone \/ ViewDone \/ ExportEnds \/ RecreateEnds \/ Output
  BY <1>3 DEF NextChild, LoopEnd, ItemDone, KeyDone, PairDone, ViewDone, ExportEnds, RecreateEnds, Output
<1>4. CASE ItemFails \/ PairFails \/ OutputFails
  BY <1>4, ErrorsAreNotNone DEF ItemFails, PairFails, OutputFails, Errors
<1>5. CASE ViewFails
  <2>1. \E n, e : e \in Errors /\ Raise(n, e)
    BY <1>5 DEF ViewFails, Errors
  <2> QED BY <1>1, <2>1
<1> QED BY <1>2, <1>3, <1>4, <1>5 DEF Next

\* What fails leaves an error.
LEMMA FailuresTell ==
  ASSUME NEW origin, NEW view, Before(origin, view), err = None,
         \/ \E n \in Obj \cup Val : \/ VisitTooDeep(n) \/ VisitLongPending(n) \/ VisitOutOfMemory(n)
                                    \/ VisitUnsupported(n) \/ VisitViewFails(n)
         \/ ItemFails \/ PairFails \/ ViewFails \/ OutputFails
  PROVE  err' # None
<1>1. \A n, e : e \in Errors /\ Raise(n, e) => err' # None
  BY ErrorsAreNotNone DEF Raise
<1>2. TypeOK /\ ErrorInv
  BY BeforeFacts
<1>3. ctl.mode = "return" /\ result = None => Given # Fail
  BY <1>2 DEF ErrorInv
<1>4. ASSUME NEW n \in Obj \cup Val,
             \/ VisitTooDeep(n) \/ VisitLongPending(n) \/ VisitOutOfMemory(n)
             \/ VisitUnsupported(n) \/ VisitViewFails(n)
      PROVE  err' # None
  BY <1>1, <1>4 DEF VisitTooDeep, VisitLongPending, VisitOutOfMemory, VisitUnsupported, VisitViewFails, Errors
<1>5. CASE ItemFails
  BY <1>3, <1>5, ErrorsAreNotNone DEF ItemFails, Returned, Running, Errors
<1>6. CASE PairFails
  <2>1. ctl.mode = "return" /\ result = None /\ stack # <<>> /\ KindOf(Top.at) = "dict"
    BY <1>6 DEF PairFails, Returned, Running
  <2>2. ASSUME InValue PROVE Top.key # Fail
    <3>1. PICK n, h, i : n = Top.at /\ h = Top.handle /\ i = Top.i
      OBVIOUS
    <3>2. Suits(origin, view, KidsOf(n)[i - 1], Top.key)
      BY <2>1, <2>2, <3>1, Returning DEF InValue, Container
    <3>3. Top.key \in DOMAIN values
      BY <3>2, FitsHandle
    <3> QED BY <1>2, <3>3, Sizes
  <2> QED BY <1>3, <1>6, <2>1, <2>2, ErrorsAreNotNone DEF PairFails, Errors
<1>7. CASE ViewFails
  <2>1. \E n, e : e \in Errors /\ Raise(n, e)
    BY <1>7 DEF ViewFails, Errors
  <2> QED BY <1>1, <2>1
<1>8. CASE OutputFails
  BY <1>8, ErrorsAreNotNone DEF OutputFails, Errors
<1> QED BY <1>4, <1>5, <1>6, <1>7, <1>8

-----------------------------------------------------------------------------
(* The mirror is kept. *)

\* Nothing has been made when a walk begins.
LEMMA MirrorInit == Init => MirrorInv
<1> SUFFICES ASSUME Init PROVE MirrorInv
  OBVIOUS
<1>1. /\ stack = <<>> /\ ctl = Call(start) /\ values = <<>> /\ err = None
      /\ used = [o \in Obj |-> Fail] /\ mapping = [v \in Val |-> Fail]
      /\ cache = [n \in Obj \cup Val |-> Fail]
  BY DEF Init
<1>2. ctl.mode = "call" /\ ctl.node = start
  BY <1>1 DEF Call
<1>3. Len(stack) = 0 /\ DOMAIN stack = {} /\ Len(values) = 0 /\ DOMAIN values = {}
  BY <1>1
<1>4. /\ \A o \in Obj : used[o] = Fail
      /\ \A v \in Val : mapping[v] = Fail
      /\ \A n \in Obj \cup Val : cache[n] = Fail
  BY <1>1
<1> DEFINE none == <<>>
<1>5. none \in Seq(Origins) /\ Len(none) = Len(values) /\ None \in Obj \cup {None}
  BY <1>3
<1> HIDE DEF none
<1>6. SeenOK(none, None)
  BY <1>4 DEF SeenOK
<1>7. HandlesOK(none, None)
  BY <1>3 DEF HandlesOK
<1>8. CallsOK(none, None)
  <2>1. client = "python" => ~FileBelow(Len(stack))
    BY <1>3 DEF FileBelow
  <2> QED BY <1>3, <2>1 DEF CallsOK
<1>9. TurnOK(none, None)
  BY <1>2, <1>3 DEF TurnOK, Child
<1>10. Mirrors(none, None)
  BY <1>5, <1>6, <1>7, <1>8, <1>9 DEF Mirrors
<1> QED
  BY <1>5, <1>10 DEF MirrorInv

\* A step that changes nothing keeps the mirror.
LEMMA MirrorStutter ==
  ASSUME NEW origin, NEW view, Before(origin, view), UNCHANGED vars
  PROVE  MirrorInv'
<1>1. /\ UNCHANGED graph /\ stack' = stack /\ ctl' = ctl /\ root' = root
      /\ used' = used /\ mapping' = mapping /\ cache' = cache /\ values' = values
  BY DEF vars, walk, final
<1>2. TypeOK /\ TurnOK(origin, view) /\ CallsOK(origin, view)
  BY BeforeFacts
<1>3. start' = start /\ kind' = kind /\ kids' = kids /\ client' = client
  BY <1>1, SameGraph
<1>4. CallsOK(origin, view)'
  <2>1. Grows(origin, origin)
    BY <1>1 DEF Grows
  <2> QED BY <1>1, <2>1, StackStays
<1>5. TurnOK(origin, view)'
  <2>1. Len(stack)' = Len(stack) /\ Child(Len(stack))' = Child(Len(stack))
    BY <1>1, <1>3 DEF Child, KindOf, KidsOf, InFile
  <2>2. PICK n, g, r : n = Child(Len(stack)) /\ g = Given /\ r = root
    OBVIOUS
  <2>3. Grows(origin, origin)
    BY <1>1 DEF Grows
  <2>4. /\ ctl.mode = "return" => Suits(origin, view, n, g)'
        /\ ctl.mode = "output" => Suits(origin, view, start, r)'
    <3>1. PICK s : s = start
      OBVIOUS
    <3>2. /\ ctl.mode = "return" => Suits(origin, view, n, g)
          /\ ctl.mode = "output" => Suits(origin, view, s, r)
      BY <1>2, <2>2, <3>1 DEF TurnOK
    <3>3. /\ ctl.mode = "return" => Suits(origin, view, n, g)'
          /\ ctl.mode = "output" => Suits(origin, view, s, r)'
      BY <1>1, <2>3, <3>2, SuitsKept
    <3> QED BY <1>3, <3>1, <3>3 DEF Suits, Fits, Matches
  <2>5. Given' = g /\ root' = r /\ Child(Len(stack))' = n
    BY <1>1, <2>1, <2>2 DEF Given
  <2> QED BY <1>1, <1>2, <2>2, <2>4, <2>5 DEF TurnOK, Suits, Fits, Matches
<1> QED BY <1>1, <1>4, <1>5, NothingWritten

\* Every visit without an error keeps the mirror, or leaves an error.
LEMMA VisitMirrors ==
  ASSUME NEW origin, NEW view, Before(origin, view), err = None, NEW n \in Obj \cup Val, Visit(n)
  PROVE  MirrorInv'
<1>1. CASE \/ VisitTooDeep(n) \/ VisitLongPending(n) \/ VisitOutOfMemory(n)
           \/ VisitUnsupported(n) \/ VisitViewFails(n)
  <2>1. err' # None
    BY <1>1, FailuresTell
  <2> QED BY <2>1 DEF MirrorInv
<1>2. CASE VisitSimple(n) \/ VisitSeen(n) \/ VisitText(n)
  BY <1>2, VisitSeenMirrors, VisitLeafMirrors
<1>3. CASE VisitContainer(n)  BY <1>3, VisitContainerMirrors
<1>4. CASE VisitView(n)       BY <1>4, VisitViewMirrors
<1> QED BY <1>1, <1>2, <1>3, <1>4 DEF Visit

\* So does every step.
LEMMA MirrorStep == WalkInv /\ WalkInv' /\ MirrorInv /\ [Next]_vars => MirrorInv'
<1> SUFFICES ASSUME WalkInv, WalkInv', MirrorInv, [Next]_vars PROVE MirrorInv'
  OBVIOUS
<1>1. CASE err # None
  <2>1. err' # None
    <3>1. CASE Next  BY <1>1, <3>1, ErrorsStay
    <3>2. CASE UNCHANGED vars  BY <1>1, <3>2 DEF vars
    <3> QED BY <3>1, <3>2
  <2> QED BY <2>1 DEF MirrorInv
<1>2. CASE err = None
  <2>1. PICK origin \in Seq(Origins), view \in Obj \cup {None} : Mirrors(origin, view)
    BY <1>2 DEF MirrorInv
  <2>2. Before(origin, view)
    BY <2>1 DEF Before
  <2>3. TypeOK'
    BY DEF WalkInv
  <2>4. CASE UNCHANGED vars  BY <2>2, <2>4, MirrorStutter
  <2>5. ASSUME NEW n \in Obj \cup Val, Visit(n) PROVE MirrorInv'
    BY <1>2, <2>2, <2>5, VisitMirrors
  <2>6. CASE NextChild  BY <2>2, <2>6, NextChildMirrors
  <2>7. CASE LoopEnd    BY <1>2, <2>2, <2>7, LoopEndMirrors
  <2>8. CASE ItemDone   BY <2>2, <2>3, <2>8, ItemDoneMirrors
  <2>9. CASE KeyDone    BY <2>2, <2>3, <2>9, KeyDoneMirrors
  <2>10. CASE PairDone  BY <2>2, <2>3, <2>10, PairDoneMirrors
  <2>11. CASE ItemFails \/ PairFails \/ ViewFails \/ OutputFails
    <3>1. err' # None
      BY <1>2, <2>2, <2>11, FailuresTell
    <3> QED BY <3>1 DEF MirrorInv
  <2>12. CASE ViewDone  BY <2>2, <2>12, ViewDoneMirrors
  <2>13. CASE ExportEnds \/ RecreateEnds  BY <1>2, <2>2, <2>13, EndsMirror
  <2>14. CASE Output    BY <2>2, <2>14, OutputMirrors
  <2> QED
    BY <2>4, <2>5, <2>6, <2>7, <2>8, <2>9, <2>10, <2>11, <2>12, <2>13, <2>14 DEF Next
<1> QED BY <1>1, <1>2

\* Only an output writes.
WrittenInv == result = "written" => ctl.mode = "output"

\* Nothing is done after the result.
LEMMA WrittenStep == TypeOK /\ WrittenInv /\ [Next]_vars => WrittenInv'
<1> SUFFICES ASSUME TypeOK, WrittenInv, [Next]_vars PROVE WrittenInv'
  OBVIOUS
<1>1. CASE UNCHANGED vars
  BY <1>1 DEF vars, walk, final, WrittenInv
<1>2. None # "written"
  BY ErrorsAreNotNone
<1>3. ASSUME NEW n \in Obj \cup Val, Visit(n) PROVE result' = None
  BY <1>3 DEF Visit, VisitTooDeep, VisitSimple, VisitLongPending, VisitSeen, VisitText, VisitContainer,
     VisitOutOfMemory, VisitUnsupported, VisitView, VisitViewFails, Raise, Running, final
<1>4. CASE NextChild \/ LoopEnd \/ ItemDone \/ ItemFails \/ KeyDone \/ PairDone \/ PairFails \/ ViewDone \/ ViewFails
  <2>1. result' = None
    BY <1>4 DEF NextChild, LoopEnd, ItemDone, ItemFails, KeyDone, PairDone, PairFails, ViewDone, ViewFails,
       Raise, Returned, Running, final
  <2> QED BY <1>2, <2>1 DEF WrittenInv
<1>5. CASE ExportEnds \/ RecreateEnds \/ OutputFails
  <2>1. result' # "written"
    BY <1>2, <1>5 DEF ExportEnds, RecreateEnds, OutputFails, Back, Running
  <2> QED BY <2>1 DEF WrittenInv
<1>6. CASE Output
  BY <1>6 DEF Output, Running, walk, WrittenInv
<1> QED BY <1>1, <1>2, <1>3, <1>4, <1>5, <1>6 DEF Next, WrittenInv

\* As long as no walk has failed, every container that was made has the
\* handle that is remembered for it and holds what was made of its children.
\* (pointless_export_py_rec, pointless_recreate_convert_rec)
THEOREM MirrorKept == Spec => [](MirrorInv /\ WrittenInv)
<1>1. Init => MirrorInv /\ WrittenInv
  <2>1. Init => WrittenInv
    BY ErrorsAreNotNone DEF Init, WrittenInv
  <2> QED BY <2>1, MirrorInit
<1>2. WalkInv /\ WalkInv' /\ (MirrorInv /\ WrittenInv) /\ [Next]_vars => (MirrorInv /\ WrittenInv)'
  <2>1. WalkInv => TypeOK
    BY DEF WalkInv
  <2> QED BY <2>1, MirrorStep, WrittenStep
<1> QED BY <1>1, <1>2, WalkCorrect, PTL DEF Spec

-----------------------------------------------------------------------------
(* What is met on the way down. *)

\* A set of numbers that is not empty has a least member.
LEMMA LeastMember ==
  ASSUME NEW T, T \subseteq Nat, T # {}
  PROVE  \E x \in T : \A y \in T : x <= y
<1>1. PICK x \in T : \A y \in T : ~(<<y, x>> \in OpToRel(<, Nat))
  BY NatLessThanWellFounded, WFMin
<1>2. \A y \in T : ~(y < x)
  BY <1>1 DEF OpToRel
<1> QED
  BY <1>2

\* A set that holds 0, and n + 1 when it holds n, holds every number.
LEMMA SetInduction ==
  ASSUME NEW S, 0 \in S, \A n \in Nat : n \in S => n + 1 \in S
  PROVE  Nat \subseteq S
<1> SUFFICES ASSUME Nat \ S # {} PROVE FALSE
  OBVIOUS
<1>1. PICK x \in Nat \ S : \A y \in Nat \ S : x <= y
  BY LeastMember
<1>2. x - 1 \in Nat /\ x - 1 \in S
  BY <1>1
<1> QED
  BY <1>1, <1>2

\* What is met in n steps, of what is met in fewer.
Nearer(above) == above \cup UNION {Below(p) : p \in above}
Met(f, n) == IF n = 0 THEN {Pair(None, start, root)} ELSE Nearer(f[n - 1])

\* All that is met, by what is met in fewer steps.
Meeting == CHOOSE f : f = [n \in Nat |-> Met(f, n)]

\* That is what the model's recursive function computes.
LEMMA MirrorIsMeeting == Mirror = Meeting
  BY Zenon DEF Mirror, Meeting, Met, Nearer

\* What is met in up to k steps.
UpTo(f, k) == f = [n \in 0..k |-> Met(f, n)]

\* Which is what it says of each step.
LEMMA UpToGives ==
  ASSUME NEW k \in Nat, NEW f, UpTo(f, k), NEW n \in 0..k
  PROVE  f[n] = Met(f, n)
<1>1. PICK g : g = [i \in 0..k |-> Met(f, i)]
  OBVIOUS
<1>2. g[n] = Met(f, n)
  BY <1>1
<1>3. f = g
  BY <1>1, Zenon DEF UpTo
<1> QED BY <1>2, <1>3

\* It can be found, one step after the other.
LEMMA UpToExists ==
  ASSUME NEW k \in Nat
  PROVE  \E f : UpTo(f, k)
<1> DEFINE S == {j \in Nat : \E f : UpTo(f, j)}
<1>1. 0 \in S
  <2> DEFINE f == [n \in 0..0 |-> {Pair(None, start, root)}]
  <2>1. f = [n \in 0..0 |-> Met(f, n)]
    <3>1. \A n \in 0..0 : Met(f, n) = {Pair(None, start, root)}
      BY DEF Met
    <3> QED BY <3>1
  <2> HIDE DEF f
  <2>2. UpTo(f, 0)
    BY <2>1 DEF UpTo
  <2> QED BY <2>2
<1>2. ASSUME NEW j \in Nat, j \in S PROVE j + 1 \in S
  <2>1. PICK f : UpTo(f, j)
    BY <1>2
  <2> DEFINE more == [n \in 0..(j + 1) |-> IF n \in 0..j THEN f[n] ELSE Met(f, n)]
  <2>2. ASSUME NEW n \in 0..(j + 1) PROVE more[n] = Met(more, n)
    <3>1. more[n] = Met(f, n)
      <4>1. n \in 0..j => f[n] = Met(f, n)
        BY <2>1 DEF UpTo
      <4> QED BY <4>1
    <3>2. CASE n = 0
      BY <3>1, <3>2 DEF Met
    <3>3. CASE n # 0
      <4>1. n - 1 \in 0..j /\ n - 1 \in 0..(j + 1)
        BY <3>3
      <4>2. more[n - 1] = f[n - 1]
        BY <4>1
      <4> HIDE DEF more
      <4> QED BY <3>1, <3>3, <4>2 DEF Met
    <3> QED BY <3>2, <3>3
  <2>3. more = [n \in 0..(j + 1) |-> more[n]]
    OBVIOUS
  <2> HIDE DEF more
  <2>4. UpTo(more, j + 1)
    BY <2>2, <2>3 DEF UpTo
  <2> QED BY <2>4
<1> HIDE DEF S
<1>3. k \in S
  BY <1>1, <1>2, SetInduction
<1> QED BY <1>3 DEF S

\* It is the same however many steps follow.
LEMMA UpToUnique ==
  ASSUME NEW j \in Nat, NEW k \in Nat, j <= k, NEW f, UpTo(f, j), NEW g, UpTo(g, k)
  PROVE  f[j] = g[j]
<1> DEFINE S == {n \in Nat : n <= j => f[n] = g[n]}
<1>1. \A n \in 0..j : f[n] = Met(f, n) /\ g[n] = Met(g, n)
  BY UpToGives
<1>2. 0 \in S
  BY <1>1 DEF Met
<1>3. ASSUME NEW n \in Nat, n \in S PROVE n + 1 \in S
  <2>1. ASSUME n + 1 <= j PROVE f[n + 1] = g[n + 1]
    <3>1. f[n] = g[n] /\ (n + 1) - 1 = n /\ n + 1 # 0 /\ n + 1 \in 0..j
      BY <1>3, <2>1
    <3>2. Met(f, n + 1) = Nearer(f[n]) /\ Met(g, n + 1) = Nearer(g[n])
      BY <3>1 DEF Met
    <3> QED BY <1>1, <3>1, <3>2
  <2> QED BY <2>1
<1> HIDE DEF S
<1>4. j \in S
  BY <1>2, <1>3, SetInduction
<1> QED BY <1>4 DEF S

\* The model's function is what its definition says.
LEMMA MirrorDef == Mirror = [n \in Nat |-> Met(Mirror, n)]
<1> DEFINE f == [n \in Nat |-> (CHOOSE g : UpTo(g, n))[n]]
<1>1. ASSUME NEW n \in Nat PROVE f[n] = Met(f, n)
  <2> DEFINE g == CHOOSE g : UpTo(g, n)
  <2>1. UpTo(g, n) /\ f[n] = g[n]
    BY UpToExists
  <2> HIDE DEF g, f
  <2>2. g[n] = Met(g, n)
    BY <2>1, UpToGives
  <2>3. CASE n = 0
    BY <2>1, <2>2, <2>3 DEF Met
  <2>4. CASE n # 0
    <3> DEFINE h == CHOOSE h : UpTo(h, n - 1)
    <3>1. n - 1 \in Nat /\ n - 1 <= n
      BY <2>4
    <3>2. UpTo(h, n - 1) /\ f[n - 1] = h[n - 1]
      BY <3>1, UpToExists DEF f
    <3> HIDE DEF h
    <3>3. f[n - 1] = g[n - 1]
      BY <2>1, <3>1, <3>2, UpToUnique
    <3> QED BY <2>1, <2>2, <2>4, <3>3 DEF Met
  <2> QED BY <2>3, <2>4
<1>2. f = [n \in Nat |-> f[n]]
  OBVIOUS
<1> HIDE DEF f
<1>3. f = [n \in Nat |-> Met(f, n)]
  BY <1>1, <1>2
<1>4. Meeting = [n \in Nat |-> Met(Meeting, n)]
  BY <1>3, Zenon DEF Meeting
<1> QED BY <1>4, MirrorIsMeeting

\* A node and its handle.
Fitting(origin) ==
  {p \in [via : Obj \cup {None}, node : Obj \cup Val, handle : Nat] :
     Fits(origin, p.via, p.node, p.handle) /\ (InFile(p.node) \/ p.via = None)}

\* What is met fits, when its call is over.
LEMMA KindShown ==
  ASSUME TypeOK, GraphInv, NEW origin, HandlesOK(origin, None), stack = <<>>,
         NEW p \in Fitting(origin), KindOf(p.node) # "view"
  PROVE  /\ Matches(origin, p.via, p.node, p.handle)
         /\ KindOf(p.node) \in Leaf \cup Container
         /\ LooksLike(p)
         /\ \A i \in DOMAIN KidsOf(p.node) :
              i \in DOMAIN values[p.handle].items =>
                /\ KindOf(p.node) \in Container
                /\ Fits(origin, p.via, KidsOf(p.node)[i], values[p.handle].items[i])
                /\ values[p.handle].items[i] \in Nat
<1>1. PICK n, h, via : n = p.node /\ h = p.handle /\ via = p.via
  OBVIOUS
<1>2. n \in Obj \cup Val /\ Matches(origin, via, n, h)
  BY <1>1 DEF Fitting, Fits
<1>3. h \in DOMAIN values /\ values[h].kind = KindOf(n) /\ HandleOK(origin, None, h)
  BY <1>2 DEF Matches, HandlesOK
<1>4. values[h].kind \in Leaf \cup Container /\ values[h].items \in Seq(Nat)
  <2>1. values[h] \in Written
    BY <1>3, Sizes
  <2> QED BY <2>1 DEF Written
<1>5. CASE KindOf(n) \in Leaf
  <2>1. values[h].items = <<>> /\ values[h].of = n
    BY <1>2, <1>3, <1>5 DEF HandleOK, Matches
  <2>2. KidsOf(n) = <<>>
    <3>1. CASE InFile(n)
      BY <1>5, <3>1, FileShape DEF KindOf, KidsOf, InFile
    <3>2. CASE ~InFile(n)
      <4>1. n \in Obj /\ kids[n] \in KidsFor(kind[n]) /\ kind[n] \in Leaf /\ KidsOf(n) = kids[n]
        BY <1>2, <1>5, <3>2 DEF InFile, GraphInv, KindOf, KidsOf
      <4> QED BY <4>1 DEF KidsFor, Leaf
    <3> QED BY <3>1, <3>2
  <2> QED BY <1>1, <1>2, <1>3, <1>5, <2>1, <2>2 DEF LooksLike
<1>6. CASE KindOf(n) \in Container
  <2>1. PICK at, items : at = origin[h] /\ items = values[h].items
    OBVIOUS
  <2>2. at.via = via /\ at.node = n
    BY <1>2, <1>6, <2>1 DEF Matches
  <2>3. Len(items) = Len(KidsOf(n))
    BY <1>3, <1>6, <2>1, <2>2 DEF HandleOK
  <2>4. \A j \in DOMAIN items : Fits(origin, via, KidsOf(n)[j], items[j])
    BY <1>3, <1>6, <2>1, <2>2 DEF HandleOK
  <2>5. KindOf(n) \notin Leaf
    BY <1>6 DEF Leaf, Container
  <2>6. LooksLike(p)
    BY <1>1, <1>3, <2>1, <2>3, <2>5 DEF LooksLike
  <2>7. \A j \in DOMAIN items : items[j] \in Nat
    BY <1>4, <2>1
  <2> QED BY <1>1, <1>2, <1>6, <2>1, <2>4, <2>6, <2>7
<1> QED BY <1>1, <1>3, <1>4, <1>5, <1>6

\* What is below what fits does too.
LEMMA BelowFits ==
  ASSUME TypeOK, GraphInv, NEW origin, HandlesOK(origin, None), stack = <<>>,
         NEW p \in Fitting(origin), NEW q \in Below(p)
  PROVE  q \in Fitting(origin)
<1>1. PICK n, h, via : n = p.node /\ h = p.handle /\ via = p.via
  OBVIOUS
<1>2. n \in Obj \cup Val /\ h \in Nat /\ via \in Obj \cup {None} /\ Fits(origin, via, n, h) /\ (InFile(n) \/ via = None)
  BY <1>1 DEF Fitting
<1>3. CASE KindOf(n) = "view"
  <2>1. PICK c : c = kids[n][1]
    OBVIOUS
  <2>2. q = Pair(n, c, h)
    BY <1>1, <1>3, <2>1 DEF Below
  <2>3. c \in Val /\ InFile(c) /\ KindOf(c) # "view"
    BY <1>2, <1>3, <2>1, KidsAreNear, FileKinds DEF InFile
  <2>4. Fits(origin, n, c, h)
    BY <1>2, <1>3, <2>1, <2>3 DEF Fits
  <2>5. n \in Obj
    BY <1>2, <1>3, FileKinds DEF InFile
  <2> QED BY <1>2, <2>2, <2>3, <2>4, <2>5 DEF Fitting, Pair
<1>4. CASE KindOf(n) # "view"
  <2>1. PICK i \in DOMAIN KidsOf(n) \cap DOMAIN values[h].items : q = Pair(via, KidsOf(n)[i], values[h].items[i])
    BY <1>1, <1>4 DEF Below
  <2>2. /\ KindOf(n) \in Container /\ Fits(origin, via, KidsOf(n)[i], values[h].items[i])
        /\ values[h].items[i] \in Nat
    BY <1>1, <1>4, <2>1, KindShown
  <2>3. PICK c : c = KidsOf(n)[i]
    OBVIOUS
  <2>4. c \in Obj \cup Val /\ (InFile(c) <=> InFile(n))
    <3>1. i \in 1..Len(KidsOf(n))
      <4>1. \E T : KidsOf(n) \in Seq(T)
        <5>1. CASE InFile(n)
          BY <5>1, TraverseConstants DEF KidsOf, InFile
        <5>2. CASE ~InFile(n)
          BY <1>2, <5>2 DEF KidsOf, InFile, TypeOK
        <5> QED BY <5>1, <5>2
      <4> QED BY <2>1, <4>1
    <3> QED BY <1>2, <2>2, <2>3, <3>1, KidsAreNear
  <2> QED BY <1>2, <2>1, <2>2, <2>3, <2>4 DEF Fitting, Pair
<1> QED BY <1>3, <1>4

\* All that is met fits.
LEMMA MirrorFits ==
  ASSUME TypeOK, GraphInv, NEW origin, HandlesOK(origin, None), stack = <<>>,
         Fits(origin, None, start, root), NEW k \in Nat
  PROVE  Mirror[k] \subseteq Fitting(origin)
<1> DEFINE S == {n \in Nat : Mirror[n] \subseteq Fitting(origin)}
<1>1. \A n \in Nat : Mirror[n] = Met(Mirror, n)
  BY MirrorDef
<1>2. 0 \in S
  <2>1. Mirror[0] = {Pair(None, start, root)}
    BY <1>1 DEF Met
  <2>2. Pair(None, start, root) \in Fitting(origin)
    BY DEF Fitting, Pair, TypeOK
  <2> QED BY <2>1, <2>2
<1>3. ASSUME NEW n \in Nat, n \in S PROVE n + 1 \in S
  <2>1. Mirror[n + 1] = Nearer(Mirror[n])
    <3>1. n + 1 \in Nat /\ n + 1 # 0 /\ (n + 1) - 1 = n
      OBVIOUS
    <3>2. Met(Mirror, n + 1) = Nearer(Mirror[n])
      BY <3>1 DEF Met
    <3> QED BY <1>1, <3>1, <3>2
  <2>2. PICK above : above = Mirror[n]
    OBVIOUS
  <2>3. \A p \in above : p \in Fitting(origin) /\ Below(p) \subseteq Fitting(origin)
    BY <1>3, <2>2, BelowFits
  <2>4. Nearer(above) \subseteq Fitting(origin)
    BY <2>3 DEF Nearer
  <2> QED BY <2>1, <2>2, <2>4
<1> HIDE DEF S
<1>4. k \in S
  BY <1>2, <1>3, SetInduction
<1> QED BY <1>4 DEF S

\* What is written then mirrors the objects.
LEMMA MirrorWritten ==
  ASSUME WalkInv, MirrorInv, WrittenInv
  PROVE  HandlesMirrorObjects
<1> SUFFICES ASSUME result = "written" PROVE HandlesMirrorObjects
  BY DEF HandlesMirrorObjects
<1>1. TypeOK /\ GraphInv /\ err = None /\ ctl.mode = "output"
  <2>1. result # None
    BY ErrorsAreNotNone
  <2> QED BY <2>1 DEF WalkInv, OutcomeIsReported, WrittenInv
<1>2. PICK origin \in Seq(Origins), view \in Obj \cup {None} : Mirrors(origin, view)
  BY <1>1 DEF MirrorInv
<1>3. stack = <<>> /\ Suits(origin, view, start, root) /\ HandlesOK(origin, view) /\ CallsOK(origin, view)
  BY <1>1, <1>2 DEF Mirrors, TurnOK
<1>4. view = None
  <2>1. DOMAIN stack = {}
    BY <1>3
  <2> QED BY <1>3, <2>1 DEF CallsOK
<1>5. Fits(origin, None, start, root) /\ HandlesOK(origin, None)
  BY <1>3, <1>4 DEF Suits, Home
<1>6. Cardinality(Obj) * (1 + Cardinality(Val)) \in Nat
  <2>1. Cardinality(Obj) \in Nat /\ Cardinality(Val) \in Nat
    BY TraverseConstants, FS_CardinalityType
  <2> QED BY <2>1
<1>7. Mirrored \subseteq Fitting(origin)
  BY <1>1, <1>3, <1>5, <1>6, MirrorFits DEF Mirrored
<1>8. \A p \in Mirrored : LooksLike(p)
  <2>1. ASSUME NEW p \in Mirrored PROVE LooksLike(p)
    <3>1. CASE KindOf(p.node) = "view"  BY <3>1 DEF LooksLike
    <3>2. CASE KindOf(p.node) # "view"  BY <1>1, <1>3, <1>5, <1>7, <3>2, KindShown
    <3> QED BY <3>1, <3>2
  <2> QED BY <2>1
<1>9. ASSUME NEW p \in Mirrored, NEW q \in Mirrored,
             KindOf(p.node) \in Container, KindOf(q.node) \in Container
      PROVE  (p.handle = q.handle) <=> (p.via = q.via /\ p.node = q.node)
  <2>1. Matches(origin, p.via, p.node, p.handle) /\ Matches(origin, q.via, q.node, q.handle)
    BY <1>1, <1>3, <1>5, <1>7, <1>9, KindShown DEF Container
  <2>2. PICK g, h : g = p.handle /\ h = q.handle
    OBVIOUS
  <2>3. /\ origin[g] = [via |-> p.via, node |-> p.node] /\ origin[h] = [via |-> q.via, node |-> q.node]
        /\ g \in DOMAIN values /\ h \in DOMAIN values
        /\ values[g].kind \in Container /\ values[h].kind \in Container
    BY <1>9, <2>1, <2>2 DEF Matches
  <2>4. origin[g] = origin[h] => g = h
    BY <1>5, <2>3 DEF HandlesOK
  <2>5. origin[g] = origin[h] <=> p.via = q.via /\ p.node = q.node
    <3>1. g = g /\ origin[g].via = p.via /\ origin[g].node = p.node /\ origin[h].via = q.via /\ origin[h].node = q.node
      BY <2>3
    <3> QED BY <2>3, <3>1
  <2> QED BY <2>2, <2>4, <2>5
<1> QED BY <1>8, <1>9 DEF HandlesMirrorObjects

\* What is written is the graph that was given, sharing and cycles included:
\* every container has one handle and every handle one container, in
\* whatever way it was met.  (pointless_export_py_rec,
\* pointless_recreate_convert_rec: objects_used and the mappings)
THEOREM MirrorHolds == Spec => []HandlesMirrorObjects
  BY MirrorWritten, MirrorKept, WalkCorrect, PTL
=============================================================================
