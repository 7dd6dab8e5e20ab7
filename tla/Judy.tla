-------------------------------- MODULE Judy --------------------------------
(***************************************************************************)
(* The JudyL array that the cycle marker and the Python exporter keep      *)
(* their numbers in (judy-1.0.5/src/JudyCommon): a radix                   *)
(* tree of 256-way digits whose nodes change form with their population.   *)
(*                                                                         *)
(* A node is a JP ("Judy pointer") [k, lv, dp, c]: its form k, its level   *)
(* lv (how many digits are still undecoded below it), the packed word dp   *)
(* (jp_DcdPopO: the digits that were skipped above level lv, "Dcd", over   *)
(* the population minus one, "Pop0") and its content c: the child JPs of a *)
(* branch by digit, or the values of a leaf by index suffix.               *)
(*                                                                         *)
(*   null        an empty slot of an uncompressed branch                   *)
(*   immed       1..ImmedMax[lv] indexes in the JP itself; with one index  *)
(*               dp is that index, with more there is no dp at all         *)
(*   leaf        a sorted array of at most LeafMax[lv] suffixes            *)
(*   leafb       a bitmap leaf, level 1 only                               *)
(*   L, B, U     linear, bitmap and uncompressed branches                  *)
(*                                                                         *)
(* The array itself is empty, one word-sized leaf (LEAFW), or a JPM block  *)
(* over a branch at the root level. Every caller's value is the index      *)
(* itself, so a look-up that reaches the wrong slot shows. Memory is       *)
(* counted in words, and an operation is given the number of allocations   *)
(* that will succeed.                                                      *)
(***************************************************************************)
EXTENDS Integers, FiniteSets, FiniteSetsExt, Functions, Sequences

CONSTANTS
  Radix,          \* digits per level (256)
  Levels,         \* digits of an index (cJU_ROOTSTATE = 8)
  SubSize,        \* digits per subexpanse of a bitmap (32)
  ImmedMax,       \* cJL_IMMEDk_MAXPOP1 by level
  LeafMax,        \* cJU_LEAFk_MAXPOP1 by level
  LeafWMax,       \* cJU_LEAFW_MAXPOP1
  BranchLMax,     \* cJU_BRANCHLMAXJPS
  BranchLMaxPop,  \* JU_BRANCHL_MAX_POP
  BtoUIncrement,  \* JU_BTOU_POP_INCREMENT
  BranchBMaxPop,  \* JU_BRANCHB_MAX_POP
  BranchBMinPop,  \* JU_BRANCHB_MIN_POP
  Keys,           \* the indexes that are inserted and deleted
  Probes,         \* the indexes that are asked about
  Fuels,          \* how many allocations succeed before the first failure
  Nothing         \* "not found"

\* What the code takes for granted of its own thresholds.
ASSUME JudyConstants ==
  /\ DOMAIN LeafMax = 1..(Levels - 1) /\ DOMAIN ImmedMax = 1..(Levels - 1)
  /\ \A k \in 1..(Levels - 1) : ImmedMax[k] < LeafMax[k] /\ LeafMax[k] <= Radix
  /\ \A k \in 2..(Levels - 1) : LeafMax[k] > ImmedMax[k - 1]
  /\ \A k \in 2..(Levels - 2) : LeafMax[k] > LeafMax[k + 1]
  /\ LeafMax[1] < LeafMax[2] /\ LeafWMax < LeafMax[Levels - 1]
  /\ Keys \subseteq 0..(Radix^Levels - 1) /\ Probes \subseteq 0..(Radix^Levels - 1)

VARIABLES
  array,   \* what *PPArray points to
  mem,     \* words obtained from malloc and not given back
  lost,    \* of those, the ones that no pointer leads to since the last call
  view,    \* what look-ups of all the keys find
  ret      \* what the last call returned

vars == <<array, mem, lost, view, ret>>

----------------------------------------------------------------------------
(* Digits, and the packed word of a JP *)

Digit(x, lv) == (x \div Radix^(lv - 1)) % Radix
LeastBytes(x, lv) == x % Radix^lv
\* The word of a JP has room for all digits but the first.
Trim(x) == x % Radix^(Levels - 1)
Dcd(dp, lv) == dp \div Radix^lv
\* The digits skipped above jp are not the index's; the root skips none.
Outlier(jp, x) == jp.lv # Levels /\ Dcd(Trim(x), jp.lv) # Dcd(jp.dp, jp.lv)

BranchPop0(jp) == jp.dp % Radix^jp.lv
LeafPop1(jp) == (jp.dp % Radix) + 1

IsBranch(jp) == jp.k \in {"L", "B", "U"}
IsImmed01(jp) == jp.k = "immed" /\ Cardinality(DOMAIN jp.c) = 1
\* The order of the jp_Type codes: everything before the immediates.
BelowImmed(jp) == jp.k # "immed"

Without(f, s) == Restrict(f, DOMAIN f \ {s})
With(f, s, v) == [t \in DOMAIN f \cup {s} |-> IF t = s THEN v ELSE f[t]]

Null(lv) == [k |-> "null", lv |-> lv, dp |-> 0, c |-> [s \in {} |-> 0]]
Immed01(lv, x, v) == [k |-> "immed", lv |-> lv, dp |-> Trim(x), c |-> [s \in {LeastBytes(x, lv)} |-> v]]
ImmedN(lv, c) == [k |-> "immed", lv |-> lv, dp |-> 0, c |-> c]
Leaf(lv, dp, c) == [k |-> "leaf", lv |-> lv, dp |-> dp, c |-> c]
LeafB1(dp, c) == [k |-> "leafb", lv |-> 1, dp |-> dp, c |-> c]
Branch(form, lv, dp, jps) == [k |-> form, lv |-> lv, dp |-> dp, c |-> jps]

----------------------------------------------------------------------------
(* Memory: the sizes are the rounded ones of the allocation tables *)

Rounded(n) == 2 * ((n + 1) \div 2)
JbuWords == 2 * Radix
JblWords == 5
JbbWords == 4
JlbWords == 3
JpmWords == 6
JlwWords(pop) == 1 + Rounded(pop)

GrowInPlace(pop, max) == pop # max /\ pop # 0 /\ Rounded(pop) = Rounded(pop + 1)
ShrinkInPlace(pop) == pop > 1 /\ Rounded(pop) = Rounded(pop - 1)

SubExpanse(d) == d \div SubSize
InSubExpanse(S, d) == {s \in S : SubExpanse(s) = SubExpanse(d)}
SubExpanses(S) == {SubExpanse(s) : s \in S}
\* The words of the arrays that hang under the subexpanses of a bitmap.
SubArrayWords(S) ==
  MapThenSumSet(LAMBDA e : Rounded(Cardinality({s \in S : SubExpanse(s) = e})), SubExpanses(S))

\* The words of one node, without its children.
NodeWords(jp) ==
  CASE jp.k = "null"  -> 0
    [] jp.k = "immed" -> IF Cardinality(DOMAIN jp.c) = 1 THEN 0 ELSE Rounded(Cardinality(DOMAIN jp.c))
    [] jp.k = "leaf"  -> Rounded(LeafPop1(jp))
    [] jp.k = "leafb" -> JlbWords + SubArrayWords(DOMAIN jp.c)
    [] jp.k = "L"     -> JblWords
    [] jp.k = "B"     -> JbbWords + SubArrayWords(DOMAIN jp.c)
    [] jp.k = "U"     -> JbuWords

\* The blocks malloc is asked for when a node is made in one go.
NodeBlocks(jp) ==
  CASE jp.k = "null"  -> 0
    [] jp.k = "immed" -> IF Cardinality(DOMAIN jp.c) = 1 THEN 0 ELSE 1
    [] jp.k \in {"leaf", "L", "U"} -> 1
    [] jp.k \in {"leafb", "B"} -> 1 + Cardinality(SubExpanses(DOMAIN jp.c))

\* The environment of one call: allocations still granted, words in use, words
\* charged to the JPM (jpm_TotalMemWords), and the JPM's two populations.
Granted(e, blocks) == e.fuel >= blocks
Charge(e, blocks, words) == [e EXCEPT !.fuel = @ - blocks, !.mem = @ + words, !.tot = @ + words]
Release(e, words) == [e EXCEPT !.mem = @ - words, !.tot = @ - words]
Swap(e, blocks, new, old) == Release(Charge(e, blocks, new), old)

\* One more or one less in an array of num entries: in place if the rounded size
\* allows it, else through a new block; the last entry frees the block.
CanGrow(e, num, max) == GrowInPlace(num, max) \/ Granted(e, 1)
Grown(e, num, max) == IF GrowInPlace(num, max) THEN e ELSE Swap(e, 1, Rounded(num + 1), Rounded(num))
CanShrink(e, num) == num = 1 \/ ShrinkInPlace(num) \/ Granted(e, 1)
Shrunk(e, num) ==
  CASE num = 1 -> Release(e, Rounded(1))
    [] num > 1 /\ ShrinkInPlace(num) -> e
    [] num > 1 /\ ~ShrinkInPlace(num) -> Swap(e, 1, Rounded(num - 1), Rounded(num))

Result(rc, jp, e) == [rc |-> rc, jp |-> jp, e |-> e]
Fail(jp, e) == Result(-1, jp, [e EXCEPT !.fuel = 0])

----------------------------------------------------------------------------
(* Look-up *)

RECURSIVE GetSM(_, _)

GetFromBranch(jp, x) ==
  LET d == Digit(x, jp.lv) IN
  IF Outlier(jp, x) \/ d \notin DOMAIN jp.c THEN Nothing ELSE GetSM(jp.c[d], x)

GetFromLeaf(jp, x) ==
  LET s == LeastBytes(x, jp.lv) IN
  IF Outlier(jp, x) \/ s \notin DOMAIN jp.c THEN Nothing ELSE jp.c[s]

\* One index is compared whole, several only by their suffix.
GetFromImmed(jp, x) ==
  LET s == LeastBytes(x, jp.lv) IN
  IF Cardinality(DOMAIN jp.c) = 1
    THEN IF jp.dp = Trim(x) THEN jp.c[LeastBytes(jp.dp, jp.lv)] ELSE Nothing
    ELSE IF s \in DOMAIN jp.c THEN jp.c[s] ELSE Nothing

GetSM(jp, x) ==
  CASE jp.k = "null" -> Nothing
    [] IsBranch(jp)  -> GetFromBranch(jp, x)
    [] jp.k \in {"leaf", "leafb"} -> GetFromLeaf(jp, x)
    [] jp.k = "immed" -> GetFromImmed(jp, x)

----------------------------------------------------------------------------
(* Insertion: the conversions *)

\* Faulty variant: the branch is put at the lowest level where they part.
InsertBranchLow(jp, x, e) ==
  LET lv == Min({k \in (jp.lv + 1)..(Levels - 1) : Digit(x, k) # Digit(jp.dp, k)})
      dp == Dcd(jp.dp, lv) * Radix^lv + (jp.dp % Radix^jp.lv)
      jps == With([d \in {Digit(jp.dp, lv)} |-> jp], Digit(x, lv), Immed01(lv - 1, x, x))
  IN IF ~Granted(e, 1) THEN Fail(jp, e)
     ELSE Result(1, Branch("L", lv, dp, jps), Charge(e, 1, JblWords))

\* An index outside what the skipped digits of jp allow: a linear branch of two
\* is put over jp, at the highest level where the index and jp part.
InsertBranch(jp, x, e) ==
  LET lv == Max({k \in (jp.lv + 1)..(Levels - 1) : Digit(x, k) # Digit(jp.dp, k)})
      dp == Dcd(jp.dp, lv) * Radix^lv + (jp.dp % Radix^jp.lv)
      jps == With([d \in {Digit(jp.dp, lv)} |-> jp], Digit(x, lv), Immed01(lv - 1, x, x))
  IN IF ~Granted(e, 1) THEN Fail(jp, e)
     ELSE Result(1, Branch("L", lv, dp, jps), Charge(e, 1, JblWords))

\* The suffixes of one expanse of a leaf, one digit shorter.
Expanse(c, lv, d) ==
  [t \in {LeastBytes(s, lv - 1) : s \in {u \in DOMAIN c : Digit(u, lv) = d}} |-> c[d * Radix^(lv - 1) + t]]

\* What one expanse of a splayed leaf becomes.
StageChild(lv, dcd, c) ==
  LET pop == Cardinality(DOMAIN c)
      dp == Trim(dcd * Radix^lv) + pop - 1
      s == CHOOSE t \in DOMAIN c : TRUE
  IN CASE pop = 1 -> Immed01(lv, dcd * Radix^lv + s, c[s])
       [] pop > 1 /\ pop <= ImmedMax[lv] -> ImmedN(lv, c)
       [] pop > ImmedMax[lv] /\ lv = 1 /\ pop > LeafMax[1] -> LeafB1(dp, c)
       [] pop > ImmedMax[lv] /\ ~(lv = 1 /\ pop > LeafMax[1]) -> Leaf(lv, dp, c)

StagedChildren(jp) ==
  [d \in {Digit(s, jp.lv) : s \in DOMAIN jp.c} |->
     StageChild(jp.lv - 1, Dcd(jp.dp, jp.lv) * Radix + d, Expanse(jp.c, jp.lv, d))]

StagedWords(jps) == MapThenSumSet(LAMBDA d : NodeWords(jps[d]), DOMAIN jps)
StagedBlocks(jps) == MapThenSumSet(LAMBDA d : NodeBlocks(jps[d]), DOMAIN jps)

\* The staged JPs go under a linear branch if they fit, else under a bitmap.
BranchOver(jps, lv, dp) == Branch(IF Cardinality(DOMAIN jps) <= BranchLMax THEN "L" ELSE "B", lv, dp, jps)

\* A full leaf gives way; on failure everything that was staged is freed. The
\* result is the node that takes its place, before the old leaf is freed.
CascadeTo(jp, new, kids, e) ==
  LET blocks == NodeBlocks(new) + StagedBlocks(kids)
      words  == NodeWords(new) + StagedWords(kids)
  IN IF ~Granted(e, blocks) THEN Fail(jp, e)
     ELSE Result(1, new, Swap(e, blocks, words, NodeWords(jp)))

Cascade1(jp, e) == CascadeTo(jp, LeafB1(jp.dp, jp.c), << >>, e)

\* All indexes share the next digit: it is skipped, not branched on.
Narrowed(jp, d) ==
  LET dp == jp.dp + d * Radix^(jp.lv - 1)
      c == Expanse(jp.c, jp.lv, d)
  IN IF jp.lv = 2 THEN LeafB1(dp, c) ELSE Leaf(jp.lv - 1, dp, c)

Cascade(jp, e) ==
  LET kids == StagedChildren(jp) IN
  IF jp.lv = 1 THEN Cascade1(jp, e)
  ELSE IF Cardinality(DOMAIN kids) = 1
    THEN CascadeTo(jp, Narrowed(jp, CHOOSE d \in DOMAIN kids : TRUE), << >>, e)
    ELSE CascadeTo(jp, BranchOver(kids, jp.lv, jp.dp), kids, e)

CreateBranchB(jp, e) ==
  LET new == [jp EXCEPT !.k = "B"] IN
  IF ~Granted(e, NodeBlocks(new)) THEN Fail(jp, e)
  ELSE Result(1, new, Swap(e, NodeBlocks(new), NodeWords(new), NodeWords(jp)))

\* From a linear or a bitmap branch; the total population is remembered.
CreateBranchU(jp, e) ==
  LET new == [jp EXCEPT !.k = "U",
                        !.c = [d \in 0..(Radix - 1) |-> IF d \in DOMAIN jp.c THEN jp.c[d] ELSE Null(jp.lv - 1)]]
  IN IF ~Granted(e, 1) THEN Fail(jp, e)
     ELSE Result(1, new, [Swap(e, 1, JbuWords, NodeWords(jp)) EXCEPT !.last = e.pop0])

----------------------------------------------------------------------------
(* Insertion: the walk. rc is 1 inserted, 0 was there, -1 out of memory *)

RECURSIVE InsWalk(_, _, _)

\* A conversion, and if it worked the same walk over the new node.
ThenInsert(r, x) == IF r.rc = -1 THEN r ELSE InsWalk(r.jp, x, r.e)

\* The caller of the walk counts the new index in the child, unless it is an
\* immediate, which has no population field.
InsDescend(jp, d, x, e) ==
  LET r == InsWalk(jp.c[d], x, e)
      kid == IF r.rc = 1 /\ BelowImmed(r.jp) THEN [r.jp EXCEPT !.dp = @ + 1] ELSE r.jp
  IN Result(r.rc, [jp EXCEPT !.c[d] = kid], r.e)

ExpansePop(jp, e) == IF jp.lv = Levels THEN e.pop0 ELSE BranchPop0(jp)

InsBranchL(jp, x, e) ==
  LET d == Digit(x, jp.lv) IN
  CASE ExpansePop(jp, e) > BranchLMaxPop -> ThenInsert(CreateBranchU(jp, e), x)
    [] ExpansePop(jp, e) <= BranchLMaxPop /\ d \in DOMAIN jp.c -> InsDescend(jp, d, x, e)
    [] ExpansePop(jp, e) <= BranchLMaxPop /\ d \notin DOMAIN jp.c ->
         IF Cardinality(DOMAIN jp.c) < BranchLMax
           THEN Result(1, [jp EXCEPT !.c = With(@, d, Immed01(jp.lv - 1, x, x))], e)
           ELSE ThenInsert(CreateBranchB(jp, e), x)

\* jpm_Pop0 - jpm_LastUPop0 is unsigned: after deletions it wraps to a huge number.
GrownSinceU(e) == e.pop0 < e.last \/ e.pop0 - e.last > BtoUIncrement

InsBranchB(jp, x, e) ==
  LET d == Digit(x, jp.lv)
      num == Cardinality(InSubExpanse(DOMAIN jp.c, d))
      new == [jp EXCEPT !.c = With(@, d, Immed01(jp.lv - 1, x, x))]
  IN IF GrownSinceU(e) /\ e.pop0 > BranchBMaxPop /\ ExpansePop(jp, e) > BranchBMinPop
       THEN ThenInsert(CreateBranchU(jp, e), x)
     ELSE IF d \in DOMAIN jp.c THEN InsDescend(jp, d, x, e)
     ELSE IF ~CanGrow(e, num, SubSize) THEN Fail(jp, e)
     ELSE Result(1, new, Grown(e, num, SubSize))

\* A slot that is empty takes the index itself.
InsBranchU(jp, x, e) == InsDescend(jp, Digit(x, jp.lv), x, e)

InsLeaf(jp, x, e) ==
  LET s == LeastBytes(x, jp.lv)
      pop == LeafPop1(jp)
      new == [jp EXCEPT !.c = With(@, s, x)]
  IN IF s \in DOMAIN jp.c THEN Result(0, jp, e)
     ELSE IF pop = LeafMax[jp.lv] THEN ThenInsert(Cascade(jp, e), x)
     ELSE IF ~CanGrow(e, pop, LeafMax[jp.lv]) THEN Fail(jp, e)
     ELSE Result(1, new, Grown(e, pop, LeafMax[jp.lv]))

InsLeafB1(jp, x, e) ==
  LET s == LeastBytes(x, 1)
      num == Cardinality(InSubExpanse(DOMAIN jp.c, s))
      new == [jp EXCEPT !.c = With(@, s, x)]
  IN IF s \in DOMAIN jp.c THEN Result(0, jp, e)
     ELSE IF ~CanGrow(e, num, SubSize) THEN Fail(jp, e)
     ELSE Result(1, new, Grown(e, num, SubSize))

\* The first index past an immediate's room makes a leaf, whose skipped digits
\* are those of the new index.
ImmedToLeaf(jp, x, e) ==
  LET pop == Cardinality(DOMAIN jp.c) IN
  IF ~Granted(e, 1) THEN Fail(jp, e)
  ELSE Result(1, Leaf(jp.lv, Dcd(Trim(x), jp.lv) * Radix^jp.lv + pop - 1, With(jp.c, LeastBytes(x, jp.lv), x)),
              Swap(e, 1, Rounded(pop + 1), NodeWords(jp)))

InsImmed(jp, x, e) ==
  LET s == LeastBytes(x, jp.lv)
      pop == Cardinality(DOMAIN jp.c)
      new == ImmedN(jp.lv, With(jp.c, s, x))
  IN IF GetFromImmed(jp, x) # Nothing THEN Result(0, jp, e)
     ELSE IF pop = ImmedMax[jp.lv] THEN ImmedToLeaf(jp, x, e)
     ELSE IF pop > 1 /\ GrowInPlace(pop, ImmedMax[jp.lv]) THEN Result(1, new, e)
     ELSE IF ~Granted(e, 1) THEN Fail(jp, e)
     ELSE Result(1, new, Swap(e, 1, Rounded(pop + 1), NodeWords(jp)))

InsWalk(jp, x, e) ==
  CASE jp.k = "null" -> Result(1, Immed01(jp.lv, x, x), e)
    [] jp.k = "immed" -> InsImmed(jp, x, e)
    [] jp.k \notin {"null", "immed"} /\ Outlier(jp, x) -> InsertBranch(jp, x, e)
    [] jp.k = "L" /\ ~Outlier(jp, x) -> InsBranchL(jp, x, e)
    [] jp.k = "B" /\ ~Outlier(jp, x) -> InsBranchB(jp, x, e)
    [] jp.k = "U" /\ ~Outlier(jp, x) -> InsBranchU(jp, x, e)
    [] jp.k = "leaf" /\ ~Outlier(jp, x) -> InsLeaf(jp, x, e)
    [] jp.k = "leafb" /\ ~Outlier(jp, x) -> InsLeafB1(jp, x, e)

----------------------------------------------------------------------------
(* Deletion of an index that is there. rc is 1 deleted, -1 out of memory, 2 *)
(* deleted and the linear branch has a single JP left                       *)

RECURSIVE DelWalk(_, _, _, _)

ThenDelete(r, x, parentLv) == IF r.rc = -1 THEN r ELSE DelWalk(r.jp, x, parentLv, r.e)

\* The caller discounts the index in the child, or puts the single JP that is
\* left in the place of its branch. (The word of an emptied slot is never read.)
DelDescend(jp, d, x, e) ==
  LET r == DelWalk(jp.c[d], x, jp.lv, e)
      kid == CASE r.rc = 1 /\ r.jp.k \notin {"immed", "null"} -> [r.jp EXCEPT !.dp = @ - 1]
               [] r.rc = 2 -> r.jp.c[CHOOSE s \in DOMAIN r.jp.c : TRUE]
               [] r.rc = -1 \/ (r.rc = 1 /\ r.jp.k \in {"immed", "null"}) -> r.jp
  IN Result(IF r.rc = 2 THEN 1 ELSE r.rc, [jp EXCEPT !.c[d] = kid],
            IF r.rc = 2 THEN Release(r.e, JblWords) ELSE r.e)

\* The suffixes of a leaf under digit d, one digit longer.
LeafToLeaf(jp, lv, d) == {d * Radix^(lv - 1) + s : s \in DOMAIN jp.c}

\* All indexes below the JPs of a branch; a lone one is copied from the JP's word.
Gathered(jps, lv) ==
  LET below(d) == IF IsImmed01(jps[d]) /\ lv # Levels THEN {LeastBytes(jps[d].dp, lv)} ELSE LeafToLeaf(jps[d], lv, d)
  IN [u \in UNION {below(d) : d \in DOMAIN jps} |-> jps[Digit(u, lv)].c[LeastBytes(u, lv - 1)]]

\* Faulty variant of BranchToLeaf: the leaves whose indexes were copied are not freed.
BranchToLeafKeeps(jp, e) ==
  IF ~Granted(e, 1) THEN Fail(jp, e)
  ELSE Result(1, Leaf(jp.lv, jp.dp, Gathered(jp.c, jp.lv)), Swap(e, 1, Rounded(LeafMax[jp.lv]), NodeWords(jp)))

\* The branch has become small enough for one leaf.
BranchToLeaf(jp, e) ==
  IF ~Granted(e, 1) THEN Fail(jp, e)
  ELSE Result(1, Leaf(jp.lv, jp.dp, Gathered(jp.c, jp.lv)),
              Swap(e, 1, Rounded(LeafMax[jp.lv]), NodeWords(jp) + StagedWords(jp.c)))

\* Checked before the deletion, so that the branch and the leaf do not alternate.
BranchFitsLeaf(jp) == jp.lv # Levels /\ BranchPop0(jp) + 1 <= LeafMax[jp.lv]

DelBranchL(jp, x, e) ==
  LET d == Digit(x, jp.lv) IN
  IF ~IsImmed01(jp.c[d]) THEN DelDescend(jp, d, x, e)
  ELSE Result(IF Cardinality(DOMAIN jp.c) - 1 <= 1 THEN 2 ELSE 1, [jp EXCEPT !.c = Without(@, d)], e)

\* Its failure is ignored: the index is gone already.
BranchBToBranchL(jp, e) ==
  IF ~Granted(e, 1) THEN Result(1, jp, e)
  ELSE Result(1, [jp EXCEPT !.k = "L"], Swap(e, 1, JblWords, NodeWords(jp)))

\* The count that decides on a linear branch still includes the deleted JP.
DelBranchB(jp, x, e) ==
  LET d == Digit(x, jp.lv)
      num == Cardinality(InSubExpanse(DOMAIN jp.c, d))
      new == [jp EXCEPT !.c = Without(@, d)]
  IN IF ~IsImmed01(jp.c[d]) THEN DelDescend(jp, d, x, e)
     ELSE IF ~CanShrink(e, num) THEN Fail(jp, e)
     ELSE IF Cardinality(DOMAIN jp.c) <= BranchLMax THEN BranchBToBranchL(new, Shrunk(e, num))
     ELSE Result(1, new, Shrunk(e, num))

\* Never turned back into a bitmap branch.
DelBranchU(jp, x, e) == DelDescend(jp, Digit(x, jp.lv), x, e)

\* A leaf under a narrow pointer goes up a level as soon as it fits there.
NarrowAndFits(jp, parentLv) == parentLv - 1 > jp.lv /\ LeafPop1(jp) = LeafMax[jp.lv + 1]
\* Faulty variant: the digit that stops being skipped is left in the population.
UpLevelKeepsDigit(jp, x, e) ==
  LET d == Digit(x, jp.lv + 1)
      new == Leaf(jp.lv + 1, jp.dp, Gathered([i \in {d} |-> jp], jp.lv + 1))
  IN IF ~Granted(e, 1) THEN Fail(jp, e)
     ELSE Result(1, new, Swap(e, 1, Rounded(LeafMax[jp.lv + 1]), NodeWords(jp)))

UpLevel(jp, x, e) ==
  LET d == Digit(x, jp.lv + 1)
      new == Leaf(jp.lv + 1, jp.dp - Digit(jp.dp, jp.lv + 1) * Radix^jp.lv, Gathered([i \in {d} |-> jp], jp.lv + 1))
  IN IF ~Granted(e, 1) THEN Fail(jp, e)
     ELSE Result(1, new, Swap(e, 1, Rounded(LeafMax[jp.lv + 1]), NodeWords(jp)))

\* What is left fits in the JP itself; one index brings its own digits along.
AsImmed(lv, x, c) ==
  LET s == CHOOSE t \in DOMAIN c : TRUE IN
  IF Cardinality(DOMAIN c) = 1 THEN Immed01(lv, Dcd(Trim(x), lv) * Radix^lv + s, c[s]) ELSE ImmedN(lv, c)

LeafToImmed(jp, x, e) ==
  LET new == AsImmed(jp.lv, x, Without(jp.c, LeastBytes(x, jp.lv))) IN
  IF ~Granted(e, NodeBlocks(new)) THEN Fail(jp, e)
  ELSE Result(1, new, Swap(e, NodeBlocks(new), NodeWords(new), NodeWords(jp)))

DelLeaf(jp, x, parentLv, e) ==
  LET pop == LeafPop1(jp) IN
  IF NarrowAndFits(jp, parentLv) THEN ThenDelete(UpLevel(jp, x, e), x, parentLv)
  ELSE IF pop - 1 = ImmedMax[jp.lv] THEN LeafToImmed(jp, x, e)
  ELSE IF ~CanShrink(e, pop) THEN Fail(jp, e)
  ELSE Result(1, [jp EXCEPT !.c = Without(@, LeastBytes(x, jp.lv))], Shrunk(e, pop))

LeafB1ToLeaf1(jp, e) ==
  IF ~Granted(e, 1) THEN Fail(jp, e)
  ELSE Result(1, Leaf(1, jp.dp, jp.c), Swap(e, 1, Rounded(LeafPop1(jp)), NodeWords(jp)))

DelLeafB1(jp, x, parentLv, e) ==
  LET s == LeastBytes(x, 1)
      num == Cardinality(InSubExpanse(DOMAIN jp.c, s))
  IN IF NarrowAndFits(jp, parentLv) THEN ThenDelete(UpLevel(jp, x, e), x, parentLv)
     ELSE IF LeafPop1(jp) = LeafMax[1] THEN ThenDelete(LeafB1ToLeaf1(jp, e), x, parentLv)
     ELSE IF ~CanShrink(e, num) THEN Fail(jp, e)
     ELSE Result(1, [jp EXCEPT !.c = Without(@, s)], Shrunk(e, num))

\* A lone index is met here only under an uncompressed branch.
DelImmed(jp, x, e) ==
  LET pop == Cardinality(DOMAIN jp.c)
      rest == Without(jp.c, LeastBytes(x, jp.lv))
  IN CASE pop = 1 -> Result(1, Null(jp.lv), e)
       [] pop = 2 -> Result(1, AsImmed(jp.lv, x, rest), Release(e, Rounded(2)))
       [] pop > 2 -> IF ~CanShrink(e, pop) THEN Fail(jp, e)
                     ELSE Result(1, ImmedN(jp.lv, rest), Shrunk(e, pop))

DelWalk(jp, x, parentLv, e) ==
  CASE IsBranch(jp) /\ BranchFitsLeaf(jp) -> ThenDelete(BranchToLeaf(jp, e), x, parentLv)
    [] jp.k = "L" /\ ~BranchFitsLeaf(jp) -> DelBranchL(jp, x, e)
    [] jp.k = "B" /\ ~BranchFitsLeaf(jp) -> DelBranchB(jp, x, e)
    [] jp.k = "U" /\ ~BranchFitsLeaf(jp) -> DelBranchU(jp, x, e)
    [] jp.k = "leaf" -> DelLeaf(jp, x, parentLv, e)
    [] jp.k = "leafb" -> DelLeafB1(jp, x, parentLv, e)
    [] jp.k = "immed" -> DelImmed(jp, x, e)

----------------------------------------------------------------------------
(* Freeing *)

RECURSIVE TreeWords(_)
TreeWords(jp) ==
  NodeWords(jp) + (IF IsBranch(jp) THEN MapThenSumSet(LAMBDA d : TreeWords(jp.c[d]), DOMAIN jp.c) ELSE 0)

----------------------------------------------------------------------------
(* The array and its entry points *)

Empty == [k |-> "null"]
LeafW(c) == [k |-> "leafw", c |-> c]
Jpm(pop0, last, tot, jp) == [k |-> "jpm", pop0 |-> pop0, last |-> last, tot |-> tot, jp |-> jp]
AsJpm(e, jp) == Jpm(e.pop0, e.last, e.tot, jp)

\* Every entry point tells a leaf from a JPM block by the first word, which is
\* the population minus one in both: this JPM is taken for a leaf.
Misread(a) == a.k = "jpm" /\ a.pop0 < LeafWMax

JudyLGet(a, x) ==
  CASE a.k = "null"  -> Nothing
    [] a.k = "leafw" -> IF x \in DOMAIN a.c THEN a.c[x] ELSE Nothing
    [] a.k = "jpm"   -> GetSM(a.jp, x)

\* What the last call lost is out of the count.
held == mem - lost

Env(fuel) == [fuel |-> fuel, mem |-> held, tot |-> IF array.k = "jpm" THEN array.tot ELSE 0,
              pop0 |-> IF array.k = "jpm" THEN array.pop0 ELSE 0,
              last |-> IF array.k = "jpm" THEN array.last ELSE 0]

\* The full leaf is splayed under a root branch. A failed leaf allocation, and a
\* failed branch over a single leaf, return at once and leave behind what was
\* staged; only a failed branch over two or more expanses frees it.
CascadeL(c, e) ==
  LET root == Leaf(Levels, LeafWMax - 1, c)
      kids == StagedChildren(root)
      new == BranchOver(kids, Levels, LeafWMax - 1)
      leaves == StagedBlocks(kids)
      staged == {d \in DOMAIN kids : StagedBlocks(Restrict(kids, {i \in DOMAIN kids : i <= d})) <= e.fuel}
      orphans == Charge(e, 0, StagedWords(Restrict(kids, staged)))
  IN CASE ~Granted(e, leaves) -> Fail(root, orphans)
       [] Granted(e, leaves) /\ ~Granted(e, leaves + NodeBlocks(new)) ->
            Fail(root, IF Cardinality(DOMAIN kids) = 1 THEN orphans ELSE e)
       [] Granted(e, leaves + NodeBlocks(new)) ->
            Result(1, new, Charge(e, leaves + NodeBlocks(new), NodeWords(new) + StagedWords(kids)))

\* The outcome of a call.
Outcome(a, m, l, r) == [array |-> a, mem |-> m, lost |-> l, ret |-> r]
NoMem(a, m) == Outcome(a, m, 0, "nomem")

InsertInJpm(x, jp, e) ==
  LET r == InsWalk(jp, x, e)
      pop0 == IF r.rc = 1 THEN r.e.pop0 + 1 ELSE r.e.pop0
  IN Outcome(AsJpm([r.e EXCEPT !.pop0 = pop0], r.jp), r.e.mem, 0, IF r.rc = -1 THEN "nomem" ELSE "ok")

\* A full leaf: a JPM block, the cascade, and only then the new index. The block
\* of a failed cascade is never freed.
InsertInFullLeafW(x, fuel) ==
  LET e == [fuel |-> fuel - 1, mem |-> held + JpmWords, tot |-> JpmWords, pop0 |-> LeafWMax - 1, last |-> 0]
      r == CascadeL(array.c, e)
  IN CASE fuel = 0 -> NoMem(array, held)
       [] fuel > 0 /\ r.rc = -1 -> Outcome(array, r.e.mem, r.e.mem - held, "nomem")
       [] fuel > 0 /\ r.rc = 1 -> InsertInJpm(x, r.jp, [r.e EXCEPT !.mem = @ - JlwWords(LeafWMax)])

InsertInLeafW(x, fuel) ==
  LET pop == Cardinality(DOMAIN array.c)
      new == LeafW(With(array.c, x, x))
      m == held + JlwWords(pop + 1) - JlwWords(pop)
  IN CASE x \in DOMAIN array.c -> Outcome(array, held, 0, "ok")
       [] x \notin DOMAIN array.c /\ pop < LeafWMax ->
            IF GrowInPlace(pop, LeafWMax) \/ fuel > 0 THEN Outcome(new, m, 0, "ok") ELSE NoMem(array, held)
       [] x \notin DOMAIN array.c /\ pop = LeafWMax -> InsertInFullLeafW(x, fuel)

InsertOutcome(x, fuel) ==
  CASE array.k = "null" -> IF fuel = 0 THEN NoMem(array, held)
                           ELSE Outcome(LeafW([i \in {x} |-> x]), held + JlwWords(1), 0, "ok")
    [] array.k = "leafw" -> InsertInLeafW(x, fuel)
    [] array.k = "jpm" -> InsertInJpm(x, array.jp, Env(fuel))

DeleteFromLeafW(x, fuel) ==
  LET pop == Cardinality(DOMAIN array.c)
      m == held + JlwWords(pop - 1) - JlwWords(pop)
  IN CASE pop = 1 -> Outcome(Empty, held - JlwWords(1), 0, "ok")
       [] pop > 1 /\ (ShrinkInPlace(pop) \/ fuel > 0) -> Outcome(LeafW(Without(array.c, x)), m, 0, "ok")
       [] pop > 1 /\ ~(ShrinkInPlace(pop) \/ fuel > 0) -> NoMem(array, held)

\* The tree has shrunk to what a leaf holds. If the leaf cannot be allocated the
\* call fails although the index is gone, and the JPM keeps its low population.
JpmToLeafW(e, jp) ==
  IF ~Granted(e, 1) THEN NoMem(AsJpm(e, jp), e.mem)
  ELSE Outcome(LeafW(Gathered(jp.c, Levels)),
               e.mem + JlwWords(LeafWMax) - (NodeWords(jp) + StagedWords(jp.c)) - JpmWords, 0, "ok")

DeleteFromJpm(x, fuel) ==
  LET r == DelWalk(array.jp, x, Levels, Env(fuel))
      e == [r.e EXCEPT !.pop0 = @ - 1]
  IN CASE r.rc = -1 -> NoMem(AsJpm(r.e, r.jp), r.e.mem)
       [] r.rc # -1 /\ e.pop0 + 1 # LeafWMax -> Outcome(AsJpm(e, r.jp), e.mem, 0, "ok")
       [] r.rc # -1 /\ e.pop0 + 1 = LeafWMax -> JpmToLeafW(e, r.jp)

DeleteOutcome(x, fuel) == IF array.k = "leafw" THEN DeleteFromLeafW(x, fuel) ELSE DeleteFromJpm(x, fuel)

\* A JPM that is taken for a leaf is freed as one, without its tree; a tree
\* whose words do not add up to the JPM's count is reported and not cleared.
FreeOutcome ==
  CASE array.k = "null" -> Outcome(Empty, held, 0, "ok")
    [] array.k = "leafw" -> Outcome(Empty, held - JlwWords(Cardinality(DOMAIN array.c)), 0, "ok")
    [] Misread(array) -> Outcome(Empty, held - JpmWords, TreeWords(array.jp), "ok")
    [] array.k = "jpm" /\ ~Misread(array) ->
         LET words == TreeWords(array.jp) + JpmWords IN
         IF words = array.tot THEN Outcome(Empty, held - words, 0, "ok")
         ELSE Outcome(array, held - words, 0, "corrupt")

----------------------------------------------------------------------------
(* Searching: the nearest index at or beyond x, up (dir = 1) or down (-1) *)

Beyond(a, b, dir) == IF dir = 1 THEN a > b ELSE a < b
Nearest(S, dir) == IF dir = 1 THEN Min(S) ELSE Max(S)
\* The JPs of a branch that are not empty.
LiveDigits(jp) == {d \in DOMAIN jp.c : jp.c[d].k # "null"}

SetDigit(x, lv, d) == x + (d - Digit(x, lv)) * Radix^(lv - 1)
SetLow(x, lv, s) == (x \div Radix^lv) * Radix^lv + s
\* Faulty variant: the digits that a narrow pointer skips stay those of x.
SetDcdForgets(x, jp) == x
SetDcd(x, jp) ==
  IF jp.lv = Levels THEN x ELSE SetLow(x, Levels - 1, Dcd(jp.dp, jp.lv) * Radix^jp.lv + LeastBytes(x, jp.lv))

\* SM3: the outermost index below jp; the digits above it are those of x.
LimitInLeaf(jp, x, dir) == SetLow(SetDcd(x, jp), jp.lv, Nearest(DOMAIN jp.c, dir))
LimitInImmed(jp, x, dir) ==
  IF IsImmed01(jp) THEN SetLow(x, Levels - 1, jp.dp) ELSE SetLow(x, jp.lv, Nearest(DOMAIN jp.c, dir))

RECURSIVE FindLimit(_, _, _)
FindLimit(jp, x, dir) ==
  LET d == Nearest(LiveDigits(jp), dir) IN
  CASE IsBranch(jp) -> FindLimit(jp.c[d], SetDigit(SetDcd(x, jp), jp.lv, d), dir)
    [] jp.k \in {"leaf", "leafb"} -> LimitInLeaf(jp, x, dir)
    [] jp.k = "immed" -> LimitInImmed(jp, x, dir)

RECURSIVE Seek(_, _, _)

\* SM2: no luck below the digit of x, go on with the next digit that has a JP.
Backtrack(jp, x, dir) ==
  LET ds == {d \in LiveDigits(jp) : Beyond(d, Digit(x, jp.lv), dir)} IN
  IF ds = {} THEN Nothing
  ELSE FindLimit(jp.c[Nearest(ds, dir)], SetDigit(x, jp.lv, Nearest(ds, dir)), dir)

SeekBranch(jp, x, dir) ==
  LET d == Digit(x, jp.lv)
      below == IF d \in DOMAIN jp.c THEN Seek(jp.c[d], x, dir) ELSE Nothing
  IN IF below # Nothing THEN below ELSE Backtrack(jp, x, dir)

SeekSuffix(jp, x, dir) ==
  LET here == {s \in DOMAIN jp.c : ~Beyond(LeastBytes(x, jp.lv), s, dir)} IN
  IF here = {} THEN Nothing ELSE SetLow(x, jp.lv, Nearest(here, dir))

SeekImmed(jp, x, dir) ==
  IF ~IsImmed01(jp) THEN SeekSuffix(jp, x, dir)
  ELSE IF Beyond(Trim(x), jp.dp, dir) THEN Nothing ELSE SetLow(x, Levels - 1, jp.dp)

\* SM1. Skipped digits that differ put all of jp on one side of x.
Seek(jp, x, dir) ==
  CASE jp.k = "null" -> Nothing
    [] jp.k = "immed" -> SeekImmed(jp, x, dir)
    [] jp.k \notin {"null", "immed"} /\ Outlier(jp, x) ->
         IF Beyond(Dcd(Trim(x), jp.lv), Dcd(jp.dp, jp.lv), dir) THEN Nothing ELSE FindLimit(jp, x, dir)
    [] IsBranch(jp) /\ ~Outlier(jp, x) -> SeekBranch(jp, x, dir)
    [] jp.k \in {"leaf", "leafb"} /\ ~Outlier(jp, x) -> SeekSuffix(jp, x, dir)

\* JudyLNext and JudyLPrev: strictly beyond x, and nothing beyond the last index.
NextPrev(a, x, dir) ==
  IF x + dir \notin 0..(Radix^Levels - 1) THEN Nothing
  ELSE CASE a.k = "null" -> Nothing
         [] a.k = "leafw" -> LET S == {y \in DOMAIN a.c : Beyond(y, x, dir)} IN
                             IF S = {} THEN Nothing ELSE Nearest(S, dir)
         [] a.k = "jpm" -> Seek(a.jp, x + dir, dir)

JudyLFirst(a, x) == IF JudyLGet(a, x) # Nothing THEN x ELSE NextPrev(a, x, 1)

----------------------------------------------------------------------------
(* Counting, from the population fields *)

JPPop1(jp) ==
  CASE jp.k = "null" -> 0
    [] jp.k = "immed" -> Cardinality(DOMAIN jp.c)
    [] IsBranch(jp) -> BranchPop0(jp) + 1
    [] jp.k \in {"leaf", "leafb"} -> LeafPop1(jp)

PopOf(jp, digits) == MapThenSumSet(LAMBDA d : JPPop1(jp.c[d]), digits)

\* Which side of the digit is cheaper to add up (here one JP per cache line).
CountUpward(jp, x) ==
  LET d == Digit(x, jp.lv) IN
  \/ jp.k = "B" /\ Cardinality({i \in DOMAIN jp.c : i < d}) < Cardinality({i \in DOMAIN jp.c : i > d})
  \/ jp.k = "U" /\ d < Radix \div 2

RECURSIVE CountSM(_, _, _)

\* The population above the digit of x: added up, or what the lower JPs leave of
\* the branch's own population.
PopAbove(jp, x, pop) ==
  LET d == Digit(x, jp.lv) IN
  IF CountUpward(jp, x) THEN pop - PopOf(jp, {i \in DOMAIN jp.c : i <= d})
  ELSE PopOf(jp, {i \in DOMAIN jp.c : i > d})

CountInLeaf(jp, x) == Cardinality({s \in DOMAIN jp.c : s >= LeastBytes(x, jp.lv)})

\* How many indexes there are from x, which is there, upward.
CountSM(jp, x, pop) ==
  IF IsBranch(jp)
    THEN LET kid == jp.c[Digit(x, jp.lv)] IN PopAbove(jp, x, pop) + CountSM(kid, x, JPPop1(kid))
    ELSE CountInLeaf(jp, x)

CountFrom(a, x) ==
  CASE a.k = "leafw" -> Cardinality({i \in DOMAIN a.c : i >= x})
    [] a.k = "jpm" -> CountSM(a.jp, x, a.pop0 + 1)

PopulationOf(a) == IF a.k = "leafw" THEN Cardinality(DOMAIN a.c) ELSE a.pop0 + 1

\* 0 stands for C_JERR as well: the caller cannot tell them apart either.
JudyLCount(a, i1, i2) ==
  IF a.k = "null" \/ i1 > i2 THEN 0
  ELSE IF i1 = i2 THEN IF JudyLGet(a, i1) = Nothing THEN 0 ELSE 1
  ELSE LET first == JudyLFirst(a, i1)
           above1 == IF i1 = 0 THEN PopulationOf(a) ELSE IF first = Nothing THEN 0 ELSE CountFrom(a, first)
           last == i2 = Radix^Levels - 1
           next == JudyLFirst(a, i2 + 1)
       IN IF above1 = 0 \/ last \/ next = Nothing THEN above1 ELSE above1 - CountFrom(a, next)

----------------------------------------------------------------------------
(* The specification *)

LookUps(a) ==
  LET got == [x \in Keys |-> JudyLGet(a, x)] IN {<<x, got[x]>> : x \in {y \in Keys : got[y] # Nothing}}

Init == array = Empty /\ mem = 0 /\ lost = 0 /\ view = {} /\ ret = "ok"

Become(o) ==
  /\ array' = o.array /\ mem' = o.mem /\ lost' = o.lost /\ ret' = o.ret
  /\ view' = IF Misread(o.array) THEN {} ELSE LookUps(o.array)

\* A misread array is not a Judy array any more: what other calls do to it is
\* undefined.
JudyLIns(x) == ~Misread(array) /\ \E fuel \in Fuels : Become(InsertOutcome(x, fuel))
JudyLDel(x) ==
  /\ ~Misread(array)
  /\ IF JudyLGet(array, x) = Nothing THEN Become(Outcome(array, held, 0, "ok"))
     ELSE \E fuel \in Fuels : Become(DeleteOutcome(x, fuel))
JudyLFreeArray == Become(FreeOutcome)

Next == JudyLFreeArray \/ \E x \in Keys : JudyLIns(x) \/ JudyLDel(x)

Spec == Init /\ [][Next]_vars

----------------------------------------------------------------------------
(* Properties *)

Usable == ~Misread(array) /\ ret # "corrupt"
Found == {p[1] : p \in view}

Map == INSTANCE IndexMap WITH
  Index <- Keys,
  map <- view,
  broken <- Misread(array)

\* Whatever form the nodes take, and at whatever allocation a call fails, the
\* look-ups see a map: an insertion adds its index with its own value slot, a
\* deletion removes its index, a failed call changes nothing or breaks the array.
ImplementsMap == Map!Spec

\* The shape that deletion asserts and relies on (JudyDel.c) and what JudyCheckPop
\* recomputes (JudyGet.c): populations add up, a narrow pointer only leads
\* to leaves too large for the level above, branches hold more than a leaf.
RECURSIVE WellFormed(_, _, _)
WellFormed(jp, parentLv, path) ==
  /\ jp.k # "null" /\ ~(jp.k = "immed" /\ ~IsImmed01(jp)) /\ jp.lv # Levels =>
       Dcd(jp.dp, parentLv - 1) = Dcd(Trim(path), parentLv - 1)
  /\ jp.k \in {"null", "immed"} => jp.lv = parentLv - 1
  /\ jp.k \in {"leaf", "leafb"} =>
       /\ LeafPop1(jp) = Cardinality(DOMAIN jp.c) /\ jp.dp % Radix^jp.lv = LeafPop1(jp) - 1
       /\ jp.k = "leaf" => LeafPop1(jp) \in (ImmedMax[jp.lv] + 1)..LeafMax[jp.lv]
       /\ jp.k = "leafb" => LeafPop1(jp) >= LeafMax[1]
       /\ jp.lv < parentLv - 1 => LeafPop1(jp) >= LeafMax[jp.lv + 1]
  /\ IsBranch(jp) =>
       /\ jp.lv # Levels => BranchPop0(jp) + 1 = PopOf(jp, DOMAIN jp.c) /\ BranchPop0(jp) + 1 >= LeafMax[jp.lv]
       /\ jp.k = "L" => Cardinality(DOMAIN jp.c) \in 1..BranchLMax
       /\ \A d \in DOMAIN jp.c : WellFormed(jp.c[d], jp.lv, SetDigit(SetDcd(path, jp), jp.lv, d))

TreeIsWellFormed ==
  array.k = "jpm" /\ Usable =>
    /\ WellFormed(array.jp, Levels + 1, 0)
    /\ array.pop0 + 1 = PopOf(array.jp, DOMAIN array.jp.c)

\* Every word malloc gave out is in the tree or was lost by a failed call, the
\* JPM's own count is the tree's size, and so freeing gives back the rest.
MemoryIsAccounted ==
  /\ ret # "corrupt"
  /\ mem = lost + CASE array.k = "null" -> 0
                    [] array.k = "leafw" -> JlwWords(Cardinality(DOMAIN array.c))
                    [] array.k = "jpm" -> TreeWords(array.jp) + JpmWords
  /\ array.k = "jpm" => array.tot = TreeWords(array.jp) + JpmWords

\* JudyLNext, JudyLPrev and JudyLCount agree with look-ups, also from and to
\* indexes that were never stored, on either side of a narrow pointer.
SearchIsExact ==
  Usable => \A x \in Probes :
    LET up == {y \in Found : y > x}
        down == {y \in Found : y < x}
    IN /\ x \notin Found => JudyLGet(array, x) = Nothing
       /\ NextPrev(array, x, 1) = IF up = {} THEN Nothing ELSE Min(up)
       /\ NextPrev(array, x, -1) = IF down = {} THEN Nothing ELSE Max(down)
       /\ \A y \in {z \in Probes : z >= x} : JudyLCount(array, x, y) = Cardinality({z \in Found : x <= z /\ z <= y})

\* Judy.h: out of memory "can be recoverable if the calling application frees
\* other memory": the array stays an array.
StaysUsable == Usable
=============================================================================
