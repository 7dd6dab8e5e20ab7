-------------------------- MODULE HashTableProofs --------------------------
(***************************************************************************)
(* Proofs about HashTable: types; duplicate keys are reported exactly when *)
(* there are some; a lookup finds a key exactly when it was stored; the    *)
(* table that is written has an empty slot, and the reader accepts it if   *)
(* and only if its keys read as they were written.  All hold for every key *)
(* vector, word size, number of buckets and collision, and for hashes and  *)
(* comparisons of the reader that need not be those of the writer.         *)
(***************************************************************************)
EXTENDS HashTable, FiniteSetTheorems, FunctionTheorems, TLAPS

\* The remainder of a division is a word, or a bucket.
LEMMA ModBound ==
  ASSUME NEW a \in Nat, NEW m \in Nat \ {0}
  PROVE  a % m \in 0..(m - 1)
  OBVIOUS

\* A right shift of a word is a word.
LEMMA DivBound ==
  ASSUME NEW a \in Nat, NEW m \in Nat \ {0}
  PROVE  a \div m \in Nat /\ a \div m <= a
  OBVIOUS

\* Probe states stay probe states.
LEMMA ProbeType ==
  /\ \A h \in Word : FirstProbe(h) \in Probe
  /\ \A s \in Probe : NextProbe(s) \in Probe
<1>1. \A h \in Word : FirstProbe(h) \in Probe
  BY DEF FirstProbe, Probe
<1>2. ASSUME NEW s \in Probe PROVE NextProbe(s) \in Probe
  <2>1. s.i \in Nat /\ s.perturb \in Nat /\ s.perturb <= WordSize - 1
    BY WordAssumption DEF Probe, Word
  <2>2. (5 * s.i + s.perturb + 1) % WordSize \in Word
    <3>1. 5 * s.i + s.perturb + 1 \in Nat
      BY <2>1
    <3> QED BY <3>1, ModBound, WordAssumption DEF Word
  <2>3. s.perturb \div Perturb \in Word
    <3>1. s.perturb \div Perturb \in Nat /\ s.perturb \div Perturb <= s.perturb
      BY <2>1, DivBound, WordAssumption
    <3> QED BY <2>1, <3>1, WordAssumption DEF Word
  <2> QED BY <2>2, <2>3 DEF NextProbe, Probe
<1> QED BY <1>1, <1>2

\* The bucket of a probe state is one of the buckets.
LEMMA BucketType ==
  ASSUME TypeOK, NEW s \in Probe
  PROVE  BucketOf(s) \in Bucket
<1>1. s.i \in Nat /\ buckets \in Nat \ {0}
  BY WordAssumption DEF TypeOK, Probe, Word
<1> QED BY <1>1, ModBound DEF BucketOf, Bucket

\* A key vector is a sequence of keys.
LEMMA KeysType ==
  ASSUME TypeOK
  PROVE  /\ keys \in Seq(Key) /\ Len(keys) \in Nat /\ DOMAIN keys = 1..Len(keys)
         /\ \A n \in 1..Len(keys) : keys[n] \in Key /\ CreateHash[keys[n]] \in Word
<1>1. keys \in Seq(Key)
  BY ListAssumption DEF TypeOK
<1>2. Len(keys) \in Nat /\ DOMAIN keys = 1..Len(keys) /\ \A n \in 1..Len(keys) : keys[n] \in Key
  BY <1>1
<1> QED BY <1>1, <1>2, KeyAssumption

\* Every variable keeps its type; the number of buckets is never shifted to 0.
THEOREM TypeCorrect == Spec => []TypeOK
<1>1. Init => TypeOK
  <2>1. 0 \in Word
    BY WordAssumption DEF Word
  <2> QED BY <2>1, ProbeType DEF Init, TypeOK, Phase
<1>2. TypeOK /\ [Next]_vars => TypeOK'
  <2> SUFFICES ASSUME TypeOK, [Next]_vars PROVE TypeOK'
    OBVIOUS
  <2>0. /\ Len(keys) \in Nat /\ DOMAIN keys = 1..Len(keys)
        /\ \A n \in 1..Len(keys) : keys[n] \in Key /\ CreateHash[keys[n]] \in Word
        /\ BucketOf(probe) \in Bucket
    BY KeysType, BucketType DEF TypeOK
  <2>a. ASSUME NEW n \in Nat \ {0}, Begin(n) PROVE j' \in Nat \ {0} /\ probe' \in Probe
    BY <2>a, <2>0, ProbeType DEF Begin, TypeOK
  <2>1. CASE DoubleBuckets
    <3>1. 2 * buckets < WordSize
      <4>1. 2 * WantedBuckets(Len(keys)) <= WordSize /\ WantedBuckets(Len(keys)) \in Nat
        <5>1. 2 * (Len(keys) + Len(keys) \div 2) <= WordSize /\ WordSize >= 4
          BY ListAssumption DEF TypeOK
        <5>2. Len(keys) + Len(keys) \div 2 \in Nat
          BY <2>0, DivBound
        <5>3. Len(keys) + Len(keys) \div 2 < WordSize
          BY <5>1, <5>2, WordAssumption
        <5>4. (Len(keys) + Len(keys) \div 2) % WordSize = Len(keys) + Len(keys) \div 2
          BY <5>2, <5>3, WordAssumption
        <5> QED BY <5>1, <5>2, <5>4 DEF WantedBuckets
      <4>2. buckets < WantedBuckets(Len(keys)) /\ buckets \in Nat
        BY <2>1 DEF DoubleBuckets, TypeOK
      <4> QED BY <4>1, <4>2, WordAssumption
    <3>2. (2 * buckets) % WordSize = 2 * buckets /\ buckets \in Nat \ {0}
      BY <3>1, WordAssumption DEF TypeOK
    <3>3. buckets' \in Nat \ {0} /\ phase = "size" /\ phase' = "size"
      BY <2>1, <3>2 DEF DoubleBuckets
    <3> QED BY <2>1, <3>3 DEF DoubleBuckets, TypeOK
  <2>2. CASE OutOfMemory
    BY <2>2 DEF OutOfMemory, TypeOK, Phase
  <2>3. CASE Prepare
    <3>1. 0 \in Word
      BY WordAssumption DEF Word
    <3>2. j' \in Nat \ {0} /\ probe' \in Probe
      BY <2>3, <2>a DEF Prepare
    <3>3. /\ slotKey' \in [Bucket' -> Key \cup {Empty}]
          /\ slotHash' \in [Bucket' -> Word]
          /\ slotValue' \in [Bucket' -> (Nat \ {0}) \cup {Empty}]
      BY <2>3, <3>1 DEF Prepare, Bucket
    <3> QED BY <2>3, <3>2, <3>3 DEF Prepare, TypeOK, Phase
  <2>4. CASE Place
    <3>1. j' \in Nat \ {0} /\ probe' \in Probe
      BY <2>4, <2>a DEF Place, TypeOK
    <3>2. j \in 1..Len(keys) /\ phase = "populate" /\ phase' = phase /\ buckets' = buckets
      BY <2>0, <2>4 DEF Place, Placing, TypeOK
    <3>3. keys[j] \in Key /\ CreateHash[keys[j]] \in Word
      BY <2>0, <3>2
    <3>4. /\ slotKey \in [Bucket -> Key \cup {Empty}]
          /\ slotHash \in [Bucket -> Word]
          /\ slotValue \in [Bucket -> (Nat \ {0}) \cup {Empty}]
          /\ Bucket' = Bucket
      BY <3>2 DEF TypeOK, Bucket
    <3>5. /\ slotKey' \in [Bucket -> Key \cup {Empty}]
          /\ slotHash' \in [Bucket -> Word]
          /\ slotValue' \in [Bucket -> (Nat \ {0}) \cup {Empty}]
      <4>1. slotKey' \in [Bucket -> Key \cup {Empty}]
        BY <2>4, <3>3, <3>4 DEF Place
      <4>2. slotHash' \in [Bucket -> Word]
        BY <2>4, <3>3, <3>4 DEF Place
      <4>3. slotValue' \in [Bucket -> (Nat \ {0}) \cup {Empty}]
        BY <2>4, <3>4 DEF Place, TypeOK
      <4> QED BY <4>1, <4>2, <4>3
    <3> QED BY <2>4, <3>1, <3>2, <3>4, <3>5 DEF Place, TypeOK
  <2>5. CASE Duplicate
    BY <2>5 DEF Duplicate, Placing, TypeOK, Phase, Bucket
  <2>5a. CASE Incomparable
    BY <2>5a DEF Incomparable, Placing, TypeOK, Phase, Bucket
  <2>6. CASE PlaceOn
    BY <2>6, ProbeType DEF PlaceOn, Placing, TypeOK, Phase, Bucket
  <2>7. CASE Finish
    BY <2>7 DEF Finish, TypeOK, Phase, Bucket
  <2>8. CASE Open
    BY <2>8 DEF Open, TypeOK, Phase, Bucket
  <2>9. CASE ValidateSkip
    BY <2>9 DEF ValidateSkip, TypeOK, Phase, Bucket
  <2>10. CASE ValidateSlot
    <3>1. /\ j - 1 \in Bucket
      BY <2>10 DEF ValidateSlot, TypeOK, Bucket
    <3>2. slotKey[j - 1] \in Key \cup {Empty} /\ slotHash[j - 1] \in Word
      BY <2>10, <3>1 DEF ValidateSlot, TypeOK
    <3>3. probe' \in Probe /\ query' \in Key \cup {Empty}
      BY <2>10, <3>2, ProbeType DEF ValidateSlot
    <3> QED BY <2>10, <3>3 DEF ValidateSlot, TypeOK, Phase, Bucket
  <2>11. CASE ValidateDone
    BY <2>11 DEF ValidateDone, TypeOK, Phase, Bucket
  <2>12. CASE Hit
    <3>1. BucketOf(probe) \in Nat
      BY <2>0 DEF Bucket
    <3> QED BY <2>12, <3>1 DEF Hit, Probing, TypeOK, Phase, Bucket
  <2>13. CASE ProbeMiss
    BY <2>13 DEF ProbeMiss, ProbeEnds, Probing, TypeOK, Phase, Bucket
  <2>13a. CASE ProbeFails
    BY <2>13a DEF ProbeFails, ProbeEnds, Probing, TypeOK, Phase, Bucket
  <2>14. CASE ProbeOn
    BY <2>14, ProbeType DEF ProbeOn, Probing, TypeOK, Phase, Bucket
  <2>15. ASSUME NEW k \in Key, Lookup(k) PROVE TypeOK'
    <3>1. probe' \in Probe
      BY <2>15, ProbeType, KeyAssumption DEF Lookup
    <3> QED BY <2>15, <3>1 DEF Lookup, TypeOK, Phase, Bucket
  <2>16. CASE UNCHANGED vars
    BY <2>16 DEF vars, TypeOK, Bucket
  <2> QED
    BY <2>1, <2>2, <2>3, <2>4, <2>5, <2>5a, <2>6, <2>7, <2>8, <2>9, <2>10, <2>11, <2>12,
       <2>13, <2>13a, <2>14, <2>15, <2>16 DEF Next, Step
<1> QED
  BY <1>1, <1>2, PTL DEF Spec

-----------------------------------------------------------------------------
(* Paths of probe states *)

\* A path survives when more buckets are used.
LEMMA PathMonotone ==
  ASSUME NEW s, NEW b, Path(s, b), buckets' = buckets, Used \subseteq Used'
  PROVE  \E T \in SUBSET Probe :
            /\ s \in T
            /\ \A t \in T : BucketOf(t) = b \/ (BucketOf(t) \in Used' /\ NextProbe(t) \in T)
  BY DEF Path

\* From a bucket that is not the goal a path leads on.
LEMMA PathStep ==
  ASSUME NEW s, NEW b, Path(s, b), BucketOf(s) # b
  PROVE  BucketOf(s) \in Used /\ Path(NextProbe(s), b)
  BY DEF Path

\* A path that begins at an unused bucket is at its goal.
LEMMA PathEnd ==
  ASSUME NEW s, NEW b, Path(s, b), BucketOf(s) \notin Used
  PROVE  BucketOf(s) = b
  BY DEF Path

\* Where the probed bucket is not among those that are looked for, the search for
\* them goes on.
LEMMA PathOn ==
  ASSUME NEW B, PathTo(B), BucketOf(probe) \notin B, probe' = NextProbe(probe),
         UNCHANGED <<buckets, slotKey>>
  PROVE  \A b \in B : Path(probe, b)'
<1>1. Used' = Used /\ \A t : BucketOf(t)' = BucketOf(t)
  BY DEF Used, Bucket, BucketOf
<1> SUFFICES ASSUME NEW b \in B
             PROVE  Path(probe, b)'
  OBVIOUS
<1>2. Path(probe, b)
  BY DEF PathTo
<1>3. Path(NextProbe(probe), b)
  BY <1>2, PathStep
<1> QED BY <1>1, <1>3 DEF Path

\* A fresh probe for a hash gets to every bucket that holds the hash.
LEMMA FirstGets ==
  ASSUME SlotInv, HasTable, NEW h, NEW b \in Used, slotHash[b] = h
  PROVE  Path(FirstProbe(h), b)
BY DEF SlotInv

-----------------------------------------------------------------------------
(* The inductive invariant *)

\* Steps that do not change the table.
LEMMA SameSlots ==
  ASSUME SlotInv, HasTable, UNCHANGED <<keys, buckets, slotKey, slotHash, slotValue>>,
         Placed' = Placed
  PROVE  /\ SlotInv'
         /\ Used' = Used
         /\ \A t : BucketOf(t)' = BucketOf(t)
         /\ \A s, b : Path(s, b)' <=> Path(s, b)
<1>1. Used' = Used /\ \A t : BucketOf(t)' = BucketOf(t)
  BY DEF Used, Bucket, BucketOf
<1>2. \A s, b : Path(s, b)' <=> Path(s, b)
  BY <1>1 DEF Path
<1>3. SlotInv'
  <2>1. \A b \in Used : Path(FirstProbe(CreateHash[slotKey[b]]), b)'
                         <=> Path(FirstProbe(CreateHash[slotKey[b]]), b)
    BY <1>2
  <2>2. \A c \in Used : Rivals(slotKey[c])' = Rivals(slotKey[c])
    BY <1>1 DEF Rivals
  <2> QED BY <1>1, <2>1, <2>2 DEF SlotInv, HasTable
<1> QED BY <1>1, <1>2, <1>3

\* pointless_hash_table_create: an empty table.
LEMMA PrepareInv ==
  ASSUME TypeOK, TypeOK', Prepare
  PROVE  TableInv'
<1>1. CASE phase' = "unhashable"
  BY <1>1 DEF TableInv, SlotInv, PlaceInv, HashInv, ProbeInv, HasTable, Finished, Placing, Probing
<1>2. CASE phase' = "populate"
  <2>1. Used' = {} /\ j' = 1 /\ keys' = keys /\ buckets' = buckets
    BY <1>2 DEF Prepare, Used, Bucket, Begin
  <2>2. Placed' = 0
    BY <1>2, <2>1 DEF Placed, Finished
  <2>3. SlotInv'
    BY <2>1, <2>2 DEF SlotInv
  <2>4. PlaceInv'
    <3>1. Len(keys) \in Nat
      BY KeysType
    <3>2. j' <= Len(keys') + 1
      BY <2>1, <3>1
    <3>3. ASSUME 1 <= Len(keys)
          PROVE  PathToHere(FirstProbe(CreateHash[keys[j]]))'
      <4>1. probe' = FirstProbe(CreateHash[keys[1]]) /\ probe' \in Probe
        BY <3>3, ProbeType, KeysType DEF Prepare, Begin, TypeOK
      <4>2. {probe'} \in SUBSET Probe
        BY <4>1
      <4> QED BY <2>1, <4>1, <4>2 DEF PathToHere
    <3>4. \A k : PathTo(Rivals(k))'
      BY <2>1 DEF PathTo, Rivals
    <3> QED BY <2>1, <3>2, <3>3, <3>4 DEF PlaceInv, Placing
  <2>5. HashInv' /\ ProbeInv'
    BY <1>2 DEF HashInv, ProbeInv, Probing
  <2> QED BY <2>3, <2>4, <2>5 DEF TableInv
<1> QED BY <1>1, <1>2 DEF Prepare

\* A key goes into the empty bucket its probe has come to.
LEMMA PlaceStep ==
  ASSUME TypeOK, TypeOK', TableInv, Place
  PROVE  TableInv'
<1>0. PICK b, k : b = BucketOf(probe) /\ k = keys[j]
  OBVIOUS
<1>1. /\ phase = "populate" /\ phase' = "populate" /\ HasTable /\ SlotInv
      /\ slotKey[b] = Empty /\ b \in Bucket /\ b \notin Used
      /\ keys' = keys /\ buckets' = buckets /\ query' = query
      /\ slotKey' = [slotKey EXCEPT ![b] = k]
      /\ slotHash' = [slotHash EXCEPT ![b] = CreateHash[k]]
      /\ slotValue' = [slotValue EXCEPT ![b] = j]
      /\ j' = j + 1 /\ probe \in Probe
  BY <1>0, BucketType DEF Place, Placing, Begin, HasTable, TableInv, Used, TypeOK
<1>2. /\ j \in 1..Len(keys) /\ k \in Key /\ k # Empty /\ CreateHash[k] \in Word /\ Len(keys) \in Nat
      /\ j \in Nat \ {0}
  BY <1>0, KeysType, KeyAssumption DEF Place, Placing, TypeOK
<1>3. /\ slotKey \in [Bucket -> Key \cup {Empty}]
      /\ slotHash \in [Bucket -> Word]
      /\ slotValue \in [Bucket -> (Nat \ {0}) \cup {Empty}]
  BY <1>1 DEF TypeOK
<1>4. /\ slotKey'[b] = k /\ slotHash'[b] = CreateHash[k] /\ slotValue'[b] = j
      /\ \A c \in Used : /\ slotKey'[c] = slotKey[c] /\ slotHash'[c] = slotHash[c]
                         /\ slotValue'[c] = slotValue[c]
  BY <1>1, <1>3 DEF Used
<1>5. Used' = Used \cup {b}
  BY <1>1, <1>2, <1>3 DEF Used, Bucket
<1>6. \A t : BucketOf(t)' = BucketOf(t)
  BY <1>1 DEF BucketOf
<1>7. \A s, c : Path(s, c) => Path(s, c)'
  <2> SUFFICES ASSUME NEW s, NEW c, Path(s, c) PROVE Path(s, c)'
    OBVIOUS
  <2>1. PICK T \in SUBSET Probe :
            /\ s \in T
            /\ \A t \in T : BucketOf(t) = c \/ (BucketOf(t) \in Used' /\ NextProbe(t) \in T)
    BY <1>1, <1>5, PathMonotone
  <2> QED BY <1>6, <2>1 DEF Path
<1>8. Placed = j - 1 /\ Placed' = j
  BY <1>1, <1>2 DEF Placed, Finished
<1>9. \A c \in Used : c \notin Rivals(k)
  <2> SUFFICES ASSUME NEW c \in Used, c \in Rivals(k) PROVE FALSE
    OBVIOUS
  <2>1. Path(probe, c)
    BY <1>0 DEF Place, TableInv, PlaceInv, PathTo
  <2> QED BY <1>0, <1>1, <2>1, PathEnd
<1>10. Path(FirstProbe(CreateHash[k]), b)'
  <2>1. PICK T \in SUBSET Probe :
          /\ FirstProbe(CreateHash[k]) \in T /\ probe \in T
          /\ \A t \in T : t = probe \/ (BucketOf(t) \in Used /\ NextProbe(t) \in T)
    BY <1>0 DEF Place, TableInv, PlaceInv, PathToHere
  <2>2. \A t \in T : BucketOf(t) = b \/ (BucketOf(t) \in Used' /\ NextProbe(t) \in T)
    BY <1>0, <1>5, <2>1
  <2> QED BY <1>6, <2>1, <2>2 DEF Path
<1>11. SlotInv'
  <2>1. ASSUME NEW c \in Used'
        PROVE  /\ slotHash'[c] = CreateHash[slotKey'[c]]
               /\ slotValue'[c] \in 1..Placed'
               /\ slotKey'[c] = keys'[slotValue'[c]]
               /\ Path(FirstProbe(CreateHash[slotKey[c]]), c)'
    <3>1. CASE c = b
      <4>1. Path(FirstProbe(CreateHash[slotKey[c]]), c)'
        BY <3>1, <1>4, <1>10 DEF Path
      <4> QED BY <3>1, <4>1, <1>0, <1>1, <1>2, <1>4, <1>8
    <3>2. CASE c # b
      <4>1. c \in Used
        BY <2>1, <3>2, <1>5
      <4>2. /\ slotHash[c] = CreateHash[slotKey[c]] /\ slotValue[c] \in 1..(j - 1)
            /\ slotKey[c] = keys[slotValue[c]]
            /\ Path(FirstProbe(CreateHash[slotKey[c]]), c)
        BY <4>1, <1>1, <1>8 DEF SlotInv
      <4>3. PICK h : h = FirstProbe(CreateHash[slotKey[c]])
        OBVIOUS
      <4>4. Path(h, c)'
        BY <4>2, <4>3, <1>7
      <4>5. Path(FirstProbe(CreateHash[slotKey[c]]), c)'
        BY <4>1, <4>3, <4>4, <1>4 DEF Path
      <4> QED BY <4>1, <4>2, <4>5, <1>1, <1>2, <1>4, <1>8
    <3> QED BY <3>1, <3>2
  <2>2. ASSUME NEW n \in 1..Placed' PROVE \E c \in Used' : slotValue'[c] = n
    <3>1. CASE n = j
      BY <3>1, <1>4, <1>5
    <3>2. CASE n # j
      <4>1. n \in 1..Placed
        BY <3>2, <1>2, <1>8
      <4>2. PICK c \in Used : slotValue[c] = n
        BY <4>1, <1>1 DEF SlotInv
      <4> QED BY <4>2, <1>4, <1>5
    <3> QED BY <3>1, <3>2
  <2>3. ASSUME NEW c \in Used', NEW d \in Used', slotValue'[c] = slotValue'[d]
        PROVE  c = d
    <3>1. \A e \in Used : slotValue[e] \in 1..(j - 1)
      BY <1>1, <1>8 DEF SlotInv
    <3>2. CASE c \in Used /\ d \in Used
      <4>1. slotValue[c] = slotValue[d]
        BY <2>3, <3>2, <1>4
      <4> QED BY <3>2, <4>1, <1>1 DEF SlotInv
    <3>3. CASE ~(c \in Used /\ d \in Used)
      BY <2>3, <3>1, <3>3, <1>2, <1>4, <1>5
    <3> QED BY <3>2, <3>3
  <2>4. ASSUME NEW c \in Used', NEW d \in Used', slotValue'[c] < slotValue'[d]
        PROVE  c \notin Rivals(slotKey[d])'
    <3>1. \A e \in Used : slotValue[e] \in 1..(j - 1)
      BY <1>1, <1>8 DEF SlotInv
    <3>2. c \in Used
      BY <2>4, <3>1, <1>2, <1>4, <1>5
    <3>3. CASE d = b
      <4>1. ~(slotHash[c] = CreateHash[k] /\ CreateCmp[<<slotKey[c], k>>] # "differ")
        BY <3>2, <1>9 DEF Rivals
      <4> QED BY <3>2, <3>3, <4>1, <1>4 DEF Rivals
    <3>4. CASE d # b
      <4>1. d \in Used /\ slotValue[c] < slotValue[d]
        BY <2>4, <3>2, <3>4, <1>4, <1>5
      <4>2. c \notin Rivals(slotKey[d])
        BY <3>2, <4>1, <1>1 DEF SlotInv
      <4>3. ~(slotHash[c] = CreateHash[slotKey[d]] /\ CreateCmp[<<slotKey[c], slotKey[d]>>] # "differ")
        BY <3>2, <4>2 DEF Rivals
      <4> QED BY <3>2, <4>1, <4>3, <1>4 DEF Rivals
    <3> QED BY <3>3, <3>4
  <2> QED BY <2>1, <2>2, <2>3, <2>4 DEF SlotInv
<1>12. PlaceInv'
  <2>1. j' <= Len(keys') + 1
    BY <1>1, <1>2
  <2>2. ASSUME j + 1 <= Len(keys)
        PROVE  PathToHere(FirstProbe(CreateHash[keys[j]]))' /\ PathTo(Rivals(keys[j]))'
    <3>1. /\ keys[j + 1] \in Key /\ CreateHash[keys[j + 1]] \in Word
          /\ probe' = FirstProbe(CreateHash[keys[j + 1]]) /\ probe' \in Probe
      BY <2>2, <1>2, ProbeType, KeysType DEF Place, Begin
    <3>2. {probe'} \in SUBSET Probe
      BY <3>1
    <3>3. PathToHere(FirstProbe(CreateHash[keys[j]]))'
      BY <1>1, <3>1, <3>2 DEF PathToHere
    <3>4. ASSUME NEW c \in Used', slotHash'[c] = CreateHash[keys[j + 1]]
          PROVE  Path(probe, c)'
      <4>1. HasTable'
        BY <1>1 DEF HasTable
      <4>2. slotHash'[c] = CreateHash[slotKey'[c]] /\ Path(FirstProbe(CreateHash[slotKey[c]]), c)'
        BY <1>11, <4>1 DEF SlotInv
      <4> QED BY <3>1, <3>4, <4>2 DEF Path
    <3> QED BY <1>1, <3>3, <3>4 DEF PathTo, Rivals
  <2> QED BY <1>1, <2>1, <2>2 DEF PlaceInv, Placing
<1>13. HashInv' /\ ProbeInv'
  BY <1>1 DEF HashInv, ProbeInv, Probing
<1> QED
  BY <1>11, <1>12, <1>13 DEF TableInv

\* A key's probe goes on past a bucket that holds another key.
LEMMA PlaceOnStep ==
  ASSUME TypeOK, TypeOK', TableInv, PlaceOn
  PROVE  TableInv'
<1>0. PICK k, p : k = keys[j] /\ p = probe
  OBVIOUS
<1>1. /\ phase = "populate" /\ phase' = "populate" /\ HasTable /\ Placing /\ SlotInv
      /\ UNCHANGED <<keys, buckets, slotKey, slotHash, slotValue, j>>
      /\ probe' = NextProbe(probe) /\ probe \in Probe /\ probe' \in Probe
      /\ Met(k) = "differ" /\ slotKey[BucketOf(probe)] # Empty
  BY <1>0 DEF PlaceOn, Placing, HasTable, TableInv, TypeOK
<1>2. BucketOf(probe) \in Used
  BY <1>1, BucketType DEF Used
<1>3. k \in Key /\ j <= Len(keys)
  BY <1>0, <1>1, KeysType DEF Placing, TypeOK
<1>4. Placed' = Placed
  BY <1>1 DEF Placed, Finished
<1>5. SlotInv' /\ Used' = Used /\ \A t : BucketOf(t)' = BucketOf(t)
  BY <1>1, <1>4, SameSlots
<1>6. \A b \in Rivals(k) : Path(probe, b)'
  <2>1. PathTo(Rivals(k)) /\ BucketOf(probe) \notin Rivals(k)
    BY <1>0, <1>1 DEF TableInv, PlaceInv, Met, Rivals
  <2> QED BY <1>1, <2>1, PathOn
<1>7. PathToHere(FirstProbe(CreateHash[k]))'
  <2>1. PICK T \in SUBSET Probe :
          /\ FirstProbe(CreateHash[k]) \in T /\ p \in T
          /\ \A t \in T : t = p \/ (BucketOf(t) \in Used /\ NextProbe(t) \in T)
    BY <1>0, <1>1 DEF TableInv, PlaceInv, PathToHere
  <2>2. T \cup {NextProbe(p)} \in SUBSET Probe /\ probe' = NextProbe(p) /\ BucketOf(p) \in Used
    BY <1>0, <1>1, <1>2
  <2>3. \A t \in T \cup {NextProbe(p)} :
          t = probe' \/ (BucketOf(t) \in Used /\ NextProbe(t) \in T \cup {NextProbe(p)})
    BY <2>1, <2>2
  <2> QED BY <1>5, <2>1, <2>2, <2>3 DEF PathToHere
<1>8. PlaceInv'
  <2>1. PathTo(Rivals(keys[j]))' /\ PathToHere(FirstProbe(CreateHash[keys[j]]))'
    <3>1. keys'[j'] = k
      BY <1>0, <1>1
    <3>2. Rivals(keys[j])' = Rivals(k)
      BY <1>1, <1>5, <3>1 DEF Rivals
    <3> QED BY <1>6, <1>7, <3>1, <3>2 DEF PathTo, PathToHere
  <2> QED BY <1>1, <2>1 DEF PlaceInv, TableInv
<1>9. HashInv' /\ ProbeInv'
  BY <1>1 DEF HashInv, ProbeInv, Probing
<1> QED BY <1>5, <1>8, <1>9 DEF TableInv

\* A probe, of validation or of a lookup, begins.
LEMMA ProbeFirstStep ==
  ASSUME TypeOK, SlotInv, HashInv, phase \in {"validate", "ready"}, phase' \in Finished,
         Placed' = Placed, UNCHANGED <<keys, buckets, slotKey, slotHash, slotValue>>,
         NEW k \in Key, query' = k, probe' = FirstProbe(ReadHash[k])
  PROVE  TableInv'
<1>0. HasTable
  BY DEF HasTable, Finished
<1>1. SlotInv' /\ Used' = Used /\ \A s, b : Path(s, b)' <=> Path(s, b)
  BY <1>0, SameSlots
<1>2. PlaceInv' /\ HashInv'
  BY <1>1 DEF PlaceInv, Placing, Finished, HashInv
<1>3. \A b \in Answers(k)' : Path(probe, b)'
  <2> SUFFICES ASSUME NEW b \in Used, slotHash[b] = ReadHash[k] PROVE Path(probe, b)'
    BY <1>1 DEF Answers
  <2>1. PICK h : h = FirstProbe(ReadHash[k])
    OBVIOUS
  <2>2. Path(h, b)
    BY <1>0, <2>1, FirstGets
  <2>3. Path(h, b)'
    BY <1>1, <2>2
  <2> QED BY <2>1, <2>3 DEF Path
<1>4. ProbeInv'
  BY <1>3 DEF ProbeInv, PathTo, Answers
<1> QED BY <1>1, <1>2, <1>4 DEF TableInv

\* A step that leaves the table alone and after which nothing is being probed for.
LEMMA IdleStep ==
  ASSUME TableInv, HasTable, phase' \in Finished \cup {"duplicate", "incomparable"},
         Placed' = Placed, UNCHANGED <<keys, buckets, slotKey, slotHash, slotValue>>,
         phase' \in {"duplicate", "incomparable"} => j' <= Len(keys) + 1, ~Probing', HashInv'
  PROVE  TableInv'
<1>1. SlotInv'
  BY SameSlots DEF TableInv
<1>2. PlaceInv' /\ ProbeInv'
  BY DEF PlaceInv, Placing, Finished, ProbeInv
<1> QED BY <1>1, <1>2 DEF TableInv

\* The hashes in the table stay those of the reader.
LEMMA HashStep ==
  ASSUME HashInv, UNCHANGED <<buckets, slotKey, slotHash>>,
         phase' \in {"validate", "ready", "lookup"} => phase \in {"validate", "ready", "lookup"}
  PROVE  HashInv'
BY DEF HashInv, Used, Bucket

\* What the table holds, through every step of its life.
THEOREM TableInvariant == Spec => []TableInv
<1>1. Init => TableInv
  BY DEF Init, TableInv, SlotInv, HasTable, Finished, PlaceInv, Placing, HashInv, ProbeInv, Probing
<1>2. TypeOK /\ TypeOK' /\ TableInv /\ [Next]_vars => TableInv'
  <2> SUFFICES ASSUME TypeOK, TypeOK', TableInv, [Next]_vars PROVE TableInv'
    OBVIOUS
  <2>0. /\ Len(keys) \in Nat /\ j \in Nat \ {0} /\ SlotInv /\ HashInv
        /\ phase \in Finished => HasTable /\ Placed = Len(keys)
    BY KeysType DEF TypeOK, TableInv, HasTable, Placed
  <2>1. CASE DoubleBuckets
    BY <2>1 DEF DoubleBuckets, TableInv, SlotInv, HasTable, Finished, PlaceInv, Placing,
       HashInv, ProbeInv, Probing
  <2>2. CASE OutOfMemory
    BY <2>2 DEF OutOfMemory, TableInv, SlotInv, HasTable, Finished, PlaceInv, Placing,
       HashInv, ProbeInv, Probing
  <2>3. CASE Prepare
    BY <2>3, PrepareInv
  <2>4. CASE Place
    BY <2>4, PlaceStep
  <2>5. CASE Duplicate
    <3>1. HasTable /\ Placed' = Placed /\ j' <= Len(keys) + 1 /\ ~Probing'
      BY <2>0, <2>5 DEF Duplicate, Placing, HasTable, Placed, Finished, Probing
    <3>2. HashInv'
      BY <2>5 DEF Duplicate, HashInv
    <3> QED BY <2>5, <3>1, <3>2, IdleStep DEF Duplicate
  <2>5a. CASE Incomparable
    <3>1. HasTable /\ Placed' = Placed /\ j' <= Len(keys) + 1 /\ ~Probing'
      BY <2>0, <2>5a DEF Incomparable, Placing, HasTable, Placed, Finished, Probing
    <3>2. HashInv'
      BY <2>5a DEF Incomparable, HashInv
    <3> QED BY <2>5a, <3>1, <3>2, IdleStep DEF Incomparable
  <2>6. CASE PlaceOn
    BY <2>6, PlaceOnStep
  <2>7. CASE Finish
    <3>1. HasTable /\ ~Probing' /\ j <= Len(keys) + 1
      BY <2>7 DEF Finish, HasTable, Probing, TableInv, PlaceInv
    <3>2. Placed' = Placed
      BY <2>0, <2>7, <3>1 DEF Finish, Placed, Finished
    <3>3. HashInv'
      BY <2>7 DEF Finish, HashInv
    <3> QED BY <2>7, <3>1, <3>2, <3>3, IdleStep DEF Finish, Finished
  <2>8. CASE Open
    <3>1. HasTable /\ ~Probing' /\ Placed' = Placed
      BY <2>0, <2>8 DEF Open, Probing, Placed, Finished
    <3>2. HashInv'
      BY <2>8 DEF Open, WellFormed, HashInv, Used, Bucket
    <3> QED BY <2>8, <3>1, <3>2, IdleStep DEF Open, Finished
  <2>9. CASE ValidateSkip
    <3>1. HasTable /\ ~Probing' /\ Placed' = Placed
      BY <2>0, <2>9 DEF ValidateSkip, Probing, Placed, Finished
    <3>2. HashInv'
      BY <2>0, <2>9, HashStep DEF ValidateSkip
    <3> QED BY <2>9, <3>1, <3>2, IdleStep DEF ValidateSkip, Finished
  <2>10. CASE ValidateSlot
    <3>1. HasTable /\ Placed' = Placed /\ j - 1 \in Bucket
      BY <2>0, <2>10 DEF ValidateSlot, Placed, Finished, TypeOK, Bucket
    <3>2. slotKey[j - 1] \in Key /\ slotHash[j - 1] = ReadHash[slotKey[j - 1]]
      BY <2>0, <2>10, <3>1 DEF ValidateSlot, TypeOK, HashInv, Used, Finished
    <3> QED BY <2>0, <2>10, <3>1, <3>2, ProbeFirstStep DEF ValidateSlot, Finished
  <2>11. CASE ValidateDone
    <3>1. HasTable /\ ~Probing' /\ Placed' = Placed
      BY <2>0, <2>11 DEF ValidateDone, Probing, Placed, Finished
    <3>2. HashInv'
      BY <2>0, <2>11, HashStep DEF ValidateDone
    <3> QED BY <2>11, <3>1, <3>2, IdleStep DEF ValidateDone, Finished
  <2>12. CASE Hit
    <3>1. HasTable /\ ~Probing' /\ Placed' = Placed /\ phase' \in Finished
      BY <2>0, <2>12 DEF Hit, Probing, Placed, Finished
    <3>2. HashInv'
      BY <2>0, <2>12, HashStep DEF Hit, Probing
    <3> QED BY <2>12, <3>1, <3>2, IdleStep DEF Hit, Finished
  <2>13. CASE ProbeMiss
    <3>1. HasTable /\ ~Probing' /\ Placed' = Placed /\ phase' \in Finished
      BY <2>0, <2>13 DEF ProbeMiss, ProbeEnds, Probing, Placed, Finished
    <3>2. HashInv'
      BY <2>0, <2>13, HashStep DEF ProbeMiss, ProbeEnds, Probing
    <3> QED BY <2>13, <3>1, <3>2, IdleStep DEF ProbeMiss, ProbeEnds, Finished
  <2>13a. CASE ProbeFails
    <3>1. HasTable /\ ~Probing' /\ Placed' = Placed /\ phase' \in Finished
      BY <2>0, <2>13a DEF ProbeFails, ProbeEnds, Probing, Placed, Finished
    <3>2. HashInv'
      BY <2>0, <2>13a, HashStep DEF ProbeFails, ProbeEnds, Probing
    <3> QED BY <2>13a, <3>1, <3>2, IdleStep DEF ProbeFails, ProbeEnds, Finished
  <2>14. CASE ProbeOn
    <3>0. PICK k : k = query
      OBVIOUS
    <3>1. /\ HasTable /\ Placed' = Placed /\ phase \in Finished /\ phase' = phase /\ query' = k
          /\ UNCHANGED <<buckets, slotKey, slotHash>> /\ probe' = NextProbe(probe)
      BY <2>0, <2>14, <3>0 DEF ProbeOn, Probing, Placed, Finished
    <3>2. k \in Key /\ PathTo(Answers(k)) /\ BucketOf(probe) \notin Answers(k)
      BY <2>14, <3>0 DEF ProbeOn, Found, Answers, TableInv, ProbeInv
    <3>3. \A b \in Answers(k) : Path(probe, b)'
      BY <3>1, <3>2, PathOn
    <3>4. SlotInv' /\ Used' = Used
      BY <2>0, <2>14, <3>1, SameSlots DEF ProbeOn
    <3>5. Answers(query)' = Answers(k)
      BY <3>1, <3>4 DEF Answers
    <3>6. ProbeInv'
      BY <3>1, <3>2, <3>3, <3>5 DEF ProbeInv, PathTo
    <3>7. PlaceInv' /\ HashInv'
      BY <2>0, <3>1, HashStep DEF PlaceInv, Placing, Finished
    <3> QED BY <3>4, <3>6, <3>7 DEF TableInv
  <2>15. ASSUME NEW k \in Key, Lookup(k) PROVE TableInv'
    <3>1. HasTable /\ Placed' = Placed /\ phase' \in Finished
      BY <2>0, <2>15 DEF Lookup, Placed, Finished
    <3> QED BY <2>0, <2>15, <3>1, ProbeFirstStep DEF Lookup
  <2>16. CASE UNCHANGED vars
    <3>1. /\ phase' = phase /\ keys' = keys /\ j' = j /\ probe' = probe /\ query' = query
          /\ buckets' = buckets /\ slotKey' = slotKey /\ slotHash' = slotHash
          /\ slotValue' = slotValue
      BY <2>16 DEF vars
    <3> QED BY <3>1 DEF TableInv, SlotInv, HasTable, Placed, PlaceInv, Placing, HashInv, ProbeInv,
       Probing, PathTo, Rivals, Answers, PathToHere, Path, Used, Bucket, BucketOf
  <2> QED
    BY <2>1, <2>2, <2>3, <2>4, <2>5, <2>5a, <2>6, <2>7, <2>8, <2>9, <2>10, <2>11, <2>12,
       <2>13, <2>13a, <2>14, <2>15, <2>16 DEF Next, Step
<1> QED
  BY <1>1, <1>2, TypeCorrect, PTL DEF Spec

\* "there are duplicate keys in the set/map" is said exactly when it is so.
THEOREM DuplicateReports == Spec => []DuplicatesAreReported
<1> DEFINE Reported == phase = "duplicate" => HasDuplicates
<1>1. Init => Reported
  BY DEF Init
<1>2. TypeOK /\ TableInv /\ phase \in Finished => ~HasDuplicates
  <2> SUFFICES ASSUME TypeOK, TableInv, phase \in Finished,
                      NEW m \in DOMAIN keys, NEW n \in DOMAIN keys, m < n,
                      CreateHash[keys[m]] = CreateHash[keys[n]],
                      CreateCmp[<<keys[m], keys[n]>>] = "equal"
               PROVE  FALSE
    BY DEF HasDuplicates
  <2>1. m \in 1..Placed /\ n \in 1..Placed /\ HasTable
    BY KeysType DEF Placed, HasTable
  <2>2. PICK b, c \in Used : slotValue[b] = m /\ slotValue[c] = n
    BY <2>1 DEF TableInv, SlotInv
  <2>3. slotKey[b] = keys[m] /\ slotKey[c] = keys[n] /\ slotHash[b] = CreateHash[keys[m]]
    BY <2>1, <2>2 DEF TableInv, SlotInv
  <2>4. b \notin Rivals(keys[n])
    BY <2>1, <2>2, <2>3 DEF TableInv, SlotInv
  <2> QED BY <2>2, <2>3, <2>4 DEF Rivals
<1>3. TypeOK /\ TableInv /\ Reported /\ [Next]_vars => Reported'
  <2> SUFFICES ASSUME TypeOK, TableInv, Reported, [Next]_vars, phase' = "duplicate"
               PROVE  HasDuplicates'
    OBVIOUS
  <2>2. HasDuplicates'
    <3>1. CASE phase = "duplicate" /\ keys' = keys
      BY <3>1 DEF HasDuplicates
    <3>2. CASE Duplicate
      <4>1. /\ probe \in Probe /\ HasTable /\ Placed = j - 1 /\ j \in 1..Len(keys)
            /\ slotKey[BucketOf(probe)] # Empty /\ DOMAIN keys = 1..Len(keys) /\ Len(keys) \in Nat
        BY <3>2, KeysType DEF Duplicate, Placing, TypeOK, HasTable, Placed, Finished
      <4>2. PICK b \in Used : b = BucketOf(probe)
        BY <4>1, BucketType DEF Used
      <4>3. slotValue[b] \in 1..(j - 1) /\ slotKey[b] = keys[slotValue[b]]
            /\ slotHash[b] = CreateHash[slotKey[b]]
        BY <4>1 DEF TableInv, SlotInv
      <4>4. CreateCmp[<<slotKey[b], keys[j]>>] = "equal" /\ slotHash[b] = CreateHash[keys[j]]
        BY <3>2, <4>2 DEF Duplicate, Met
      <4>5. slotValue[b] \in DOMAIN keys /\ j \in DOMAIN keys /\ slotValue[b] < j
        BY <4>1, <4>3
      <4>6. HasDuplicates
        BY <4>3, <4>4, <4>5 DEF HasDuplicates
      <4> QED BY <3>2, <4>6 DEF Duplicate, HasDuplicates
    <3> QED BY <3>1, <3>2 DEF Next, Step, DoubleBuckets, OutOfMemory, Prepare, Place, Incomparable,
          PlaceOn, Finish, Open, ValidateSkip, ValidateSlot, ValidateDone, Lookup, Hit, ProbeMiss,
          ProbeFails, ProbeEnds, ProbeOn, Placing, Probing, vars
  <2> QED BY <2>2
<1>4. Reported /\ (phase \in Finished => ~HasDuplicates) => DuplicatesAreReported
  BY DEF DuplicatesAreReported
<1> QED
  BY <1>1, <1>2, <1>3, <1>4, TypeCorrect, TableInvariant, PTL DEF Spec

\* A result is there only between lookups.
LookupInv == (phase # "ready" => result = NoResult) /\ LookupIsExact

\* A lookup finds the key, and its value, exactly when the key was stored, and fails
\* only where a comparison with one of the keys does.
THEOREM LookupsAreExact == Spec => []LookupIsExact
<1>1. Init => LookupInv
  BY DEF Init, LookupInv, LookupIsExact
<1>2. TypeOK /\ TableInv /\ LookupInv /\ [Next]_vars => LookupInv'
  <2> SUFFICES ASSUME TypeOK, TableInv, LookupInv, [Next]_vars PROVE LookupInv'
    OBVIOUS
  <2>0. /\ Len(keys) \in Nat /\ DOMAIN keys = 1..Len(keys) /\ probe \in Probe
        /\ BucketOf(probe) \in Bucket
    BY KeysType, BucketType DEF TypeOK
  <2>a. ASSUME phase = "lookup", NEW b \in Used
        PROVE  /\ slotValue[b] \in 1..Len(keys) /\ slotKey[b] = keys[slotValue[b]]
               /\ slotHash[b] = ReadHash[slotKey[b]]
    <3>1. HasTable /\ Placed = Len(keys)
      BY <2>a DEF HasTable, Placed, Finished
    <3> QED BY <2>a, <3>1 DEF TableInv, SlotInv, HashInv
  <2>b. ASSUME phase = "lookup", NEW r \in {"equal", "error"},
               slotKey[BucketOf(probe)] # Empty, Found = r
        PROVE  /\ slotValue[BucketOf(probe)] \in DOMAIN keys
               /\ ReadHash[query] = ReadHash[keys[slotValue[BucketOf(probe)]]]
               /\ ReadCmp[<<query, keys[slotValue[BucketOf(probe)]]>>] = r
    <3>1. PICK b \in Used : b = BucketOf(probe)
      BY <2>0, <2>b DEF Used
    <3>2. /\ slotValue[b] \in 1..Len(keys) /\ slotKey[b] = keys[slotValue[b]]
          /\ slotHash[b] = ReadHash[slotKey[b]]
      BY <2>a, <2>b
    <3>3. ReadCmp[<<query, slotKey[b]>>] = r /\ slotHash[b] = ReadHash[query]
      BY <2>b, <3>1 DEF Found
    <3> QED BY <2>0, <3>1, <3>2, <3>3
  <2>1. CASE phase = "lookup" /\ Hit
    <3>1. /\ phase' = "ready" /\ result' = BucketOf(probe)
          /\ UNCHANGED <<keys, buckets, slotValue, query>>
          /\ slotKey[BucketOf(probe)] # Empty /\ Found = "equal"
      BY <2>1 DEF Hit
    <3>2. Bucket' = Bucket
      BY <3>1 DEF Bucket
    <3> QED BY <2>0, <2>1, <2>b, <3>1, <3>2 DEF LookupInv, LookupIsExact
  <2>2. CASE phase = "lookup" /\ ProbeMiss
    <3>1. /\ HasTable /\ Placed = Len(keys) /\ phase' = "ready" /\ result' = Miss
          /\ UNCHANGED <<keys, query>> /\ BucketOf(probe) \notin Used
          /\ PathTo(Answers(query)) /\ query \in Key
      BY <2>2 DEF ProbeMiss, ProbeEnds, Probing, HasTable, Placed, Finished, Used, TableInv, ProbeInv
    <3>2. ASSUME NEW n \in DOMAIN keys, ReadHash[query] = ReadHash[keys[n]],
                 ReadCmp[<<query, keys[n]>>] = "equal"
          PROVE  FALSE
      <4>1. PICK c \in Used : slotValue[c] = n
        BY <2>0, <3>1 DEF TableInv, SlotInv
      <4>2. slotKey[c] = keys[n] /\ slotHash[c] = ReadHash[keys[n]]
        BY <2>2, <2>a, <4>1
      <4>3. c \in Answers(query)
        BY <3>2, <4>1, <4>2 DEF Answers
      <4>4. Path(probe, c)
        BY <3>1, <4>3 DEF PathTo
      <4> QED BY <3>1, <4>1, <4>4, PathEnd
    <3> QED BY <3>1, <3>2 DEF LookupInv, LookupIsExact
  <2>2a. CASE phase = "lookup" /\ ProbeFails
    <3>1. /\ phase' = "ready" /\ result' = Error /\ UNCHANGED <<keys, query>>
          /\ slotKey[BucketOf(probe)] # Empty /\ Found = "error"
      BY <2>2a DEF ProbeFails, ProbeEnds
    <3> QED BY <2>2a, <2>b, <3>1 DEF LookupInv, LookupIsExact
  <2>3. CASE /\ UNCHANGED <<keys, buckets, slotValue, query, result>> /\ phase' = phase
    <3>1. Bucket' = Bucket
      BY <2>3 DEF Bucket
    <3> QED BY <2>3, <3>1 DEF LookupInv, LookupIsExact
  <2>4. CASE result' = NoResult
    BY <2>4 DEF LookupInv, LookupIsExact
  <2>5. CASE /\ phase # "ready" /\ UNCHANGED result
    BY <2>4, <2>5 DEF LookupInv
  <2>6. \A k : Lookup(k) => result' = NoResult
    BY DEF Lookup
  <2>7. CASE Hit /\ phase # "lookup"
    BY <2>7, <2>5 DEF Hit, Probing
  <2>8. CASE ProbeMiss /\ phase # "lookup"
    BY <2>8, <2>5 DEF ProbeMiss, ProbeEnds, Probing
  <2>8a. CASE ProbeFails /\ phase # "lookup"
    BY <2>8a, <2>5 DEF ProbeFails, ProbeEnds, Probing
  <2>9. CASE Step /\ ~Hit /\ ~ProbeMiss /\ ~ProbeFails
    <3>1. phase # "ready" /\ UNCHANGED result
      BY <2>9 DEF Step, DoubleBuckets, Prepare, Place, Duplicate, Incomparable, PlaceOn, Finish,
         Open, ValidateSkip, ValidateSlot, ValidateDone, ProbeOn, Placing, Probing
    <3> QED BY <3>1, <2>5
  <2>10. CASE OutOfMemory
    BY <2>10, <2>5 DEF OutOfMemory
  <2>11. CASE UNCHANGED vars
    BY <2>11, <2>3 DEF vars
  <2> QED BY <2>1, <2>2, <2>2a, <2>4, <2>6, <2>7, <2>8, <2>8a, <2>9, <2>10, <2>11 DEF Next, Step
<1>3. LookupInv => LookupIsExact
  BY DEF LookupInv
<1> QED
  BY <1>1, <1>2, <1>3, TypeCorrect, TableInvariant, PTL DEF Spec

-----------------------------------------------------------------------------
(* The table that is written is valid. *)

\* A number smaller than the modulus is its own remainder.
LEMMA ModSmall ==
  ASSUME NEW a \in Nat, NEW m \in Nat \ {0}, a < m
  PROVE  a % m = a
  OBVIOUS

\* More buckets are wanted than there are keys, unless there are none, and
\* the number of them can be doubled without overflow.
LEMMA WantedFact ==
  ASSUME TypeOK
  PROVE  /\ Len(keys) \in Nat /\ WantedBuckets(Len(keys)) \in Nat
         /\ 2 * WantedBuckets(Len(keys)) <= WordSize
         /\ Len(keys) = 0 \/ WantedBuckets(Len(keys)) > Len(keys)
<1> DEFINE n == Len(keys)
<1>1. n \in Nat /\ 2 * (n + n \div 2) <= WordSize /\ WordSize >= 4 /\ WordSize \in Nat \ {0}
  BY KeysType, ListAssumption, WordAssumption DEF TypeOK
<1> HIDE DEF n
<1>2. n \div 2 \in Nat /\ (n >= 2 => n \div 2 >= 1)
  BY <1>1
<1>3. n + n \div 2 \in Nat /\ n + n \div 2 < WordSize
  BY <1>1, <1>2
<1>4. (n + n \div 2) % WordSize = n + n \div 2
  BY <1>1, <1>3, ModSmall
<1>5. WantedBuckets(n) = IF n = 1 THEN 2 ELSE n + n \div 2
  BY <1>4 DEF WantedBuckets
<1>6. /\ WantedBuckets(n) \in Nat /\ 2 * WantedBuckets(n) <= WordSize
      /\ n = 0 \/ WantedBuckets(n) > n
  BY <1>1, <1>2, <1>5
<1> QED
  BY <1>1, <1>6 DEF n

\* The used slots are as many as the keys that were placed.
LEMMA UsedCounted ==
  ASSUME TypeOK, TableInv, HasTable
  PROVE  IsFiniteSet(Used) /\ Cardinality(Used) = Placed /\ Placed \in 0..Len(keys)
<1>1. /\ SlotInv /\ Len(keys) \in Nat /\ j \in Nat \ {0}
      /\ Placed \in 0..Len(keys)
  BY KeysType DEF TableInv, PlaceInv, TypeOK, Placed, HasTable, Finished
<1> DEFINE f == [b \in Used |-> slotValue[b]]
<1>2. \A b \in Used : f[b] \in 1..Placed /\ slotKey[b] = keys[f[b]]
  BY <1>1 DEF SlotInv
<1>3. \A b, c \in Used : f[b] = f[c] => b = c
  BY <1>1 DEF SlotInv
<1>4. \A n \in 1..Placed : \E b \in Used : f[b] = n
  BY <1>1 DEF SlotInv
<1>5. f \in [Used -> 1..Placed]
  BY <1>2
<1> HIDE DEF f
<1>6. f \in Bijection(Used, 1..Placed)
  BY <1>3, <1>4, <1>5, Fun_IsBij
<1>7. ExistsBijection(1..Placed, Used)
  BY <1>6, Fun_ExistsBijSymmetric DEF ExistsBijection
<1>8. IsFiniteSet(1..Placed) /\ Cardinality(1..Placed) = Placed
  BY <1>1, FS_Interval
<1> QED
  BY <1>1, <1>7, <1>8, FS_Bijection

\* With fewer keys than buckets a slot stays empty.
LEMMA SlotLeft ==
  ASSUME TypeOK, TableInv, HasTable, TableIsSound
  PROVE  Used # Bucket
<1>1. Cardinality(Used) <= Len(keys) /\ Cardinality(Used) \in Nat
  BY UsedCounted, KeysType
<1>2. buckets \in Nat \ {0} /\ Len(keys) < buckets
  BY WantedFact DEF TypeOK, TableIsSound
<1>3. Cardinality(Bucket) = buckets
  <2>1. Cardinality(0..(buckets - 1)) = IF 0 > buckets - 1 THEN 0 ELSE buckets - 1 - 0 + 1
    BY <1>2, FS_Interval
  <2> QED
    BY <1>2, <2>1 DEF Bucket
<1> QED
  BY <1>1, <1>2, <1>3, KeysType

\* The checks that come before the probing succeed, where the reader hashes the
\* keys as the writer did.
LEMMA WrittenIsWellFormed ==
  ASSUME TypeOK, TableInv, phase = "built", TableIsSound, SmallestPower, ReadsAsWritten
  PROVE  WellFormed
<1>1. HasTable /\ Placed = Len(keys) /\ Len(keys) \in Nat
  BY KeysType DEF HasTable, Finished, Placed
<1>2. Used # Bucket /\ Cardinality(Used) = Len(keys)
  BY <1>1, SlotLeft, UsedCounted
<1>3. \A b \in Used : slotKey[b] \in Hashable /\ slotHash[b] = ReadHash[slotKey[b]]
  <2> SUFFICES ASSUME NEW b \in Used
               PROVE  slotKey[b] \in Hashable /\ slotHash[b] = ReadHash[slotKey[b]]
    OBVIOUS
  <2>1. /\ slotHash[b] = CreateHash[slotKey[b]]
        /\ slotValue[b] \in DOMAIN keys /\ slotKey[b] = keys[slotValue[b]]
    BY <1>1, KeysType DEF TableInv, SlotInv
  <2> QED
    BY <2>1 DEF TableIsSound, ReadsAsWritten, ReadsBack
<1> QED
  BY <1>2, <1>3 DEF WellFormed, TableIsSound, SmallestPower

\* The slot that is being validated is found where probing for its key ends, which
\* passes the other keys by, where the reader compares them as the writer did.
LEMMA ValidatedSlot ==
  ASSUME TypeOK, TableInv, ValidInv, phase = "validate", Probing, ReadsAsWritten
  PROVE  /\ slotKey[BucketOf(probe)] # Empty
         /\ Found = IF BucketOf(probe) = j - 1 THEN "equal" ELSE "differ"
<1> DEFINE c == j - 1
           b == BucketOf(probe)
           v == slotValue[c]
           w == slotValue[b]
<1>1. c \in Used /\ slotKey[c] = query
  BY DEF ValidInv, Probing, Used
<1>2. HasTable /\ Placed = Len(keys) /\ DOMAIN keys = 1..Len(keys)
  BY KeysType DEF HasTable, Placed, Finished
<1>3. \A d \in Used : /\ slotValue[d] \in DOMAIN keys /\ slotKey[d] = keys[slotValue[d]]
                      /\ slotHash[d] = ReadHash[slotKey[d]] /\ slotHash[d] = CreateHash[slotKey[d]]
  BY <1>2 DEF TableInv, SlotInv, HashInv
<1>4. ReadCmp[<<query, query>>] = "equal"
  BY <1>1, <1>3 DEF ReadsAsWritten, ReadsBack
<1>5. Path(probe, c)
  BY <1>1, <1>3, <1>4 DEF TableInv, ProbeInv, PathTo, Answers
<1>6. b \in Used
  BY <1>1, <1>5, PathEnd
<1>7. CASE b = c
  BY <1>1, <1>3, <1>4, <1>7 DEF Found, Used
<1>8. CASE b # c
  <2>1. v \in DOMAIN keys /\ w \in DOMAIN keys /\ v \in Nat /\ w \in Nat /\ v # w
    BY <1>1, <1>2, <1>3, <1>6, <1>8 DEF TableInv, SlotInv
  <2>2. query = keys[v] /\ slotKey[b] = keys[w]
    BY <1>1, <1>3, <1>6
  <2>3. ASSUME slotHash[b] = ReadHash[query]
        PROVE  ReadCmp[<<query, slotKey[b]>>] = "differ"
    <3>1. CreateHash[keys[v]] = CreateHash[keys[w]]
      BY <1>1, <1>3, <1>6, <2>2, <2>3
    <3>2. CASE v < w
      <4>1. c \notin Rivals(slotKey[b])
        BY <1>1, <1>2, <1>6, <3>2 DEF TableInv, SlotInv
      <4>2. CreateCmp[<<keys[v], keys[w]>>] = "differ"
        BY <1>1, <1>3, <2>2, <3>1, <4>1 DEF Rivals
      <4>3. ReadsApart(v, w)
        BY <2>1, <3>2 DEF ReadsAsWritten
      <4> QED BY <2>2, <3>1, <4>2, <4>3 DEF ReadsApart
    <3>3. CASE w < v
      <4>1. b \notin Rivals(slotKey[c])
        BY <1>1, <1>2, <1>6, <3>3 DEF TableInv, SlotInv
      <4>2. CreateCmp[<<keys[w], keys[v]>>] = "differ"
        BY <1>1, <1>3, <1>6, <2>2, <3>1, <4>1 DEF Rivals
      <4>3. ReadsApart(w, v)
        BY <2>1, <3>3 DEF ReadsAsWritten
      <4> QED BY <2>2, <3>1, <4>2, <4>3 DEF ReadsApart
    <3> QED BY <2>1, <3>2, <3>3
  <2> QED BY <1>6, <1>8, <2>3 DEF Found, Used
<1> QED BY <1>7, <1>8

\* A step that keeps the table and the life it is in keeps what is said of it.
LEMMA SameTable ==
  ASSUME ValidInv, UNCHANGED <<keys, buckets, slotKey, slotHash, slotValue>>,
         phase' = "rejected" => ~ReadsAsWritten, HasTable' => HasTable,
         phase' = "size" => phase = "size",
         phase' = "validate" /\ query' # Empty =>
            j' - 1 \in Bucket /\ slotKey[j' - 1] = query',
         \A b \in Validated' : ReadCmp[<<slotKey[b], slotKey[b]>>] = "equal"
  PROVE  ValidInv'
<1>1. Bucket' = Bucket /\ Used' = Used
  BY DEF Bucket, Used
<1>2. TableIsSound' <=> TableIsSound
  BY <1>1 DEF TableIsSound
<1>3. SmallestPower' <=> SmallestPower
  BY DEF SmallestPower
<1>4. ReadsAsWritten' <=> ReadsAsWritten
  BY DEF ReadsAsWritten, ReadsBack, ReadsApart
<1> QED
  BY <1>1, <1>2, <1>3, <1>4 DEF ValidInv

\* What ValidInv says is kept by every step.
LEMMA ValidStep ==
  ASSUME TypeOK, TypeOK', TableInv, ValidInv, [Next]_vars
  PROVE  ValidInv'
<1>0. /\ Len(keys) \in Nat /\ DOMAIN keys = 1..Len(keys) /\ buckets \in Nat \ {0}
      /\ j \in Nat \ {0} /\ probe \in Probe /\ BucketOf(probe) \in Bucket
  BY KeysType, BucketType DEF TypeOK
<1>1. CASE DoubleBuckets
  <2>1. /\ phase = "size" /\ phase' = "size" /\ keys' = keys
        /\ buckets < WantedBuckets(Len(keys)) /\ buckets' = (2 * buckets) % WordSize
    BY <1>1 DEF DoubleBuckets
  <2>2. 2 * buckets \in Nat /\ 2 * buckets < WordSize
    BY <1>0, <2>1, WantedFact, WordAssumption
  <2>3. buckets' = 2 * buckets
    BY <2>1, <2>2, ModSmall, WordAssumption
  <2>4. buckets' \div 2 = buckets
    BY <1>0, <2>3
  <2>5. SmallestPower'
    BY <2>1, <2>4 DEF SmallestPower
  <2> QED
    BY <2>1, <2>5 DEF ValidInv, Validated, HasTable, Finished
<1>2. CASE Prepare
  <2>1. /\ phase = "size" /\ phase' \in {"populate", "unhashable"} /\ keys' = keys /\ buckets' = buckets
        /\ slotKey' = [b \in Bucket |-> Empty] /\ slotHash' = [b \in Bucket |-> 0]
        /\ slotValue' = [b \in Bucket |-> Empty] /\ buckets >= WantedBuckets(Len(keys))
        /\ phase' = "populate" => \A n \in DOMAIN keys : keys[n] \in Hashable
    BY <1>2 DEF Prepare
  <2>2. SmallestPower'
    BY <2>1 DEF SmallestPower, ValidInv
  <2>3. Bucket' = Bucket
    BY <2>1 DEF Bucket
  <2>4. phase' = "populate" => TableIsSound'
    BY <2>1, <2>3 DEF TableIsSound
  <2> QED
    BY <2>1, <2>2, <2>4 DEF ValidInv, Validated, HasTable, Finished
<1>3. CASE Place
  <2> DEFINE b == BucketOf(probe)
  <2>1. /\ phase = "populate" /\ phase' = "populate" /\ keys' = keys /\ buckets' = buckets
        /\ slotKey' = [slotKey EXCEPT ![b] = keys[j]]
        /\ slotHash' = [slotHash EXCEPT ![b] = CreateHash[keys[j]]]
        /\ slotValue' = [slotValue EXCEPT ![b] = j]
        /\ j \in 1..Len(keys)
    BY <1>0, <1>3 DEF Place, Placing
  <2>2. keys[j] # Empty /\ HasTable /\ TableIsSound /\ SmallestPower
    BY <2>1, KeysType, KeyAssumption DEF ValidInv, HasTable
  <2>3. /\ slotKey \in [Bucket -> Key \cup {Empty}] /\ DOMAIN slotHash = Bucket
        /\ DOMAIN slotValue = Bucket
    BY <2>1 DEF TypeOK
  <2> HIDE DEF b
  <2>4. Bucket' = Bucket /\ b \in Bucket
    BY <1>0, <2>1 DEF Bucket, b
  <2>5. \A c \in Bucket' \ Used' : c \in Bucket \ Used /\ c # b
    BY <2>1, <2>2, <2>3, <2>4 DEF Used
  <2>6. \A c \in Bucket' \ Used' : slotValue'[c] = Empty /\ slotHash'[c] = 0
    BY <2>1, <2>2, <2>3, <2>5 DEF TableIsSound
  <2>7. TableIsSound'
    BY <2>1, <2>2, <2>6 DEF TableIsSound
  <2>8. SmallestPower'
    BY <2>1, <2>2 DEF SmallestPower
  <2> QED
    BY <2>1, <2>7, <2>8 DEF ValidInv, Validated
<1>4. CASE Open
  <2>1. HasTable /\ phase = "built" /\ phase' \in {"validate", "rejected"} /\ query' = Empty
        /\ UNCHANGED <<keys, buckets, slotKey, slotHash, slotValue>>
    BY <1>4 DEF Open, HasTable, Finished
  <2>2. phase' = "rejected" => ~ReadsAsWritten
    BY <1>4, <2>1, WrittenIsWellFormed DEF Open, ValidInv
  <2>3. Validated' = {}
    BY <1>4, <2>1 DEF Open, Validated, Used, Bucket
  <2> QED
    BY <2>1, <2>2, <2>3, SameTable
<1>5. CASE ValidateSlot
  <2>1. /\ phase = "validate" /\ phase' = phase /\ j <= buckets /\ j' = j /\ query' = slotKey[j - 1]
        /\ UNCHANGED <<keys, buckets, slotKey, slotHash, slotValue>>
    BY <1>5 DEF ValidateSlot
  <2>2. j - 1 \in Bucket
    BY <1>0, <2>1 DEF Bucket
  <2>3. Validated' = Validated
    BY <2>1 DEF Validated, Used, Bucket
  <2> QED
    BY <2>1, <2>2, <2>3, SameTable DEF HasTable, Finished, ValidInv
<1>6. CASE (Hit \/ ProbeMiss \/ ProbeFails) /\ phase = "validate"
  <2>1. /\ Probing /\ UNCHANGED <<keys, buckets, slotKey, slotHash, slotValue>>
        /\ phase' \in {"validate", "rejected"} /\ HasTable
    BY <1>6 DEF Hit, ProbeMiss, ProbeFails, ProbeEnds, HasTable, Finished
  <2>2. CASE phase' = "rejected"
    <3>1. ReadsAsWritten => slotKey[BucketOf(probe)] # Empty
                            /\ Found = IF BucketOf(probe) = j - 1 THEN "equal" ELSE "differ"
      BY <1>6, <2>1, ValidatedSlot
    <3>2. ~ReadsAsWritten
      BY <1>6, <2>2, <3>1 DEF Hit, ProbeMiss, ProbeFails
    <3>3. Validated' = {}
      BY <2>2 DEF Validated
    <3> QED BY <2>1, <2>2, <3>2, <3>3, SameTable
  <2>3. CASE phase' = "validate"
    <3>1. /\ BucketOf(probe) = j - 1 /\ j' = j + 1 /\ query' = Empty /\ Found = "equal"
          /\ slotKey[j - 1] = query
      BY <1>6, <2>1, <2>3 DEF Hit, ProbeMiss, ProbeFails, ProbeEnds, ValidInv, Probing
    <3>2. ReadCmp[<<query, query>>] = "equal"
      BY <3>1 DEF Found
    <3>3. Used' = Used /\ \A b \in Used : b \in Nat
      BY <2>1 DEF Used, Bucket
    <3>4. \A b \in Validated' : b \in Validated \/ b = j - 1
      BY <1>0, <1>6, <2>3, <3>1, <3>3 DEF Validated
    <3>5. \A b \in Validated' : ReadCmp[<<slotKey[b], slotKey[b]>>] = "equal"
      BY <3>1, <3>2, <3>4 DEF ValidInv
    <3> QED BY <2>1, <2>3, <3>1, <3>5, SameTable
  <2> QED BY <2>1, <2>2, <2>3
<1>7. CASE (Hit \/ ProbeMiss \/ ProbeFails) /\ phase # "validate"
  <2>1. /\ phase = "lookup" /\ phase' = "ready"
        /\ UNCHANGED <<keys, buckets, slotKey, slotHash, slotValue>>
    BY <1>7 DEF Hit, ProbeMiss, ProbeFails, ProbeEnds, Probing
  <2>2. Validated' = Validated
    BY <2>1 DEF Validated, Used, Bucket
  <2> QED
    BY <2>1, <2>2, SameTable DEF HasTable, Finished, ValidInv
<1>8. CASE OutOfMemory
  <2>1. phase' = "oom"
    BY <1>8 DEF OutOfMemory
  <2> QED
    BY <2>1 DEF ValidInv, Validated, HasTable, Finished
<1>9. ASSUME NEW k \in Key, Lookup(k) PROVE ValidInv'
  <2>1. /\ phase = "ready" /\ phase' = "lookup"
        /\ UNCHANGED <<keys, buckets, slotKey, slotHash, slotValue>>
    BY <1>9 DEF Lookup
  <2>2. Validated' = Validated
    BY <2>1 DEF Validated, Used, Bucket
  <2> QED
    BY <2>1, <2>2, SameTable DEF HasTable, Finished, ValidInv
<1>10. CASE Duplicate \/ Incomparable \/ Finish
  <2>1. /\ phase = "populate" /\ phase' \in {"duplicate", "incomparable", "built"}
        /\ UNCHANGED <<keys, buckets, slotKey, slotHash, slotValue>>
    BY <1>10 DEF Duplicate, Incomparable, Placing, Finish
  <2>2. Validated' = {}
    BY <2>1 DEF Validated
  <2> QED
    BY <2>1, <2>2, SameTable DEF HasTable, Finished
<1>11. CASE ValidateDone
  <2>1. /\ phase = "validate" /\ phase' = "ready" /\ j > buckets
        /\ UNCHANGED <<keys, buckets, slotKey, slotHash, slotValue>>
    BY <1>11 DEF ValidateDone
  <2>2. Validated' = Validated
    BY <1>0, <2>1 DEF Validated, Used, Bucket
  <2> QED
    BY <2>1, <2>2, SameTable DEF HasTable, Finished, ValidInv
<1>12. CASE PlaceOn \/ ProbeOn \/ UNCHANGED vars
  <2>1. /\ phase' = phase /\ query' = query /\ j' = j
        /\ UNCHANGED <<keys, buckets, slotKey, slotHash, slotValue>>
    BY <1>12 DEF PlaceOn, ProbeOn, vars
  <2>2. Validated' = Validated
    BY <2>1 DEF Validated, Used, Bucket
  <2>3. phase' = "validate" /\ query' # Empty =>
            j' - 1 \in Bucket /\ slotKey[j' - 1] = query'
    BY <2>1 DEF ValidInv
  <2> QED
    BY <2>1, <2>2, <2>3, SameTable DEF HasTable, ValidInv
<1>13. CASE ValidateSkip
  <2>1. /\ phase = "validate" /\ phase' = phase /\ query' = Empty /\ j' = j + 1
        /\ slotKey[j - 1] = Empty
        /\ UNCHANGED <<keys, buckets, slotKey, slotHash, slotValue>>
    BY <1>13 DEF ValidateSkip
  <2>2. \A b \in Validated' : b \in Validated
    BY <1>0, <2>1 DEF Validated, Used, Bucket
  <2> QED
    BY <2>1, <2>2, SameTable DEF HasTable, ValidInv
<1> QED
  BY <1>1, <1>2, <1>3, <1>4, <1>5, <1>6, <1>7, <1>8, <1>9, <1>10, <1>11, <1>12, <1>13
     DEF Next, Step

\* What a reader finds when it opens the table that was written.
LEMMA ValidHolds == Spec => []ValidInv
<1>1. Init => ValidInv
  BY DEF Init, ValidInv, Validated, HasTable, Finished, SmallestPower
<1>2. TypeOK /\ TypeOK' /\ TableInv /\ ValidInv /\ [Next]_vars => ValidInv'
  BY ValidStep
<1> QED
  BY <1>1, <1>2, TypeCorrect, TableInvariant, PTL DEF Spec

\* assert(n_buckets > n_keys): a slot stays empty whatever the number of keys, so
\* that the probe for a key that is not there comes to it.
THEOREM SlotsAreLeft == Spec => []SlotStaysEmpty
<1>1. TypeOK /\ TableInv /\ ValidInv => SlotStaysEmpty
  BY SlotLeft DEF SlotStaysEmpty, ValidInv, HasTable
<1> QED
  BY <1>1, TypeCorrect, TableInvariant, ValidHolds, PTL

\* pointless_hash_table_validate accepts what pointless_hash_table_create wrote
\* where the keys read as they were written, and a table that it accepts has no key
\* that a reader hashes otherwise, or finds different from itself.
THEOREM WrittenIsAccepted == Spec => []PopulatedIsValid
<1>1. TypeOK /\ TableInv /\ ValidInv => PopulatedIsValid
  <2> SUFFICES ASSUME TypeOK, TableInv, ValidInv, phase \in {"ready", "lookup"},
                      NEW n \in DOMAIN keys
               PROVE  ReadsBack(n)
    BY DEF PopulatedIsValid, ValidInv
  <2>1. HasTable /\ n \in 1..Placed /\ Validated = Used
    BY KeysType DEF HasTable, Placed, Finished, Validated
  <2>2. PICK b \in Used : slotValue[b] = n
    BY <2>1 DEF TableInv, SlotInv
  <2>3. /\ slotKey[b] = keys[n] /\ slotHash[b] = CreateHash[slotKey[b]]
        /\ slotHash[b] = ReadHash[slotKey[b]] /\ ReadCmp[<<slotKey[b], slotKey[b]>>] = "equal"
    BY <2>1, <2>2 DEF TableInv, SlotInv, HashInv, ValidInv
  <2> QED BY <2>3 DEF ReadsBack
<1> QED
  BY <1>1, TypeCorrect, TableInvariant, ValidHolds, PTL
=============================================================================
