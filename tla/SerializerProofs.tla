-------------------------- MODULE SerializerProofs --------------------------
(***************************************************************************)
(* Proofs about Serializer: whatever a client builds and wherever output   *)
(* fails, except in the middle of the renumbering, everything is freed;    *)
(* the hashes in a file are of the keys as a reader finds them; and a file *)
(* leads a reader to what the client built.                                *)
(*                                                                         *)
(* First what SerializerInv needs: each operation of the client and each   *)
(* step of the output keeps it.  Then, for FaithInv: arrays whose entries  *)
(* are numbered in the order of the handles, the places of things laid one *)
(* after the other, what that means for a reader of the file, and again    *)
(* each operation and each step.  The theorems come last.                  *)
(***************************************************************************)
EXTENDS Serializer, SequenceTheorems, FunctionTheorems, FiniteSetTheorems, WellFoundedInduction, TLAPS

-----------------------------------------------------------------------------
(* Sequences of any values *)

\* The entries of a sequence are in its range.
LEMMA SequenceFacts ==
  ASSUME NEW s, IsSequence(s)
  PROVE  /\ Len(s) \in Nat
         /\ DOMAIN s = 1..Len(s)
         /\ \A n \in DOMAIN s : s[n] \in Range(s)
         /\ s = <<>> <=> Len(s) = 0
  BY EmptySeq DEF IsSequence, Range

\* A sequence over a set is a sequence.
LEMMA SequenceOver ==
  ASSUME NEW S, NEW s \in Seq(S)
  PROVE  IsSequence(s)
<1>1. Len(s) \in Nat /\ DOMAIN s = 1..Len(s) /\ \A n \in 1..Len(s) : s[n] \in Range(s)
  BY DEF Range
<1>2. s = [n \in 1..Len(s) |-> s[n]]
  OBVIOUS
<1> QED
  BY <1>1, <1>2, IsASeq DEF IsSequence

\* A push on a sequence.
LEMMA SequencePush ==
  ASSUME NEW s, IsSequence(s), NEW e
  PROVE  /\ IsSequence(Append(s, e))
         /\ Len(Append(s, e)) = Len(s) + 1
         /\ DOMAIN Append(s, e) = 1..(Len(s) + 1)
         /\ Append(s, e)[Len(s) + 1] = e
         /\ \A n \in 1..Len(s) : Append(s, e)[n] = s[n]
         /\ Append(s, e) # <<>>
<1> DEFINE S == Range(s) \cup {e}
<1>1. s \in Seq(S) /\ e \in S
  <2>1. s \in Seq(Range(s)) /\ Range(s) \subseteq S
    BY DEF IsSequence
  <2> HIDE DEF S
  <2>2. Seq(Range(s)) \subseteq Seq(S)
    BY <2>1
  <2> QED BY <2>1, <2>2 DEF S
<1> HIDE DEF S
<1>2. Append(s, e) \in Seq(S)
  BY <1>1
<1>3. IsSequence(Append(s, e))
  BY <1>2, SequenceOver
<1>4. /\ Len(s) \in Nat
      /\ Len(Append(s, e)) = Len(s) + 1
      /\ DOMAIN Append(s, e) = 1..(Len(s) + 1)
      /\ Append(s, e)[Len(s) + 1] = e
      /\ \A n \in 1..Len(s) : Append(s, e)[n] = s[n]
  BY <1>1
<1>5. Append(s, e) # <<>>
  BY <1>2, <1>4, EmptySeq
<1> QED
  BY <1>3, <1>4, <1>5

\* Two sequences in a row.
LEMMA SequenceConcat ==
  ASSUME NEW s, IsSequence(s), NEW t, IsSequence(t)
  PROVE  /\ IsSequence(s \o t)
         /\ Len(s \o t) = Len(s) + Len(t)
         /\ DOMAIN (s \o t) = 1..(Len(s) + Len(t))
         /\ \A n \in 1..Len(s) : (s \o t)[n] = s[n]
         /\ \A n \in 1..Len(t) : (s \o t)[Len(s) + n] = t[n]
<1> DEFINE S == Range(s) \cup Range(t)
<1>1. s \in Seq(S) /\ t \in Seq(S)
  <2>1. s \in Seq(Range(s)) /\ Range(s) \subseteq S /\ t \in Seq(Range(t)) /\ Range(t) \subseteq S
    BY DEF IsSequence
  <2> HIDE DEF S
  <2>2. Seq(Range(s)) \subseteq Seq(S) /\ Seq(Range(t)) \subseteq Seq(S)
    BY <2>1
  <2> QED BY <2>1, <2>2
<1> HIDE DEF S
<1>2. s \o t \in Seq(S)
  BY <1>1
<1>3. IsSequence(s \o t)
  BY <1>2, SequenceOver
<1>4. /\ Len(s) \in Nat /\ Len(t) \in Nat
      /\ Len(s \o t) = Len(s) + Len(t)
      /\ \A n \in 1..(Len(s) + Len(t)) :
            (s \o t)[n] = IF n <= Len(s) THEN s[n] ELSE t[n - Len(s)]
  BY <1>1, ConcatProperties
<1>5. DOMAIN (s \o t) = 1..(Len(s) + Len(t))
  BY <1>2, <1>4
<1>6. \A n \in 1..Len(s) : (s \o t)[n] = s[n]
  BY <1>4
<1>7. \A n \in 1..Len(t) : (s \o t)[Len(s) + n] = t[n]
  <2>1. ASSUME NEW a \in Nat, NEW b \in Nat, NEW n \in 1..b
        PROVE  a + n \in 1..(a + b) /\ ~(a + n <= a) /\ (a + n) - a = n
    OBVIOUS
  <2> QED BY <1>4, <2>1
<1> QED
  BY <1>3, <1>4, <1>5, <1>6, <1>7

\* One entry of a sequence is replaced.
LEMMA SequenceUpdate ==
  ASSUME NEW s, IsSequence(s), NEW k, NEW e
  PROVE  /\ IsSequence([s EXCEPT ![k] = e])
         /\ Len([s EXCEPT ![k] = e]) = Len(s)
         /\ DOMAIN [s EXCEPT ![k] = e] = DOMAIN s
         /\ \A n \in DOMAIN s : [s EXCEPT ![k] = e][n] = IF n = k THEN e ELSE s[n]
<1> DEFINE u == [s EXCEPT ![k] = e]
<1>1. Len(s) \in Nat /\ DOMAIN s = 1..Len(s)
  BY SequenceFacts
<1>2. u = [n \in 1..Len(s) |-> IF n = k THEN e ELSE s[n]]
  BY <1>1
<1>3. u \in Seq(Range(u)) /\ Len(u) = Len(s)
  <2>1. \A n \in 1..Len(s) : u[n] \in Range(u)
    BY <1>2 DEF Range
  <2>2. u \in [1..Len(s) -> Range(u)]
    BY <1>2, <2>1
  <2> HIDE DEF u
  <2> QED BY <1>1, <2>2
<1> QED
  BY <1>1, <1>2, <1>3 DEF IsSequence

\* The values a client creates are typed.
AnyType == PrimVector \cup ValueVector \cup TableType \cup BlobType \cup InlineType
           \cup {"VECTOR_EMPTY", "SLOT"}

\* A new value is well typed.
LEMMA NewValueType ==
  ASSUME NEW t \in AnyType, NEW d \in Int
  PROVE  /\ NewValue(t, d) \in ValueRecord
         /\ NewValue(t, d).type = t /\ NewValue(t, d).data = d
         /\ NewValue(t, d).outside = FALSE /\ NewValue(t, d).setmap = FALSE
  BY DEF NewValue, ValueRecord, AnyType

\* What TypeOK says of the sequences.
LEMMA TypeFacts ==
  ASSUME TypeOK
  PROVE  /\ NValues \in Nat /\ DOMAIN object = 1..NValues
         /\ Len(values) \in Nat /\ DOMAIN values = 1..Len(values)
         /\ 1..NValues \subseteq DOMAIN values
         /\ \A h \in DOMAIN values : values[h] \in ValueRecord
         /\ Len(privs) \in Nat /\ DOMAIN privs = 1..Len(privs)
         /\ Len(spare) \in Nat /\ DOMAIN spare = 1..Len(spare)
         /\ Len(outs) \in Nat /\ DOMAIN outs = 1..Len(outs)
         /\ IsSequence(values)
         /\ Mine \subseteq 1..NValues
<1>1. NValues \in Nat /\ DOMAIN object = 1..NValues
  BY SequenceFacts DEF TypeOK, NValues
<1>2. /\ Len(values) \in Nat /\ DOMAIN values = 1..Len(values)
      /\ \A h \in DOMAIN values : values[h] \in ValueRecord
      /\ IsSequence(values)
  BY SequenceOver DEF TypeOK
<1>3. 1..NValues \subseteq DOMAIN values
  <2>1. Len(values) \in {NValues, NValues + 1}
    BY DEF TypeOK
  <2>2. ASSUME NEW a \in Nat, NEW b \in {a, a + 1} PROVE 1..a \subseteq 1..b
    OBVIOUS
  <2>3. 1..NValues \subseteq 1..Len(values)
    BY <1>1, <2>1, <2>2
  <2> QED BY <1>2, <2>3
<1>4. /\ Len(privs) \in Nat /\ DOMAIN privs = 1..Len(privs)
      /\ Len(spare) \in Nat /\ DOMAIN spare = 1..Len(spare)
      /\ Len(outs) \in Nat /\ DOMAIN outs = 1..Len(outs)
  BY SequenceFacts DEF TypeOK, IsVectorList
<1> QED
  BY <1>1, <1>2, <1>3, <1>4 DEF Mine

\* The phases in which the client builds have no empty slot yet.
LEMMA EmptySequence == IsSequence(<<>>) /\ Len(<<>>) = 0 /\ DOMAIN <<>> = {}
<1>1. Len(<<>>) = 0 /\ DOMAIN <<>> = {}
  OBVIOUS
<1>2. <<>> \in Seq(Range(<<>>))
  OBVIOUS
<1> QED
  BY <1>1, <1>2 DEF IsSequence

\* Lists of vectors stay so.
LEMMA VectorListPush ==
  ASSUME NEW ps, IsVectorList(ps), NEW e, DOMAIN e = {"owner", "items"}, IsSequence(e.items)
  PROVE  IsVectorList(Append(ps, e))
<1>1. /\ IsSequence(ps) /\ IsSequence(Append(ps, e))
      /\ Len(ps) \in Nat /\ DOMAIN ps = 1..Len(ps)
      /\ DOMAIN Append(ps, e) = 1..(Len(ps) + 1)
      /\ Append(ps, e)[Len(ps) + 1] = e
      /\ \A n \in 1..Len(ps) : Append(ps, e)[n] = ps[n]
  BY SequencePush, SequenceFacts DEF IsVectorList
<1>2. \A n \in 1..(Len(ps) + 1) : n = Len(ps) + 1 \/ n \in 1..Len(ps)
  BY <1>1
<1>3. \A n \in 1..Len(ps) : DOMAIN ps[n] = {"owner", "items"} /\ IsSequence(ps[n].items)
  BY <1>1 DEF IsVectorList
<1> QED
  BY <1>1, <1>2, <1>3 DEF IsVectorList

\* Several more vectors.
LEMMA VectorListConcat ==
  ASSUME NEW ps, IsVectorList(ps), NEW qs, IsVectorList(qs)
  PROVE  IsVectorList(ps \o qs)
<1>1. /\ IsSequence(ps \o qs)
      /\ Len(ps) \in Nat /\ DOMAIN ps = 1..Len(ps)
      /\ Len(qs) \in Nat /\ DOMAIN qs = 1..Len(qs)
      /\ DOMAIN (ps \o qs) = 1..(Len(ps) + Len(qs))
      /\ \A n \in 1..Len(ps) : (ps \o qs)[n] = ps[n]
      /\ \A n \in 1..Len(qs) : (ps \o qs)[Len(ps) + n] = qs[n]
  BY SequenceConcat, SequenceFacts DEF IsVectorList
<1>2. ASSUME NEW n \in 1..(Len(ps) + Len(qs))
      PROVE  n \in 1..Len(ps) \/ \E m \in 1..Len(qs) : n = Len(ps) + m
  <2>1. n \in 1..Len(ps) \/ (n - Len(ps) \in 1..Len(qs) /\ n = Len(ps) + (n - Len(ps)))
    BY <1>1
  <2> QED BY <2>1
<1>3. /\ \A n \in 1..Len(ps) : DOMAIN ps[n] = {"owner", "items"} /\ IsSequence(ps[n].items)
      /\ \A n \in 1..Len(qs) : DOMAIN qs[n] = {"owner", "items"} /\ IsSequence(qs[n].items)
  BY <1>1 DEF IsVectorList
<1>4. ASSUME NEW n \in DOMAIN (ps \o qs)
      PROVE  DOMAIN (ps \o qs)[n] = {"owner", "items"} /\ IsSequence((ps \o qs)[n].items)
  <2>1. CASE n \in 1..Len(ps)
    BY <1>1, <1>3, <2>1
  <2>2. CASE \E m \in 1..Len(qs) : n = Len(ps) + m
    <3>1. PICK m \in 1..Len(qs) : n = Len(ps) + m
      BY <2>2
    <3>2. (ps \o qs)[n] = qs[m]
      BY <1>1, <3>1
    <3> QED BY <1>3, <3>2
  <2> QED BY <1>1, <1>2, <2>1, <2>2
<1> QED
  BY <1>1, <1>4 DEF IsVectorList

\* A vector of a list is replaced, or its items are.
LEMMA VectorListUpdate ==
  ASSUME NEW ps, IsVectorList(ps), NEW k, NEW e,
         DOMAIN e = {"owner", "items"}, IsSequence(e.items)
  PROVE  IsVectorList([ps EXCEPT ![k] = e])
<1>1. IsSequence([ps EXCEPT ![k] = e])
      /\ DOMAIN [ps EXCEPT ![k] = e] = DOMAIN ps
      /\ \A n \in DOMAIN ps : [ps EXCEPT ![k] = e][n] = IF n = k THEN e ELSE ps[n]
  BY SequenceUpdate DEF IsVectorList
<1> QED
  BY <1>1 DEF IsVectorList

-----------------------------------------------------------------------------
(* Types *)

\* The fields of a value.
LEMMA ValueFields ==
  ASSUME NEW v \in ValueRecord
  PROVE  /\ v.type \in AnyType /\ v.data \in Int
         /\ v.outside \in BOOLEAN /\ v.setmap \in BOOLEAN /\ v.compressed \in BOOLEAN
         /\ \A t \in AnyType : /\ [v EXCEPT !.type = t] \in ValueRecord
                               /\ [v EXCEPT !.type = t].type = t
                               /\ [v EXCEPT !.type = t].data = v.data
                               /\ [v EXCEPT !.type = t].outside = v.outside
                               /\ [v EXCEPT !.type = t].setmap = v.setmap
                               /\ [v EXCEPT !.type = t].compressed = v.compressed
         /\ \A d \in Int : /\ [v EXCEPT !.data = d] \in ValueRecord
                           /\ [v EXCEPT !.data = d].data = d
                           /\ [v EXCEPT !.data = d].type = v.type
                           /\ [v EXCEPT !.data = d].outside = v.outside
                           /\ [v EXCEPT !.data = d].setmap = v.setmap
                           /\ [v EXCEPT !.data = d].compressed = v.compressed
         /\ \A b \in BOOLEAN : /\ [v EXCEPT !.setmap = b] \in ValueRecord
                               /\ [v EXCEPT !.setmap = b].setmap = b
                               /\ [v EXCEPT !.setmap = b].type = v.type
                               /\ [v EXCEPT !.setmap = b].data = v.data
                               /\ [v EXCEPT !.setmap = b].outside = v.outside
         /\ \A b \in BOOLEAN : /\ [v EXCEPT !.outside = b] \in ValueRecord
                               /\ [v EXCEPT !.outside = b].outside = b
                               /\ [v EXCEPT !.outside = b].type = v.type
                               /\ [v EXCEPT !.outside = b].data = v.data
                               /\ [v EXCEPT !.outside = b].setmap = v.setmap
         /\ \A b \in BOOLEAN : /\ [v EXCEPT !.compressed = b] \in ValueRecord
                               /\ [v EXCEPT !.compressed = b].type = v.type
                               /\ [v EXCEPT !.compressed = b].compressed = b
                               /\ [v EXCEPT !.compressed = b].data = v.data
                               /\ [v EXCEPT !.compressed = b].outside = v.outside
                               /\ [v EXCEPT !.compressed = b].setmap = v.setmap
<1> DEFINE A == AnyType
<1>1. ValueRecord = [type : A, data : Int, outside : BOOLEAN, setmap : BOOLEAN, compressed : BOOLEAN]
  BY DEF ValueRecord, AnyType
<1> HIDE DEF A
<1>2. v.type \in A /\ v.data \in Int
      /\ v.outside \in BOOLEAN /\ v.setmap \in BOOLEAN /\ v.compressed \in BOOLEAN
  BY <1>1
<1>3. \A t \in A : /\ [v EXCEPT !.type = t] \in ValueRecord
                   /\ [v EXCEPT !.type = t].type = t
                   /\ [v EXCEPT !.type = t].data = v.data
                   /\ [v EXCEPT !.type = t].outside = v.outside
                   /\ [v EXCEPT !.type = t].setmap = v.setmap
                   /\ [v EXCEPT !.type = t].compressed = v.compressed
  BY <1>1
<1>4. \A d \in Int : /\ [v EXCEPT !.data = d] \in ValueRecord
                     /\ [v EXCEPT !.data = d].data = d
                     /\ [v EXCEPT !.data = d].type = v.type
                     /\ [v EXCEPT !.data = d].outside = v.outside
                     /\ [v EXCEPT !.data = d].setmap = v.setmap
                     /\ [v EXCEPT !.data = d].compressed = v.compressed
  BY <1>1
<1>5. \A b \in BOOLEAN : /\ [v EXCEPT !.setmap = b] \in ValueRecord
                         /\ [v EXCEPT !.setmap = b].setmap = b
                         /\ [v EXCEPT !.setmap = b].type = v.type
                         /\ [v EXCEPT !.setmap = b].data = v.data
                         /\ [v EXCEPT !.setmap = b].outside = v.outside
  BY <1>1
<1>6. \A b \in BOOLEAN : /\ [v EXCEPT !.outside = b] \in ValueRecord
                         /\ [v EXCEPT !.outside = b].outside = b
                         /\ [v EXCEPT !.outside = b].type = v.type
                         /\ [v EXCEPT !.outside = b].data = v.data
                         /\ [v EXCEPT !.outside = b].setmap = v.setmap
  BY <1>1
<1>7. \A b \in BOOLEAN : /\ [v EXCEPT !.compressed = b] \in ValueRecord
                         /\ [v EXCEPT !.compressed = b].type = v.type
                         /\ [v EXCEPT !.compressed = b].compressed = b
                         /\ [v EXCEPT !.compressed = b].data = v.data
                         /\ [v EXCEPT !.compressed = b].outside = v.outside
                         /\ [v EXCEPT !.compressed = b].setmap = v.setmap
  BY <1>1
<1> QED
  BY <1>2, <1>3, <1>4, <1>5, <1>6, <1>7 DEF A

\* One more value and one more thing.
LEMMA TypeOneMore ==
  ASSUME TypeOK, phase = "build", phase' = phase, i' = i, count' = count, spare' = spare,
         root' = root, NEW v \in ValueRecord, values' = Append(values, v),
         NEW o, DOMAIN o = {"kind", "holds"}, o.kind \in Kind, IsSequence(o.holds),
         object' = Append(object, o),
         IsVectorList(privs'), IsSequence(outs'), tables' \in [TableType -> Seq(TableRecord)],
         blobs' \in [{"text", "bits"} -> Seq(Blob)]
  PROVE  /\ TypeOK'
         /\ NValues' = NValues + 1
         /\ values'[NValues + 1] = v /\ object'[NValues + 1] = o
         /\ \A h \in 1..NValues : values'[h] = values[h] /\ object'[h] = object[h]
<1>1. /\ NValues \in Nat /\ DOMAIN object = 1..NValues /\ Len(values) = NValues
      /\ IsSequence(object) /\ values \in Seq(ValueRecord) /\ NValues = Len(object)
  BY TypeFacts DEF TypeOK, NValues
<1>2. /\ IsSequence(object') /\ DOMAIN object' = 1..(NValues + 1)
      /\ NValues' = NValues + 1 /\ object'[NValues + 1] = o
      /\ \A h \in 1..NValues : object'[h] = object[h]
  BY <1>1, SequencePush DEF NValues
<1>3. /\ values' \in Seq(ValueRecord) /\ Len(values') = NValues + 1
      /\ values'[NValues + 1] = v
      /\ \A h \in 1..NValues : values'[h] = values[h]
  BY <1>1
<1>4. \A h \in DOMAIN object' : /\ DOMAIN object'[h] = {"kind", "holds"}
                                /\ object'[h].kind \in Kind
                                /\ IsSequence(object'[h].holds)
  <2> TAKE h \in DOMAIN object'
  <2>1. h = NValues + 1 \/ h \in 1..NValues
    BY <1>1, <1>2
  <2>2. CASE h = NValues + 1
    BY <1>2, <2>2
  <2>3. CASE h \in 1..NValues
    BY <1>1, <1>2, <2>3 DEF TypeOK
  <2> QED BY <2>1, <2>2, <2>3
<1>5. root' \in 0..NValues'
  BY <1>1, <1>2 DEF TypeOK
<1>6. TypeOK'
  BY <1>2, <1>3, <1>4, <1>5 DEF TypeOK
<1> QED
  BY <1>2, <1>3, <1>6

-----------------------------------------------------------------------------
(* The client *)

\* What the client adds, other than sets and maps, leaves what there was alone.
LEMMA Grow ==
  ASSUME SerializerInv, TypeOK', phase = "build", phase' = "build",
         count' = count, spare' = spare, tables' = tables,
         NValues <= NValues',
         \A h \in 1..NValues : values'[h] = values[h] /\ object'[h] = object[h],
         \A p \in DOMAIN privs : p \in DOMAIN privs' /\ privs'[p] = privs[p],
         \A p \in DOMAIN outs : p \in DOMAIN outs' /\ outs'[p] = outs[p],
         \A h \in 1..NValues' : h > NValues =>
            /\ values'[h].type \notin TableType
            /\ HandleOK(h)' /\ VectorOK(h)',
         live' \subseteq live \cup {<<"blob", h>> : h \in {u \in 1..NValues' : values'[u].type \in BlobType}}
  PROVE  SerializerInv'
<1>1. /\ NValues \in Nat /\ NValues' \in Nat
      /\ 1..NValues \subseteq 1..NValues'
      /\ \A h \in 1..NValues' : h \in 1..NValues \/ h > NValues
  <2>1. NValues \in Nat
    BY TypeFacts DEF SerializerInv
  <2>2. NValues' \in Nat
    BY SequenceFacts DEF TypeOK, NValues
  <2>3. ASSUME NEW a \in Nat, NEW b \in Nat, a <= b
        PROVE  1..a \subseteq 1..b /\ \A h \in 1..b : h \in 1..a \/ h > a
    BY <2>3
  <2> QED BY <2>1, <2>2, <2>3
<1>2. HandleInv'
  <2>1. ASSUME NEW h \in 1..NValues PROVE HandleOK(h)'
    <3>1. HandleOK(h)
      BY DEF SerializerInv, HandleInv
    <3> QED BY <3>1 DEF HandleOK, IsVector, IsEmpty
  <2> QED BY <1>1, <2>1 DEF HandleInv
<1>3. VectorInv'
  <2>1. ASSUME NEW h \in 1..NValues PROVE VectorOK(h)'
    <3>1. VectorOK(h)
      BY DEF SerializerInv, VectorInv
    <3> QED BY <3>1 DEF VectorOK, IsPrivVector, Home
  <2> QED BY <1>1, <2>1 DEF VectorInv
<1>4. /\ Tables' = Tables
      /\ \A h \in Tables : h \in 1..NValues /\ values'[h] = values[h]
  BY <1>1 DEF Tables
<1>5. NumberInv'
  BY <1>4 DEF SerializerInv, NumberInv, TablesAreNumbered
<1>6. Mine \subseteq Mine'
  <2>1. DOMAIN object = 1..NValues /\ DOMAIN object' = 1..NValues'
    BY TypeFacts, SequenceFacts DEF SerializerInv, TypeOK, NValues
  <2> QED BY <1>1, <2>1 DEF Mine
<1>7. PartInv'
  <2>1. \A h \in Tables : TableOf(h)' = TableOf(h)
    BY <1>4 DEF TableOf
  <2>2. ASSUME NEW p \in 1..NValues, IsPrivVector(p), values[p].setmap, object[p].kind = "internal"
        PROVE  p \in 1..NValues' /\ IsPrivVector(p)' /\ values'[p].setmap /\ object'[p].kind = "internal"
    BY <1>1, <2>2 DEF IsPrivVector
  <2> QED BY <1>4, <1>6, <2>1, <2>2 DEF SerializerInv, PartInv
<1>8. LiveInv'
  <2>1. live \subseteq Kept
    BY DEF SerializerInv, LiveInv
  <2>2. Kept \subseteq Kept'
    <3>1. ASSUME NEW u \in 1..NValues
          PROVE  u \in 1..NValues' /\ values'[u] = values[u] /\ object'[u] = object[u]
                 /\ (IsPrivVector(u) => IsPrivVector(u)')
      BY <1>1 DEF IsPrivVector
    <3> QED BY <1>4, <3>1 DEF Kept
  <2>3. {<<"blob", h>> : h \in {u \in 1..NValues' : values'[u].type \in BlobType}} \subseteq Kept'
    BY DEF Kept
  <2> QED BY <2>1, <2>2, <2>3 DEF LiveInv
<1>9. HashInv'
  BY DEF HashInv, LaidOut
<1> QED
  BY <1>2, <1>3, <1>5, <1>7, <1>8, <1>9 DEF SerializerInv


\* The step adds handle g, which is not of a set or map, with value v and thing o.
AddsHandle(g, v, o) ==
  /\ phase = "build" /\ phase' = phase /\ i' = i /\ count' = count
  /\ spare' = spare /\ root' = root /\ tables' = tables
  /\ blobs' \in [{"text", "bits"} -> Seq(Blob)]
  /\ values' = Append(values, v) /\ v \in ValueRecord /\ v.type \notin TableType
  /\ object' = Append(object, o)
  /\ DOMAIN o = {"kind", "holds"} /\ o.kind \in Kind /\ IsSequence(o.holds)
  /\ IsVectorList(privs') /\ \A p \in DOMAIN privs : p \in DOMAIN privs' /\ privs'[p] = privs[p]
  /\ IsSequence(outs') /\ \A p \in DOMAIN outs : p \in DOMAIN outs' /\ outs'[p] = outs[p]
  /\ g = NValues + 1
  /\ values'[g] = v /\ object'[g] = o => HandleOK(g)' /\ VectorOK(g)'
  /\ \A x \in live' : x \in live \/ (v.type \in BlobType /\ x = <<"blob", g>>)

\* One more value keeps the invariant.
LEMMA GrowOne ==
  ASSUME SerializerInv, NEW g, NEW v, NEW o, AddsHandle(g, v, o)
  PROVE  SerializerInv'
<1> USE DEF AddsHandle
<1>1. TypeOK /\ tables' \in [TableType -> Seq(TableRecord)]
  BY DEF SerializerInv, TypeOK
<1>2. /\ TypeOK'
      /\ NValues' = NValues + 1
      /\ values'[NValues + 1] = v /\ object'[NValues + 1] = o
      /\ \A h \in 1..NValues : values'[h] = values[h] /\ object'[h] = object[h]
  BY <1>1, TypeOneMore
<1>3. NValues \in Nat /\ NValues <= NValues' /\ g \in 1..NValues' /\ \A h \in 1..NValues' : h > NValues => h = g
  BY <1>1, <1>2, TypeFacts
<1>4. \A h \in 1..NValues' : h > NValues =>
         values'[h].type \notin TableType /\ HandleOK(h)' /\ VectorOK(h)'
  <2> TAKE h \in 1..NValues'
  <2> HAVE h > NValues
  <2>1. h = g /\ values'[h] = v /\ object'[h] = o
    BY <1>2, <1>3
  <2>2. (values'[h] = v /\ object'[h] = o) => HandleOK(h)' /\ VectorOK(h)'
    BY <2>1
  <2> QED BY <2>1, <2>2
<1>5. live' \subseteq live \cup {<<"blob", h>> : h \in {u \in 1..NValues' : values'[u].type \in BlobType}}
  BY <1>2, <1>3
<1> QED
  BY <1>1, <1>2, <1>3, <1>4, <1>5, Grow

\* What the client is told of a handle.
LEMMA ThingFacts ==
  ASSUME NEW k \in Kind, NEW x, IsSequence(x)
  PROVE  /\ DOMAIN Thing(k, x) = {"kind", "holds"} /\ Thing(k, x).kind \in Kind
         /\ Thing(k, x).kind = k /\ Thing(k, x).holds = x /\ IsSequence(Thing(k, x).holds)
  BY DEF Thing

\* A sequence of one item.
LEMMA OneItem == \A x : IsSequence(<<x>>)
<1> TAKE x
<1>1. <<x>> \in Seq({x})
  OBVIOUS
<1> QED BY <1>1, SequenceOver

\* Inline values.
LEMMA InlineIsKept ==
  ASSUME SerializerInv, NEW v \in Inline, CreateInline(v)
  PROVE  SerializerInv'
<1> DEFINE n == NewValue(v.type, v.data)
           o == Thing("inline", <<v>>)
           g == NValues + 1
<1>1. /\ phase = "build" /\ phase' = phase /\ i' = i /\ count' = count /\ spare' = spare /\ root' = root
      /\ values' = Append(values, n) /\ object' = Append(object, o)
      /\ privs' = privs /\ outs' = outs /\ blobs' = blobs /\ tables' = tables /\ live' = live
  BY DEF CreateInline, RoomFor, output
<1>2. v.type \in InlineType /\ v.data \in Int
  BY InlineAssumption
<1>3. n \in ValueRecord /\ n.type = v.type /\ n.outside = FALSE
  <2>1. v.type \in AnyType
    BY <1>2 DEF AnyType
  <2> QED BY <1>2, <2>1, NewValueType
<1>4. DOMAIN o = {"kind", "holds"} /\ o.kind = "inline" /\ o.kind \in Kind /\ IsSequence(o.holds)
  BY OneItem, ThingFacts DEF Kind
<1> HIDE DEF n, o
<1>5. IsVectorList(privs') /\ IsSequence(outs') /\ blobs' \in [{"text", "bits"} -> Seq(Blob)]
  BY <1>1 DEF SerializerInv, TypeOK
<1>6. n.type \notin TableType
  BY <1>2, <1>3 DEF InlineType, TableType
<1>7. PICK h : h = NValues + 1
  OBVIOUS
<1>8. values'[h] = n /\ object'[h] = o => HandleOK(h)' /\ VectorOK(h)'
  BY <1>2, <1>3, <1>4
  DEF HandleOK, VectorOK, IsPrivVector, InlineType, PrimVector, ValueVector
<1>9. AddsHandle(h, n, o)
  BY <1>1, <1>3, <1>4, <1>5, <1>6, <1>7, <1>8 DEF AddsHandle
<1> QED
  BY <1>9, GrowOne

\* Strings, unicodes and bitvectors.
LEMMA BlobIsKept ==
  ASSUME SerializerInv, NEW b \in Blob, NEW normalize, CreateBlob(b, normalize)
  PROVE  SerializerInv'
<1> DEFINE p == Pool(b.type)
           n == NewValue(b.type, Len(blobs[p]))
           o == Thing("blob", <<b>>)
<1>1. /\ phase = "build" /\ phase' = phase /\ i' = i /\ count' = count /\ spare' = spare /\ root' = root
      /\ values' = Append(values, n) /\ object' = Append(object, o)
      /\ blobs' = [blobs EXCEPT ![p] = Append(blobs[p], b)]
      /\ live' = live \cup {<<"blob", Len(values) + 1>>}
      /\ privs' = privs /\ outs' = outs /\ tables' = tables
  BY DEF CreateBlob, RoomFor, output
<1>2. b.type \in BlobType /\ p \in {"text", "bits"}
  BY BlobAssumption DEF Pool
<1>3. blobs \in [{"text", "bits"} -> Seq(Blob)]
  BY DEF SerializerInv, TypeOK
<1> HIDE DEF p
<1>4. Len(blobs[p]) \in Int /\ Append(blobs[p], b) \in Seq(Blob)
  BY <1>2, <1>3
<1>5. n \in ValueRecord /\ n.type = b.type /\ n.outside = FALSE
  <2>1. b.type \in AnyType
    BY <1>2 DEF AnyType
  <2> QED BY <1>4, <2>1, NewValueType
<1>6. DOMAIN o = {"kind", "holds"} /\ o.kind = "blob" /\ o.kind \in Kind /\ IsSequence(o.holds)
  BY OneItem, ThingFacts DEF Kind
<1> HIDE DEF n, o
<1>7. IsVectorList(privs') /\ IsSequence(outs') /\ blobs' \in [{"text", "bits"} -> Seq(Blob)]
  BY <1>1, <1>2, <1>3, <1>4 DEF SerializerInv, TypeOK
<1>8. n.type \notin TableType /\ n.type \in BlobType
  BY <1>2, <1>5 DEF BlobType, TableType
<1>9. Len(values) = NValues
  BY <1>1 DEF SerializerInv, TypeOK
<1>10. PICK h : h = NValues + 1
  OBVIOUS
<1>11. values'[h] = n /\ object'[h] = o => HandleOK(h)' /\ VectorOK(h)'
  BY <1>2, <1>5, <1>6
  DEF HandleOK, VectorOK, IsPrivVector, BlobType, PrimVector, ValueVector
<1>12. live' = live \cup {<<"blob", h>>}
  BY <1>1, <1>9, <1>10
<1>13. /\ phase = "build" /\ phase' = phase /\ i' = i /\ count' = count /\ spare' = spare /\ root' = root
      /\ values' = Append(values, n) /\ object' = Append(object, o) /\ tables' = tables
      /\ (\A x \in live' : x \in live \/ (n.type \in BlobType /\ x = <<"blob", h>>))
      /\ (\A q \in DOMAIN privs : q \in DOMAIN privs' /\ privs'[q] = privs[q])
      /\ (\A q \in DOMAIN outs : q \in DOMAIN outs' /\ outs'[q] = outs[q])
  BY <1>1, <1>8, <1>12
<1>14. AddsHandle(h, n, o)
  BY <1>5, <1>6, <1>7, <1>8, <1>10, <1>11, <1>13 DEF AddsHandle
<1> QED
  BY <1>14, GrowOne

\* An empty vector of the library's.
LEMMA VectorIsKept ==
  ASSUME SerializerInv, NEW t \in Native \cup {"VECTOR_VALUE"}, CreateVector(t)
  PROVE  SerializerInv'
<1> DEFINE n == NewValue(t, Len(privs))
           k == IF t = "VECTOR_VALUE" THEN "vector" ELSE "native"
           o == Thing(k, <<>>)
           e == [owner |-> Len(values) + 1, items |-> <<>>]
<1>1. /\ phase = "build" /\ phase' = phase /\ i' = i /\ count' = count /\ spare' = spare /\ root' = root
      /\ values' = Append(values, n) /\ object' = Append(object, o)
      /\ privs' = Append(privs, e) /\ blobs' = blobs
      /\ outs' = outs /\ tables' = tables /\ live' = live
  BY DEF CreateVector, RoomFor, output
<1>2. t \in PrimVector \cup ValueVector
  BY VectorAssumption DEF ValueVector
<1>3. TypeOK /\ Len(privs) \in Nat /\ DOMAIN privs = 1..Len(privs) /\ IsSequence(privs) /\ IsVectorList(privs)
  BY TypeFacts DEF SerializerInv, TypeOK, IsVectorList
<1>4. n \in ValueRecord /\ n.type = t /\ n.data = Len(privs) /\ n.outside = FALSE /\ n.setmap = FALSE
  <2>1. PICK d : d = Len(privs)
    OBVIOUS
  <2>2. t \in AnyType /\ d \in Int
    BY <1>2, <1>3, <2>1 DEF AnyType
  <2>3. /\ NewValue(t, d) \in ValueRecord /\ NewValue(t, d).type = t /\ NewValue(t, d).data = d
        /\ NewValue(t, d).outside = FALSE /\ NewValue(t, d).setmap = FALSE
    BY <2>2, NewValueType
  <2> QED BY <2>1, <2>3
<1>5. k \in {"vector", "native"} /\ k \in Kind
  BY DEF Kind
<1>6. DOMAIN o = {"kind", "holds"} /\ o.kind = k /\ o.holds = <<>> /\ IsSequence(o.holds)
  BY <1>5, EmptySequence, ThingFacts
<1>7. DOMAIN e = {"owner", "items"} /\ IsSequence(e.items) /\ e.owner = Len(values) + 1 /\ e.items = <<>>
  BY EmptySequence
<1> HIDE DEF n, o, k, e
<1>8. /\ IsVectorList(privs')
      /\ DOMAIN privs' = 1..(Len(privs) + 1) /\ privs'[Len(privs) + 1] = e
      /\ \A p \in 1..Len(privs) : privs'[p] = privs[p]
  BY <1>1, <1>3, <1>7, VectorListPush, SequencePush
<1>9. \A p \in DOMAIN privs : p \in DOMAIN privs' /\ privs'[p] = privs[p]
  BY <1>3, <1>8
<1>10. IsSequence(outs') /\ blobs' \in [{"text", "bits"} -> Seq(Blob)]
  BY <1>1 DEF SerializerInv, TypeOK
<1>11. n.type \notin TableType /\ n.type \notin InlineType /\ n.type \notin BlobType
  BY <1>2, <1>4 DEF TableType, PrimVector, ValueVector, InlineType, BlobType
<1>12. Len(values) = NValues
  BY <1>1 DEF SerializerInv, TypeOK
<1>13. PICK h : h = NValues + 1
  OBVIOUS
<1>14. values'[h] = n /\ object'[h] = o => HandleOK(h)' /\ VectorOK(h)'
  <2> SUFFICES ASSUME values'[h] = n, object'[h] = o PROVE HandleOK(h)' /\ VectorOK(h)'
    OBVIOUS
  <2>1. HandleOK(h)'
    BY <1>2, <1>4, <1>5, <1>6, <1>11 DEF HandleOK, IsVector
  <2>2. values'[h].data + 1 \in DOMAIN privs' /\ privs'[values'[h].data + 1] = e
    BY <1>3, <1>4, <1>8
  <2>3. e.owner = h /\ e.items = object'[h].holds
    BY <1>6, <1>7, <1>12, <1>13
  <2> QED BY <1>1, <2>1, <2>2, <2>3 DEF VectorOK, Home
<1>15. /\ phase = "build" /\ phase' = phase /\ i' = i /\ count' = count /\ spare' = spare /\ root' = root
      /\ values' = Append(values, n) /\ object' = Append(object, o) /\ tables' = tables
      /\ (\A x \in live' : x \in live \/ (n.type \in BlobType /\ x = <<"blob", h>>))
      /\ (\A q \in DOMAIN privs : q \in DOMAIN privs' /\ privs'[q] = privs[q])
      /\ (\A q \in DOMAIN outs : q \in DOMAIN outs' /\ outs'[q] = outs[q])
  BY <1>1, <1>9
<1>16. IsVectorList(privs') /\ o.kind \in Kind
  BY <1>5, <1>6, <1>8
<1>17. AddsHandle(h, n, o)
  BY <1>4, <1>6, <1>10, <1>11, <1>13, <1>14, <1>15, <1>16 DEF AddsHandle
<1> QED
  BY <1>17, GrowOne

\* A vector in a buffer of the caller's.
LEMMA OutsideIsKept ==
  ASSUME SerializerInv, NEW t \in Native, NEW items \in Seq(NativeItem), CreateOutside(t, items)
  PROVE  SerializerInv'
<1>1. /\ phase = "build" /\ phase' = phase /\ i' = i /\ count' = count /\ spare' = spare /\ root' = root
      /\ object' = Append(object, Thing("native", items))
      /\ privs' = privs /\ blobs' = blobs /\ tables' = tables /\ live' = live
  BY DEF CreateOutside, RoomFor, output
<1>2. TypeOK /\ IsVectorList(privs') /\ blobs' \in [{"text", "bits"} -> Seq(Blob)] /\ IsSequence(outs)
      /\ Len(outs) \in Nat /\ DOMAIN outs = 1..Len(outs)
  BY <1>1, TypeFacts DEF SerializerInv, TypeOK
<1> DEFINE o == Thing("native", items)
<1>3. DOMAIN o = {"kind", "holds"} /\ o.kind = "native" /\ o.kind \in Kind /\ o.holds = items /\ IsSequence(o.holds)
  BY ThingFacts, SequenceOver DEF Kind
<1> HIDE DEF o
<1>4. PICK h : h = NValues + 1
  OBVIOUS
<1>5. CASE items = <<>>
  <2> DEFINE n == NewValue("VECTOR_EMPTY", 0)
  <2>1. values' = Append(values, n) /\ outs' = outs
    BY <1>5 DEF CreateOutside
  <2>2. n \in ValueRecord /\ n.type = "VECTOR_EMPTY" /\ n.outside = FALSE /\ n.setmap = FALSE
    <3>1. "VECTOR_EMPTY" \in AnyType /\ 0 \in Int
      BY DEF AnyType
    <3> QED BY ZenonT(30), <3>1, NewValueType
  <2> HIDE DEF n
  <2>3. n.type \notin TableType
    BY <2>2 DEF TableType
  <2>4. values'[h] = n /\ object'[h] = o => HandleOK(h)' /\ VectorOK(h)'
    BY <1>3, <1>5, <2>2 DEF HandleOK, VectorOK, IsPrivVector, IsEmpty, PrimVector, ValueVector
  <2>5. /\ phase = "build" /\ phase' = phase /\ i' = i /\ count' = count /\ spare' = spare /\ root' = root
        /\ values' = Append(values, n) /\ object' = Append(object, o) /\ tables' = tables
        /\ (\A x \in live' : x \in live \/ (n.type \in BlobType /\ x = <<"blob", h>>))
        /\ (\A q \in DOMAIN privs : q \in DOMAIN privs' /\ privs'[q] = privs[q])
        /\ (\A q \in DOMAIN outs : q \in DOMAIN outs' /\ outs'[q] = outs[q])
    BY <1>1, <2>1 DEF o
  <2>6. IsSequence(outs')
    BY <1>2, <2>1
  <2>7. AddsHandle(h, n, o)
    BY <1>2, <1>3, <1>4, <2>2, <2>3, <2>4, <2>5, <2>6 DEF AddsHandle
  <2> QED BY <2>7, GrowOne
<1>6. CASE items # <<>>
  <2> DEFINE m == NewValue(t, Len(outs))
             n == [m EXCEPT !.outside = TRUE]
  <2>1. values' = Append(values, n) /\ outs' = Append(outs, items)
    BY <1>6 DEF CreateOutside
  <2>2. t \in PrimVector
    BY VectorAssumption
  <2>3. m \in ValueRecord /\ m.type = t /\ m.data = Len(outs) /\ m.outside = FALSE /\ m.setmap = FALSE
    <3>1. t \in AnyType /\ Len(outs) \in Int
      BY <1>2, <2>2 DEF AnyType
    <3> QED BY ZenonT(30), <3>1, NewValueType
  <2> HIDE DEF m
  <2>4. n \in ValueRecord /\ n.type = t /\ n.data = Len(outs) /\ n.outside = TRUE /\ n.setmap = FALSE
    BY <2>3, ValueFields
  <2> HIDE DEF n
  <2>5. /\ IsSequence(outs') /\ DOMAIN outs' = 1..(Len(outs) + 1) /\ outs'[Len(outs) + 1] = items
        /\ \A p \in 1..Len(outs) : outs'[p] = outs[p]
    BY <1>2, <2>1, SequencePush
  <2>6. \A p \in DOMAIN outs : p \in DOMAIN outs' /\ outs'[p] = outs[p]
    BY <1>2, <2>5
  <2>7. n.type \notin TableType
    BY <2>2, <2>4 DEF TableType, PrimVector
  <2>8. Len(outs) + 1 \in DOMAIN outs'
    BY <1>2, <2>5
  <2>9. values'[h] = n /\ object'[h] = o => HandleOK(h)' /\ VectorOK(h)'
    BY <1>3, <2>2, <2>4, <2>5, <2>8 DEF HandleOK, VectorOK, IsPrivVector, IsVector
  <2>10. /\ phase = "build" /\ phase' = phase /\ i' = i /\ count' = count /\ spare' = spare /\ root' = root
         /\ values' = Append(values, n) /\ object' = Append(object, o) /\ tables' = tables
         /\ (\A x \in live' : x \in live \/ (n.type \in BlobType /\ x = <<"blob", h>>))
         /\ (\A q \in DOMAIN privs : q \in DOMAIN privs' /\ privs'[q] = privs[q])
         /\ (\A q \in DOMAIN outs : q \in DOMAIN outs' /\ outs'[q] = outs[q])
    BY <1>1, <2>1, <2>6 DEF o
  <2>11. AddsHandle(h, n, o)
    BY <1>2, <1>3, <1>4, <2>4, <2>5, <2>7, <2>9, <2>10 DEF AddsHandle
  <2> QED BY <2>11, GrowOne
<1> QED
  BY <1>5, <1>6

\* A value of the n-th of new vectors, which is of type t.
IsPart(v, n, t, flag) ==
  v.type = t /\ v.data = Len(privs) + n - 1 /\ v.outside = FALSE /\ (v.setmap <=> flag)

\* The vectors of a set or map, before there is one.
LEMMA NewParts ==
  ASSUME TypeOK, phase = "build", NEW ts \in Seq(PrimVector \cup ValueVector), NEW flag \in BOOLEAN
  PROVE  /\ PartValues(ts, flag) \in Seq(ValueRecord) /\ Len(PartValues(ts, flag)) = Len(ts)
         /\ \A n \in 1..Len(ts) : IsPart(PartValues(ts, flag)[n], n, ts[n], flag)
         /\ IsVectorList(PartVectors(ts)) /\ Len(PartVectors(ts)) = Len(ts)
         /\ \A n \in 1..Len(ts) : PartVectors(ts)[n] = [owner |-> NValues + n, items |-> <<>>]
         /\ IsSequence(PartThings(ts)) /\ Len(PartThings(ts)) = Len(ts)
         /\ \A n \in 1..Len(ts) : /\ DOMAIN PartThings(ts)[n] = {"kind", "holds"}
                                  /\ PartThings(ts)[n].kind = "internal"
                                  /\ PartThings(ts)[n].holds = <<>>
<1>1. Len(ts) \in Nat /\ DOMAIN ts = 1..Len(ts) /\ \A n \in 1..Len(ts) : ts[n] \in PrimVector \cup ValueVector
  OBVIOUS
<1>2. NValues \in Nat /\ Len(values) = NValues /\ Len(privs) \in Nat
  BY TypeFacts DEF TypeOK
<1>3. ASSUME NEW n \in 1..Len(ts)
      PROVE  /\ [NewValue(ts[n], Len(privs) + n - 1) EXCEPT !.setmap = flag] \in ValueRecord
             /\ [NewValue(ts[n], Len(privs) + n - 1) EXCEPT !.setmap = flag].type = ts[n]
             /\ [NewValue(ts[n], Len(privs) + n - 1) EXCEPT !.setmap = flag].data = Len(privs) + n - 1
             /\ [NewValue(ts[n], Len(privs) + n - 1) EXCEPT !.setmap = flag].outside = FALSE
             /\ [NewValue(ts[n], Len(privs) + n - 1) EXCEPT !.setmap = flag].setmap <=> flag
  <2>1. ts[n] \in AnyType /\ Len(privs) + n - 1 \in Int
    BY <1>1, <1>2 DEF AnyType
  <2> DEFINE d == Len(privs) + n - 1
             u == NewValue(ts[n], d)
  <2>2. u \in ValueRecord /\ u.type = ts[n] /\ u.data = d /\ u.outside = FALSE
    BY <2>1, NewValueType
  <2> HIDE DEF d
  <2> QED BY <2>1, <2>2, ValueFields DEF d
<1>4. /\ PartValues(ts, flag) \in Seq(ValueRecord) /\ Len(PartValues(ts, flag)) = Len(ts)
      /\ \A n \in 1..Len(ts) :
            PartValues(ts, flag)[n] = [NewValue(ts[n], Len(privs) + n - 1) EXCEPT !.setmap = flag]
  <2> DEFINE f == [n \in 1..Len(ts) |-> [NewValue(ts[n], Len(privs) + n - 1) EXCEPT !.setmap = flag]]
  <2>1. PartValues(ts, flag) = f
    BY <1>1 DEF PartValues
  <2>2. f \in [1..Len(ts) -> ValueRecord]
    BY <1>3
  <2>3. \A n \in 1..Len(ts) : f[n] = [NewValue(ts[n], Len(privs) + n - 1) EXCEPT !.setmap = flag]
    OBVIOUS
  <2> HIDE DEF f
  <2>4. f \in Seq(ValueRecord) /\ Len(f) = Len(ts)
    BY <1>1, <2>2
  <2> QED BY <2>1, <2>3, <2>4
<1>5. /\ IsVectorList(PartVectors(ts)) /\ Len(PartVectors(ts)) = Len(ts)
      /\ \A n \in 1..Len(ts) : PartVectors(ts)[n] = [owner |-> NValues + n, items |-> <<>>]
  <2> DEFINE e(n) == [owner |-> NValues + n, items |-> <<>>]
             f == [n \in 1..Len(ts) |-> e(n)]
  <2>1. PartVectors(ts) = f
    BY <1>1, <1>2 DEF PartVectors
  <2>2. \A n \in 1..Len(ts) : f[n] = e(n) /\ DOMAIN e(n) = {"owner", "items"} /\ IsSequence(e(n).items)
    BY EmptySequence
  <2>3. f \in [1..Len(ts) -> Range(f)]
    BY DEF Range
  <2> HIDE DEF f
  <2>4. f \in Seq(Range(f)) /\ Len(f) = Len(ts) /\ DOMAIN f = 1..Len(ts)
    BY <1>1, <2>3
  <2>5. IsVectorList(f)
    BY <2>2, <2>4 DEF IsVectorList, IsSequence
  <2> QED BY <2>1, <2>2, <2>4, <2>5
<1>6. /\ IsSequence(PartThings(ts)) /\ Len(PartThings(ts)) = Len(ts)
      /\ \A n \in 1..Len(ts) : /\ DOMAIN PartThings(ts)[n] = {"kind", "holds"}
                               /\ PartThings(ts)[n].kind = "internal"
                               /\ PartThings(ts)[n].holds = <<>>
  <2> DEFINE f == [n \in 1..Len(ts) |-> Thing("internal", <<>>)]
  <2>1. PartThings(ts) = f
    BY <1>1 DEF PartThings
  <2>2. \A n \in 1..Len(ts) : /\ DOMAIN f[n] = {"kind", "holds"}
                              /\ f[n].kind = "internal" /\ f[n].holds = <<>>
    BY DEF Thing
  <2>3. f \in [1..Len(ts) -> Range(f)]
    BY DEF Range
  <2> HIDE DEF f
  <2>4. f \in Seq(Range(f)) /\ Len(f) = Len(ts)
    BY <1>1, <2>3
  <2> QED BY <2>1, <2>2, <2>4 DEF IsSequence
<1>7. \A n \in 1..Len(ts) : IsPart(PartValues(ts, flag)[n], n, ts[n], flag)
  BY <1>3, <1>4 DEF IsPart
<1> QED
  BY <1>4, <1>5, <1>6, <1>7

\* Arrays vs, ps and os are those of the build with vectors of types ts at their end.
WithParts(vs, ps, os, ts, flag) ==
  /\ vs \in Seq(ValueRecord) /\ Len(vs) = NValues + Len(ts)
  /\ IsVectorList(ps) /\ \A p \in DOMAIN privs : p \in DOMAIN ps /\ ps[p] = privs[p]
  /\ IsSequence(os) /\ Len(os) = NValues + Len(ts) /\ DOMAIN os = 1..(NValues + Len(ts))
  /\ \A h \in 1..(NValues + Len(ts)) : /\ DOMAIN os[h] = {"kind", "holds"} /\ os[h].kind \in Kind
                                       /\ IsSequence(os[h].holds)
  /\ \A h \in 1..NValues : vs[h] = values[h] /\ os[h] = object[h]
  /\ \A n \in 1..Len(ts) :
        /\ vs[NValues + n].type = ts[n] /\ ~vs[NValues + n].outside
        /\ vs[NValues + n].setmap <=> flag
        /\ os[NValues + n].kind = "internal" /\ os[NValues + n].holds = <<>>
        /\ vs[NValues + n].data + 1 \in DOMAIN ps
        /\ ps[vs[NValues + n].data + 1].owner = NValues + n

\* The vectors of a set or map are added so.
LEMMA PartsAdded ==
  ASSUME TypeOK, phase = "build", NEW ts \in Seq(PrimVector \cup ValueVector), NEW flag \in BOOLEAN,
         NEW vs, vs = values \o PartValues(ts, flag),
         NEW ps, ps = privs \o PartVectors(ts),
         NEW os, os = object \o PartThings(ts)
  PROVE  WithParts(vs, ps, os, ts, flag)
<1> DEFINE pv == PartValues(ts, flag)
           pr == PartVectors(ts)
           pt == PartThings(ts)
<1>1. /\ pv \in Seq(ValueRecord) /\ Len(pv) = Len(ts)
      /\ \A n \in 1..Len(ts) : /\ pv[n].type = ts[n]
                               /\ pv[n].data = Len(privs) + n - 1
                               /\ pv[n].outside = FALSE
                               /\ pv[n].setmap <=> flag
  <2>1. pv \in Seq(ValueRecord) /\ Len(pv) = Len(ts)
    BY NewParts
  <2>2. \A n \in 1..Len(ts) : IsPart(pv[n], n, ts[n], flag)
    BY NewParts
  <2> HIDE DEF pv
  <2> QED BY <2>1, <2>2 DEF IsPart
<1>2. /\ IsVectorList(pr) /\ Len(pr) = Len(ts)
      /\ \A n \in 1..Len(ts) : pr[n] = [owner |-> NValues + n, items |-> <<>>]
  BY NewParts
<1>3. /\ IsSequence(pt) /\ Len(pt) = Len(ts)
      /\ \A n \in 1..Len(ts) : /\ DOMAIN pt[n] = {"kind", "holds"}
                               /\ pt[n].kind = "internal"
                               /\ pt[n].holds = <<>>
  BY NewParts
<1> HIDE DEF pv, pr, pt
<1>4. /\ NValues \in Nat /\ Len(values) = NValues /\ Len(privs) \in Nat /\ Len(ts) \in Nat
      /\ DOMAIN privs = 1..Len(privs) /\ DOMAIN object = 1..NValues /\ NValues = Len(object)
      /\ values \in Seq(ValueRecord) /\ IsVectorList(privs) /\ IsSequence(object)
  BY TypeFacts DEF TypeOK, NValues
<1>5. /\ vs \in Seq(ValueRecord) /\ Len(vs) = NValues + Len(ts)
      /\ \A h \in 1..NValues : vs[h] = values[h]
      /\ \A n \in 1..Len(ts) : vs[NValues + n] = pv[n]
  <2>1. vs = values \o pv
    BY DEF pv
  <2>2. IsSequence(values) /\ IsSequence(pv)
    BY <1>1, <1>4, SequenceOver
  <2>3. vs \in Seq(ValueRecord)
    BY <1>1, <1>4, <2>1
  <2>4. /\ Len(values \o pv) = Len(values) + Len(pv)
        /\ \A h \in 1..Len(values) : (values \o pv)[h] = values[h]
        /\ \A n \in 1..Len(pv) : (values \o pv)[Len(values) + n] = pv[n]
    BY <2>2, SequenceConcat
  <2> QED BY <1>1, <1>4, <2>1, <2>3, <2>4
<1>6. /\ IsVectorList(ps) /\ DOMAIN ps = 1..(Len(privs) + Len(ts))
      /\ \A p \in 1..Len(privs) : ps[p] = privs[p]
      /\ \A n \in 1..Len(ts) : ps[Len(privs) + n] = pr[n]
  <2>1. ps = privs \o pr
    BY DEF pr
  <2>2. IsSequence(privs) /\ IsSequence(pr)
    BY <1>2, <1>4 DEF IsVectorList
  <2>3. /\ DOMAIN (privs \o pr) = 1..(Len(privs) + Len(pr))
        /\ \A h \in 1..Len(privs) : (privs \o pr)[h] = privs[h]
        /\ \A n \in 1..Len(pr) : (privs \o pr)[Len(privs) + n] = pr[n]
    BY <2>2, SequenceConcat
  <2>4. IsVectorList(privs \o pr)
    BY <1>2, <1>4, VectorListConcat
  <2> QED BY <1>2, <1>4, <2>1, <2>3, <2>4
<1>7. /\ IsSequence(os) /\ Len(os) = NValues + Len(ts) /\ DOMAIN os = 1..(NValues + Len(ts))
      /\ \A h \in 1..NValues : os[h] = object[h]
      /\ \A n \in 1..Len(ts) : os[NValues + n] = pt[n]
  <2>1. os = object \o pt
    BY DEF pt
  <2>2. /\ IsSequence(object \o pt)
        /\ Len(object \o pt) = Len(object) + Len(pt)
        /\ DOMAIN (object \o pt) = 1..(Len(object) + Len(pt))
        /\ \A h \in 1..Len(object) : (object \o pt)[h] = object[h]
        /\ \A n \in 1..Len(pt) : (object \o pt)[Len(object) + n] = pt[n]
    <3>1. IsSequence(object) /\ IsSequence(pt)
      BY <1>3, <1>4
    <3> QED BY <3>1, SequenceConcat
  <2> QED BY <1>3, <1>4, <2>1, <2>2
<1>8. \A p \in DOMAIN privs : p \in DOMAIN ps /\ ps[p] = privs[p]
  <2>1. ASSUME NEW a \in Nat, NEW b \in Nat PROVE 1..a \subseteq 1..(a + b)
    OBVIOUS
  <2> QED BY <1>4, <1>6, <2>1
<1>9. \A h \in 1..(NValues + Len(ts)) : /\ DOMAIN os[h] = {"kind", "holds"} /\ os[h].kind \in Kind
                                        /\ IsSequence(os[h].holds)
  <2> TAKE h \in 1..(NValues + Len(ts))
  <2>1. h \in 1..NValues \/ (h - NValues \in 1..Len(ts) /\ h = NValues + (h - NValues))
    <3>1. ASSUME NEW a \in Nat, NEW b \in Nat, NEW c \in 1..(a + b)
          PROVE  c \in 1..a \/ (c - a \in 1..b /\ c = a + (c - a))
      OBVIOUS
    <3> QED BY <1>4, <3>1
  <2>2. CASE h \in 1..NValues
    BY <1>4, <1>7, <2>2 DEF TypeOK
  <2>3. CASE h - NValues \in 1..Len(ts) /\ h = NValues + (h - NValues)
    <3>1. PICK n \in 1..Len(ts) : h = NValues + n
      BY <2>3
    <3>2. os[h] = pt[n]
      BY <1>7, <3>1
    <3> QED BY <1>3, <3>2, EmptySequence DEF Kind
  <2> QED BY <2>1, <2>2, <2>3
<1>10. ASSUME NEW n \in 1..Len(ts)
       PROVE  /\ vs[NValues + n].type = ts[n] /\ ~vs[NValues + n].outside
              /\ vs[NValues + n].setmap <=> flag
              /\ os[NValues + n].kind = "internal" /\ os[NValues + n].holds = <<>>
              /\ vs[NValues + n].data + 1 \in DOMAIN ps
              /\ ps[vs[NValues + n].data + 1].owner = NValues + n
  <2>1. vs[NValues + n] = pv[n] /\ os[NValues + n] = pt[n] /\ ps[Len(privs) + n] = pr[n]
    BY <1>5, <1>6, <1>7
  <2>2. pv[n].data + 1 = Len(privs) + n /\ Len(privs) + n \in 1..(Len(privs) + Len(ts))
    <3>1. ASSUME NEW a \in Nat, NEW b \in Nat, NEW c \in 1..b
          PROVE  (a + c - 1) + 1 = a + c /\ a + c \in 1..(a + b)
      OBVIOUS
    <3>2. pv[n].data = Len(privs) + n - 1
      BY <1>1
    <3> QED BY <1>4, <3>1, <3>2
  <2>3. pr[n].owner = NValues + n
    <3>1. pr[n] = [owner |-> NValues + n, items |-> <<>>]
      BY <1>2
    <3> QED BY <3>1
  <2> QED BY <1>1, <1>3, <1>6, <2>1, <2>2, <2>3
<1> QED
  BY <1>5, <1>6, <1>7, <1>8, <1>9, <1>10 DEF WithParts

\* A set has two vectors, a map three.
LEMMA PartsAreVectors ==
  ASSUME NEW t \in TableType
  PROVE  /\ Parts(t) \in Seq(PrimVector \cup ValueVector) /\ Len(Parts(t)) \in {2, 3}
         /\ Leftovers(t) \subseteq Seq(PrimVector \cup ValueVector)
<1> DEFINE S == PrimVector \cup ValueVector
<1>1. "VECTOR_U32" \in S /\ "VECTOR_VALUE" \in S
  BY DEF PrimVector, ValueVector
<1> HIDE DEF S
<1>2. Parts(t) = IF t = "MAP" THEN <<"VECTOR_U32", "VECTOR_VALUE">> \o <<"VECTOR_VALUE">>
                 ELSE <<"VECTOR_U32", "VECTOR_VALUE">> \o <<>>
  BY DEF Parts
<1>3. /\ <<"VECTOR_U32", "VECTOR_VALUE">> \in Seq(S) /\ Len(<<"VECTOR_U32", "VECTOR_VALUE">>) = 2
      /\ <<"VECTOR_VALUE">> \in Seq(S) /\ Len(<<"VECTOR_VALUE">>) = 1
      /\ <<>> \in Seq(S) /\ Len(<<>>) = 0
      /\ <<"VECTOR_U32">> \in Seq(S) /\ <<"VECTOR_VALUE", "VECTOR_VALUE">> \in Seq(S)
  BY <1>1
<1>4. \A x, y \in Seq(S) : x \o y \in Seq(S) /\ Len(x \o y) = Len(x) + Len(y)
  BY ConcatProperties
<1>5. \A u \in TableType : Parts(u) \in Seq(S) /\ Len(Parts(u)) \in {2, 3}
  <2> TAKE u \in TableType
  <2>1. CASE u = "MAP"
    <3>1. Parts(u) = <<"VECTOR_U32", "VECTOR_VALUE">> \o <<"VECTOR_VALUE">>
      BY <2>1 DEF Parts
    <3>2. Parts(u) \in Seq(S) /\ Len(Parts(u)) = 2 + 1
      BY <1>3, <1>4, <3>1
    <3> QED BY <3>2
  <2>2. CASE u # "MAP"
    <3>1. Parts(u) = <<"VECTOR_U32", "VECTOR_VALUE">> \o <<>>
      BY <2>2 DEF Parts
    <3>2. Parts(u) \in Seq(S) /\ Len(Parts(u)) = 2 + 0
      BY <1>3, <1>4, <3>1
    <3> QED BY <3>2
  <2> QED BY <2>1, <2>2
<1>6. Leftovers(t) \subseteq Seq(S)
  <2>1. Parts("MAP") \in Seq(S)
    BY <1>5 DEF TableType
  <2> QED BY <1>3, <2>1 DEF Leftovers
<1> QED
  BY <1>5, <1>6 DEF S

\* What is left of a set or map that could not be created.
LEMMA FailedTableIsKept ==
  ASSUME SerializerInv, NEW t \in Table, CreateTableFails(t)
  PROVE  SerializerInv'
<1>1. /\ phase = "build" /\ phase' = phase /\ i' = i /\ count' = count /\ spare' = spare /\ root' = root
      /\ outs' = outs /\ blobs' = blobs /\ tables' = tables /\ live' = live
  BY DEF CreateTableFails, RoomFor, output
<1>2. PICK ts \in Leftovers(t) :
         /\ values' = values \o PartValues(ts, ts = Parts(t))
         /\ privs' = privs \o PartVectors(ts)
         /\ object' = object \o PartThings(ts)
  BY DEF CreateTableFails
<1>3. ts \in Seq(PrimVector \cup ValueVector) /\ (ts = Parts(t)) \in BOOLEAN
  BY PartsAreVectors, TableAssumption
<1>4. TypeOK
  BY DEF SerializerInv
<1>5. /\ values' \in Seq(ValueRecord) /\ Len(values') = NValues + Len(ts)
      /\ IsVectorList(privs') /\ \A p \in DOMAIN privs : p \in DOMAIN privs' /\ privs'[p] = privs[p]
      /\ IsSequence(object') /\ Len(object') = NValues + Len(ts) /\ DOMAIN object' = 1..(NValues + Len(ts))
      /\ \A h \in 1..(NValues + Len(ts)) : /\ DOMAIN object'[h] = {"kind", "holds"} /\ object'[h].kind \in Kind
                                           /\ IsSequence(object'[h].holds)
      /\ \A h \in 1..NValues : values'[h] = values[h] /\ object'[h] = object[h]
      /\ \A n \in 1..Len(ts) :
            /\ values'[NValues + n].type = ts[n] /\ ~values'[NValues + n].outside
            /\ object'[NValues + n].kind = "internal" /\ object'[NValues + n].holds = <<>>
            /\ values'[NValues + n].data + 1 \in DOMAIN privs'
            /\ privs'[values'[NValues + n].data + 1].owner = NValues + n
  <2> DEFINE flag == ts = Parts(t)
  <2>1. flag \in BOOLEAN /\ values' = values \o PartValues(ts, flag)
    BY <1>2, <1>3
  <2> HIDE DEF flag
  <2> DEFINE vs == values'
             ps == privs'
             os == object'
  <2>2. vs = values \o PartValues(ts, flag) /\ ps = privs \o PartVectors(ts) /\ os = object \o PartThings(ts)
    BY <1>2, <2>1
  <2>3. phase = "build"
    BY <1>1
  <2> HIDE DEF vs, ps, os
  <2>4. WithParts(vs, ps, os, ts, flag)
    BY <1>3, <1>4, <2>1, <2>2, <2>3, PartsAdded
  <2>5. WithParts(values', privs', object', ts, flag)
    BY <2>4 DEF vs, ps, os
  <2> QED BY <2>5 DEF WithParts
<1>6. NValues' = NValues + Len(ts) /\ NValues \in Nat /\ Len(ts) \in Nat
  BY <1>3, <1>4, <1>5, TypeFacts DEF NValues
<1>7. TypeOK'
  <2>1. root' \in 0..NValues'
    <3>1. root \in 0..NValues
      BY <1>4 DEF TypeOK
    <3> QED BY <1>1, <1>6, <3>1
  <2>2. IsVectorList(spare') /\ IsSequence(outs') /\ blobs' \in [{"text", "bits"} -> Seq(Blob)]
        /\ tables' \in [TableType -> Seq(TableRecord)] /\ count' \in [{"out", "SET", "MAP"} -> Nat]
        /\ phase' \in Phase /\ i' \in Nat \ {0}
    BY <1>1, <1>4 DEF TypeOK
  <2>3. Len(values') = NValues'
    BY <1>5, <1>6
  <2> QED BY <1>5, <2>1, <2>2, <2>3 DEF TypeOK
<1>8. ASSUME NEW h \in 1..NValues', h > NValues
      PROVE  values'[h].type \notin TableType /\ HandleOK(h)' /\ VectorOK(h)'
  <2>1. PICK n \in 1..Len(ts) : h = NValues + n
    <3>1. h - NValues \in 1..Len(ts) /\ h = NValues + (h - NValues)
      <4>1. ASSUME NEW a \in Nat, NEW b \in Nat, NEW c \in 1..(a + b), c > a
            PROVE  c - a \in 1..b /\ c = a + (c - a)
        BY <4>1
      <4> QED BY <1>6, <1>8, <4>1
    <3> QED BY <3>1
  <2>2. ts[n] \in PrimVector \cup ValueVector
    BY <1>3
  <2>3. /\ values'[h].type = ts[n] /\ ~values'[h].outside
        /\ object'[h].kind = "internal" /\ object'[h].holds = <<>>
        /\ values'[h].data + 1 \in DOMAIN privs'
        /\ privs'[values'[h].data + 1].owner = h
    BY <1>5, <2>1
  <2>4. values'[h].type \notin TableType
    BY <2>2, <2>3 DEF TableType, PrimVector, ValueVector
  <2>5. HandleOK(h)'
    BY <2>2, <2>3 DEF HandleOK, IsVector
  <2>6. VectorOK(h)'
    BY <1>1, <2>3 DEF VectorOK, Home
  <2> QED BY <2>4, <2>5, <2>6
<1>9. NValues <= NValues'
  BY <1>6
<1> QED
  BY <1>1, <1>4, <1>5, <1>7, <1>8, <1>9, Grow

\* A set or map of type t, and its vectors, are added; it has the handle H.
HasTable(t, H) ==
  LET ts == Parts(t)
      L == Len(ts)
  IN
  /\ t \in TableType /\ ts \in Seq(PrimVector \cup ValueVector) /\ L \in {2, 3} /\ H = (NValues + L) + 1 /\ H \in Nat
  /\ phase = "build" /\ phase' = phase /\ i' = i /\ count' = count /\ spare' = spare /\ root' = root
  /\ outs' = outs /\ blobs' = blobs /\ live' = live
  /\ values' \in Seq(ValueRecord) /\ Len(values') = H
  /\ IsSequence(object') /\ NValues' = H /\ DOMAIN object' = 1..H
  /\ \A h \in 1..H : DOMAIN object'[h] = {"kind", "holds"} /\ object'[h].kind \in Kind /\ IsSequence(object'[h].holds)
  /\ IsVectorList(privs') /\ \A p \in DOMAIN privs : p \in DOMAIN privs' /\ privs'[p] = privs[p]
  /\ \A h \in 1..H : h \in 1..NValues \/ (\E n \in 1..L : h = NValues + n) \/ h = H
  /\ \A h \in 1..NValues : values'[h] = values[h] /\ object'[h] = object[h]
  /\ \A n \in 1..L :
       /\ values'[NValues + n].type = ts[n] /\ ts[n] \in PrimVector \cup ValueVector
       /\ ~values'[NValues + n].outside /\ values'[NValues + n].setmap
       /\ object'[NValues + n].kind = "internal" /\ object'[NValues + n].holds = <<>>
       /\ values'[NValues + n].data + 1 \in DOMAIN privs'
       /\ privs'[values'[NValues + n].data + 1].owner = NValues + n
  /\ values'[H].type = t /\ values'[H].data = Len(tables[t]) /\ ~values'[H].outside /\ ~values'[H].setmap
  /\ object'[H].kind = (IF t = "SET" THEN "set" ELSE "map") /\ object'[H].holds = <<>>
  /\ tables' \in [TableType -> Seq(TableRecord)] /\ DOMAIN tables'[t] = 1..(Len(tables[t]) + 1)
  /\ \A u \in TableType : \A d \in DOMAIN tables[u] : d \in DOMAIN tables'[u] /\ tables'[u][d] = tables[u][d]
  /\ \A u \in TableType \ {t} : tables'[u] = tables[u]
  /\ Tables' = Tables \cup {H} /\ \A h \in Tables : TableOf(h)' = TableOf(h)
  /\ LET new == tables'[values'[H].type][values'[H].data + 1]
     IN  /\ new.keys = <<>> /\ new.vals = <<>> /\ Len(new.parts) = L /\ DOMAIN new.parts = 1..L
         /\ \A n \in 1..L : new.parts[n] = NValues + n

\* Handles of the vectors and of their set or map come after those there are.
LEMMA HandlesPast ==
  ASSUME NEW a \in Nat, NEW b \in Nat
  PROVE  /\ 1..a \subseteq 1..((a + b) + 1) /\ 1..a \subseteq 1..(a + b) /\ 1..(a + b) \subseteq 1..((a + b) + 1)
         /\ \A n \in 1..b : a + n \in 1..(a + b) /\ a + n > a
         /\ (a + b) + 1 \in 1..((a + b) + 1) /\ ~((a + b) + 1 \in 1..(a + b)) /\ (a + b) + 1 > a
OBVIOUS

\* So the call does.
LEMMA TableIsCreated ==
  ASSUME SerializerInv, NEW t \in Table, CreateTable(t)
  PROVE  \E H : HasTable(t, H)
<1> DEFINE ts == Parts(t)
           L == Len(ts)
           vs == values \o PartValues(ts, TRUE)
           ps == privs \o PartVectors(ts)
           os == object \o PartThings(ts)
           new == [keys |-> <<>>, vals |-> <<>>, parts |-> PartHandles(ts)]
           v == NewValue(t, Len(tables[t]))
           o == Thing(IF t = "SET" THEN "set" ELSE "map", <<>>)
<1>0. PICK H : H = NValues + L + 1
  OBVIOUS
<1>1. /\ phase = "build" /\ phase' = phase /\ i' = i /\ count' = count /\ spare' = spare /\ root' = root
      /\ outs' = outs /\ blobs' = blobs /\ live' = live
      /\ values' = Append(vs, v) /\ privs' = ps /\ object' = Append(os, o)
      /\ tables' = [tables EXCEPT ![t] = Append(tables[t], new)]
  BY DEF CreateTable, RoomFor, output
<1>2. TypeOK /\ Len(values) = NValues /\ NValues \in Nat /\ DOMAIN object = 1..NValues
      /\ tables \in [TableType -> Seq(TableRecord)]
  BY <1>1, TypeFacts DEF SerializerInv, TypeOK
<1>3. t \in TableType
  BY TableAssumption
<1>4. ts \in Seq(PrimVector \cup ValueVector) /\ L \in {2, 3} /\ DOMAIN ts = 1..L
  BY <1>3, PartsAreVectors
<1>5. WithParts(vs, ps, os, ts, TRUE)
  <2>1. TRUE \in BOOLEAN
    OBVIOUS
  <2> QED BY <1>1, <1>2, <1>4, <2>1, PartsAdded
<1>6. tables[t] \in Seq(TableRecord) /\ Len(tables[t]) \in Nat /\ DOMAIN tables[t] = 1..Len(tables[t])
  BY <1>2, <1>3
<1>7. /\ PartHandles(ts) \in Seq(Nat) /\ Len(PartHandles(ts)) = L /\ DOMAIN PartHandles(ts) = 1..L
      /\ \A n \in 1..L : PartHandles(ts)[n] = NValues + n
  <2> DEFINE f == [n \in 1..L |-> NValues + n]
  <2>1. PartHandles(ts) = f
    BY <1>2, <1>4 DEF PartHandles
  <2>2. f \in [1..L -> Nat] /\ \A n \in 1..L : f[n] = NValues + n
    BY <1>2
  <2>3. L \in Nat
    BY <1>4
  <2> HIDE DEF f, L
  <2>4. f \in Seq(Nat) /\ Len(f) = L /\ DOMAIN f = 1..L
    BY <2>2, <2>3
  <2> QED BY <2>1, <2>2, <2>4
<1>8. new \in TableRecord /\ new.keys = <<>> /\ new.vals = <<>> /\ new.parts = PartHandles(ts)
  BY <1>7 DEF TableRecord
<1>9. v \in ValueRecord /\ v.type = t /\ v.data = Len(tables[t]) /\ v.outside = FALSE /\ v.setmap = FALSE
  <2>1. t \in AnyType /\ Len(tables[t]) \in Int
    BY <1>3, <1>6 DEF AnyType
  <2> QED BY ZenonT(30), <2>1, NewValueType
<1>10. /\ DOMAIN o = {"kind", "holds"} /\ o.kind \in Kind /\ o.holds = <<>> /\ IsSequence(o.holds)
       /\ o.kind = IF t = "SET" THEN "set" ELSE "map"
  <2>1. (IF t = "SET" THEN "set" ELSE "map") \in Kind
    BY DEF Kind
  <2> QED BY <2>1, EmptySequence, ThingFacts
<1>11. L \in Nat /\ L \in {2, 3} /\ H = (NValues + L) + 1 /\ H \in Nat
  BY <1>0, <1>2, <1>4
<1> HIDE DEF ts, L, vs, ps, os, new, v, o
<1>12. /\ values' \in Seq(ValueRecord) /\ Len(values') = H /\ values'[H] = v
       /\ \A h \in 1..(NValues + L) : values'[h] = vs[h]
  BY <1>1, <1>5, <1>9, <1>11 DEF WithParts, L
<1>13. /\ IsSequence(object') /\ NValues' = H /\ DOMAIN object' = 1..H /\ object'[H] = o
       /\ \A h \in 1..(NValues + L) : object'[h] = os[h]
  <2>1. IsSequence(os) /\ Len(os) = NValues + L
    BY <1>5 DEF WithParts, L
  <2>2. /\ IsSequence(Append(os, o)) /\ Len(Append(os, o)) = Len(os) + 1
        /\ DOMAIN Append(os, o) = 1..(Len(os) + 1)
        /\ Append(os, o)[Len(os) + 1] = o
        /\ \A n \in 1..Len(os) : Append(os, o)[n] = os[n]
    BY <2>1, SequencePush
  <2>3. NValues' = Len(object')
    BY DEF NValues
  <2> QED BY <1>1, <1>11, <2>1, <2>2, <2>3
<1>14. \A h \in 1..H : h \in 1..NValues \/ (\E n \in 1..L : h = NValues + n) \/ h = H
  <2> TAKE h \in 1..H
  <2>1. h \in 1..NValues \/ (h - NValues \in 1..L /\ h = NValues + (h - NValues)) \/ h = H
    <3>1. ASSUME NEW a \in Nat, NEW b \in Nat, NEW c \in 1..((a + b) + 1)
          PROVE  c \in 1..a \/ (c - a \in 1..b /\ c = a + (c - a)) \/ c = (a + b) + 1
      OBVIOUS
    <3> QED BY <1>2, <1>11, <3>1
  <2> QED BY <2>1
<1>15. /\ 1..NValues \subseteq 1..H /\ 1..NValues \subseteq 1..(NValues + L) /\ 1..(NValues + L) \subseteq 1..H
       /\ \A n \in 1..L : NValues + n \in 1..(NValues + L) /\ NValues + n > NValues
       /\ H \in 1..H /\ ~(H \in 1..(NValues + L)) /\ H > NValues
  <2> QED BY <1>2, <1>11, HandlesPast
<1>16. \A h \in 1..NValues : values'[h] = values[h] /\ object'[h] = object[h]
  BY <1>5, <1>12, <1>13, <1>15 DEF WithParts
<1>17. \A n \in 1..L :
         /\ values'[NValues + n].type = ts[n] /\ ts[n] \in PrimVector \cup ValueVector
         /\ ~values'[NValues + n].outside /\ values'[NValues + n].setmap
         /\ object'[NValues + n].kind = "internal" /\ object'[NValues + n].holds = <<>>
         /\ values'[NValues + n].data + 1 \in DOMAIN privs'
         /\ privs'[values'[NValues + n].data + 1].owner = NValues + n
  <2> TAKE n \in 1..L
  <2>1. values'[NValues + n] = vs[NValues + n] /\ object'[NValues + n] = os[NValues + n] /\ privs' = ps
    BY <1>1, <1>12, <1>13, <1>15
  <2>2. ts[n] \in PrimVector \cup ValueVector
    BY <1>4 DEF L
  <2> QED BY <1>5, <2>1, <2>2 DEF WithParts, L
<1>18. /\ tables' \in [TableType -> Seq(TableRecord)]
       /\ DOMAIN tables'[t] = 1..(Len(tables[t]) + 1)
       /\ tables'[t][Len(tables[t]) + 1] = new
       /\ \A u \in TableType : \A d \in DOMAIN tables[u] : d \in DOMAIN tables'[u] /\ tables'[u][d] = tables[u][d]
       /\ \A u \in TableType \ {t} : tables'[u] = tables[u]
  <2>1. /\ Append(tables[t], new) \in Seq(TableRecord)
        /\ DOMAIN Append(tables[t], new) = 1..(Len(tables[t]) + 1)
        /\ Append(tables[t], new)[Len(tables[t]) + 1] = new
        /\ \A d \in 1..Len(tables[t]) : d \in 1..(Len(tables[t]) + 1) /\ Append(tables[t], new)[d] = tables[t][d]
    BY <1>6, <1>8
  <2>2. tables'[t] = Append(tables[t], new) /\ \A u \in TableType \ {t} : tables'[u] = tables[u]
    BY <1>1, <1>2, <1>3
  <2>3. tables' \in [TableType -> Seq(TableRecord)]
    BY <1>1, <1>2, <1>3, <2>1
  <2>4. ASSUME NEW u \in TableType, NEW d \in DOMAIN tables[u]
        PROVE  d \in DOMAIN tables'[u] /\ tables'[u][d] = tables[u][d]
    <3>1. CASE u = t
      BY <1>6, <2>1, <2>2, <3>1
    <3>2. CASE u # t
      BY <2>2, <3>2
    <3> QED BY <3>1, <3>2
  <2> QED BY <2>1, <2>2, <2>3, <2>4
<1>19. /\ Tables' = Tables \cup {H}
       /\ \A h \in Tables : h \in 1..NValues /\ h < H /\ h # H /\ values'[h] = values[h] /\ values[h].type \in TableType
       /\ Tables \subseteq Tables' /\ H \in Tables'
       /\ values'[H].type = t /\ values'[H].data = Len(tables[t])
  <2>1. ASSUME NEW h \in 1..H PROVE h \in Tables' <=> h \in Tables \/ h = H
    <3>1. h \in Tables' <=> values'[h].type \in TableType
      BY <1>13 DEF Tables
    <3>2. CASE h \in 1..NValues
      BY <1>15, <1>16, <3>1, <3>2 DEF Tables
    <3>3. CASE \E n \in 1..L : h = NValues + n
      <4>1. PICK n \in 1..L : h = NValues + n
        BY <3>3
      <4>2. values'[h].type \in PrimVector \cup ValueVector
        BY <1>17, <4>1
      <4>3. ~(h \in 1..NValues)
        BY <1>2, <1>15, <4>1
      <4>4. h # H
        BY <1>15, <4>1
      <4> QED BY <3>1, <4>2, <4>3, <4>4 DEF Tables, TableType, PrimVector, ValueVector
    <3>4. CASE h = H
      BY <1>3, <1>9, <1>12, <3>1, <3>4
    <3> QED BY <1>14, <3>2, <3>3, <3>4
  <2>2. Tables' \subseteq 1..H /\ Tables \subseteq 1..NValues
    BY <1>13 DEF Tables
  <2>3. Tables' = Tables \cup {H}
    BY <1>15, <2>1, <2>2
  <2>4. \A h \in 1..NValues : h < H /\ h # H
    BY <1>2, <1>11, <1>15
  <2>5. \A h \in Tables : values[h].type \in TableType
    BY DEF Tables
  <2> QED BY <1>9, <1>12, <1>16, <2>2, <2>3, <2>4, <2>5
<1>20. /\ \A h \in Tables : TableOf(h)' = TableOf(h)
       /\ TableOf(H)' = new
  <2>1. ASSUME NEW h \in Tables PROVE TableOf(h)' = TableOf(h)
    <3>1. /\ values'[h].type = values[h].type /\ values'[h].data + 1 = values[h].data + 1
          /\ values[h].type \in TableType /\ values[h].data + 1 \in DOMAIN tables[values[h].type]
      BY <1>19 DEF SerializerInv, NumberInv, TablesAreNumbered
    <3>2. tables'[values[h].type][values[h].data + 1] = tables[values[h].type][values[h].data + 1]
      BY <1>18, <3>1
    <3> QED BY <3>1, <3>2 DEF TableOf
  <2>2. TableOf(H)' = new
    BY <1>18, <1>19 DEF TableOf
  <2> QED BY <2>1, <2>2
<1>21. \A h \in 1..H : DOMAIN object'[h] = {"kind", "holds"} /\ object'[h].kind \in Kind /\ IsSequence(object'[h].holds)
  <2> TAKE h \in 1..H
  <2>1. h = H \/ h \in 1..(NValues + L)
    BY <1>14, <1>15
  <2>2. CASE h = H
    BY <1>10, <1>13, <2>2
  <2>3. CASE h \in 1..(NValues + L)
    <3>1. object'[h] = os[h]
      BY <1>13, <2>3
    <3>2. DOMAIN os[h] = {"kind", "holds"} /\ os[h].kind \in Kind /\ IsSequence(os[h].holds)
      BY <1>5, <2>3 DEF WithParts, L
    <3> QED BY <3>1, <3>2
  <2> QED BY <2>1, <2>2, <2>3
<1>22. IsVectorList(privs') /\ \A p \in DOMAIN privs : p \in DOMAIN privs' /\ privs'[p] = privs[p]
  BY <1>1, <1>5 DEF WithParts
<1>23. /\ values'[H].type = t /\ values'[H].data = Len(tables[t]) /\ ~values'[H].outside /\ ~values'[H].setmap
       /\ object'[H].kind = (IF t = "SET" THEN "set" ELSE "map") /\ object'[H].holds = <<>>
  BY <1>9, <1>10, <1>12, <1>13
<1>24. LET W == tables'[values'[H].type][values'[H].data + 1]
       IN  /\ W.keys = <<>> /\ W.vals = <<>> /\ Len(W.parts) = L /\ DOMAIN W.parts = 1..L
           /\ \A n \in 1..L : W.parts[n] = NValues + n
  BY <1>7, <1>8, <1>18, <1>23 DEF L
<1>25. HasTable(t, H)
  BY <1>1, <1>3, <1>4, <1>11, <1>12, <1>13, <1>14, <1>16, <1>17, <1>18, <1>19, <1>20, <1>21, <1>22, <1>23, <1>24
     DEF HasTable, ts, L
<1> QED BY <1>25

\* And it keeps the invariant.
LEMMA TableIsKept ==
  ASSUME SerializerInv, NEW t \in Table, CreateTable(t)
  PROVE  SerializerInv'
<1> DEFINE L == Len(Parts(t))
<1>0. PICK H : HasTable(t, H)
  BY TableIsCreated
<1>1. /\ phase = "build" /\ phase' = phase /\ i' = i /\ count' = count /\ spare' = spare /\ root' = root
      /\ outs' = outs /\ blobs' = blobs /\ live' = live
  BY <1>0 DEF HasTable
<1>2. TypeOK /\ NValues \in Nat /\ DOMAIN object = 1..NValues
      /\ tables \in [TableType -> Seq(TableRecord)]
  BY TypeFacts DEF SerializerInv, TypeOK
<1>3. t \in TableType
  BY TableAssumption
<1>5. IsVectorList(privs') /\ \A p \in DOMAIN privs : p \in DOMAIN privs' /\ privs'[p] = privs[p]
  BY <1>0 DEF HasTable
<1>6. Len(tables[t]) \in Nat /\ DOMAIN tables[t] = 1..Len(tables[t])
  <2>1. tables[t] \in Seq(TableRecord)
    BY <1>2, <1>3
  <2> QED BY <2>1
<1>9. Tables' = Tables \cup {H} /\ \A h \in Tables : TableOf(h)' = TableOf(h)
  BY <1>0 DEF HasTable
<1>10. /\ values'[H].type = t /\ values'[H].data = Len(tables[t]) /\ ~values'[H].outside /\ ~values'[H].setmap
       /\ object'[H].kind = (IF t = "SET" THEN "set" ELSE "map") /\ object'[H].holds = <<>>
  BY <1>0 DEF HasTable
<1>11. L \in Nat /\ L \in {2, 3} /\ H = (NValues + L) + 1 /\ H \in Nat
  BY <1>0 DEF HasTable
<1>12. values' \in Seq(ValueRecord) /\ Len(values') = H
  BY <1>0 DEF HasTable
<1>13. /\ IsSequence(object') /\ NValues' = H /\ DOMAIN object' = 1..H
       /\ \A h \in 1..H : DOMAIN object'[h] = {"kind", "holds"} /\ object'[h].kind \in Kind /\ IsSequence(object'[h].holds)
  BY <1>0 DEF HasTable
<1>14. \A h \in 1..H : h \in 1..NValues \/ (\E n \in 1..L : h = NValues + n) \/ h = H
  BY <1>0 DEF HasTable
<1>15. /\ 1..NValues \subseteq 1..H /\ 1..NValues \subseteq 1..(NValues + L) /\ 1..(NValues + L) \subseteq 1..H
       /\ \A n \in 1..L : NValues + n \in 1..(NValues + L) /\ NValues + n > NValues
       /\ H \in 1..H /\ ~(H \in 1..(NValues + L)) /\ H > NValues
  BY <1>2, <1>11, HandlesPast
<1>16. \A h \in 1..NValues : values'[h] = values[h] /\ object'[h] = object[h]
  BY <1>0 DEF HasTable
<1>17. \A n \in 1..L :
         /\ values'[NValues + n].type \in PrimVector \cup ValueVector
         /\ ~values'[NValues + n].outside /\ values'[NValues + n].setmap
         /\ object'[NValues + n].kind = "internal" /\ object'[NValues + n].holds = <<>>
         /\ values'[NValues + n].data + 1 \in DOMAIN privs'
         /\ privs'[values'[NValues + n].data + 1].owner = NValues + n
  BY <1>0 DEF HasTable
<1>18. /\ tables' \in [TableType -> Seq(TableRecord)]
       /\ DOMAIN tables'[t] = 1..(Len(tables[t]) + 1)
       /\ \A u \in TableType : \A d \in DOMAIN tables[u] : d \in DOMAIN tables'[u] /\ tables'[u][d] = tables[u][d]
       /\ \A u \in TableType \ {t} : tables'[u] = tables[u]
  BY <1>0 DEF HasTable
<1> HIDE DEF L
<1>19. TypeOK'
  <2>1. root' \in 0..NValues'
    <3>1. root \in 0..NValues
      BY <1>2 DEF TypeOK
    <3>2. ASSUME NEW a \in Nat, NEW b \in Nat, a < b, NEW c \in 0..a PROVE c \in 0..b
      BY <3>2
    <3> QED BY <1>1, <1>2, <1>11, <1>13, <1>15, <3>1, <3>2
  <2>2. IsVectorList(spare') /\ IsSequence(outs') /\ blobs' \in [{"text", "bits"} -> Seq(Blob)]
        /\ count' \in [{"out", "SET", "MAP"} -> Nat]
        /\ phase' \in Phase /\ i' \in Nat \ {0}
    BY <1>1, <1>2 DEF TypeOK
  <2>3. Len(values') = NValues'
    BY <1>12, <1>13
  <2> QED BY <1>12, <1>13, <1>18, <1>5, <2>1, <2>2, <2>3 DEF TypeOK
<1>20. \A h \in 1..H : HandleOK(h)' /\ VectorOK(h)'
  <2> TAKE h \in 1..H
  <2>1. CASE h \in 1..NValues
    <3>1. HandleOK(h) /\ VectorOK(h)
      BY <1>1, <2>1 DEF SerializerInv, HandleInv, VectorInv
    <3>2. values'[h] = values[h] /\ object'[h] = object[h]
      BY <1>16, <2>1
    <3>3. \A p \in DOMAIN privs : p \in DOMAIN privs' /\ privs'[p] = privs[p]
      BY <1>5
    <3>4. HandleOK(h)'
      BY <1>1, <3>1, <3>2 DEF HandleOK, IsVector, IsEmpty
    <3>5. VectorOK(h)'
      BY <1>1, <3>1, <3>2, <3>3 DEF VectorOK, IsPrivVector, Home
    <3> QED BY <3>4, <3>5
  <2>2. CASE \E n \in 1..L : h = NValues + n
    <3>1. PICK n \in 1..L : h = NValues + n
      BY <2>2
    <3>2. /\ values'[h].type \in PrimVector \cup ValueVector /\ ~values'[h].outside
          /\ object'[h].kind = "internal" /\ object'[h].holds = <<>>
          /\ values'[h].data + 1 \in DOMAIN privs'
          /\ privs'[values'[h].data + 1].owner = h
      BY <1>17, <3>1
    <3>3. HandleOK(h)'
      BY <3>2 DEF HandleOK, IsVector
    <3>4. VectorOK(h)'
      BY <1>1, <3>2 DEF VectorOK, Home
    <3> QED BY <3>3, <3>4
  <2>3. CASE h = H
    <3>1. HandleOK(h)'
      BY <1>3, <1>10, <2>3 DEF HandleOK, TableType
    <3>2. VectorOK(h)'
      BY <1>3, <1>10, <2>3 DEF VectorOK, IsPrivVector, TableType, PrimVector, ValueVector
    <3> QED BY <3>1, <3>2
  <2> QED BY <1>14, <2>1, <2>2, <2>3
<1>21. HandleInv' /\ VectorInv'
  BY <1>13, <1>20 DEF HandleInv, VectorInv
<1>22. /\ Tables' = Tables \cup {H}
       /\ \A h \in Tables : h \in 1..NValues /\ h < H /\ h # H /\ values'[h] = values[h] /\ values[h].type \in TableType
       /\ Tables \subseteq Tables' /\ H \in Tables'
       /\ values'[H].type = t /\ values'[H].data = Len(tables[t])
  <2>1. \A h \in 1..NValues : h < H /\ h # H
    BY <1>2, <1>11, <1>15
  <2>2. \A h \in Tables : h \in 1..NValues /\ values[h].type \in TableType
    BY DEF Tables
  <2> QED BY <1>9, <1>10, <1>16, <2>1, <2>2
<1>23. /\ \A h \in Tables : values[h].data + 1 \in DOMAIN tables[values[h].type]
       /\ \A h \in Tables : values[h].data \in Int
       /\ \A g, h \in Tables :
             g < h /\ values[g].type = values[h].type => values[g].data < values[h].data
       /\ \A u \in TableType : \A d \in DOMAIN tables[u] :
             \E h \in Tables : values[h].type = u /\ values[h].data + 1 = d
       /\ count.SET = 0 /\ count.MAP = 0 /\ spare = <<>>
  <2>1. \A h \in Tables : values[h].data \in Int
    BY <1>2, TypeFacts, ValueFields DEF Tables
  <2> QED BY <1>1, <2>1 DEF SerializerInv, NumberInv, TablesAreNumbered
<1>24. NumberInv'
  <2>1. \A h \in Tables' : values'[h].data + 1 \in DOMAIN tables'[values'[h].type]
    <3> TAKE h \in Tables'
    <3>1. CASE h \in Tables
      BY <1>18, <1>22, <1>23, <3>1
    <3>2. CASE h = H
      BY <1>6, <1>18, <1>22, <3>2
    <3> QED BY <1>22, <3>1, <3>2
  <2>2. \A g, h \in Tables' : g < h /\ values'[g].type = values'[h].type => values'[g].data < values'[h].data
    <3> TAKE g, h \in Tables'
    <3> HAVE g < h /\ values'[g].type = values'[h].type
    <3>1. CASE g \in Tables /\ h \in Tables
      BY <1>22, <1>23, <3>1
    <3>2. CASE g \in Tables /\ h = H
      <4>1. values[g].data + 1 \in 1..Len(tables[t]) /\ values[g].data \in Int
        BY <1>6, <1>22, <1>23, <3>2
      <4>2. values[g].data < Len(tables[t])
        BY <1>6, <4>1
      <4> QED BY <1>22, <3>2, <4>2
    <3>3. CASE g = H
      <4>1. \A x \in 1..H : ~(H < x)
        BY <1>11
      <4>2. Tables' \subseteq 1..H
        BY <1>13 DEF Tables
      <4> QED BY <3>3, <4>1, <4>2
    <3> QED BY <1>22, <3>1, <3>2, <3>3
  <2>3. \A u \in TableType : \A d \in DOMAIN tables'[u] :
           \E h \in Tables' : values'[h].type = u /\ values'[h].data + 1 = d
    <3> TAKE u \in TableType
    <3> TAKE d \in DOMAIN tables'[u]
    <3>1. CASE u = t /\ d = Len(tables[t]) + 1
      BY <1>22, <3>1
    <3>2. CASE ~(u = t /\ d = Len(tables[t]) + 1)
      <4>1. d \in DOMAIN tables[u]
        <5>1. CASE u = t
          <6>1. d \in 1..(Len(tables[t]) + 1)
            BY <1>18, <5>1
          <6> QED BY <1>6, <3>2, <5>1, <6>1
        <5>2. CASE u # t
          BY <1>18, <5>2
        <5> QED BY <5>1, <5>2
      <4>2. PICK h \in Tables : values[h].type = u /\ values[h].data + 1 = d
        BY <1>23, <4>1
      <4> QED BY <1>22, <4>2
    <3> QED BY <3>1, <3>2
  <2> QED BY <1>1, <1>23, <2>1, <2>2, <2>3 DEF NumberInv, TablesAreNumbered
<1>25. \A h \in Tables : TableOf(h)' = TableOf(h)
  BY <1>9
<1>26. Mine \subseteq Mine'
  BY <1>2, <1>13, <1>15, <1>16 DEF Mine
<1>27. /\ \A h \in Tables :
            /\ Len(TableOf(h).parts) \in {2, 3}
            /\ \A n \in DOMAIN TableOf(h).parts :
                  /\ TableOf(h).parts[n] \in 1..NValues
                  /\ IsPrivVector(TableOf(h).parts[n]) /\ values[TableOf(h).parts[n]].setmap
                  /\ object[TableOf(h).parts[n]].kind = "internal"
            /\ Range(TableOf(h).keys) \subseteq Mine
       /\ \A g, h \in Tables : \A m \in DOMAIN TableOf(g).parts, n \in DOMAIN TableOf(h).parts :
            TableOf(g).parts[m] = TableOf(h).parts[n] => g = h /\ m = n
  BY DEF SerializerInv, PartInv
<1>28. /\ Len(TableOf(H)'.parts) = L /\ DOMAIN TableOf(H)'.parts = 1..L
       /\ \A n \in 1..L : TableOf(H)'.parts[n] = NValues + n
       /\ Range(TableOf(H)'.keys) = {}
  BY <1>0 DEF HasTable, TableOf, Range, L
<1>29. PartInv'
  <2>1. ASSUME NEW p \in 1..NValues, IsPrivVector(p), values[p].setmap, object[p].kind = "internal"
        PROVE  p \in 1..NValues' /\ IsPrivVector(p)' /\ values'[p].setmap /\ object'[p].kind = "internal"
    BY <1>13, <1>15, <1>16, <2>1 DEF IsPrivVector
  <2>2. ASSUME NEW h \in Tables'
        PROVE  /\ Len(TableOf(h)'.parts) \in {2, 3}
               /\ \A n \in DOMAIN TableOf(h)'.parts :
                     /\ TableOf(h)'.parts[n] \in 1..NValues'
                     /\ \A p \in {TableOf(h)'.parts[n]} :
                           IsPrivVector(p)' /\ values'[p].setmap /\ object'[p].kind = "internal"
               /\ Range(TableOf(h)'.keys) \subseteq Mine'
    <3>1. CASE h \in Tables
      <4>1. TableOf(h)' = TableOf(h)
        BY <1>25, <3>1
      <4> QED BY <1>26, <1>27, <2>1, <3>1, <4>1
    <3>2. CASE h = H
      <4>1. ASSUME NEW n \in 1..L, NEW p, p = NValues + n
            PROVE  p \in 1..NValues' /\ IsPrivVector(p)' /\ values'[p].setmap /\ object'[p].kind = "internal"
        BY <1>13, <1>15, <1>17, <4>1 DEF IsPrivVector
      <4>2. Len(TableOf(h)'.parts) \in {2, 3} /\ DOMAIN TableOf(h)'.parts = 1..L
            /\ Range(TableOf(h)'.keys) = {} /\ \A n \in 1..L : TableOf(h)'.parts[n] = NValues + n
        BY <1>11, <1>28, <3>2
      <4> QED BY <4>1, <4>2
    <3> QED BY <1>22, <3>1, <3>2
  <2>3. ASSUME NEW g \in Tables', NEW h \in Tables',
               NEW m \in DOMAIN TableOf(g)'.parts, NEW n \in DOMAIN TableOf(h)'.parts,
               TableOf(g)'.parts[m] = TableOf(h)'.parts[n]
        PROVE  g = h /\ m = n
    <3>1. ASSUME NEW x \in Tables PROVE \A k \in DOMAIN TableOf(x)'.parts : TableOf(x)'.parts[k] \in 1..NValues
      BY <1>25, <1>27
    <3>2. \A k \in DOMAIN TableOf(H)'.parts : ~(TableOf(H)'.parts[k] \in 1..NValues)
      <4>1. \A k \in 1..L : ~(NValues + k \in 1..NValues)
        BY <1>2, <1>15
      <4> QED BY <1>28, <4>1
    <3>3. CASE g \in Tables /\ h \in Tables
      <4>1. TableOf(g)' = TableOf(g) /\ TableOf(h)' = TableOf(h)
        BY <1>25, <3>3
      <4> QED BY <1>27, <2>3, <3>3, <4>1
    <3>4. CASE g \in Tables /\ h = H
      BY <2>3, <3>1, <3>2, <3>4
    <3>5. CASE g = H /\ h \in Tables
      BY <2>3, <3>1, <3>2, <3>5
    <3>6. CASE g = H /\ h = H
      <4>1. m \in 1..L /\ n \in 1..L /\ NValues + m = NValues + n
        BY <1>28, <2>3, <3>6
      <4> QED BY <1>2, <3>6, <4>1
    <3> QED BY <1>22, <3>3, <3>4, <3>5, <3>6
  <2> QED BY <2>2, <2>3 DEF PartInv
<1>30. LiveInv'
  <2>1. live \subseteq Kept
    BY <1>1 DEF SerializerInv, LiveInv
  <2>2. \A u \in 1..NValues :
           /\ u \in 1..NValues' /\ values'[u] = values[u] /\ object'[u] = object[u]
           /\ IsPrivVector(u) => IsPrivVector(u)'
    BY <1>13, <1>15, <1>16 DEF IsPrivVector
  <2>3. Kept \subseteq Kept'
    BY <1>22, <2>2 DEF Kept
  <2> QED BY <1>1, <2>1, <2>3 DEF LiveInv
<1>31. HashInv'
  BY <1>1 DEF HashInv, LaidOut
<1> QED
  BY <1>19, <1>21, <1>24, <1>29, <1>30, <1>31 DEF SerializerInv

\* The step adds no handle and leaves the vectors of sets and maps theirs.
KeepsTables ==
  /\ NValues' = NValues /\ DOMAIN object' = DOMAIN object
  /\ \A h \in 1..NValues :
        /\ object'[h].kind = object[h].kind
        /\ values'[h].type \in TableType <=> values[h].type \in TableType
        /\ values[h].type \in TableType => values'[h].type = values[h].type /\ values'[h].data = values[h].data
        /\ values[h].setmap => values'[h].setmap
        /\ IsPrivVector(h) /\ values[h].setmap => IsPrivVector(h)'
  /\ \A t \in TableType : DOMAIN tables'[t] = DOMAIN tables[t]
  /\ \A h \in Tables :
        /\ tables'[values[h].type][values[h].data + 1].parts = TableOf(h).parts
        /\ Range(tables'[values[h].type][values[h].data + 1].keys) \subseteq Mine

\* Such a change leaves sets and maps in order.
LEMMA TablesAreKept ==
  ASSUME TypeOK, TablesAreNumbered, PartInv, KeepsTables
  PROVE  Tables' = Tables /\ Mine' = Mine /\ TablesAreNumbered' /\ PartInv'
<1>1. NValues' = NValues /\ DOMAIN object' = DOMAIN object
  BY DEF KeepsTables
<1>2. Tables' = Tables
  BY <1>1 DEF KeepsTables, Tables
<1>3. \A h \in Tables : /\ h \in 1..NValues /\ values'[h].type = values[h].type /\ values'[h].data = values[h].data
                        /\ values[h].type \in TableType
  BY DEF KeepsTables, Tables
<1>4. \A h \in Tables : /\ TableOf(h)'.parts = TableOf(h).parts
                        /\ Range(TableOf(h)'.keys) \subseteq Mine
  BY <1>3 DEF KeepsTables, TableOf
<1>5. TablesAreNumbered'
  BY <1>2, <1>3 DEF TablesAreNumbered, KeepsTables
<1>6. Mine' = Mine
  BY <1>1, TypeFacts DEF KeepsTables, Mine
<1>7. \A h \in Tables : \A n \in DOMAIN TableOf(h).parts :
         /\ TableOf(h).parts[n] \in 1..NValues
         /\ IsPrivVector(TableOf(h).parts[n]) /\ values[TableOf(h).parts[n]].setmap
         /\ object[TableOf(h).parts[n]].kind = "internal"
  BY DEF PartInv
<1>8. ASSUME NEW p \in 1..NValues, IsPrivVector(p), values[p].setmap, object[p].kind = "internal"
      PROVE  p \in 1..NValues' /\ IsPrivVector(p)' /\ values'[p].setmap /\ object'[p].kind = "internal"
  BY <1>8 DEF KeepsTables
<1>9. PartInv'
  <2>1. ASSUME NEW h \in Tables
        PROVE  /\ Len(TableOf(h)'.parts) \in {2, 3}
               /\ \A n \in DOMAIN TableOf(h)'.parts :
                     /\ TableOf(h)'.parts[n] \in 1..NValues'
                     /\ \A p \in {TableOf(h)'.parts[n]} :
                           IsPrivVector(p)' /\ values'[p].setmap /\ object'[p].kind = "internal"
               /\ Range(TableOf(h)'.keys) \subseteq Mine'
    <3>1. Len(TableOf(h).parts) \in {2, 3}
      BY DEF PartInv
    <3> QED BY <1>4, <1>6, <1>7, <1>8, <3>1
  <2>2. ASSUME NEW g \in Tables, NEW h \in Tables,
               NEW m \in DOMAIN TableOf(g)'.parts, NEW n \in DOMAIN TableOf(h)'.parts,
               TableOf(g)'.parts[m] = TableOf(h)'.parts[n]
        PROVE  g = h /\ m = n
    BY <1>4, <2>2 DEF PartInv
  <2> QED BY <1>2, <2>1, <2>2 DEF PartInv
<1> QED
  BY <1>2, <1>5, <1>6, <1>9

\* The client's steps that add no handle.
LEMMA BuildIsKept ==
  ASSUME SerializerInv, phase = "build", KeepsTables, TypeOK', values' = values,
         phase' = phase, i' = i, count' = count, spare' = spare, outs' = outs,
         HandleInv', VectorInv', live' \subseteq Kept'
  PROVE  SerializerInv'
<1>1. NumberInv'
  <2>1. TablesAreNumbered'
    BY TablesAreKept DEF SerializerInv, NumberInv
  <2> QED BY <2>1 DEF SerializerInv, NumberInv
<1>2. PartInv'
  BY TablesAreKept DEF SerializerInv, NumberInv
<1>3. LiveInv' /\ HashInv'
  BY DEF LiveInv, HashInv, LaidOut
<1> QED
  BY <1>1, <1>2, <1>3 DEF SerializerInv

\* A vector of the library's has the items that the client put there.
LEMMA OwnVector ==
  ASSUME SerializerInv, phase = "build", NEW v \in Mine,
         object[v].kind \in {"vector", "native"}, values[v].type # "VECTOR_EMPTY", ~values[v].outside
  PROVE  /\ v \in 1..NValues /\ IsPrivVector(v) /\ ~values[v].setmap /\ values[v].data + 1 \in DOMAIN privs
         /\ privs[values[v].data + 1].owner = v /\ privs[values[v].data + 1].items = object[v].holds
<1>1. v \in 1..NValues
  BY TypeFacts DEF SerializerInv
<1>2. HandleOK(v) /\ VectorOK(v)
  BY <1>1 DEF SerializerInv, HandleInv, VectorInv
<1>3. IsPrivVector(v) /\ ~values[v].setmap
  BY <1>2 DEF HandleOK, IsPrivVector, IsVector, IsEmpty
<1> QED
  BY <1>1, <1>2, <1>3 DEF VectorOK, Home

\* The step replaces the items of vector v by y.
ChangesItems(v, y) ==
  /\ phase = "build" /\ phase' = phase /\ i' = i /\ count' = count /\ spare' = spare /\ root' = root
  /\ values' = values /\ outs' = outs /\ blobs' = blobs /\ tables' = tables
  /\ object[v].kind \in {"vector", "native"} /\ values[v].type # "VECTOR_EMPTY" /\ ~values[v].outside
  /\ IsSequence(y) /\ y # <<>>
  /\ privs' = [privs EXCEPT ![values[v].data + 1] = [privs[values[v].data + 1] EXCEPT !.items = y]]
  /\ object' = [object EXCEPT ![v] = [object[v] EXCEPT !.holds = y]]
  /\ live' \subseteq live \cup {<<"items", v>>}

\* A change of one vector's items keeps the invariant.
LEMMA ItemsAreKept ==
  ASSUME SerializerInv, NEW v \in Mine, NEW y, ChangesItems(v, y)
  PROVE  SerializerInv'
<1> DEFINE d == values[v].data + 1
           e == [privs[d] EXCEPT !.items = y]
           o == [object[v] EXCEPT !.holds = y]
<1>1. /\ phase = "build" /\ phase' = phase /\ i' = i /\ count' = count /\ spare' = spare /\ root' = root
      /\ values' = values /\ outs' = outs /\ blobs' = blobs /\ tables' = tables
      /\ privs' = [privs EXCEPT ![d] = e] /\ object' = [object EXCEPT ![v] = o]
      /\ live' \subseteq live \cup {<<"items", v>>}
      /\ object[v].kind \in {"vector", "native"} /\ ~values[v].outside
      /\ IsSequence(y) /\ y # <<>>
  BY DEF ChangesItems
<1>2. /\ TypeOK /\ NValues \in Nat /\ DOMAIN object = 1..NValues
      /\ IsVectorList(privs) /\ IsSequence(privs) /\ IsSequence(object)
  BY TypeFacts DEF SerializerInv, TypeOK, IsVectorList
<1>3. /\ v \in 1..NValues /\ IsPrivVector(v) /\ ~values[v].setmap /\ d \in DOMAIN privs
      /\ privs[d].owner = v /\ privs[d].items = object[v].holds
  BY OwnVector DEF ChangesItems
<1>4. DOMAIN object[v] = {"kind", "holds"} /\ object[v].kind \in Kind /\ DOMAIN privs[d] = {"owner", "items"}
  BY <1>2, <1>3 DEF TypeOK, IsVectorList
<1>5. /\ DOMAIN o = {"kind", "holds"} /\ o.kind = object[v].kind /\ o.holds = y
      /\ DOMAIN e = {"owner", "items"} /\ e.owner = v /\ e.items = y
  BY <1>3, <1>4
<1> HIDE DEF d, e, o
<1>6. /\ NValues' = NValues /\ DOMAIN object' = 1..NValues /\ IsSequence(object')
      /\ \A h \in 1..NValues : object'[h] = IF h = v THEN o ELSE object[h]
  BY <1>1, <1>2, SequenceUpdate DEF NValues
<1>7. \A h \in 1..NValues : object'[h].kind = object[h].kind /\ (h # v => object'[h] = object[h])
  BY <1>5, <1>6
<1>8. /\ IsVectorList(privs') /\ DOMAIN privs' = DOMAIN privs
      /\ \A p \in DOMAIN privs : privs'[p] = IF p = d THEN e ELSE privs[p]
  BY <1>1, <1>2, <1>5, SequenceUpdate, VectorListUpdate
<1>9. TypeOK'
  <2>1. \A h \in DOMAIN object' :
          DOMAIN object'[h] = {"kind", "holds"} /\ object'[h].kind \in Kind /\ IsSequence(object'[h].holds)
    BY <1>1, <1>2, <1>4, <1>5, <1>6 DEF TypeOK
  <2> QED BY <1>1, <1>2, <1>6, <1>8, <2>1 DEF TypeOK
<1>10. HandleInv'
  <2>1. ASSUME NEW h \in 1..NValues PROVE HandleOK(h)'
    <3>1. HandleOK(h)
      BY DEF SerializerInv, HandleInv
    <3>2. CASE h = v
      <4>1. object'[v].kind = object[v].kind
        BY <1>3, <1>7
      <4>2. IsVector(v)
        BY <1>3 DEF IsPrivVector, IsVector
      <4> QED BY <1>1, <1>3, <3>1, <3>2, <4>1, <4>2 DEF HandleOK, IsVector
    <3>3. CASE h # v
      BY <1>1, <1>7, <3>1, <3>3 DEF HandleOK, IsVector, IsEmpty
    <3> QED BY <3>2, <3>3
  <2> QED BY <1>6, <2>1 DEF HandleInv
<1>11. VectorInv'
  <2>1. ASSUME NEW h \in 1..NValues PROVE VectorOK(h)'
    <3>1. VectorOK(h)
      BY <1>1 DEF SerializerInv, VectorInv
    <3>2. CASE h = v
      BY <1>1, <1>3, <1>5, <1>6, <1>8, <3>2 DEF VectorOK, Home, d
    <3>3. CASE h # v
      <4>1. SUFFICES ASSUME IsPrivVector(h) PROVE VectorOK(h)'
        BY <1>1 DEF VectorOK, IsPrivVector
      <4>2. values[h].data + 1 # d
        BY <1>1, <1>3, <3>1, <3>3, <4>1 DEF VectorOK, Home
      <4>3. privs'[values[h].data + 1] = privs[values[h].data + 1] /\ values[h].data + 1 \in DOMAIN privs'
        BY <1>1, <1>8, <3>1, <4>1, <4>2 DEF VectorOK, Home
      <4> QED BY <1>1, <1>7, <3>1, <3>3, <4>1, <4>3 DEF VectorOK, Home
    <3> QED BY <3>2, <3>3
  <2> QED BY <1>6, <2>1 DEF VectorInv
<1>12. KeepsTables
  <2>1. \A h \in Tables : Range(TableOf(h).keys) \subseteq Mine
    BY DEF SerializerInv, PartInv
  <2>2. \A h \in 1..NValues : IsPrivVector(h) => IsPrivVector(h)'
    BY <1>1 DEF IsPrivVector
  <2> QED BY <1>1, <1>2, <1>6, <1>7, <2>1, <2>2 DEF KeepsTables, TableOf
<1>13. live' \subseteq Kept'
  <2>1. live \subseteq Kept
    BY <1>1 DEF SerializerInv, LiveInv
  <2>2. Tables' = Tables
    BY <1>12, TablesAreKept DEF SerializerInv, NumberInv
  <2>3. \A h \in 1..NValues : /\ values'[h] = values[h] /\ (IsPrivVector(h) => IsPrivVector(h)')
                             /\ (object[h].holds # <<>> => object'[h].holds # <<>>)
    BY <1>1, <1>5, <1>6 DEF IsPrivVector
  <2>4. Kept \subseteq Kept'
    BY <1>6, <2>2, <2>3 DEF Kept
  <2>5. <<"items", v>> \in Kept'
    <3>1. IsPrivVector(v)' /\ object'[v].holds # <<>>
      BY <1>1, <1>3, <1>5, <1>6, <2>3
    <3> QED BY <1>3, <1>6, <3>1 DEF Kept
  <2> QED BY <1>1, <2>1, <2>4, <2>5
<1> QED
  BY <1>1, <1>9, <1>10, <1>11, <1>12, <1>13, BuildIsKept

\* An item is added to a vector, or replaced.
LEMMA AppendIsKept ==
  ASSUME SerializerInv, NEW v \in Mine, NEW x, VectorAppend(v, x)
  PROVE  SerializerInv'
<1> DEFINE y == Append(object[v].holds, x)
<1>1. /\ phase = "build" /\ object[v].kind \in {"vector", "native"}
      /\ values[v].type # "VECTOR_EMPTY" /\ ~values[v].outside
  BY DEF VectorAppend, RoomForItem
<1>2. v \in 1..NValues /\ privs[values[v].data + 1].items = object[v].holds
  BY <1>1, OwnVector
<1>3. IsSequence(object[v].holds)
  BY <1>2, TypeFacts DEF SerializerInv, TypeOK
<1>4. IsSequence(y) /\ y # <<>>
  BY <1>3, SequencePush
<1>5. ChangesItems(v, y)
  BY <1>2, <1>4 DEF VectorAppend, RoomForItem, ChangesItems, output
<1> HIDE DEF y
<1> QED
  BY <1>5, ItemsAreKept

\* An item is replaced.
LEMMA SetIsKept ==
  ASSUME SerializerInv, NEW v \in Mine, NEW n, NEW x, VectorSet(v, n, x)
  PROVE  SerializerInv'
<1> DEFINE y == [object[v].holds EXCEPT ![n] = x]
<1>1. phase = "build" /\ object[v].kind = "vector" /\ n \in DOMAIN object[v].holds
  BY DEF VectorSet
<1>2. v \in 1..NValues /\ IsSequence(object[v].holds)
  BY TypeFacts DEF SerializerInv, TypeOK
<1>3. values[v].type # "VECTOR_EMPTY" /\ ~values[v].outside
  <2>1. HandleOK(v)
    BY <1>2 DEF SerializerInv, HandleInv
  <2>2. object[v].holds # <<>>
    BY <1>1, EmptySequence
  <2> QED BY <1>1, <2>1, <2>2 DEF HandleOK, IsVector, IsEmpty, PrimVector, ValueVector
<1>4. privs[values[v].data + 1].items = object[v].holds
  BY <1>1, <1>3, OwnVector
<1>5. IsSequence(y) /\ y # <<>>
  <2>1. IsSequence(y) /\ DOMAIN y = DOMAIN object[v].holds
    BY <1>2, SequenceUpdate
  <2> QED BY <1>1, <2>1, EmptySequence
<1>6. ChangesItems(v, y)
  BY <1>1, <1>3, <1>4, <1>5 DEF VectorSet, ChangesItems, output
<1> HIDE DEF y
<1> QED
  BY <1>6, ItemsAreKept

\* A key, and in a map a value, is added to a set or map.
HasKey(s, k, v) ==
  /\ phase = "build" /\ phase' = phase /\ i' = i /\ count' = count /\ spare' = spare /\ root' = root
  /\ values' = values /\ outs' = outs /\ blobs' = blobs /\ privs' = privs
  /\ live' = live \cup {<<"keys", s>>}
  /\ s \in Tables /\ s \in 1..NValues /\ object[s].kind \in {"set", "map"} /\ IsSequence(object[s].holds)
  /\ NValues' = NValues /\ DOMAIN object' = 1..NValues /\ IsSequence(object')
  /\ object'[s].kind = object[s].kind /\ object'[s].holds = Append(object[s].holds, <<k, v>>)
  /\ DOMAIN object'[s] = {"kind", "holds"}
  /\ \A h \in 1..NValues : h # s => object'[h] = object[h]
  /\ tables' \in [TableType -> Seq(TableRecord)]
  /\ \A u \in TableType : DOMAIN tables'[u] = DOMAIN tables[u]
  /\ \A u \in TableType : \A e \in DOMAIN tables[u] :
        ~(u = values[s].type /\ e = values[s].data + 1) => tables'[u][e] = tables[u][e]
  /\ LET T == TableOf(s)
         W == tables'[values[s].type][values[s].data + 1]
     IN  /\ W.keys = Append(T.keys, k) /\ W.parts = T.parts
         /\ W.vals = IF values[s].type = "MAP" THEN Append(T.vals, v) ELSE T.vals

\* So the call does.
LEMMA KeyIsAdded ==
  ASSUME SerializerInv, NEW s \in Mine, NEW k \in Mine, NEW v \in Mine, TableAdd(s, k, v)
  PROVE  HasKey(s, k, v)
<1> DEFINE t == values[s].type
           d == values[s].data + 1
           T == tables[t][d]
           U == [T EXCEPT !.keys = Append(T.keys, k)]
           W == [U EXCEPT !.vals = IF t = "MAP" THEN Append(U.vals, v) ELSE U.vals]
           y == Append(object[s].holds, <<k, v>>)
           o == [object[s] EXCEPT !.holds = y]
<1>1. /\ phase = "build" /\ phase' = phase /\ i' = i /\ count' = count /\ spare' = spare /\ root' = root
      /\ values' = values /\ outs' = outs /\ blobs' = blobs /\ privs' = privs
      /\ object' = [object EXCEPT ![s] = o]
      /\ live' = live \cup {<<"keys", s>>}
      /\ object[s].kind \in {"set", "map"}
  BY DEF TableAdd, RoomForItem, output
<1>2. /\ TypeOK /\ NValues \in Nat /\ DOMAIN object = 1..NValues /\ IsSequence(object)
      /\ s \in 1..NValues /\ k \in Nat /\ v \in Nat /\ tables \in [TableType -> Seq(TableRecord)]
  <2>1. TypeOK
    BY DEF SerializerInv
  <2>2. NValues \in Nat /\ DOMAIN object = 1..NValues /\ Mine \subseteq 1..NValues
    BY <2>1, TypeFacts
  <2>3. s \in 1..NValues /\ k \in 1..NValues /\ v \in 1..NValues
    BY <2>2
  <2>4. k \in Nat /\ v \in Nat
    BY <2>2, <2>3
  <2>5. IsSequence(object) /\ tables \in [TableType -> Seq(TableRecord)]
    BY <2>1 DEF TypeOK
  <2> QED BY <2>1, <2>2, <2>3, <2>4, <2>5
<1>3. s \in Tables /\ t \in TableType
  <2>1. HandleOK(s)
    BY <1>2 DEF SerializerInv, HandleInv
  <2> QED BY <1>1, <1>2, <2>1 DEF HandleOK, Tables, TableType
<1>4. d \in DOMAIN tables[t]
  BY <1>3 DEF SerializerInv, NumberInv, TablesAreNumbered
<1>5. T \in TableRecord /\ tables[t] \in Seq(TableRecord)
  BY <1>2, <1>3, <1>4
<1>6. /\ U \in TableRecord /\ U.keys = Append(T.keys, k) /\ U.parts = T.parts /\ U.vals = T.vals
  <2>1. Append(T.keys, k) \in Seq(Nat)
    BY SMTT(30), <1>2, <1>5 DEF TableRecord
  <2> DEFINE z == Append(T.keys, k)
  <2> HIDE DEF T, z
  <2>2. [T EXCEPT !.keys = z] \in TableRecord /\ [T EXCEPT !.keys = z].keys = z
        /\ [T EXCEPT !.keys = z].parts = T.parts /\ [T EXCEPT !.keys = z].vals = T.vals
    BY <1>5, <2>1 DEF TableRecord, z
  <2> QED BY <2>2 DEF z
<1>7. /\ W \in TableRecord /\ W.keys = Append(T.keys, k) /\ W.parts = T.parts
      /\ W.vals = IF t = "MAP" THEN Append(T.vals, v) ELSE T.vals
  <2> DEFINE z == IF t = "MAP" THEN Append(U.vals, v) ELSE U.vals
  <2>1. z \in Seq(Nat)
    <3> HIDE DEF U
    <3>1. U.vals \in Seq(Nat)
      BY <1>6 DEF TableRecord
    <3>2. Append(U.vals, v) \in Seq(Nat)
      BY <1>2, <3>1
    <3> QED BY <3>1, <3>2
  <2> HIDE DEF U, z
  <2>2. [U EXCEPT !.vals = z] \in TableRecord /\ [U EXCEPT !.vals = z].keys = U.keys
        /\ [U EXCEPT !.vals = z].parts = U.parts /\ [U EXCEPT !.vals = z].vals = z
    BY <1>6, <2>1 DEF TableRecord
  <2> QED BY <1>6, <2>2 DEF z
<1>8. tables' = [tables EXCEPT ![t] = [tables[t] EXCEPT ![d] = W]]
  <2>1. tables' = [tables EXCEPT ![t][d].keys = Append(@, k),
                                 ![t][d].vals = IF t = "MAP" THEN Append(@, v) ELSE @]
    BY DEF TableAdd
  <2> DEFINE q == [tables[t] EXCEPT ![d] = U]
             g == [tables EXCEPT ![t] = q]
  <2>2. g = [tables EXCEPT ![t][d].keys = Append(@, k)]
    OBVIOUS
  <2>3. DOMAIN g = DOMAIN tables /\ g[t] = q /\ q[d] = U
    BY <1>2, <1>3, <1>4
  <2>4. tables' = [g EXCEPT ![t] = [g[t] EXCEPT ![d] = [g[t][d] EXCEPT
                     !.vals = IF t = "MAP" THEN Append(g[t][d].vals, v) ELSE g[t][d].vals]]]
    <3> HIDE DEF g, q, T, U, W, t, d
    <3> QED BY <2>1, <2>2
  <2>5. tables' = [g EXCEPT ![t] = [q EXCEPT ![d] = W]]
    <3> HIDE DEF g, q, U, t, d
    <3> QED BY <2>3, <2>4
  <2> HIDE DEF W, U, t, d
  <2> QED BY <1>2, <1>3, <1>4, <2>5
<1>9. /\ IsSequence(object[s].holds) /\ DOMAIN object[s] = {"kind", "holds"} /\ object[s].kind \in Kind
      /\ IsSequence(y)
      /\ DOMAIN o = {"kind", "holds"} /\ o.kind = object[s].kind /\ o.holds = y
  <2>1. IsSequence(object[s].holds) /\ DOMAIN object[s] = {"kind", "holds"} /\ object[s].kind \in Kind
    BY <1>2 DEF TypeOK
  <2>2. IsSequence(y)
    BY <2>1, SequencePush
  <2> HIDE DEF y
  <2> QED BY <2>1, <2>2
<1> HIDE DEF T, U, W, y, o
<1>10. /\ tables' \in [TableType -> Seq(TableRecord)]
       /\ \A u \in TableType :
             /\ DOMAIN tables'[u] = DOMAIN tables[u]
             /\ \A e \in DOMAIN tables[u] : tables'[u][e] = IF u = t /\ e = d THEN W ELSE tables[u][e]
  <2> HIDE DEF t, d
  <2> DEFINE q == [tables[t] EXCEPT ![d] = W]
  <2>1. q \in Seq(TableRecord) /\ DOMAIN q = DOMAIN tables[t]
        /\ \A e \in DOMAIN tables[t] : q[e] = IF e = d THEN W ELSE tables[t][e]
    BY <1>4, <1>5, <1>7
  <2>2. tables' = [tables EXCEPT ![t] = q]
    BY <1>8
  <2> HIDE DEF q
  <2> QED BY <1>2, <1>3, <2>1, <2>2
<1>11. /\ NValues' = NValues /\ DOMAIN object' = 1..NValues /\ IsSequence(object')
       /\ \A h \in 1..NValues : object'[h] = IF h = s THEN o ELSE object[h]
  BY <1>1, <1>2, SequenceUpdate DEF NValues
<1>12. /\ tables'[t][d] = W /\ T = TableOf(s)
       /\ \A u \in TableType : \A e \in DOMAIN tables[u] : ~(u = t /\ e = d) => tables'[u][e] = tables[u][e]
  BY <1>3, <1>4, <1>10 DEF T, TableOf
<1>13. /\ object'[s].kind = object[s].kind /\ object'[s].holds = Append(object[s].holds, <<k, v>>)
       /\ DOMAIN object'[s] = {"kind", "holds"}
  BY <1>2, <1>9, <1>11 DEF y
<1> QED
  BY <1>1, <1>2, <1>3, <1>7, <1>9, <1>10, <1>11, <1>12, <1>13 DEF HasKey

\* And it keeps the invariant.
LEMMA AddIsKept ==
  ASSUME SerializerInv, NEW s \in Mine, NEW k \in Mine, NEW v \in Mine, TableAdd(s, k, v)
  PROVE  SerializerInv'
<1> DEFINE t == values[s].type
           d == values[s].data + 1
           T == TableOf(s)
           W == tables'[t][d]
<1>1. HasKey(s, k, v)
  BY KeyIsAdded
<1>2. TypeOK /\ NValues \in Nat /\ DOMAIN object = 1..NValues /\ s \in 1..NValues
  BY <1>1, TypeFacts DEF HasKey, SerializerInv
<1>3. s \in Tables /\ T \in TableRecord /\ t \in TableType
  <2>1. s \in Tables /\ t \in TableType /\ d \in DOMAIN tables[t]
    BY <1>1 DEF HasKey, SerializerInv, NumberInv, TablesAreNumbered, Tables
  <2>2. tables[t] \in Seq(TableRecord)
    BY <1>2, <2>1 DEF TypeOK
  <2> QED BY <2>1, <2>2 DEF TableOf
<1> HIDE DEF T, W
<1>4. \A h \in 1..NValues : object'[h].kind = object[h].kind /\ (h # s => object'[h] = object[h])
  BY <1>1 DEF HasKey
<1>5. object'[s].holds # <<>> /\ IsSequence(object'[s].holds)
  <2>1. PICK w, pair : w = object[s].holds /\ pair = <<k, v>>
    OBVIOUS
  <2>2. object'[s].holds = Append(w, pair) /\ IsSequence(w)
    BY <1>1, <2>1 DEF HasKey
  <2>3. IsSequence(Append(w, pair)) /\ Append(w, pair) # <<>>
    BY <2>2, SequencePush
  <2> QED BY <2>2, <2>3
<1>6. /\ phase = "build" /\ phase' = phase /\ i' = i /\ count' = count /\ spare' = spare /\ root' = root
      /\ values' = values /\ outs' = outs /\ blobs' = blobs /\ privs' = privs
      /\ live' = live \cup {<<"keys", s>>}
      /\ NValues' = NValues /\ DOMAIN object' = 1..NValues /\ IsSequence(object')
      /\ object[s].kind \in {"set", "map"} /\ DOMAIN object'[s] = {"kind", "holds"}
      /\ tables' \in [TableType -> Seq(TableRecord)]
      /\ \A u \in TableType : DOMAIN tables'[u] = DOMAIN tables[u]
      /\ \A u \in TableType : \A e \in DOMAIN tables[u] : ~(u = t /\ e = d) => tables'[u][e] = tables[u][e]
  BY <1>1 DEF HasKey
<1>7. W.keys = Append(T.keys, k) /\ W.parts = T.parts
  BY <1>1 DEF HasKey, T, W
<1>8. TypeOK'
  <2>1. \A h \in DOMAIN object' :
          DOMAIN object'[h] = {"kind", "holds"} /\ object'[h].kind \in Kind /\ IsSequence(object'[h].holds)
    BY <1>2, <1>4, <1>5, <1>6 DEF TypeOK
  <2> QED BY <1>2, <1>6, <2>1 DEF TypeOK
<1>9. HandleInv'
  <2>1. ASSUME NEW h \in 1..NValues PROVE HandleOK(h)'
    <3>1. HandleOK(h)
      BY DEF SerializerInv, HandleInv
    <3>2. CASE h = s
      <4>1. object'[s].kind = object[s].kind
        BY <1>2, <1>4
      <4> QED BY <1>6, <3>1, <3>2, <4>1 DEF HandleOK
    <3>3. CASE h # s
      BY <1>4, <1>6, <3>1, <3>3 DEF HandleOK, IsVector, IsEmpty
    <3> QED BY <3>2, <3>3
  <2> QED BY <1>6, <2>1 DEF HandleInv
<1>10. VectorInv'
  <2>1. ASSUME NEW h \in 1..NValues PROVE VectorOK(h)'
    <3>1. VectorOK(h)
      BY <1>6 DEF SerializerInv, VectorInv
    <3>2. CASE h = s
      BY <1>3, <1>6, <3>2 DEF VectorOK, IsPrivVector, TableType, PrimVector, ValueVector
    <3>3. CASE h # s
      BY <1>4, <1>6, <3>1, <3>3 DEF VectorOK, IsPrivVector, Home
    <3> QED BY <3>2, <3>3
  <2> QED BY <1>6, <2>1 DEF VectorInv
<1>11. \A h \in Tables : Range(TableOf(h).keys) \subseteq Mine
  BY DEF SerializerInv, PartInv
<1>12. Range(W.keys) \subseteq Mine
  <2>1. Range(T.keys) \subseteq Mine
    BY <1>3, <1>11 DEF T
  <2>2. IsSequence(T.keys)
    <3>1. T.keys \in Seq(Nat)
      BY <1>3 DEF TableRecord
    <3> QED BY <3>1, SequenceOver
  <2>3. T.keys \in Seq(Mine)
    <3>1. T.keys \in Seq(Range(T.keys))
      BY <2>2 DEF IsSequence
    <3>2. Seq(Range(T.keys)) \subseteq Seq(Mine)
      BY <2>1
    <3> QED BY <3>1, <3>2
  <2>4. Append(T.keys, k) \in Seq(Mine)
    BY <2>3
  <2>5. Range(Append(T.keys, k)) \subseteq Mine
    BY <2>4 DEF Range
  <2> QED BY <1>7, <2>5
<1>13. KeepsTables
  <2>1. \A h \in 1..NValues : IsPrivVector(h) => IsPrivVector(h)'
    BY <1>6 DEF IsPrivVector
  <2>2. ASSUME NEW h \in Tables
        PROVE  /\ tables'[values[h].type][values[h].data + 1].parts = TableOf(h).parts
               /\ Range(tables'[values[h].type][values[h].data + 1].keys) \subseteq Mine
    <3>1. values[h].type \in TableType /\ values[h].data + 1 \in DOMAIN tables[values[h].type]
      BY DEF Tables, SerializerInv, NumberInv, TablesAreNumbered
    <3>2. CASE values[h].type = t /\ values[h].data + 1 = d
      <4>1. tables'[values[h].type][values[h].data + 1] = W
        BY <3>2 DEF W
      <4>2. TableOf(h) = T
        BY <3>2 DEF TableOf, T
      <4> QED BY <1>7, <1>12, <4>1, <4>2
    <3>3. CASE ~(values[h].type = t /\ values[h].data + 1 = d)
      <4>1. tables'[values[h].type][values[h].data + 1] = TableOf(h)
        BY <1>6, <3>1, <3>3 DEF TableOf
      <4> QED BY <1>11, <4>1
    <3> QED BY <3>2, <3>3
  <2> QED BY <1>2, <1>4, <1>6, <2>1, <2>2 DEF KeepsTables
<1>14. live' \subseteq Kept'
  <2>1. live \subseteq Kept
    BY <1>6 DEF SerializerInv, LiveInv
  <2>2. Tables' = Tables
    BY <1>2, <1>13, TablesAreKept DEF SerializerInv, NumberInv
  <2>3. \A h \in 1..NValues : /\ values'[h] = values[h] /\ (IsPrivVector(h) => IsPrivVector(h)')
                             /\ (object[h].holds # <<>> => object'[h].holds # <<>>)
    BY <1>4, <1>5, <1>6 DEF IsPrivVector
  <2>4. Kept \subseteq Kept'
    BY <1>6, <2>2, <2>3 DEF Kept
  <2>5. <<"keys", s>> \in Kept'
    BY <1>3, <2>2 DEF Kept
  <2> QED BY <1>6, <2>1, <2>4, <2>5
<1> QED
  BY <1>6, <1>8, <1>9, <1>10, <1>13, <1>14, BuildIsKept

\* The root is chosen.
LEMMA RootIsKept ==
  ASSUME SerializerInv, NEW h \in Mine, SetRoot(h)
  PROVE  SerializerInv'
<1>1. /\ phase = "build" /\ root' = h
      /\ phase' = phase /\ i' = i /\ count' = count /\ spare' = spare
      /\ values' = values /\ privs' = privs /\ outs' = outs /\ blobs' = blobs /\ tables' = tables
      /\ object' = object /\ live' = live
  BY DEF SetRoot, output
<1>2. TypeOK /\ NValues' = NValues /\ h \in 0..NValues
  <2>1. TypeOK /\ h \in 1..NValues /\ NValues \in Nat
    BY TypeFacts DEF SerializerInv
  <2> QED BY <1>1, <2>1 DEF NValues
<1>3. TypeOK'
  BY <1>1, <1>2 DEF TypeOK
<1>4. HandleInv' /\ VectorInv' /\ NumberInv' /\ PartInv' /\ LiveInv' /\ HashInv'
  <2>1. HandleInv'
    BY <1>1, <1>2 DEF SerializerInv, HandleInv, HandleOK, IsVector, IsEmpty
  <2>2. VectorInv'
    BY <1>1, <1>2 DEF SerializerInv, VectorInv, VectorOK, IsPrivVector, Home
  <2>3. KeepsTables
    BY <1>1, <1>2 DEF KeepsTables, IsPrivVector, TableOf, SerializerInv, PartInv
  <2>4. Tables' = Tables
    BY <1>2, <2>3, TablesAreKept DEF SerializerInv, NumberInv
  <2>5. live' \subseteq Kept'
    BY <1>1, <1>2, <2>4 DEF SerializerInv, LiveInv, Kept, IsPrivVector
  <2>6. SerializerInv'
    BY <1>1, <1>3, <2>1, <2>2, <2>3, <2>5, BuildIsKept
  <2> QED BY <2>6 DEF SerializerInv
<1> QED
  BY <1>3, <1>4 DEF SerializerInv

\* Every call of the client keeps the invariant.
LEMMA ClientIsKept ==
  ASSUME SerializerInv, Client
  PROVE  SerializerInv'
<1>1. ASSUME NEW t \in Native, NEW s \in BoundedSeq(NativeItem, MaxItems), CreateOutside(t, s)
      PROVE  SerializerInv'
  <2>1. s \in Seq(NativeItem)
    BY BoundAssumption DEF BoundedSeq, SeqOf
  <2> QED BY <1>1, <2>1, OutsideIsKept
<1> QED
  BY <1>1, InlineIsKept, BlobIsKept, VectorIsKept, TableIsKept, FailedTableIsKept,
     AppendIsKept, SetIsKept, AddIsKept, RootIsKept DEF Client

-----------------------------------------------------------------------------
(* The output *)

\* A step of the output that changes nothing that has been built.
LEMMA BuildStays ==
  ASSUME SerializerInv, build' = build, spare' = spare, count' \in [{"out", "SET", "MAP"} -> Nat],
         phase' \in Phase, phase' # "build", i' \in Nat \ {0}
  PROVE  /\ TypeOK' /\ HandleInv' /\ PartInv' /\ TablesAreNumbered'
         /\ NValues' = NValues /\ Tables' = Tables /\ Kept' = Kept
         /\ \A h : TableOf(h)' = TableOf(h) /\ (IsPrivVector(h)' <=> IsPrivVector(h)) /\ Vec(h)' = Vec(h)
<1>1. /\ values' = values /\ privs' = privs /\ outs' = outs /\ blobs' = blobs /\ tables' = tables
      /\ root' = root /\ object' = object /\ live' = live
  BY DEF build
<1>2. NValues' = NValues /\ TypeOK
  BY <1>1 DEF NValues, SerializerInv
<1>3. TypeOK'
  BY <1>1, <1>2 DEF TypeOK
<1>4. HandleInv'
  BY <1>1, <1>2 DEF SerializerInv, HandleInv, HandleOK, IsVector, IsEmpty
<1>5. KeepsTables
  BY <1>1, <1>2 DEF KeepsTables, IsPrivVector, TableOf, SerializerInv, PartInv
<1>6. Tables' = Tables /\ PartInv' /\ TablesAreNumbered'
  BY <1>2, <1>5, TablesAreKept DEF SerializerInv, NumberInv
<1>7. \A h : TableOf(h)' = TableOf(h) /\ (IsPrivVector(h)' <=> IsPrivVector(h)) /\ Vec(h)' = Vec(h)
  BY <1>1 DEF TableOf, IsPrivVector, Vec
<1>8. Kept' = Kept
  BY <1>1, <1>2, <1>6 DEF Kept, IsPrivVector
<1> QED
  BY <1>2, <1>3, <1>4, <1>6, <1>7, <1>8

\* What a reader looks at to hash a key depends on the types of the values and on what is
\* under the handles.
LEMMA ReadersStay ==
  ASSUME NValues' = NValues, object' = object, \A x \in 1..NValues : values'[x] = values[x]
  PROVE  \A k : (HasEmpty(k)' <=> HasEmpty(k)) /\ HashedByReader(k)' = HashedByReader(k)
<1>1. \A u : ToRead(u).type = values[u].type
  BY DEF ToRead
<1>2. \A u : ToRead(u)'.type = values'[u].type
  BY DEF ToRead
<1>3. ReadHashing = [u \in 1..NValues |->
          IF values[u].type = "VECTOR_VALUE_HASHABLE" THEN Range(object[u].holds) ELSE {}]
  BY <1>1 DEF ReadHashing
<1>4. ReadHashing' = [u \in 1..NValues |->
          IF values'[u].type = "VECTOR_VALUE_HASHABLE" THEN Range(object[u].holds) ELSE {}]
  BY <1>2 DEF ReadHashing
<1>5. ReadHashing' = ReadHashing
  BY <1>3, <1>4
<1>6. \A k : HasEmpty(k)' <=> HasEmpty(k)
  BY <1>5 DEF HasEmpty
<1>7. \A k : HashedByReader(k)' = HashedByReader(k)
  BY <1>5 DEF HashedByReader, ReadItems
<1> QED
  BY <1>6, <1>7

\* What has been laid out is not disturbed.
LEMMA HashesStay ==
  ASSUME HashInv, build' = build, Tables' = Tables, \A h \in Tables : LaidOut(h)' => LaidOut(h)
  PROVE  HashInv'
<1>1. values' = values /\ privs' = privs /\ tables' = tables /\ object' = object
  BY DEF build
<1>2. \A k : (HasEmpty(k)' <=> HasEmpty(k)) /\ HashedByReader(k)' = HashedByReader(k)
  BY <1>1, ReadersStay DEF NValues
<1>3. \A h : KeysOf(h)' = KeysOf(h) /\ HashesOf(h)' = HashesOf(h)
  BY <1>1 DEF HashesOf, KeysOf, TableOf, Vec
<1> QED
  BY <1>2, <1>3 DEF HashInv, HashedAsRead

\* ... and neither are the vectors, outside the renumbering.
LEMMA VectorsStay ==
  ASSUME VectorInv, build' = build, NValues' = NValues, phase \notin {"renumber", "leaked", "lost"},
         phase' # "renumber"
  PROVE  VectorInv'
<1>1. values' = values /\ privs' = privs /\ object' = object
  BY DEF build
<1> QED
  BY <1>1 DEF VectorInv, VectorOK, IsPrivVector, Home

\* Output begins.
LEMMA BeginIsKept ==
  ASSUME SerializerInv, OutputBegin
  PROVE  SerializerInv'
<1>1. /\ phase = "build" /\ phase' \in {"failed", "renumber"} /\ i' = 1
      /\ build' = build /\ spare' = spare /\ count' = count
  BY DEF OutputBegin, Goto
<1>2. /\ TypeOK' /\ HandleInv' /\ PartInv' /\ TablesAreNumbered'
      /\ NValues' = NValues /\ Tables' = Tables /\ Kept' = Kept
  <2>1. count' \in [{"out", "SET", "MAP"} -> Nat] /\ phase' \in Phase /\ phase' # "build" /\ i' \in Nat \ {0}
    BY <1>1 DEF SerializerInv, TypeOK, Phase
  <2> QED BY <1>1, <2>1, BuildStays
<1>3. NValues \in Nat /\ values' = values /\ object' = object /\ privs' = privs /\ live' = live
  BY <1>1, TypeFacts DEF SerializerInv, build
<1>4. VectorInv'
  <2>1. ASSUME NEW h \in 1..NValues PROVE VectorOK(h)'
    <3>1. VectorOK(h)
      BY <1>1 DEF SerializerInv, VectorInv
    <3>2. Home(h) = privs /\ Home(h)' = privs
      BY <1>1, <1>3 DEF Home
    <3> QED BY <1>3, <3>1, <3>2 DEF VectorOK, IsPrivVector
  <2> QED BY <1>2, <2>1 DEF VectorInv
<1>5. NumberInv'
  <2>1. count.SET = 0 /\ count.MAP = 0
    BY <1>1 DEF SerializerInv, NumberInv
  <2>2. \A h \in Tables : h \in 1..NValues /\ values[h].data \in Nat /\ values[h].type \in {"SET", "MAP"}
    <3>1. ASSUME NEW h \in Tables PROVE values[h].data \in Nat
      <4>1. values[h].type \in TableType /\ values[h].data + 1 \in DOMAIN tables[values[h].type]
        BY DEF Tables, SerializerInv, NumberInv, TablesAreNumbered
      <4>2. tables[values[h].type] \in Seq(TableRecord) /\ values[h].data \in Int
        BY <4>1, TypeFacts, ValueFields DEF SerializerInv, TypeOK, Tables
      <4> QED BY <4>1, <4>2
    <3> QED BY <3>1 DEF Tables, TableType
  <2>3. \A h \in Tables : h < 1 <=> values[h].data < count[values[h].type]
    BY <1>3, <2>1, <2>2
  <2> QED BY <1>1, <1>2, <1>3, <2>3 DEF NumberInv
<1>6. LiveInv'
  BY <1>1, <1>2, <1>3 DEF SerializerInv, LiveInv
<1>7. HashInv'
  BY <1>1 DEF HashInv, LaidOut
<1> QED
  BY <1>2, <1>4, <1>5, <1>6, <1>7 DEF SerializerInv

\* A value that has no new number.
LEMMA SkipIsKept ==
  ASSUME SerializerInv, CountOutside \/ SkipValue
  PROVE  SerializerInv'
<1>1. /\ phase = "renumber" /\ phase' = phase /\ i \in 1..NValues /\ i' = i + 1 /\ i \in Nat
      /\ build' = build /\ spare' = spare
      /\ count' \in [{"out", "SET", "MAP"} -> Nat] /\ count'.SET = count.SET /\ count'.MAP = count.MAP
      /\ values[i].type \notin TableType /\ ~IsPrivVector(i)
  <2>1. i \in Nat \ {0} /\ NValues \in Nat /\ count \in [{"out", "SET", "MAP"} -> Nat]
    BY TypeFacts DEF SerializerInv, TypeOK
  <2>2. CASE CountOutside
    <3>1. count' = [count EXCEPT !.out = count.out + 1] /\ count.out \in Nat
      BY <2>1, <2>2 DEF CountOutside
    <3>2. count' \in [{"out", "SET", "MAP"} -> Nat] /\ count'.SET = count.SET /\ count'.MAP = count.MAP
      BY <2>1, <3>1
    <3> QED BY <2>1, <2>2, <3>2 DEF CountOutside, Renumbering, IsPrivVector, PrimVector, TableType
  <2>3. CASE SkipValue
    BY <2>1, <2>3 DEF SkipValue, Renumbering, IsPrivVector, InlineType, BlobType, PrimVector, ValueVector, TableType
  <2> QED BY <2>2, <2>3
<1>2. /\ TypeOK' /\ HandleInv' /\ PartInv' /\ TablesAreNumbered'
      /\ NValues' = NValues /\ Tables' = Tables /\ Kept' = Kept
  <2>1. phase' \in Phase /\ phase' # "build" /\ i' \in Nat \ {0}
    BY <1>1 DEF Phase
  <2> QED BY <1>1, <2>1, BuildStays
<1>3. NValues \in Nat /\ values' = values /\ object' = object /\ privs' = privs /\ live' = live
  BY <1>1, TypeFacts DEF SerializerInv, build
<1>4. \A h \in 1..NValues : h # i => (h < i + 1 <=> h < i)
  BY <1>1, <1>3
<1>5. VectorInv'
  <2>1. ASSUME NEW h \in 1..NValues PROVE VectorOK(h)'
    <3>1. VectorOK(h)
      BY <1>1 DEF SerializerInv, VectorInv
    <3>2. CASE h = i
      BY <1>1, <1>3, <3>2 DEF VectorOK, IsPrivVector
    <3>3. CASE h # i
      <4>1. Home(h)' = Home(h)
        BY <1>1, <1>3, <1>4, <3>3 DEF Home
      <4> QED BY <1>3, <3>1, <4>1 DEF VectorOK, IsPrivVector
    <3> QED BY <3>2, <3>3
  <2> QED BY <1>2, <2>1 DEF VectorInv
<1>6. NumberInv'
  <2>1. \A h \in Tables : h \in 1..NValues /\ h # i /\ values[h].type \in {"SET", "MAP"}
    BY <1>1 DEF Tables, TableType
  <2>2. \A h \in Tables : h < i <=> values[h].data < count[values[h].type]
    BY <1>1 DEF SerializerInv, NumberInv
  <2>3. \A h \in Tables : h < i' <=> values'[h].data < count'[values'[h].type]
    BY <1>1, <1>3, <1>4, <2>1, <2>2
  <2> QED BY <1>1, <1>2, <2>3 DEF NumberInv
<1>7. LiveInv'
  BY <1>1, <1>2, <1>3 DEF SerializerInv, LiveInv
<1>8. HashInv'
  BY <1>1 DEF HashInv, LaidOut
<1> QED
  BY <1>2, <1>5, <1>6, <1>7, <1>8 DEF SerializerInv

\* A step between phases other than the renumbering.
LEMMA PassIsKept ==
  ASSUME SerializerInv, build' = build, spare' = spare, count' = count, i' = 1,
         phase \in {"mark", "sets", "maps", "write"},
         phase' \in {"tag", "maps", "write", "written", "undefined", "failed"},
         \A h \in Tables : LaidOut(h)' => LaidOut(h)
  PROVE  SerializerInv'
<1>1. /\ TypeOK' /\ HandleInv' /\ PartInv' /\ TablesAreNumbered'
      /\ NValues' = NValues /\ Tables' = Tables /\ Kept' = Kept
  <2>1. count' \in [{"out", "SET", "MAP"} -> Nat] /\ phase' \in Phase /\ phase' # "build" /\ i' \in Nat \ {0}
    BY DEF SerializerInv, TypeOK, Phase
  <2> QED BY <2>1, BuildStays
<1>2. VectorInv'
  BY <1>1, VectorsStay DEF SerializerInv
<1>3. NumberInv'
  BY <1>1 DEF NumberInv
<1>4. LiveInv'
  <2>1. live' = live
    BY DEF build
  <2> QED BY <1>1, <2>1 DEF SerializerInv, LiveInv
<1>5. HashInv'
  BY <1>1, HashesStay DEF SerializerInv
<1> QED
  BY <1>1, <1>2, <1>3, <1>4, <1>5 DEF SerializerInv

\* A set or map is not laid out by such a step.
LEMMA NothingIsLaidOut ==
  ASSUME SerializerInv, MarkCycles \/ HashCrashes \/ TablesDone \/ WriteFile \/ OutputFails,
         NEW h \in Tables, LaidOut(h)'
  PROVE  LaidOut(h)
<1>0. values' = values
  BY DEF MarkCycles, HashCrashes, TablesDone, WriteFile, OutputFails, build
<1>1. CASE TablesDone
  <2>1. /\ h \in 1..NValues /\ values[h].type \in {"SET", "MAP"}
        /\ i \in Nat /\ NValues \in Nat
    BY TypeFacts DEF Tables, TableType, SerializerInv, TypeOK
  <2>2. h \in i..NValues <=> ~(h < i)
    BY <2>1
  <2>3. h < i \/ values[h].type # IF phase = "sets" THEN "SET" ELSE "MAP"
    BY <1>1, <2>1, <2>2 DEF TablesDone, Pending
  <2>4. CASE phase = "sets"
    <3>1. phase' = "maps" /\ i' = 1 /\ ~(h < 1)
      BY <1>1, <2>1, <2>4 DEF TablesDone, Goto
    <3>2. values[h].type = "SET"
      BY <1>0, <3>1 DEF LaidOut
    <3> QED BY <2>3, <2>4, <3>2 DEF LaidOut
  <2>5. CASE phase = "maps"
    BY <2>1, <2>3, <2>5 DEF LaidOut
  <2> QED BY <1>1, <2>4, <2>5 DEF TablesDone, Populating
<1>2. CASE MarkCycles
  BY <1>2 DEF MarkCycles, Goto, LaidOut
<1>3. CASE HashCrashes
  BY <1>3 DEF HashCrashes, Goto, LaidOut
<1>4. CASE WriteFile
  BY <1>4 DEF WriteFile, LaidOut
<1>5. CASE OutputFails
  BY <1>5 DEF OutputFails, Goto, LaidOut
<1> QED BY <1>1, <1>2, <1>3, <1>4, <1>5

\* Steps that write nothing but marks, the phase and the file.
LEMMA MarkIsKept ==
  ASSUME SerializerInv, MarkCycles \/ HashCrashes \/ TablesDone \/ WriteFile \/ OutputFails
  PROVE  SerializerInv'
<1>1. build' = build /\ spare' = spare /\ count' = count /\ i' = 1
  BY DEF MarkCycles, HashCrashes, TablesDone, WriteFile, OutputFails, Goto
<1>2. /\ phase \in {"mark", "sets", "maps", "write"}
      /\ phase' \in {"tag", "maps", "write", "written", "undefined", "failed"}
  BY DEF MarkCycles, HashCrashes, TablesDone, WriteFile, OutputFails, Goto, Populating
<1>3. \A h \in Tables : LaidOut(h)' => LaidOut(h)
  BY NothingIsLaidOut
<1> QED
  BY <1>1, <1>2, <1>3, PassIsKept

\* Memory runs out in the middle of the renumbering.
LEMMA RenumberFailureIsKept ==
  ASSUME SerializerInv, RenumberFails
  PROVE  SerializerInv'
<1>1. /\ phase' = "leaked" /\ i' = 1 /\ build' = build /\ spare' = spare /\ count' = count
  BY DEF RenumberFails, Goto
<1>2. /\ TypeOK' /\ HandleInv' /\ PartInv' /\ TablesAreNumbered'
  <2>1. count' \in [{"out", "SET", "MAP"} -> Nat] /\ phase' \in Phase /\ phase' # "build" /\ i' \in Nat \ {0}
    BY <1>1 DEF SerializerInv, TypeOK, Phase
  <2> QED BY <1>1, <2>1, BuildStays
<1>3. VectorInv' /\ NumberInv' /\ LiveInv' /\ HashInv'
  BY <1>1, <1>2 DEF VectorInv, NumberInv, LiveInv, HashInv, LaidOut
<1> QED
  BY <1>2, <1>3 DEF SerializerInv

\* At the end, what is freed is all there is.
LEMMA EndIsKept ==
  ASSUME SerializerInv, End
  PROVE  SerializerInv'
<1>1. /\ phase \in {"build", "leaked", "failed", "written"} /\ i' = 1
      /\ phase' = IF phase = "written" THEN "done" ELSE IF phase = "leaked" THEN "lost" ELSE "ended"
      /\ live' = live \ Freed
      /\ values' = values /\ privs' = privs /\ outs' = outs /\ blobs' = blobs /\ tables' = tables
      /\ root' = root /\ object' = object /\ spare' = spare /\ count' = count
  BY DEF End, Goto
<1>2. NValues' = NValues /\ TypeOK /\ 1..NValues \subseteq DOMAIN values
  BY <1>1, TypeFacts DEF NValues, SerializerInv
<1>3. TypeOK'
  <2>1. phase' \in Phase /\ i' \in Nat \ {0} /\ phase' # "build"
    BY <1>1 DEF Phase
  <2> QED BY <1>1, <1>2, <2>1 DEF TypeOK
<1>4. HandleInv'
  BY <1>1, <1>2 DEF SerializerInv, HandleInv, HandleOK, IsVector, IsEmpty
<1>5. KeepsTables
  BY <1>1, <1>2 DEF KeepsTables, IsPrivVector, TableOf, SerializerInv, PartInv
<1>6. Tables' = Tables /\ PartInv' /\ TablesAreNumbered'
  BY <1>2, <1>5, TablesAreKept DEF SerializerInv, NumberInv
<1>7. NumberInv' /\ HashInv'
  BY <1>1, <1>6 DEF NumberInv, HashInv, LaidOut
<1>8. CASE phase = "leaked"
  <2>1. phase' = "lost"
    BY <1>1, <1>8
  <2>2. VectorInv' /\ LiveInv'
    BY <2>1 DEF VectorInv, LiveInv
  <2> QED BY <1>3, <1>4, <1>6, <1>7, <2>2 DEF SerializerInv
<1>9. CASE phase # "leaked"
  <2>1. phase' \in {"done", "ended"} /\ phase \in {"build", "failed", "written"}
    BY <1>1, <1>9
  <2>2. VectorInv'
    <3>1. ASSUME NEW h \in 1..NValues PROVE VectorOK(h)'
      <4>1. VectorOK(h)
        BY <2>1 DEF SerializerInv, VectorInv
      <4> QED BY <1>1, <2>1, <4>1 DEF VectorOK, IsPrivVector, Home
    <3> QED BY <1>2, <3>1 DEF VectorInv
  <2>3. Kept \subseteq Freed
    <3>1. ASSUME NEW u \in 1..NValues, IsPrivVector(u)
          PROVE  <<"items", u>> \in Freed
      <4>1. Vec(u).owner = u
        BY <2>1, <3>1 DEF SerializerInv, VectorInv, VectorOK, Home, Vec
      <4>2. <<"items", Vec(u).owner>> \in Freed
        BY <1>2, <3>1 DEF Freed
      <4> QED BY <4>1, <4>2
    <3>2. ASSUME NEW u \in 1..NValues, values[u].type \in BlobType PROVE <<"blob", u>> \in Freed
      BY <1>2, <3>2 DEF Freed
    <3>3. ASSUME NEW u \in Tables PROVE <<"keys", u>> \in Freed
      BY <1>2 DEF Freed, Tables
    <3> QED BY <3>1, <3>2, <3>3 DEF Kept
  <2>4. live \subseteq Kept
    BY <2>1 DEF SerializerInv, LiveInv
  <2>5. LiveInv'
    <3>1. live' = {}
      BY <1>1, <2>3, <2>4
    <3> QED BY <2>1, <3>1 DEF LiveInv
  <2> QED BY <1>3, <1>4, <1>6, <1>7, <2>2, <2>5 DEF SerializerInv
<1> QED
  BY <1>8, <1>9

\* A step of the output that gives vectors new types and numbers, and no more.
Retyped(h) ==
  /\ values'[h].outside = values[h].outside /\ values'[h].setmap = values[h].setmap
  /\ \/ values'[h].type = values[h].type /\ values'[h].data = values[h].data
     \/ /\ IsPrivVector(h)
        /\ IsVector(h)' \/ (IsEmpty(h)' /\ ~values[h].setmap /\ object[h].holds = <<>>)

\* The step as a whole: what it may change and what it leaves alone.
Retypes ==
  /\ phase \notin {"build", "leaked", "lost", "done", "ended"}
  /\ phase' \in Phase \ {"build", "leaked", "lost", "done", "ended"} /\ i' \in Nat \ {0}
  /\ count' \in [{"out", "SET", "MAP"} -> Nat]
  /\ object' = object /\ tables' = tables /\ outs' = outs /\ blobs' = blobs /\ root' = root
  /\ IsVectorList(privs') /\ IsVectorList(spare')
  /\ values' \in Seq(ValueRecord) /\ Len(values') \in {NValues, NValues + 1}
  /\ Len(values') # NValues => values'[NValues + 1].type = "SLOT"
  /\ \A h \in 1..NValues : Retyped(h)

\* Values keep what they are and where they belong.
LEMMA RetypedIsKept ==
  ASSUME SerializerInv, Retypes
  PROVE  /\ TypeOK' /\ HandleInv' /\ PartInv' /\ TablesAreNumbered'
         /\ NValues' = NValues /\ Tables' = Tables /\ Kept' = Kept /\ Mine' = Mine
         /\ \A h \in Tables : TableOf(h)' = TableOf(h)
<1>1. object' = object /\ tables' = tables /\ outs' = outs /\ blobs' = blobs /\ root' = root
  BY DEF Retypes
<1>2. NValues' = NValues /\ TypeOK /\ NValues \in Nat
  BY <1>1, TypeFacts DEF NValues, SerializerInv
<1>3. TypeOK'
  BY <1>1, <1>2 DEF TypeOK, Retypes
<1>4. \A h \in 1..NValues : Retyped(h)
  BY DEF Retypes
<1>5. ASSUME NEW h \in 1..NValues
      PROVE  /\ HandleOK(h)'
             /\ values'[h].type \in TableType <=> values[h].type \in TableType
             /\ values[h].type \in TableType => values'[h].type = values[h].type /\ values'[h].data = values[h].data
             /\ values'[h].type \in BlobType <=> values[h].type \in BlobType
             /\ values[h].setmap <=> values'[h].setmap
             /\ (IsPrivVector(h) /\ (values[h].setmap \/ object[h].holds # <<>>) <=> IsPrivVector(h)' /\ (values[h].setmap \/ object[h].holds # <<>>))
  <2>1. HandleOK(h) /\ Retyped(h) /\ object'[h] = object[h] /\ values[h] \in ValueRecord /\ values'[h] \in ValueRecord
    <3>1. values[h] \in ValueRecord /\ values'[h] \in ValueRecord
      BY SMTT(30), <1>2, <1>3, TypeFacts DEF Retypes
    <3> QED BY <1>1, <1>4, <3>1 DEF SerializerInv, HandleInv
  <2>2. values[h].outside \in BOOLEAN /\ values[h].setmap \in BOOLEAN /\ values'[h].setmap \in BOOLEAN /\ values'[h].outside \in BOOLEAN
    BY <2>1, ValueFields
  <2>3. CASE values'[h].type = values[h].type /\ values'[h].data = values[h].data
    <3>1. (values'[h].outside <=> values[h].outside) /\ (values'[h].setmap <=> values[h].setmap)
      BY <2>1 DEF Retyped
    <3>2. HandleOK(h)'
      BY <1>1, <2>1, <2>3, <3>1 DEF HandleOK, IsVector, IsEmpty
    <3> QED BY <2>3, <3>1, <3>2 DEF IsPrivVector
  <2>4. CASE ~(values'[h].type = values[h].type /\ values'[h].data = values[h].data)
    <3>1. /\ IsPrivVector(h) /\ ~values'[h].outside /\ (values'[h].setmap <=> values[h].setmap)
          /\ IsVector(h)' \/ (IsEmpty(h)' /\ ~values[h].setmap /\ object[h].holds = <<>>)
      BY <2>1, <2>4 DEF Retyped, IsPrivVector
    <3>2. values[h].type \in PrimVector \cup ValueVector
      BY <3>1 DEF IsPrivVector
    <3>3. values[h].type \notin BlobType /\ values[h].type \notin TableType /\ values[h].type \notin InlineType
      BY <3>2 DEF PrimVector, ValueVector, BlobType, TableType, InlineType
    <3>4. values'[h].type \notin BlobType /\ values'[h].type \notin TableType
      BY <3>1 DEF IsVector, IsEmpty, PrimVector, ValueVector, BlobType, TableType
    <3>5. object[h].kind \in {"vector", "native", "internal"}
      <4>1. object[h].kind \in Kind
        BY <1>2, TypeFacts DEF TypeOK
      <4> QED BY <2>1, <3>3, <4>1 DEF HandleOK, Kind, TableType
    <3>6. HandleOK(h)'
      BY <1>1, <2>1, <3>1, <3>5 DEF HandleOK
    <3>7. IsPrivVector(h)' \/ (~values[h].setmap /\ object[h].holds = <<>>)
      BY <3>1 DEF IsPrivVector, IsVector
    <3> QED BY <3>1, <3>3, <3>4, <3>6, <3>7
  <2> QED BY <2>3, <2>4
<1>6. HandleInv'
  BY <1>2, <1>5 DEF HandleInv
<1>7. KeepsTables
  <2>1. \A h \in Tables : Range(TableOf(h).keys) \subseteq Mine
    BY DEF SerializerInv, PartInv
  <2> QED BY <1>1, <1>2, <1>5, <2>1 DEF KeepsTables, TableOf
<1>8. Tables' = Tables /\ PartInv' /\ TablesAreNumbered' /\ Mine' = Mine
  BY <1>2, <1>7, TablesAreKept DEF SerializerInv, NumberInv
<1>9. Kept' = Kept
  <2>1. \A h \in 1..NValues : object'[h] = object[h]
    BY <1>1
  <2> QED BY <1>2, <1>5, <1>8, <2>1 DEF Kept
<1>10. \A h \in Tables : TableOf(h)' = TableOf(h)
  BY <1>1, <1>5 DEF TableOf, Tables
<1> QED
  BY <1>2, <1>3, <1>6, <1>8, <1>9, <1>10

\* One value is replaced.
LEMMA ValueUpdate ==
  ASSUME TypeOK, NEW k \in DOMAIN values, NEW w \in ValueRecord
  PROVE  /\ [values EXCEPT ![k] = w] \in Seq(ValueRecord)
         /\ Len([values EXCEPT ![k] = w]) = Len(values)
         /\ \A h \in DOMAIN values : [values EXCEPT ![k] = w][h] = IF h = k THEN w ELSE values[h]
<1>1. values \in Seq(ValueRecord)
  BY DEF TypeOK
<1> QED
  BY <1>1

\* The vector at hand becomes w, with a new number or with no type to number.
Renumbers(w) ==
  /\ values' = [values EXCEPT ![i] = w]
  /\ w.outside = values[i].outside /\ w.setmap = values[i].setmap /\ w.compressed = values[i].compressed
  /\ \/ /\ w.type = "VECTOR_EMPTY" /\ ~values[i].setmap /\ object[i].holds = <<>> /\ spare' = spare
     \/ /\ w.type = values[i].type /\ w.data = Len(spare) /\ spare' = Append(spare, Vec(i))

\* So the renumbering does.
LEMMA VectorIsRenumbered ==
  ASSUME SerializerInv, DropEmpty \/ KeepVector
  PROVE  \E w \in ValueRecord : Renumbers(w)
<1>1. /\ phase = "renumber" /\ phase' = phase /\ i \in 1..NValues /\ i' = i + 1 /\ count' = count
      /\ IsPrivVector(i)
      /\ privs' = privs /\ outs' = outs /\ blobs' = blobs /\ tables' = tables
      /\ root' = root /\ object' = object /\ live' = live
  <2>1. i \in Nat \ {0} /\ NValues \in Nat
    BY TypeFacts DEF SerializerInv, TypeOK
  <2> QED BY <2>1 DEF DropEmpty, KeepVector, Renumbering
<1>2. /\ TypeOK /\ NValues \in Nat /\ i \in DOMAIN values /\ Len(values) \in {NValues, NValues + 1}
      /\ values[i] \in ValueRecord /\ 1..NValues \subseteq DOMAIN values
      /\ Len(spare) \in Nat /\ DOMAIN spare = 1..Len(spare) /\ IsVectorList(spare) /\ IsSequence(spare)
      /\ DOMAIN values = 1..Len(values) /\ IsVectorList(privs)
  BY <1>1, TypeFacts DEF SerializerInv, TypeOK, IsVectorList
<1>3. VectorOK(i) /\ HandleOK(i) /\ Home(i) = privs
  BY <1>1 DEF SerializerInv, VectorInv, HandleInv, Home
<1>4. /\ values[i].data + 1 \in DOMAIN privs /\ Vec(i) = privs[values[i].data + 1] /\ Vec(i).owner = i
      /\ object[i].kind # "internal" => Vec(i).items = object[i].holds
      /\ DOMAIN Vec(i) = {"owner", "items"} /\ IsSequence(Vec(i).items)
  BY <1>1, <1>2, <1>3 DEF VectorOK, Vec, IsVectorList
<1>5. Len(spare) \in Int
  <2>1. Len(spare) \in Nat
    BY TypeFacts DEF SerializerInv
  <2> QED BY <2>1
<1>6. \E w \in ValueRecord : Renumbers(w)
  <2>1. CASE DropEmpty
    <3> DEFINE u == [values[i] EXCEPT !.type = "VECTOR_EMPTY"]
               w == [u EXCEPT !.data = 0]
    <3>1. u \in ValueRecord /\ u.outside = values[i].outside /\ u.setmap = values[i].setmap
          /\ u.compressed = values[i].compressed
          /\ u.type = "VECTOR_EMPTY"
      <4>1. "VECTOR_EMPTY" \in AnyType
        BY DEF AnyType
      <4> QED BY <1>2, <4>1, ValueFields
    <3>2. values' = [values EXCEPT ![i] = w]
      <4>1. values' = [values EXCEPT ![i].type = "VECTOR_EMPTY", ![i].data = 0]
        BY <2>1 DEF DropEmpty
      <4> QED BY <1>2, <4>1
    <3> HIDE DEF u
    <3>3. w \in ValueRecord /\ w.outside = u.outside /\ w.setmap = u.setmap /\ w.type = u.type
          /\ w.compressed = u.compressed
      BY <3>1, ValueFields
    <3>4. ~values[i].setmap /\ Vec(i).items = <<>> /\ spare' = spare
      BY <2>1 DEF DropEmpty
    <3>5. object[i].holds = <<>>
      BY <1>3, <1>4, <3>4 DEF HandleOK
    <3> HIDE DEF w
    <3> QED BY <3>1, <3>2, <3>3, <3>4, <3>5 DEF Renumbers
  <2>2. CASE KeepVector
    <3> DEFINE w == [values[i] EXCEPT !.data = Len(spare)]
    <3>1. values' = [values EXCEPT ![i] = w] /\ spare' = Append(spare, Vec(i))
      BY <2>2 DEF KeepVector
    <3>2. w \in ValueRecord /\ w.outside = values[i].outside /\ w.setmap = values[i].setmap
          /\ w.compressed = values[i].compressed /\ w.type = values[i].type /\ w.data = Len(spare)
      <4>1. Len(spare) \in Int
        BY <1>5
      <4> QED BY <1>2, <4>1, ValueFields
    <3> HIDE DEF w
    <3> QED BY <3>1, <3>2 DEF Renumbers
  <2> QED BY <2>1, <2>2
<1> QED BY <1>6

\* And it keeps the invariant.
LEMMA RenumberIsKept ==
  ASSUME SerializerInv, DropEmpty \/ KeepVector
  PROVE  SerializerInv'
<1>1. /\ phase = "renumber" /\ phase' = phase /\ i \in 1..NValues /\ i' = i + 1 /\ count' = count
      /\ IsPrivVector(i)
      /\ privs' = privs /\ outs' = outs /\ blobs' = blobs /\ tables' = tables
      /\ root' = root /\ object' = object /\ live' = live
  <2>1. i \in Nat \ {0} /\ NValues \in Nat
    BY TypeFacts DEF SerializerInv, TypeOK
  <2> QED BY <2>1 DEF DropEmpty, KeepVector, Renumbering
<1>2. /\ TypeOK /\ NValues \in Nat /\ i \in DOMAIN values /\ Len(values) \in {NValues, NValues + 1}
      /\ values[i] \in ValueRecord /\ 1..NValues \subseteq DOMAIN values
      /\ Len(spare) \in Nat /\ DOMAIN spare = 1..Len(spare) /\ IsVectorList(spare) /\ IsSequence(spare)
      /\ DOMAIN values = 1..Len(values) /\ IsVectorList(privs)
  BY <1>1, TypeFacts DEF SerializerInv, TypeOK, IsVectorList
<1>3. VectorOK(i) /\ HandleOK(i) /\ Home(i) = privs
  BY <1>1 DEF SerializerInv, VectorInv, HandleInv, Home
<1>4. /\ values[i].data + 1 \in DOMAIN privs /\ Vec(i) = privs[values[i].data + 1] /\ Vec(i).owner = i
      /\ object[i].kind # "internal" => Vec(i).items = object[i].holds
      /\ DOMAIN Vec(i) = {"owner", "items"} /\ IsSequence(Vec(i).items)
  BY <1>1, <1>2, <1>3 DEF VectorOK, Vec, IsVectorList
<1>5. /\ NValues \in Nat /\ i \in Nat /\ i \in 1..NValues /\ Len(spare) \in Nat
       /\ Len(spare) \in Int /\ Len(spare) + 1 \in 1..(Len(spare) + 1)
       /\ DOMAIN spare = 1..Len(spare) /\ IsSequence(spare)
       /\ \A p \in 1..Len(spare) : p \in 1..(Len(spare) + 1)
  <2>1. NValues \in Nat /\ i \in Nat /\ i \in 1..NValues /\ Len(spare) \in Nat
        /\ DOMAIN spare = 1..Len(spare) /\ IsSequence(spare)
    <3>1. NValues \in Nat /\ Len(spare) \in Nat /\ DOMAIN spare = 1..Len(spare)
      BY TypeFacts DEF SerializerInv
    <3>2. i \in 1..NValues /\ IsSequence(spare)
      BY <1>1 DEF SerializerInv, TypeOK, IsVectorList
    <3> QED BY <3>1, <3>2
  <2> QED BY <2>1
<1>6. \A h \in 1..NValues : h # i => (h < i + 1 <=> h < i)
  BY <1>5
<1>7. PICK w \in ValueRecord :
        /\ values' = [values EXCEPT ![i] = w]
        /\ w.outside = values[i].outside /\ w.setmap = values[i].setmap
        /\ \/ /\ w.type = "VECTOR_EMPTY" /\ ~values[i].setmap /\ object[i].holds = <<>> /\ spare' = spare
           \/ /\ w.type = values[i].type /\ w.data = Len(spare) /\ spare' = Append(spare, Vec(i))
  BY VectorIsRenumbered DEF Renumbers
<1>8. /\ values' \in Seq(ValueRecord) /\ Len(values') = Len(values)
      /\ \A h \in DOMAIN values : values'[h] = IF h = i THEN w ELSE values[h]
  BY <1>2, <1>7, ValueUpdate
<1>9. IsVectorList(spare') /\ \A p \in DOMAIN spare : p \in DOMAIN spare' /\ spare'[p] = spare[p]
  <2>1. CASE spare' = spare
    BY <1>2, <2>1
  <2>2. CASE spare' = Append(spare, Vec(i))
    <3>1. IsVectorList(spare')
      BY <1>2, <1>4, <2>2, VectorListPush
    <3>2. DOMAIN spare' = 1..(Len(spare) + 1) /\ \A p \in 1..Len(spare) : spare'[p] = spare[p]
      BY <1>5, <2>2, SequencePush
    <3> QED BY <1>5, <3>1, <3>2
  <2> QED BY <1>7, <2>1, <2>2
<1>10. Retypes
  <2>1. \A h \in 1..NValues : Retyped(h)
    <3> TAKE h \in 1..NValues
    <3>1. CASE h = i
      <4>1. values'[h] = w
        BY <1>2, <1>8, <3>1
      <4> QED BY <1>1, <1>7, <3>1, <4>1 DEF Retyped, IsPrivVector, IsVector, IsEmpty
    <3>2. CASE h # i
      BY <1>2, <1>8, <3>2 DEF Retyped
    <3> QED BY <3>1, <3>2
  <2>2. Len(values') # NValues => values'[NValues + 1].type = "SLOT"
    <3>1. Len(values) # NValues => values[NValues + 1].type = "SLOT"
      BY <1>2 DEF TypeOK
    <3>2. Len(values) # NValues => Len(values) = NValues + 1
      BY <1>2
    <3>3. NValues + 1 # i /\ NValues + 1 \in 1..(NValues + 1)
      BY <1>5
    <3>4. Len(values) # NValues => NValues + 1 \in DOMAIN values
      <4>1. DOMAIN values = 1..Len(values)
        BY <1>2
      <4> QED BY <3>2, <3>3, <4>1
    <3> QED BY <1>8, <3>1, <3>3, <3>4
  <2>3. count' \in [{"out", "SET", "MAP"} -> Nat] /\ i' \in Nat \ {0} /\ phase' \in Phase
    <3>1. count \in [{"out", "SET", "MAP"} -> Nat] /\ phase \in Phase
      BY <1>2 DEF TypeOK
    <3>2. i + 1 \in Nat \ {0}
      BY <1>5
    <3> QED BY <1>1, <3>1, <3>2
  <2> QED BY <1>1, <1>2, <1>8, <1>9, <2>1, <2>2, <2>3 DEF Retypes
<1>11. /\ TypeOK' /\ HandleInv' /\ PartInv' /\ TablesAreNumbered'
       /\ NValues' = NValues /\ Tables' = Tables /\ Kept' = Kept
  BY <1>10, RetypedIsKept
<1>12. VectorInv'
  <2>1. ASSUME NEW h \in 1..NValues PROVE VectorOK(h)'
    <3>1. VectorOK(h)
      BY <1>1 DEF SerializerInv, VectorInv
    <3>2. CASE h # i
      <4>1. values'[h] = values[h]
        BY <1>2, <1>8, <3>2
      <4>2. \A p \in DOMAIN Home(h) : p \in DOMAIN Home(h)' /\ Home(h)'[p] = Home(h)[p]
        BY <1>1, <1>6, <1>9, <3>2 DEF Home
      <4> QED BY <1>1, <3>1, <4>1, <4>2 DEF VectorOK, IsPrivVector
    <3>3. CASE h = i
      <4>1. values'[h] = w /\ Home(h)' = spare'
        <5>1. values'[h] = w
          BY <1>2, <1>8, <3>3
        <5>2. i < i + 1
          BY <1>5
        <5> QED BY <1>1, <3>3, <5>1, <5>2 DEF Home
      <4>2. CASE w.type = "VECTOR_EMPTY"
        BY <4>1, <4>2 DEF VectorOK, IsPrivVector, PrimVector, ValueVector
      <4>3. CASE w.data = Len(spare) /\ spare' = Append(spare, Vec(i))
        <5>1. DOMAIN spare' = 1..(Len(spare) + 1) /\ spare'[Len(spare) + 1] = Vec(i)
          BY <1>5, <4>3, SequencePush
        <5>2. w.data + 1 \in DOMAIN spare' /\ spare'[w.data + 1] = Vec(i)
          BY <1>5, <4>3, <5>1
        <5>3. object'[h] = object[h]
          BY <1>1
        <5> QED BY <1>4, <3>3, <4>1, <5>2, <5>3 DEF VectorOK
      <4> QED BY <1>7, <4>2, <4>3
    <3> QED BY <3>2, <3>3
  <2> QED BY <1>11, <2>1 DEF VectorInv
<1>13. NumberInv'
  <2>1. \A h \in Tables : h \in 1..NValues /\ h # i /\ values'[h] = values[h]
    BY <1>1, <1>2, <1>8 DEF Tables, IsPrivVector, TableType, PrimVector, ValueVector
  <2>2. \A h \in Tables : h < i <=> values[h].data < count[values[h].type]
    BY <1>1 DEF SerializerInv, NumberInv
  <2>3. \A h \in Tables : h < i' <=> values'[h].data < count'[values'[h].type]
    BY <1>1, <1>6, <2>1, <2>2
  <2> QED BY <1>1, <1>11, <2>3 DEF NumberInv
<1>14. LiveInv' /\ HashInv'
  BY <1>1, <1>11 DEF SerializerInv, LiveInv, HashInv, LaidOut
<1> QED
  BY <1>11, <1>12, <1>13, <1>14 DEF SerializerInv

\* The set or map at hand has its number already.
LEMMA TableHasNumber ==
  ASSUME SerializerInv, NumberTable
  PROVE  values' = values /\ values[i].data = count[values[i].type]
<1> DEFINE t == values[i].type
           c == count[t]
<1>1. /\ phase = "renumber" /\ phase' = phase /\ i \in 1..NValues /\ i' = i + 1
      /\ t \in TableType
      /\ values' = [values EXCEPT ![i].data = c] /\ count' = [count EXCEPT ![t] = c + 1]
      /\ privs' = privs /\ outs' = outs /\ blobs' = blobs /\ tables' = tables /\ spare' = spare
      /\ root' = root /\ object' = object /\ live' = live /\ judy' = judy
  <2>1. i \in Nat \ {0} /\ NValues \in Nat
    BY TypeFacts DEF SerializerInv, TypeOK
  <2> QED BY <2>1 DEF NumberTable, Renumbering
<1>2. NValues \in Nat /\ i \in Nat /\ i \in Tables /\ i \in DOMAIN values
  BY <1>1, TypeFacts DEF SerializerInv, Tables
<1>3. count \in [{"out", "SET", "MAP"} -> Nat] /\ c \in Nat /\ t \in {"out", "SET", "MAP"}
  BY <1>1 DEF SerializerInv, TypeOK, TableType
<1>4. /\ \A h \in Tables : h < i <=> values[h].data < count[values[h].type]
      /\ \A g, h \in Tables :
            g < h /\ values[g].type = values[h].type => values[g].data < values[h].data
      /\ \A d \in DOMAIN tables[t] : \E h \in Tables : values[h].type = t /\ values[h].data + 1 = d
      /\ values[i].data + 1 \in DOMAIN tables[t]
  BY <1>1, <1>2 DEF SerializerInv, NumberInv, TablesAreNumbered
<1>5. \A h \in Tables : h \in Nat /\ values[h].data \in Int
  BY <1>2, TypeFacts, ValueFields DEF SerializerInv, Tables
<1>6. values[i].data = c
  <2>1. ~(values[i].data < c)
    BY <1>2, <1>4
  <2>2. ASSUME values[i].data > c PROVE FALSE
    <3>1. c + 1 \in DOMAIN tables[t]
      <4>1. tables[t] \in Seq(TableRecord)
        BY <1>1 DEF SerializerInv, TypeOK
      <4> DEFINE n == Len(tables[t])
      <4>2. n \in Nat /\ DOMAIN tables[t] = 1..n
        BY <4>1
      <4>3. values[i].data + 1 \in 1..n /\ values[i].data \in Int
        BY <1>2, <1>4, <1>5, <4>2
      <4> HIDE DEF n, c
      <4> QED BY <1>3, <2>2, <4>2, <4>3
    <3>2. PICK g \in Tables : values[g].type = t /\ values[g].data + 1 = c + 1
      BY <1>4, <3>1
    <3>3. values[g].data = c
      BY <1>3, <1>5, <3>2
    <3>4. ~(g < i) /\ g # i
      <4>1. ~(c < c) /\ ~(c > c)
        <5> HIDE DEF c
        <5> QED BY <1>3
      <4>2. ~(values[g].data < count[values[g].type])
        BY <3>2, <3>3, <4>1
      <4>3. ~(g < i)
        BY <1>4, <4>2
      <4>4. g # i
        BY <2>2, <3>3, <4>1
      <4> QED BY <4>3, <4>4
    <3>5. i < g
      <4>1. g \in Nat /\ i \in Nat
        BY <1>2, <1>5
      <4> HIDE DEF c, t
      <4> QED BY <3>4, <4>1
    <3>6. values[i].data < values[g].data
      BY <1>2, <1>4, <3>2, <3>5
    <3> QED BY <1>2, <1>3, <1>5, <2>2, <3>3, <3>6
  <2> HIDE DEF c
  <2> QED BY <1>2, <1>3, <1>5, <2>1, <2>2
<1>7. values' = values
  <2>1. IsSequence(values) /\ values[i] \in ValueRecord
    BY <1>2, TypeFacts DEF SerializerInv
  <2>2. [values[i] EXCEPT !.data = values[i].data] = values[i]
    BY <2>1 DEF ValueRecord
  <2>3. values' = [values EXCEPT ![i] = [values[i] EXCEPT !.data = c]]
    BY <1>1
  <2>4. values \in Seq(ValueRecord)
    BY DEF SerializerInv, TypeOK
  <2> HIDE DEF c
  <2> QED BY <1>2, <1>6, <2>2, <2>3, <2>4
<1> QED BY <1>6, <1>7

\* So it keeps the invariant.
LEMMA NumberIsKept ==
  ASSUME SerializerInv, NumberTable
  PROVE  SerializerInv'
<1> DEFINE t == values[i].type
           c == count[t]
<1>1. /\ phase = "renumber" /\ phase' = phase /\ i \in 1..NValues /\ i' = i + 1
      /\ t \in TableType
      /\ values' = [values EXCEPT ![i].data = c] /\ count' = [count EXCEPT ![t] = c + 1]
      /\ privs' = privs /\ outs' = outs /\ blobs' = blobs /\ tables' = tables /\ spare' = spare
      /\ root' = root /\ object' = object /\ live' = live /\ judy' = judy
  <2>1. i \in Nat \ {0} /\ NValues \in Nat
    BY TypeFacts DEF SerializerInv, TypeOK
  <2> QED BY <2>1 DEF NumberTable, Renumbering
<1>2. NValues \in Nat /\ i \in Nat /\ i \in Tables /\ i \in DOMAIN values
  BY <1>1, TypeFacts DEF SerializerInv, Tables
<1>3. count \in [{"out", "SET", "MAP"} -> Nat] /\ c \in Nat /\ t \in {"out", "SET", "MAP"}
  BY <1>1 DEF SerializerInv, TypeOK, TableType
<1>4. /\ \A h \in Tables : h < i <=> values[h].data < count[values[h].type]
      /\ \A g, h \in Tables :
            g < h /\ values[g].type = values[h].type => values[g].data < values[h].data
      /\ \A d \in DOMAIN tables[t] : \E h \in Tables : values[h].type = t /\ values[h].data + 1 = d
      /\ values[i].data + 1 \in DOMAIN tables[t]
  BY <1>1, <1>2 DEF SerializerInv, NumberInv, TablesAreNumbered
<1>5. \A h \in Tables : h \in Nat /\ values[h].data \in Int
  BY <1>2, TypeFacts, ValueFields DEF SerializerInv, Tables
<1>6. values[i].data = c /\ values' = values
  BY TableHasNumber
<1>7. values' = values
  BY <1>6
<1>8. /\ count' \in [{"out", "SET", "MAP"} -> Nat] /\ count'[t] = c + 1
      /\ \A u \in {"out", "SET", "MAP"} : u # t => count'[u] = count[u]
  <2> HIDE DEF t, c
  <2> QED BY <1>1, <1>3
<1>9. /\ TypeOK' /\ HandleInv' /\ PartInv' /\ TablesAreNumbered'
      /\ NValues' = NValues /\ Tables' = Tables /\ Kept' = Kept
  <2>1. phase' \in Phase /\ phase' # "build" /\ i' \in Nat \ {0}
    BY <1>1, <1>2 DEF Phase
  <2>2. build' = build
    BY <1>1, <1>7 DEF build
  <2> QED BY <1>1, <1>8, <2>1, <2>2, BuildStays
<1>10. VectorInv'
  <2>1. ASSUME NEW h \in 1..NValues PROVE VectorOK(h)'
    <3>1. VectorOK(h)
      BY <1>1 DEF SerializerInv, VectorInv
    <3>2. CASE h = i
      BY <1>1, <1>7, <3>2 DEF VectorOK, IsPrivVector, TableType, PrimVector, ValueVector
    <3>3. CASE h # i
      <4>1. h < i + 1 <=> h < i
        BY <1>2, <3>3
      <4>2. Home(h)' = Home(h)
        BY <1>1, <4>1 DEF Home
      <4> QED BY <1>1, <1>7, <3>1, <4>2 DEF VectorOK, IsPrivVector
    <3> QED BY <3>2, <3>3
  <2> QED BY <1>9, <2>1 DEF VectorInv
<1>11. NumberInv'
  <2>1. ASSUME NEW h \in Tables PROVE h < i + 1 <=> values[h].data < count'[values[h].type]
    <3>1. values[h].type \in {"out", "SET", "MAP"}
      BY DEF Tables, TableType
    <3>2. h \in Nat /\ values[h].data \in Int
      BY <1>5
    <3>3. CASE values[h].type # t
      <4>1. h # i /\ count'[values[h].type] = count[values[h].type]
        BY <1>8, <3>1, <3>3
      <4> QED BY <1>2, <1>4, <3>2, <4>1
    <3>4. CASE values[h].type = t
      <4>1. count'[values[h].type] = c + 1 /\ count[values[h].type] = c
        BY <1>8, <3>4
      <4>2. CASE h < i
        <5>1. values[h].data < c
          BY <1>4, <3>4, <4>2
        <5> HIDE DEF c
        <5> QED BY <1>2, <1>3, <3>2, <4>1, <4>2, <5>1
      <4>3. CASE h = i
        <5> HIDE DEF c
        <5> QED BY <1>2, <1>3, <1>6, <3>2, <4>1, <4>3
      <4>4. CASE i < h
        <5>1. values[i].data < values[h].data
          BY <1>2, <1>4, <3>4, <4>4
        <5> HIDE DEF c
        <5> QED BY <1>2, <1>3, <1>6, <3>2, <4>1, <4>4, <5>1
      <4> QED BY <1>2, <3>2, <4>2, <4>3, <4>4
    <3> QED BY <3>3, <3>4
  <2> QED BY <1>1, <1>7, <1>9, <2>1 DEF NumberInv
<1>12. LiveInv' /\ HashInv'
  BY <1>1, <1>9 DEF SerializerInv, LiveInv, HashInv, LaidOut
<1> QED
  BY <1>9, <1>10, <1>11, <1>12 DEF SerializerInv

\* The new array takes the place of the old one.
LEMMA SwapIsKept ==
  ASSUME SerializerInv, SwapVectors
  PROVE  SerializerInv'
<1>1. /\ phase = "renumber" /\ phase' = "mark" /\ i > NValues /\ i' = 1 /\ count' = count
      /\ privs' = spare /\ spare' = privs
      /\ values' = values /\ outs' = outs /\ blobs' = blobs /\ tables' = tables
      /\ root' = root /\ object' = object /\ live' = live
  BY DEF SwapVectors, Goto
<1>2. TypeOK /\ NValues \in Nat /\ i \in Nat
  BY TypeFacts DEF SerializerInv, TypeOK
<1>3. Retypes
  <2>1. phase' \in Phase /\ i' \in Nat \ {0}
    BY <1>1 DEF Phase
  <2>2. \A h \in 1..NValues : Retyped(h)
    BY <1>1 DEF Retyped
  <2> QED BY <1>1, <1>2, <2>1, <2>2 DEF Retypes, TypeOK
<1>4. /\ TypeOK' /\ HandleInv' /\ PartInv' /\ TablesAreNumbered'
      /\ NValues' = NValues /\ Tables' = Tables /\ Kept' = Kept
  BY <1>3, RetypedIsKept
<1>5. VectorInv'
  <2>1. ASSUME NEW h \in 1..NValues PROVE VectorOK(h)'
    <3>1. VectorOK(h)
      BY <1>1 DEF SerializerInv, VectorInv
    <3>2. h < i
      BY <1>1, <1>2
    <3>3. Home(h) = spare /\ Home(h)' = spare
      BY <1>1, <3>2 DEF Home
    <3> QED BY <1>1, <3>1, <3>3 DEF VectorOK, IsPrivVector
  <2> QED BY <1>4, <2>1 DEF VectorInv
<1>6. NumberInv' /\ LiveInv' /\ HashInv'
  BY <1>1, <1>4 DEF SerializerInv, NumberInv, LiveInv, HashInv, LaidOut
<1> QED
  BY <1>4, <1>5, <1>6 DEF SerializerInv

\* Vectors get new types.
LEMMA TypesAreKept ==
  ASSUME SerializerInv, phase \in {"tag", "compress"}, phase' \in {"compress", "sets"}, i' = 1,
         count' = count, spare' = spare, privs' = privs, outs' = outs, blobs' = blobs,
         tables' = tables, root' = root, object' = object, live' = live,
         values' = [h \in DOMAIN values |-> values'[h]],
         \A h \in DOMAIN values :
            /\ values'[h] \in ValueRecord /\ values'[h].data = values[h].data
            /\ values'[h].outside = values[h].outside /\ values'[h].setmap = values[h].setmap
            /\ \/ values'[h].type = values[h].type
               \/ h <= NValues /\ IsPrivVector(h) /\ values'[h].type \in PrimVector \cup ValueVector
  PROVE  SerializerInv'
<1>1. /\ TypeOK /\ NValues \in Nat /\ Len(values) \in Nat /\ DOMAIN values = 1..Len(values)
      /\ Len(values) \in {NValues, NValues + 1} /\ 1..NValues \subseteq DOMAIN values
  BY TypeFacts DEF SerializerInv, TypeOK
<1>2. values' \in Seq(ValueRecord) /\ Len(values') = Len(values)
  <2> DEFINE f == values'
  <2>1. f = [h \in 1..Len(values) |-> f[h]] /\ \A h \in 1..Len(values) : f[h] \in ValueRecord
    BY <1>1
  <2> HIDE DEF f
  <2>2. f \in [1..Len(values) -> ValueRecord]
    BY <2>1
  <2>3. f \in Seq(ValueRecord) /\ Len(f) = Len(values)
    BY <1>1, <2>2
  <2> QED BY <2>3 DEF f
<1>3. \A h \in 1..NValues : Retyped(h)
  <2> TAKE h \in 1..NValues
  <2>1. h \in DOMAIN values
    BY <1>1
  <2> QED BY <2>1 DEF Retyped, IsVector
<1>4. Retypes
  <2>1. phase' \in Phase /\ i' \in Nat \ {0}
    BY DEF Phase
  <2>2. Len(values') # NValues => values'[NValues + 1].type = "SLOT"
    <3>1. Len(values) # NValues => values[NValues + 1].type = "SLOT"
      BY <1>1 DEF TypeOK
    <3>2. Len(values) # NValues => NValues + 1 \in DOMAIN values
      <4>1. NValues + 1 \in 1..(NValues + 1)
        BY <1>1
      <4> QED BY <1>1, <4>1
    <3>3. ~(NValues + 1 <= NValues)
      BY <1>1
    <3> QED BY <1>2, <3>1, <3>2, <3>3
  <2> QED BY <1>1, <1>2, <1>3, <2>1, <2>2 DEF Retypes, TypeOK
<1>5. /\ TypeOK' /\ HandleInv' /\ PartInv' /\ TablesAreNumbered'
      /\ NValues' = NValues /\ Tables' = Tables /\ Kept' = Kept
  BY <1>4, RetypedIsKept
<1>6. VectorInv'
  <2>1. ASSUME NEW h \in 1..NValues PROVE VectorOK(h)'
    <3>1. VectorOK(h)
      BY DEF SerializerInv, VectorInv
    <3>2. h \in DOMAIN values
      BY <1>1
    <3>3. values'[h].data = values[h].data /\ (IsPrivVector(h)' => IsPrivVector(h))
      BY <3>2 DEF IsPrivVector
    <3>4. Home(h)' = Home(h)
      BY DEF Home
    <3> QED BY <3>1, <3>3, <3>4 DEF VectorOK
  <2> QED BY <1>5, <2>1 DEF VectorInv
<1>7. NumberInv' /\ LiveInv'
  BY <1>5 DEF SerializerInv, NumberInv, LiveInv
<1>8. HashInv'
  <2>1. \A h \in 1..NValues : ~(h < 1)
    BY <1>1
  <2>2. \A h \in Tables : ~(h < 1)
    BY <2>1 DEF Tables
  <2> QED BY <1>5, <2>2 DEF HashInv, LaidOut
<1> QED
  BY <1>5, <1>6, <1>7, <1>8 DEF SerializerInv

\* Vectors without marks are tagged hashable.
LEMMA TagIsKept ==
  ASSUME SerializerInv, TagHashable
  PROVE  SerializerInv'
<1> DEFINE Tagged(h) == h <= NValues /\ values[h].type = "VECTOR_VALUE" /\ ~values[h].outside /\ h \notin marked
<1>1. /\ phase = "tag" /\ phase' = "compress" /\ i' = 1
      /\ count' = count /\ spare' = spare /\ privs' = privs /\ outs' = outs /\ blobs' = blobs
      /\ tables' = tables /\ root' = root /\ object' = object /\ live' = live
      /\ values' = [h \in DOMAIN values |->
                      IF Tagged(h) THEN [values[h] EXCEPT !.type = "VECTOR_VALUE_HASHABLE"] ELSE values[h]]
  BY DEF TagHashable, Goto
<1>2. \A h \in DOMAIN values :
        /\ values'[h] \in ValueRecord /\ values'[h].data = values[h].data
        /\ values'[h].outside = values[h].outside /\ values'[h].setmap = values[h].setmap
        /\ \/ values'[h].type = values[h].type
           \/ h <= NValues /\ IsPrivVector(h) /\ values'[h].type \in PrimVector \cup ValueVector
  <2> TAKE h \in DOMAIN values
  <2>1. values[h] \in ValueRecord
    BY TypeFacts DEF SerializerInv
  <2> DEFINE w == [values[h] EXCEPT !.type = "VECTOR_VALUE_HASHABLE"]
  <2>2. /\ w \in ValueRecord /\ w.type = "VECTOR_VALUE_HASHABLE" /\ w.data = values[h].data
        /\ w.outside = values[h].outside /\ w.setmap = values[h].setmap
    <3>1. "VECTOR_VALUE_HASHABLE" \in AnyType
      BY DEF AnyType, ValueVector
    <3> QED BY <2>1, <3>1, ValueFields
  <2>3. values'[h] = IF Tagged(h) THEN w ELSE values[h]
    BY <1>1
  <2> HIDE DEF w
  <2> QED BY <2>1, <2>2, <2>3 DEF IsPrivVector, ValueVector
<1>3. values' = [h \in DOMAIN values |-> values'[h]]
  <2> DEFINE f == [h \in DOMAIN values |->
                      IF Tagged(h) THEN [values[h] EXCEPT !.type = "VECTOR_VALUE_HASHABLE"] ELSE values[h]]
  <2>1. f = [h \in DOMAIN values |-> f[h]]
    OBVIOUS
  <2> HIDE DEF f
  <2>2. values' = f
    BY <1>1 DEF f
  <2> QED BY <2>1, <2>2
<1> QED
  BY <1>1, <1>2, <1>3, TypesAreKept

\* Compression leaves a vector a vector.
LEMMA CompressionIsVector ==
  ASSUME NEW h, values[h].type \in ValueVector
  PROVE  Compression(h) \in PrimVector \cup ValueVector
<1>1. \A lo, hi : IntVector(lo, hi) \in PrimVector \cup ValueVector
  <2> TAKE lo, hi
  <2> DEFINE unsigned(w) == lo >= 0 /\ hi < Base ^ w
             signed(w) == 2 * lo >= -(Base ^ w) /\ 2 * hi < Base ^ w
             low == lo < 0
  <2>1. IntVector(lo, hi) =
          CASE unsigned(1) -> "VECTOR_U8"
          [] ~unsigned(1) /\ unsigned(2) -> "VECTOR_U16"
          [] ~unsigned(2) /\ unsigned(4) -> "VECTOR_U32"
          [] low /\ signed(1) -> "VECTOR_I8"
          [] low /\ ~signed(1) /\ signed(2) -> "VECTOR_I16"
          [] low /\ ~signed(2) /\ signed(4) -> "VECTOR_I32"
          [] OTHER -> "VECTOR_VALUE"
    BY DEF IntVector
  <2> HIDE DEF unsigned, signed, low
  <2>2. IntVector(lo, hi) \in {"VECTOR_U8", "VECTOR_U16", "VECTOR_U32", "VECTOR_I8", "VECTOR_I16",
                               "VECTOR_I32", "VECTOR_VALUE"}
    BY <2>1
  <2> QED BY <2>2 DEF PrimVector, ValueVector
<1> DEFINE ints == {values[x].data : x \in Range(Vec(h).items)}
           a == IntVector(Min(ints), Max(ints))
<1>2. Compression(h) = CASE IsIntVector(h) -> a
                         [] ItemTypes(h) = {"float"} -> "VECTOR_FLOAT"
                         [] OTHER -> values[h].type
  BY DEF Compression
<1>3. a \in PrimVector \cup ValueVector
  BY <1>1
<1> HIDE DEF a
<1>4. "VECTOR_FLOAT" \in PrimVector
  BY DEF PrimVector
<1> QED
  BY <1>2, <1>3, <1>4

\* Vectors of numbers are compressed.
LEMMA CompressIsKept ==
  ASSUME SerializerInv, CompressVectors
  PROVE  SerializerInv'
<1> DEFINE u(h) == [values[h] EXCEPT !.type = Compression(h)]
           w(h) == [u(h) EXCEPT !.compressed = Compression(h) \notin ValueVector]
           f == [h \in DOMAIN values |-> IF Compressible(h) THEN w(h) ELSE values[h]]
<1>1. /\ phase = "compress" /\ phase' = "sets" /\ i' = 1
      /\ count' = count /\ spare' = spare /\ privs' = privs /\ outs' = outs /\ blobs' = blobs
      /\ tables' = tables /\ root' = root /\ object' = object /\ live' = live
      /\ values' = [h \in DOMAIN values |->
                      IF Compressible(h)
                        THEN [values[h] EXCEPT !.type = Compression(h),
                                               !.compressed = Compression(h) \notin ValueVector]
                        ELSE values[h]]
  BY DEF CompressVectors, Goto
<1>2. values' = f
  BY <1>1
<1>3. \A h \in DOMAIN values :
        /\ f[h] \in ValueRecord /\ f[h].data = values[h].data
        /\ f[h].outside = values[h].outside /\ f[h].setmap = values[h].setmap
        /\ \/ f[h].type = values[h].type
           \/ h <= NValues /\ IsPrivVector(h) /\ f[h].type \in PrimVector \cup ValueVector
  <2> TAKE h \in DOMAIN values
  <2>1. values[h] \in ValueRecord
    BY TypeFacts DEF SerializerInv
  <2>2. CASE ~Compressible(h)
    BY <2>1, <2>2
  <2>3. CASE Compressible(h)
    <3>1. h <= NValues /\ IsPrivVector(h) /\ values[h].type \in ValueVector
      BY <2>3 DEF Compressible, IsPrivVector
    <3> DEFINE t == Compression(h)
    <3>2. t \in PrimVector \cup ValueVector
      BY <3>1, CompressionIsVector
    <3>3. t \in AnyType
      BY <3>2 DEF AnyType
    <3>4. f[h] = w(h)
      BY <2>3
    <3> DEFINE z == [values[h] EXCEPT !.type = t]
               b == t \notin ValueVector
    <3>5. w(h) = [z EXCEPT !.compressed = b]
      OBVIOUS
    <3> HIDE DEF t, w, f
    <3>6. /\ z \in ValueRecord /\ z.type = t /\ z.data = values[h].data
          /\ z.outside = values[h].outside /\ z.setmap = values[h].setmap
      BY <2>1, <3>3, ValueFields
    <3> HIDE DEF z
    <3>7. b \in BOOLEAN
      OBVIOUS
    <3> HIDE DEF b
    <3>8. /\ w(h) \in ValueRecord /\ w(h).type = t /\ w(h).data = values[h].data
          /\ w(h).outside = values[h].outside /\ w(h).setmap = values[h].setmap
      BY <3>5, <3>6, <3>7, ValueFields
    <3> QED BY <3>1, <3>2, <3>4, <3>8
  <2> QED BY <2>2, <2>3
<1>4. f = [h \in DOMAIN values |-> f[h]]
  OBVIOUS
<1> HIDE DEF f
<1> QED
  BY <1>1, <1>2, <1>3, <1>4, TypesAreKept

\* The vectors of a set or map are listed.
LEMMA TablesHaveParts ==
  ASSUME SerializerInv, NEW h \in Tables
  PROVE  /\ TableOf(h) \in TableRecord /\ TableOf(h).parts \in Seq(Nat)
         /\ TableOf(h).keys \in Seq(Nat) /\ TableOf(h).vals \in Seq(Nat)
<1>1. values[h].type \in TableType /\ values[h].data + 1 \in DOMAIN tables[values[h].type]
  BY DEF SerializerInv, NumberInv, TablesAreNumbered, Tables
<1>2. tables[values[h].type] \in Seq(TableRecord)
  BY <1>1 DEF SerializerInv, TypeOK
<1>3. TableOf(h) \in TableRecord
  BY <1>1, <1>2 DEF TableOf
<1> QED BY <1>3 DEF TableRecord

\* What the number of a vector with items leads to.
LEMMA ItemsAreHashed ==
  ASSUME SerializerInv, phase \in {"sets", "maps"}, NEW k \in Mine,
         object[k].kind \in {"vector", "native"}, object[k].holds # <<>>
  PROVE  LooksAt(k) = object[k].holds
<1>1. k \in 1..NValues /\ HandleOK(k) /\ VectorOK(k)
  BY TypeFacts DEF SerializerInv, HandleInv, VectorInv
<1>2. CASE values[k].outside
  BY <1>1, <1>2 DEF HandleOK, LooksAt
<1>3. CASE ~values[k].outside
  <2>1. IsPrivVector(k)
    BY <1>1, <1>3 DEF HandleOK, IsPrivVector, IsVector
  <2>2. privs[values[k].data + 1].items = object[k].holds
    BY <1>1, <2>1 DEF VectorOK, Home
  <2> QED BY <1>3, <2>1, <2>2 DEF LooksAt, Vec, IsPrivVector
<1> QED
  BY <1>2, <1>3

\* Two ways that agree on a set that the first does not lead out of lead to the same.
LEMMA SameWay ==
  ASSUME NEW f, NEW g, DOMAIN f = DOMAIN g, NEW M \in SUBSET DOMAIN f, NEW h \in M,
         \A w \in M : f[w] \subseteq M /\ f[w] = g[w]
  PROVE  GetsTo(f, h) = GetsTo(g, h) /\ GetsTo(f, h) \subseteq M
<1>1. GetsTo(f, h) \subseteq M
  BY DEF GetsTo
<1>2. ASSUME NEW u \in GetsTo(f, h) PROVE u \in GetsTo(g, h)
  <2>1. ASSUME NEW T \in SUBSET DOMAIN g, h \in T, \A w \in T : g[w] \subseteq T PROVE u \in T
    <3>1. T \cap M \in SUBSET DOMAIN f /\ h \in T \cap M /\ \A w \in T \cap M : f[w] \subseteq T \cap M
      BY <2>1
    <3>2. u \in T \cap M
      BY <3>1 DEF GetsTo
    <3> QED BY <3>2
  <2> QED BY <2>1 DEF GetsTo
<1>3. ASSUME NEW u \in GetsTo(g, h) PROVE u \in GetsTo(f, h)
  <2>1. ASSUME NEW T \in SUBSET DOMAIN f, h \in T, \A w \in T : f[w] \subseteq T PROVE u \in T
    <3>1. T \cap M \in SUBSET DOMAIN g /\ h \in T \cap M /\ \A w \in T \cap M : g[w] \subseteq T \cap M
      BY <2>1
    <3>2. u \in T \cap M
      BY <3>1 DEF GetsTo
    <3> QED BY <3>2
  <2> QED BY <2>1 DEF GetsTo
<1> QED
  BY <1>1, <1>2, <1>3

\* The writer's recursion goes where a reader's goes, and finds the same there: a vector's number
\* leads to the handles that the client put into it, and those are handles of the client's too.
LEMMA WhatIsHashed ==
  ASSUME SerializerInv, ContentInv, phase \in {"sets", "maps"}, NEW k \in Mine, ~HasEmpty(k)
  PROVE  Hashed(k) = HashedByReader(k)
<1>1. /\ Mine \subseteq 1..NValues /\ DOMAIN Hashing = 1..NValues /\ DOMAIN ReadHashing = 1..NValues
      /\ \A u \in Mine : HandleOK(u) /\ VectorOK(u) /\ ContentOK(u) /\ object[u].kind \in Kind \ {"internal"}
  <2>1. Mine \subseteq 1..NValues
    BY TypeFacts DEF SerializerInv
  <2>2. \A u \in Mine : object[u].kind \in Kind \ {"internal"}
    BY DEF SerializerInv, TypeOK, Mine
  <2>3. DOMAIN Hashing = 1..NValues /\ DOMAIN ReadHashing = 1..NValues
    BY DEF Hashing, ReadHashing
  <2> QED BY <2>1, <2>2, <2>3 DEF SerializerInv, HandleInv, VectorInv, ContentInv
<1>2. ASSUME NEW u \in Mine PROVE Hashing[u] \subseteq Mine /\ Hashing[u] = ReadHashing[u]
  <2>1. ToRead(u).type = values[u].type
    BY DEF ToRead
  <2>2. CASE values[u].type # "VECTOR_VALUE_HASHABLE"
    BY <1>1, <1>2, <2>1, <2>2 DEF Hashing, ReadHashing
  <2>3. CASE values[u].type = "VECTOR_VALUE_HASHABLE"
    <3>1. object[u].kind = "vector" /\ ~values[u].outside
      BY <1>1, <1>2, <2>3 DEF HandleOK, ContentOK, Kind, InlineType, BlobType, PrimVector, ValueVector
    <3>2. IsPrivVector(u)
      BY <2>3, <3>1 DEF IsPrivVector, ValueVector
    <3>3. Vec(u).items = object[u].holds
      BY <1>1, <1>2, <3>1, <3>2 DEF VectorOK, Home, Vec
    <3>4. Range(object[u].holds) \subseteq Mine
      BY <1>1, <1>2, <3>1 DEF ContentOK
    <3>5. Hashing[u] = Range(Vec(u).items) /\ ReadHashing[u] = Range(object[u].holds)
      BY <1>1, <1>2, <2>1, <2>3 DEF Hashing, ReadHashing
    <3> QED BY <3>3, <3>4, <3>5
  <2> QED BY <2>2, <2>3
<1>3. GetsTo(Hashing, k) = GetsTo(ReadHashing, k) /\ GetsTo(Hashing, k) \subseteq Mine
  <2>1. PICK f, g : f = Hashing /\ g = ReadHashing
    OBVIOUS
  <2>2. DOMAIN f = DOMAIN g /\ Mine \in SUBSET DOMAIN f /\ \A w \in Mine : f[w] \subseteq Mine /\ f[w] = g[w]
    BY <1>1, <1>2, <2>1
  <2>3. GetsTo(f, k) = GetsTo(g, k) /\ GetsTo(f, k) \subseteq Mine
    BY <2>2, SameWay
  <2> QED BY <2>1, <2>3
<1>4. ASSUME NEW u \in GetsTo(Hashing, k) PROVE LooksAt(u) = ReadItems(u)
  <2>1. u \in Mine
    BY <1>3, <1>4
  <2>2. CASE object[u].kind \in {"vector", "native"}
    <3>1. object[u].holds # <<>>
      BY <1>3, <1>4, <2>2 DEF HasEmpty
    <3> QED BY <2>1, <2>2, <3>1, ItemsAreHashed DEF ReadItems
  <2>3. CASE object[u].kind \notin {"vector", "native"}
    <3>1. ~values[u].outside /\ values[u].type \notin PrimVector \cup ValueVector \cup {"VECTOR_EMPTY"}
      BY <1>1, <2>1, <2>3 DEF HandleOK, Kind, InlineType, BlobType, PrimVector, ValueVector
    <3> QED BY <2>3, <3>1 DEF LooksAt, ReadItems
  <2> QED BY <2>2, <2>3
<1> QED
  BY <1>3, <1>4 DEF Hashed, HashedByReader

\* The entry of a set's or map's vector is that vector's.
LEMMA PartEntries ==
  ASSUME SerializerInv, phase \in {"sets", "maps"}, NEW h \in Tables, NEW n \in DOMAIN TableOf(h).parts,
         NEW p, p = values[TableOf(h).parts[n]].data + 1
  PROVE  /\ TableOf(h).parts[n] \in 1..NValues /\ IsPrivVector(TableOf(h).parts[n])
         /\ values[TableOf(h).parts[n]].setmap /\ object[TableOf(h).parts[n]].kind = "internal"
         /\ p \in DOMAIN privs /\ privs[p].owner = TableOf(h).parts[n]
<1> DEFINE x == TableOf(h).parts[n]
<1>1. x \in 1..NValues /\ IsPrivVector(x) /\ values[x].setmap /\ object[x].kind = "internal"
  BY DEF SerializerInv, PartInv
<1>2. VectorOK(x)
  BY <1>1 DEF SerializerInv, VectorInv
<1> HIDE DEF x
<1>3. p \in DOMAIN privs /\ privs[p].owner = x
  <2>1. p = values[x].data + 1
    BY DEF x
  <2> QED BY <1>1, <1>2, <2>1 DEF VectorOK, Home
<1> QED
  BY <1>1, <1>3 DEF x

\* A function over the domain of a sequence.
LEMMA SequenceLike ==
  ASSUME NEW s, IsSequence(s), NEW f, f = [n \in DOMAIN s |-> f[n]]
  PROVE  IsSequence(f) /\ Len(f) = Len(s) /\ DOMAIN f = DOMAIN s
<1>1. Len(s) \in Nat /\ DOMAIN s = 1..Len(s)
  BY SequenceFacts
<1>2. f \in [1..Len(s) -> Range(f)]
  BY <1>1 DEF Range
<1>3. f \in Seq(Range(f)) /\ Len(f) = Len(s)
  BY <1>1, <1>2
<1> QED
  BY <1>1, <1>3 DEF IsSequence

\* The vectors of a set or map are at most three.
LEMMA TwoOrThree ==
  \A a \in {2, 3} : 1 \in 1..a /\ \A n \in 1..a : n = 1 \/ n = 2 \/ n = 3
  OBVIOUS

\* The set or map h is laid out: its vectors are filled, and those of others stay as they are.
LaysOut(h) ==
  /\ phase \in {"sets", "maps"} /\ phase' = phase /\ count' = count /\ spare' = spare
  /\ outs' = outs /\ blobs' = blobs /\ tables' = tables /\ root' = root /\ object' = object
  /\ h \in Tables /\ Retypes /\ \A x \in 1..NValues : values'[x] = values[x]
  /\ live' = live \cup {<<"items", p>> : p \in Range(TableOf(h).parts)}
  /\ DOMAIN privs' = DOMAIN privs
  /\ \A p \in DOMAIN privs :
        /\ privs'[p].owner = privs[p].owner
        /\ (\A n \in DOMAIN TableOf(h).parts : values[TableOf(h).parts[n]].data + 1 # p) => privs'[p] = privs[p]
  /\ \A n \in DOMAIN TableOf(h).parts :
        privs'[values[TableOf(h).parts[n]].data + 1].items = PartItems(TableOf(h), n)
  /\ \A k \in DOMAIN TableOf(h).keys : PartItems(TableOf(h), 1)[k] = Hashed(TableOf(h).keys[k])
  /\ \A g \in Tables : g # h => (LaidOut(g)' => LaidOut(g))

\* So the step does.
LEMMA TableGetsParts ==
  ASSUME SerializerInv, BuildTable
  PROVE  \E h : LaysOut(h)
<1>1. PICK h \in Pending : IsNext(h) /\ LayOut(h) /\ i' = h + 1
  BY DEF BuildTable
<1>2. /\ phase \in {"sets", "maps"} /\ phase' = phase /\ count' = count /\ spare' = spare
      /\ outs' = outs /\ blobs' = blobs /\ tables' = tables /\ root' = root /\ object' = object
      /\ values' = IF Len(values) = NValues THEN Append(values, NewValue("SLOT", 0)) ELSE values
  BY DEF BuildTable, Populating
<1>3. /\ TypeOK /\ NValues \in Nat /\ i \in Nat \ {0} /\ DOMAIN values = 1..Len(values)
      /\ Len(values) \in {NValues, NValues + 1} /\ 1..NValues \subseteq DOMAIN values
      /\ Mine \subseteq 1..NValues
  BY TypeFacts DEF SerializerInv, TypeOK
<1>4. /\ h \in Tables /\ h \in 1..NValues /\ h \in Nat
      /\ values[h].type = IF phase = "sets" THEN "SET" ELSE "MAP"
  <2>1. h \in i..NValues /\ values[h].type = IF phase = "sets" THEN "SET" ELSE "MAP"
    BY DEF Pending
  <2>2. h \in 1..NValues /\ h \in Nat
    <3>1. ASSUME NEW a \in Nat \ {0}, NEW b \in Nat, NEW c \in a..b PROVE c \in 1..b /\ c \in Nat
      OBVIOUS
    <3> QED BY <1>3, <2>1, <3>1
  <2> QED BY <2>1, <2>2 DEF Tables, TableType
<1> DEFINE t == TableOf(h)
           part(n) == values[t.parts[n]].data + 1
           Fills(n, p) == n \in DOMAIN t.parts /\ part(n) = p
           Filled(p) == \E n \in DOMAIN t.parts : part(n) = p
<1>5. /\ privs' = [p \in DOMAIN privs |->
             IF Filled(p) THEN [privs[p] EXCEPT !.items = PartItems(t, CHOOSE n \in DOMAIN t.parts : part(n) = p)]
             ELSE privs[p]]
      /\ live' = live \cup {<<"items", p>> : p \in Range(t.parts)}
  BY <1>1 DEF LayOut
<1>6. \A n \in DOMAIN t.parts :
         /\ t.parts[n] \in 1..NValues /\ IsPrivVector(t.parts[n])
         /\ values[t.parts[n]].setmap /\ object[t.parts[n]].kind = "internal"
         /\ part(n) \in DOMAIN privs /\ privs[part(n)].owner = t.parts[n]
  BY <1>2, <1>4, PartEntries
<1>7. \A m, n \in DOMAIN t.parts : part(m) = part(n) => m = n
  <2> TAKE m, n \in DOMAIN t.parts
  <2> HAVE part(m) = part(n)
  <2>1. t.parts[m] = t.parts[n]
    BY <1>6
  <2> QED BY <1>4, <2>1 DEF SerializerInv, PartInv
<1>8. Len(t.parts) \in {2, 3} /\ DOMAIN t.parts = 1..Len(t.parts) /\ Range(t.keys) \subseteq Mine
      /\ t.keys \in Seq(Nat) /\ t.vals \in Seq(Nat)
  <2>1. Len(t.parts) \in {2, 3} /\ Range(t.keys) \subseteq Mine
    BY <1>4 DEF SerializerInv, PartInv
  <2>2. t.parts \in Seq(Nat) /\ t.keys \in Seq(Nat) /\ t.vals \in Seq(Nat)
    BY <1>4, TablesHaveParts
  <2> HIDE DEF t
  <2> QED BY <2>1, <2>2
<1> HIDE DEF t
<1>9. /\ \A n \in DOMAIN t.parts : IsSequence(PartItems(t, n))
      /\ \A k \in DOMAIN t.keys : PartItems(t, 1)[k] = Hashed(t.keys[k])
  <2> DEFINE f == [k \in DOMAIN t.keys |-> Hashed(t.keys[k])]
  <2>1. PartItems(t, 1) = Append(f, <<>>) /\ PartItems(t, 2) = Append(t.keys, Slot)
        /\ PartItems(t, 3) = Append(t.vals, Slot)
    BY DEF PartItems
  <2>2. IsSequence(t.keys) /\ IsSequence(t.vals)
    BY <1>8, SequenceOver
  <2>3. f = [k \in DOMAIN t.keys |-> f[k]] /\ \A k \in DOMAIN t.keys : f[k] = Hashed(t.keys[k])
    OBVIOUS
  <2> HIDE DEF f
  <2>4. IsSequence(f) /\ DOMAIN f = DOMAIN t.keys /\ DOMAIN f = 1..Len(f)
    BY <2>2, <2>3, SequenceLike, SequenceFacts
  <2>5. IsSequence(PartItems(t, 1)) /\ \A k \in DOMAIN t.keys : PartItems(t, 1)[k] = Hashed(t.keys[k])
    <3>1. IsSequence(Append(f, <<>>)) /\ \A k \in 1..Len(f) : Append(f, <<>>)[k] = f[k]
      BY <2>4, SequencePush
    <3> QED BY <2>1, <2>3, <2>4, <3>1
  <2>6. IsSequence(PartItems(t, 2)) /\ IsSequence(PartItems(t, 3))
    <3>1. IsSequence(Append(t.keys, Slot))
      BY <2>2, SequencePush
    <3>2. IsSequence(Append(t.vals, Slot))
      BY <2>2, SequencePush
    <3> QED BY <2>1, <3>1, <3>2
  <2>7. \A n \in DOMAIN t.parts : n = 1 \/ n = 2 \/ n = 3
    <3>1. Len(t.parts) \in {2, 3} /\ DOMAIN t.parts = 1..Len(t.parts)
      BY <1>8
    <3> QED BY <3>1, TwoOrThree
  <2> QED BY <2>5, <2>6, <2>7
<1>10. ASSUME NEW p \in DOMAIN privs
       PROVE  /\ DOMAIN privs'[p] = {"owner", "items"} /\ privs'[p].owner = privs[p].owner
              /\ IsSequence(privs'[p].items)
              /\ ~Filled(p) => privs'[p] = privs[p]
              /\ \A n \in DOMAIN t.parts : part(n) = p => privs'[p].items = PartItems(t, n)
  <2>1. DOMAIN privs[p] = {"owner", "items"} /\ IsSequence(privs[p].items)
    BY <1>3 DEF TypeOK, IsVectorList
  <2>2. CASE ~Filled(p)
    <3>1. privs'[p] = privs[p]
      BY <1>5, <2>2
    <3> QED BY <2>1, <2>2, <3>1
  <2>3. CASE Filled(p)
    <3>1. PICK n \in DOMAIN t.parts : part(n) = p
      BY <2>3
    <3>2. (CHOOSE m \in DOMAIN t.parts : part(m) = p) = n
      <4>1. \A m \in DOMAIN t.parts : part(m) = p => m = n
        BY <1>7, <3>1
      <4> HIDE DEF part
      <4> QED BY <3>1, <4>1
    <3> DEFINE y == PartItems(t, n)
    <3>3. privs'[p] = [privs[p] EXCEPT !.items = y]
      BY <1>5, <2>3, <3>2
    <3>4. IsSequence(y)
      BY <1>9
    <3>5. \A m \in DOMAIN t.parts : part(m) = p => m = n
      BY <1>7, <3>1
    <3> HIDE DEF y
    <3>6. DOMAIN privs'[p] = {"owner", "items"} /\ privs'[p].owner = privs[p].owner /\ privs'[p].items = y
      BY <2>1, <3>3
    <3> QED BY <2>3, <3>4, <3>5, <3>6 DEF y
  <2> QED BY <2>2, <2>3
<1>11. IsVectorList(privs') /\ DOMAIN privs' = DOMAIN privs
  <2>1. IsSequence(privs)
    BY <1>3 DEF TypeOK, IsVectorList
  <2>2. IsSequence(privs') /\ DOMAIN privs' = DOMAIN privs
    <3> DEFINE f == [p \in DOMAIN privs |->
             IF Filled(p) THEN [privs[p] EXCEPT !.items = PartItems(t, CHOOSE n \in DOMAIN t.parts : part(n) = p)]
             ELSE privs[p]]
    <3>1. privs' = f /\ f = [p \in DOMAIN privs |-> f[p]]
      BY <1>5
    <3> HIDE DEF f
    <3> QED BY <2>1, <3>1, SequenceLike
  <2> QED BY <1>10, <2>2 DEF IsVectorList
<1>12. /\ values' \in Seq(ValueRecord) /\ Len(values') = NValues + 1
       /\ values'[NValues + 1].type = "SLOT"
       /\ \A x \in 1..NValues : values'[x] = values[x]
  <2>1. values \in Seq(ValueRecord)
    BY <1>3 DEF TypeOK
  <2>2. CASE Len(values) = NValues
    <3> DEFINE n == NewValue("SLOT", 0)
    <3>1. n \in ValueRecord /\ n.type = "SLOT"
      <4>1. "SLOT" \in AnyType /\ 0 \in Int
        BY DEF AnyType
      <4> QED BY <4>1, NewValueType
    <3>2. values' = Append(values, n)
      BY <1>2, <2>2
    <3> HIDE DEF n
    <3> QED BY <1>3, <2>1, <2>2, <3>1, <3>2
  <2>3. CASE Len(values) = NValues + 1
    <3>0. NValues + 1 # NValues
      <4>1. ASSUME NEW a \in Nat PROVE a + 1 # a
        OBVIOUS
      <4>2. NValues \in Nat
        BY <1>3
      <4> QED BY <4>1, <4>2
    <3>1. values' = values
      <4>1. Len(values) # NValues
        BY <2>3, <3>0
      <4> QED BY <1>2, <2>3, <4>1
    <3>2. values[NValues + 1].type = "SLOT"
      <4>1. Len(values) # NValues
        BY <2>3, <3>0
      <4> QED BY <1>3, <4>1 DEF TypeOK
    <3> QED BY <2>1, <2>3, <3>1, <3>2
  <2> QED BY <1>3, <2>2, <2>3
<1>13. Retypes
  <2>1. \A x \in 1..NValues : Retyped(x)
    BY <1>12 DEF Retyped
  <2>2. i' \in Nat \ {0}
    BY <1>1, <1>4
  <2>3. phase' \in Phase /\ count' \in [{"out", "SET", "MAP"} -> Nat] /\ IsVectorList(spare')
    BY <1>2, <1>3 DEF TypeOK
  <2> QED BY <1>2, <1>11, <1>12, <2>1, <2>2, <2>3 DEF Retypes
<1>14. ASSUME NEW g \in Tables, LaidOut(g)', g # h PROVE LaidOut(g)
  <2>1. g \in Nat /\ g \in 1..NValues
    BY DEF Tables
  <2>0. ASSUME g < h + 1, g \in i..NValues => h <= g PROVE g < i
    <3>1. h \in Nat /\ i \in Nat /\ NValues \in Nat
      BY <1>3, <1>4
    <3>2. g <= NValues /\ g < h
      BY <1>14, <2>0, <2>1, <3>1
    <3>3. ~(i <= g)
      <4>1. i <= g => g \in i..NValues
        BY <2>1, <3>1, <3>2
      <4>2. ~(h <= g)
        BY <2>1, <3>1, <3>2
      <4> QED BY <2>0, <4>1, <4>2
    <3> QED BY <2>1, <3>1, <3>3
  <2>2. CASE phase = "sets"
    <3>1. values'[g].type = "SET" /\ g < h + 1
      BY <1>1, <1>2, <1>14, <2>2 DEF LaidOut
    <3>2. values[g].type = "SET"
      BY <1>12, <2>1, <3>1
    <3>3. g < i
      <4>1. g \in i..NValues => h <= g
        BY <1>1, <2>2, <3>2 DEF IsNext, Pending
      <4> QED BY <2>0, <3>1, <4>1
    <3> QED BY <2>2, <3>2, <3>3 DEF LaidOut
  <2>3. CASE phase = "maps" /\ values[g].type # "SET"
    <3>1. g < h + 1
      BY <1>1, <1>2, <1>12, <1>14, <2>1, <2>3 DEF LaidOut
    <3>2. values[g].type = "MAP"
      BY <2>3 DEF Tables, TableType
    <3>3. g < i
      <4>1. g \in i..NValues => h <= g
        BY <1>1, <2>3, <3>2 DEF IsNext, Pending
      <4> QED BY <2>0, <3>1, <4>1
    <3> QED BY <2>3, <3>3 DEF LaidOut
  <2>4. CASE phase = "maps" /\ values[g].type = "SET"
    BY <2>4 DEF LaidOut
  <2> QED BY <1>2, <2>2, <2>3, <2>4
<1>15. \A n \in DOMAIN t.parts : privs'[part(n)].items = PartItems(t, n)
  BY <1>6, <1>10
<1>16. LaysOut(h)
  BY <1>2, <1>4, <1>5, <1>9, <1>10, <1>11, <1>12, <1>13, <1>14, <1>15 DEF LaysOut, t
<1> QED BY <1>16

\* The vectors of another set or map are not disturbed.
LEMMA OthersStay ==
  ASSUME SerializerInv, NEW h, LaysOut(h), NEW g \in Tables, g # h, NEW m \in DOMAIN TableOf(g).parts,
         NEW x, x = TableOf(g).parts[m]
  PROVE  Vec(x)' = Vec(x) /\ x \in 1..NValues
<1> DEFINE t == TableOf(h)
           p == values[x].data + 1
<1>1. phase \in {"sets", "maps"} /\ h \in Tables
  BY DEF LaysOut
<1>2. x \in 1..NValues /\ p \in DOMAIN privs /\ privs[p].owner = x
  BY <1>1, PartEntries
<1>3. ASSUME NEW n \in DOMAIN t.parts, values[t.parts[n]].data + 1 = p PROVE FALSE
  <2>1. privs[p].owner = t.parts[n]
    BY <1>1, <1>3, PartEntries
  <2>2. TableOf(g).parts[m] = TableOf(h).parts[n] => g = h
    BY <1>1 DEF SerializerInv, PartInv
  <2>3. TableOf(g).parts[m] = TableOf(h).parts[n]
    BY <1>2, <2>1
  <2> QED BY <2>2, <2>3
<1>4. privs'[p] = privs[p]
  BY <1>2, <1>3 DEF LaysOut
<1>5. values'[x] = values[x]
  BY <1>2 DEF LaysOut
<1> QED BY <1>2, <1>4, <1>5 DEF Vec

\* And it keeps the invariant.
LEMMA TableIsLaidOut ==
  ASSUME SerializerInv, ContentInv, BuildTable
  PROVE  SerializerInv'
<1>1. PICK h : LaysOut(h)
  BY TableGetsParts
<1>2. /\ phase \in {"sets", "maps"} /\ phase' = phase /\ count' = count /\ spare' = spare
      /\ outs' = outs /\ blobs' = blobs /\ tables' = tables /\ root' = root /\ object' = object
  BY <1>1 DEF LaysOut
<1>4. h \in Tables /\ Mine \subseteq 1..NValues
  BY <1>1, TypeFacts DEF LaysOut, SerializerInv
<1> DEFINE t == TableOf(h)
           part(n) == values[t.parts[n]].data + 1
<1>5. live' = live \cup {<<"items", p>> : p \in Range(t.parts)}
  BY <1>1 DEF LaysOut
<1>6. \A n \in DOMAIN t.parts :
         /\ t.parts[n] \in 1..NValues /\ IsPrivVector(t.parts[n])
         /\ values[t.parts[n]].setmap /\ object[t.parts[n]].kind = "internal"
         /\ part(n) \in DOMAIN privs /\ privs[part(n)].owner = t.parts[n]
  BY <1>2, <1>4, PartEntries
<1>8. Len(t.parts) \in {2, 3} /\ DOMAIN t.parts = 1..Len(t.parts) /\ Range(t.keys) \subseteq Mine
      /\ t.keys \in Seq(Nat) /\ t.vals \in Seq(Nat)
  <2>1. Len(t.parts) \in {2, 3} /\ Range(t.keys) \subseteq Mine
    BY <1>4 DEF SerializerInv, PartInv
  <2>2. t.parts \in Seq(Nat) /\ t.keys \in Seq(Nat) /\ t.vals \in Seq(Nat)
    BY <1>4, TablesHaveParts
  <2> HIDE DEF t
  <2> QED BY <2>1, <2>2
<1>10. ASSUME NEW p \in DOMAIN privs
       PROVE  /\ privs'[p].owner = privs[p].owner
              /\ (\A n \in DOMAIN t.parts : part(n) # p) => privs'[p] = privs[p]
  BY <1>1 DEF LaysOut
<1>11. DOMAIN privs' = DOMAIN privs
  BY <1>1 DEF LaysOut
<1>12. \A x \in 1..NValues : values'[x] = values[x]
  BY <1>1 DEF LaysOut
<1>13. Retypes
  BY <1>1 DEF LaysOut
<1> HIDE DEF t
<1>14. /\ TypeOK' /\ HandleInv' /\ PartInv' /\ TablesAreNumbered'
       /\ NValues' = NValues /\ Tables' = Tables /\ Kept' = Kept
       /\ \A g \in Tables : TableOf(g)' = TableOf(g)
  BY <1>13, RetypedIsKept
<1>15. VectorInv'
  <2>1. ASSUME NEW x \in 1..NValues PROVE VectorOK(x)'
    <3>1. VectorOK(x) /\ values'[x] = values[x] /\ object'[x] = object[x] /\ Home(x) = privs /\ Home(x)' = privs'
      BY <1>2, <1>12 DEF SerializerInv, VectorInv, Home
    <3>2. SUFFICES ASSUME IsPrivVector(x)' PROVE VectorOK(x)'
      BY DEF VectorOK
    <3> DEFINE p == values[x].data + 1
    <3>3. /\ p \in DOMAIN privs /\ privs[p].owner = x
          /\ object[x].kind # "internal" => privs[p].items = object[x].holds
      BY <3>1, <3>2 DEF VectorOK, IsPrivVector
    <3>4. p \in DOMAIN privs' /\ privs'[p].owner = x
      BY <1>10, <1>11, <3>3
    <3>5. object[x].kind # "internal" => privs'[p] = privs[p]
      <4>1. ASSUME NEW n \in DOMAIN t.parts, part(n) = p PROVE object[x].kind = "internal"
        <5>1. t.parts[n] = x
          BY <1>6, <3>3, <4>1
        <5> QED BY <1>6, <5>1
      <4> QED BY <1>10, <3>3, <4>1
    <3> QED BY <3>1, <3>3, <3>4, <3>5 DEF VectorOK
  <2> QED BY <1>2, <1>14, <2>1 DEF VectorInv
<1>16. NumberInv'
  BY <1>2, <1>14 DEF NumberInv
<1>17. LiveInv'
  <2>1. live \subseteq Kept
    BY <1>2 DEF SerializerInv, LiveInv
  <2>2. ASSUME NEW p \in Range(t.parts) PROVE <<"items", p>> \in Kept
    <3>1. PICK n \in DOMAIN t.parts : p = t.parts[n]
      BY DEF Range
    <3> QED BY <1>6, <3>1 DEF Kept
  <2>3. live' \subseteq Kept'
    BY <1>5, <1>14, <2>1, <2>2
  <2> QED BY <1>2, <2>3 DEF LiveInv
<1>18. ASSUME NEW g \in Tables, g # h
       PROVE  HashesOf(g)' = HashesOf(g)
  <2>1. 1 \in DOMAIN TableOf(g).parts
    <3>1. Len(TableOf(g).parts) \in {2, 3} /\ TableOf(g).parts \in Seq(Nat)
      BY TablesHaveParts DEF SerializerInv, PartInv
    <3> QED BY <3>1
  <2>2. PICK x : x = TableOf(g).parts[1]
    OBVIOUS
  <2>3. Vec(x)' = Vec(x)
    BY <1>1, <1>18, <2>1, <2>2, OthersStay
  <2>4. TableOf(g)' = TableOf(g)
    BY <1>14
  <2> QED BY <2>2, <2>3, <2>4 DEF HashesOf, Vec
<1>19. ASSUME NEW n \in DOMAIN t.keys
       PROVE  HashesOf(h)'[n] = Hashed(t.keys[n])
  <2> DEFINE x == t.parts[1]
             p == part(1)
  <2>1. 1 \in DOMAIN t.parts
    BY <1>8, TwoOrThree
  <2>2. x \in 1..NValues
    BY <1>6, <2>1
  <2>3. privs'[p].items = PartItems(t, 1)
    BY <1>1, <2>1 DEF LaysOut, t
  <2>4. TableOf(h)' = t /\ values'[x] = values[x]
    BY <1>4, <1>12, <1>14, <2>2 DEF t
  <2>5. HashesOf(h)' = PartItems(t, 1)
    BY <2>3, <2>4 DEF HashesOf, Vec
  <2>6. PartItems(t, 1)[n] = Hashed(t.keys[n])
    BY <1>1 DEF LaysOut, t
  <2> QED BY <2>5, <2>6
<1>20. \A g \in Tables : g # h => (LaidOut(g)' => LaidOut(g))
  BY <1>1 DEF LaysOut
<1>21. HashInv'
  <2>1. ASSUME NEW g \in Tables, LaidOut(g)', NEW n \in DOMAIN KeysOf(g), ~HasEmpty(KeysOf(g)[n])
        PROVE  HashesOf(g)'[n] = HashedByReader(KeysOf(g)[n])
    <3>1. CASE g = h
      <4>1. KeysOf(g) = t.keys
        BY <3>1 DEF KeysOf, t
      <4>2. t.keys[n] \in Mine /\ HashesOf(g)'[n] = Hashed(t.keys[n])
        BY <1>8, <1>19, <2>1, <3>1, <4>1 DEF Range
      <4> QED BY <1>2, <2>1, <4>1, <4>2, WhatIsHashed
    <3>2. CASE g # h
      <4>1. LaidOut(g) /\ HashesOf(g)' = HashesOf(g)
        BY <1>18, <1>20, <2>1, <3>2
      <4> QED BY <2>1, <4>1 DEF SerializerInv, HashInv, HashedAsRead
    <3> QED BY <3>1, <3>2
  <2>2. \A g \in Tables : KeysOf(g)' = KeysOf(g)
    BY <1>14 DEF KeysOf
  <2>3. \A k : (HasEmpty(k)' <=> HasEmpty(k)) /\ HashedByReader(k)' = HashedByReader(k)
    BY <1>2, <1>12, <1>14, ReadersStay
  <2> QED BY <1>14, <2>1, <2>2, <2>3 DEF HashInv, HashedAsRead
<1> QED
  BY <1>14, <1>15, <1>16, <1>17, <1>21 DEF SerializerInv

\* A set of numbers that is not empty has a least member.
LEMMA LeastMember ==
  ASSUME NEW T, T \subseteq Nat, T # {}
  PROVE  \E x \in T : \A y \in T : x <= y
<1>1. PICK x \in T : \A y \in T : ~(<<y, x>> \in OpToRel(<, Nat))
  BY NatLessThanWellFounded, WFMin
<1>2. \A y \in T : ~(y < x)
  BY <1>1 DEF OpToRel
<1> QED
  BY <1>2

\* A set that holds 0, and n + 1 when it holds n, holds every number.
LEMMA SetInduction ==
  ASSUME NEW S, 0 \in S, \A n \in Nat : n \in S => n + 1 \in S
  PROVE  Nat \subseteq S
<1> SUFFICES ASSUME Nat \ S # {} PROVE FALSE
  OBVIOUS
<1>1. PICK x \in Nat \ S : \A y \in Nat \ S : x <= y
  BY LeastMember
<1>2. x - 1 \in Nat /\ x - 1 \in S
  BY <1>1
<1> QED
  BY <1>1, <1>2

-----------------------------------------------------------------------------
(* The order of the handles in an array *)

\* Numbered, of any values.
Ranks(vs, S, n) ==
  /\ \A h \in S : vs[h].data \in 0..(n - 1)
  /\ \A g, h \in S : g < h => vs[g].data < vs[h].data
  /\ \A d \in 0..(n - 1) : \E h \in S : vs[h].data = d

\* It says the same of the values as they are.
LEMMA NumberedIsRanks == \A S, n : Numbered(S, n) <=> Ranks(values, S, n)
  BY DEF Numbered, Ranks

\* Only the data of the handles matters.
LEMMA RanksSame ==
  ASSUME NEW vs, NEW ws, NEW S, NEW n, Ranks(vs, S, n), \A h \in S : ws[h].data = vs[h].data
  PROVE  Ranks(ws, S, n)
BY DEF Ranks

\* A later handle that gets the next number.
LEMMA RanksPush ==
  ASSUME NEW vs, NEW ws, NEW S \in SUBSET Int, NEW n \in Nat, Ranks(vs, S, n),
         \A h \in S : ws[h].data = vs[h].data,
         NEW g \in Int, \A h \in S : h < g, ws[g].data = n
  PROVE  Ranks(ws, S \cup {g}, n + 1)
<1>1. \A h \in S : ws[h].data \in 0..(n - 1)
  BY DEF Ranks
<1>2. ASSUME NEW h \in S \cup {g} PROVE ws[h].data \in 0..((n + 1) - 1)
  <2>1. CASE h \in S
    BY <1>1, <2>1
  <2>2. CASE h = g
    BY <2>2
  <2> QED BY <2>1, <2>2
<1>3. ASSUME NEW a \in S \cup {g}, NEW b \in S \cup {g}, a < b PROVE ws[a].data < ws[b].data
  <2>1. CASE a \in S /\ b \in S
    BY <1>3, <2>1 DEF Ranks
  <2>2. CASE a \in S /\ b = g
    <3>1. ws[a].data \in 0..(n - 1)
      BY <1>1, <2>2
    <3>2. ws[b].data = n
      BY <2>2
    <3> QED BY <3>1, <3>2
  <2>3. CASE a = g
    <3>1. CASE b \in S
      <4>1. b \in Int /\ b < g
        BY <3>1
      <4> QED BY <1>3, <2>3, <4>1
    <3>2. CASE b = g
      BY <1>3, <2>3, <3>2
    <3> QED BY <3>1, <3>2
  <2> QED BY <2>1, <2>2, <2>3
<1>4. ASSUME NEW d \in 0..((n + 1) - 1) PROVE \E h \in S \cup {g} : ws[h].data = d
  <2>1. CASE d = n
    BY <2>1
  <2>2. CASE d # n
    <3>1. d \in 0..(n - 1)
      BY <2>2
    <3> QED BY <3>1 DEF Ranks
  <2> QED BY <2>1, <2>2
<1> QED BY <1>2, <1>3, <1>4 DEF Ranks

\* A value of each number, and its place among them.
LEMMA RanksCount ==
  ASSUME NEW vs, NEW S \in SUBSET Int, NEW n \in Nat, Ranks(vs, S, n)
  PROVE  /\ Cardinality(S) = n
         /\ \A h \in S : Cardinality({g \in S : g <= h}) = vs[h].data + 1
<1> DEFINE f == [d \in 1..n |-> CHOOSE h \in S : vs[h].data = d - 1]
<1>1. ASSUME NEW d \in 1..n PROVE f[d] \in S /\ vs[f[d]].data = d - 1
  <2>1. d - 1 \in 0..(n - 1)
    OBVIOUS
  <2>2. \E h \in S : vs[h].data = d - 1
    BY <2>1 DEF Ranks
  <2> QED BY <2>2
<1>2. ASSUME NEW h \in S PROVE vs[h].data + 1 \in 1..n
  <2>1. vs[h].data \in 0..(n - 1)
    BY DEF Ranks
  <2> QED BY <2>1
<1>3. ASSUME NEW g \in S, NEW h \in S PROVE g <= h <=> vs[g].data + 1 <= vs[h].data + 1
  <2>0. vs[g].data \in 0..(n - 1) /\ vs[h].data \in 0..(n - 1)
    BY DEF Ranks
  <2>1. vs[g].data \in Int /\ vs[h].data \in Int /\ g \in Int /\ h \in Int
    BY <2>0
  <2>2. (g < h => vs[g].data < vs[h].data) /\ (h < g => vs[h].data < vs[g].data)
    BY DEF Ranks
  <2>3. CASE g < h
    BY <2>1, <2>2, <2>3
  <2>4. CASE h < g
    BY <2>1, <2>2, <2>4
  <2>5. CASE g = h
    BY <2>1, <2>5
  <2>6. g < h \/ h < g \/ g = h
    BY <2>1
  <2> QED BY <2>3, <2>4, <2>5, <2>6
<1> HIDE DEF f
<1>4. ASSUME NEW d \in 1..n, NEW h \in S, vs[h].data + 1 = d PROVE f[d] = h
  <2>1. f[d] \in S /\ vs[f[d]].data = d - 1 /\ vs[h].data + 1 \in 1..n
    BY <1>1, <1>2
  <2>2. PICK e : e = f[d]
    OBVIOUS
  <2>3. e \in S /\ vs[e].data + 1 = vs[h].data + 1 /\ vs[h].data + 1 \in 1..n
    <3>1. vs[e].data = d - 1 /\ vs[h].data \in 0..(n - 1)
      BY <2>1, <2>2 DEF Ranks
    <3> QED BY <1>4, <2>1, <2>2, <3>1
  <2>4. e <= h /\ h <= e
    BY <1>3, <2>3
  <2>5. e \in Int /\ h \in Int
    BY <2>3
  <2> QED BY <2>2, <2>4, <2>5
<1>5. ASSUME NEW k \in 0..n, NEW T, T = {h \in S : vs[h].data + 1 \in 1..k} PROVE Cardinality(T) = k
  <2> DEFINE e == [d \in 1..k |-> f[d]]
  <2>1. ASSUME NEW d \in 1..k PROVE e[d] \in T /\ e[d] = f[d] /\ vs[f[d]].data + 1 = d
    <3>1. d \in 1..n
      OBVIOUS
    <3>2. f[d] \in S /\ vs[f[d]].data = d - 1
      BY <1>1, <3>1
    <3>3. vs[f[d]].data + 1 = d
      BY <3>2
    <3> QED BY <1>5, <3>2, <3>3
  <2>2. e \in [1..k -> T]
    BY <2>1
  <2>3. \A a, b \in 1..k : e[a] = e[b] => a = b
    BY <2>1
  <2>4. ASSUME NEW h \in T PROVE \E d \in 1..k : e[d] = h
    <3>1. h \in S /\ vs[h].data + 1 \in 1..k
      BY <1>5
    <3>2. vs[h].data + 1 \in 1..n
      BY <1>2, <3>1
    <3>3. f[vs[h].data + 1] = h
      BY <1>4, <3>1, <3>2
    <3> QED BY <2>1, <3>1, <3>3
  <2> HIDE DEF e
  <2>5. e \in Bijection(1..k, T)
    BY <2>2, <2>3, <2>4, Fun_IsBij
  <2>6. ExistsBijection(1..k, T)
    BY <2>5 DEF ExistsBijection
  <2>7. k \in Nat
    OBVIOUS
  <2> QED BY <2>6, <2>7, FS_CountingElements
<1>6. Cardinality(S) = n
  <2>1. S = {h \in S : vs[h].data + 1 \in 1..n}
    BY <1>2
  <2> QED BY <1>5, <2>1
<1>7. ASSUME NEW h \in S PROVE Cardinality({g \in S : g <= h}) = vs[h].data + 1
  <2>1. vs[h].data + 1 \in 1..n /\ \A g \in S : vs[g].data + 1 \in 1..n
    BY <1>2
  <2>2. \A g \in S : g <= h <=> vs[g].data + 1 <= vs[h].data + 1
    BY <1>3
  <2>3. PICK k : k = vs[h].data + 1
    OBVIOUS
  <2>4. \A g \in S : g <= h <=> vs[g].data + 1 \in 1..k
    <3> TAKE g \in S
    <3>1. PICK a : a = vs[g].data + 1
      OBVIOUS
    <3>2. a \in 1..n /\ k \in 1..n /\ (g <= h <=> a <= k)
      BY <2>1, <2>2, <2>3, <3>1
    <3>3. a <= k <=> a \in 1..k
      BY <3>2
    <3> QED BY <3>1, <3>2, <3>3
  <2>5. k \in 0..n
    BY <2>1, <2>3
  <2>6. {g \in S : g <= h} = {g \in S : vs[g].data + 1 \in 1..k}
    BY <2>4
  <2> QED BY <1>5, <2>3, <2>5, <2>6
<1> QED BY <1>6, <1>7

\* Going through numbered values meets them by their numbers.
LEMMA AscendingByNumber ==
  ASSUME NEW vs, NEW S \in SUBSET Int, NEW n \in Nat, Ranks(vs, S, n)
  PROVE  /\ IsSequence(Ascending(S)) /\ Len(Ascending(S)) = n
         /\ \A h \in S : vs[h].data + 1 \in 1..n /\ Ascending(S)[vs[h].data + 1] = h
         /\ \A k \in 1..n : Ascending(S)[k] \in S
<1> DEFINE A == Ascending(S)
           C(h) == Cardinality({g \in S : g <= h})
<1>1. A = [k \in 1..n |-> CHOOSE h \in S : C(h) = k]
  BY RanksCount DEF Ascending
<1>2. \A h \in S : vs[h].data \in 0..(n - 1) /\ vs[h].data + 1 \in 1..n /\ C(h) = vs[h].data + 1
  <2>1. \A h \in S : vs[h].data \in 0..(n - 1)
    BY DEF Ranks
  <2>2. \A h \in S : vs[h].data + 1 \in 1..n
    BY <2>1
  <2> QED BY <2>1, <2>2, RanksCount
<1> HIDE DEF C, A
<1>3. ASSUME NEW k \in 1..n PROVE A[k] \in S /\ vs[A[k]].data + 1 = k
  <2>1. k - 1 \in 0..(n - 1)
    OBVIOUS
  <2>2. PICK h \in S : vs[h].data = k - 1
    BY <2>1 DEF Ranks
  <2>3. C(h) = k
    BY <1>2, <2>2
  <2>4. A[k] \in S /\ C(A[k]) = k
    BY <1>1, <2>3
  <2> QED BY <1>2, <2>4
<1>4. ASSUME NEW h \in S PROVE vs[h].data + 1 \in 1..n /\ A[vs[h].data + 1] = h
  <2>1. PICK g : g = A[vs[h].data + 1]
    OBVIOUS
  <2>2. vs[h].data + 1 \in 1..n /\ g \in S /\ vs[g].data + 1 = vs[h].data + 1
    BY <1>2, <1>3, <2>1
  <2>3. PICK a, b : a = vs[g].data /\ b = vs[h].data
    OBVIOUS
  <2>4. a \in 0..(n - 1) /\ b \in 0..(n - 1) /\ a + 1 = b + 1
    BY <1>2, <2>2, <2>3
  <2>5. a = b
    BY <2>4
  <2>6. (g < h => a < b) /\ (h < g => b < a)
    BY <2>2, <2>3 DEF Ranks
  <2>7. g \in Int /\ h \in Int /\ ~(a < b) /\ ~(b < a)
    BY <2>2, <2>4, <2>5
  <2>8. g = h
    BY <2>6, <2>7
  <2> QED BY <2>1, <2>2, <2>8
<1>5. A \in [1..n -> S] /\ DOMAIN A = 1..n
  BY <1>1, <1>3
<1>6. IsSequence(A) /\ Len(A) = n
  <2>1. A \in [1..n -> Range(A)]
    BY <1>5 DEF Range
  <2>2. A \in Seq(Range(A)) /\ Len(A) = n
    BY <1>5, <2>1
  <2> QED BY <2>2 DEF IsSequence
<1> QED BY <1>3, <1>4, <1>6 DEF A

-----------------------------------------------------------------------------
(* Where things lie *)

\* The place of thing n, of those before it.
Place(base, size, at, n) == IF n = 1 THEN base ELSE Align4(at[n - 1] + size[n - 1])

\* The places of all of them, each by those before it.
Places(base, size) == CHOOSE at : at = [n \in DOMAIN size |-> Place(base, size, at, n)]

\* They are what the model's recursive function computes.
LEMMA PlacedIsPlaces ==
  ASSUME NEW base, NEW size
  PROVE  Placed(base, size) = Places(base, size)
BY Zenon DEF Placed, Places, Place

\* The first k places can be found, one after the other.
LEMMA PlacesExist ==
  ASSUME NEW base, NEW size, NEW L \in Nat, DOMAIN size = 1..L
  PROVE  Placed(base, size) = [n \in 1..L |-> Place(base, size, Placed(base, size), n)]
<1> DEFINE Found(k) == \E at : at = [n \in 1..k |-> Place(base, size, at, n)]
           S == {k \in Nat : Found(k)}
<1>1. 0 \in S
  <2> DEFINE at == [n \in 1..0 |-> 0]
  <2>1. at = [n \in 1..0 |-> Place(base, size, at, n)]
    OBVIOUS
  <2>2. Found(0)
    BY <2>1
  <2> QED BY <2>2
<1>2. ASSUME NEW k \in Nat, k \in S PROVE k + 1 \in S
  <2>1. PICK at : at = [n \in 1..k |-> Place(base, size, at, n)]
    BY <1>2
  <2> DEFINE more == [n \in 1..(k + 1) |-> IF n \in 1..k THEN at[n] ELSE Place(base, size, at, n)]
  <2>2. ASSUME NEW n \in 1..(k + 1) PROVE more[n] = Place(base, size, more, n)
    <3>1. more[n] = Place(base, size, at, n)
      BY <2>1
    <3>2. CASE n = 1
      BY <3>1, <3>2 DEF Place
    <3>3. CASE n # 1
      <4>1. n - 1 \in 1..k /\ n - 1 \in 1..(k + 1)
        BY <3>3
      <4>2. more[n - 1] = at[n - 1]
        BY <4>1
      <4> HIDE DEF more
      <4> QED BY <3>1, <3>3, <4>2 DEF Place
    <3> QED BY <3>2, <3>3
  <2>3. more = [n \in 1..(k + 1) |-> more[n]]
    OBVIOUS
  <2> HIDE DEF more
  <2>4. more = [n \in 1..(k + 1) |-> Place(base, size, more, n)]
    BY <2>2, <2>3
  <2>5. Found(k + 1)
    BY <2>4
  <2> HIDE DEF Found
  <2> QED BY <2>5
<1>3. L \in S
  <2> HIDE DEF S
  <2> QED BY <1>1, <1>2, SetInduction
<1>4. \E at : at = [n \in DOMAIN size |-> Place(base, size, at, n)]
  BY <1>3
<1>5. Places(base, size) = [n \in DOMAIN size |-> Place(base, size, Places(base, size), n)]
  BY <1>4, Zenon DEF Places
<1> QED BY <1>5, PlacedIsPlaces

\* Aligning is to the next multiple of 4, and does not see the multiples below.
LEMMA Aligned ==
  ASSUME NEW x \in Nat
  PROVE  /\ Align4(x) \in Nat /\ x <= Align4(x)
         /\ \A b \in Nat : Align4(4 * b + x) = 4 * b + Align4(x)
<1>1. Align4(x) \in Nat /\ x <= Align4(x)
  BY DEF Align4
<1>2. ASSUME NEW b \in Nat PROVE Align4(4 * b + x) = 4 * b + Align4(x)
  <2>1. (4 * b + x + 3) \div 4 = b + (x + 3) \div 4
    OBVIOUS
  <2>2. (x + 3) \div 4 \in Nat
    OBVIOUS
  <2> QED BY <2>1, <2>2 DEF Align4
<1> QED BY <1>1, <1>2

\* Nothing lies at the place of another thing, and all of them lie base further
\* on than they would from 0.
LEMMA PlacedApart ==
  ASSUME NEW L \in Nat, NEW size, DOMAIN size = 1..L, \A n \in 1..L : size[n] \in Nat /\ size[n] > 0,
         NEW b \in Nat
  PROVE  /\ DOMAIN Placed(0, size) = 1..L
         /\ \A m, n \in 1..L : Placed(0, size)[m] = Placed(0, size)[n] => m = n
         /\ \A n \in 1..L : Placed(0, size)[n] \in Nat /\ Placed(4 * b, size)[n] = 4 * b + Placed(0, size)[n]
<1> DEFINE at == Placed(0, size)
           by == Placed(4 * b, size)
           Good(n) == /\ at[n] \in Nat /\ by[n] = 4 * b + at[n]
                      /\ \A m \in 1..(n - 1) : at[m] < at[n]
           S == {k \in Nat : \A n \in 1..L : n <= k => Good(n)}
<1>1. \A n \in 1..L : at[n] = Place(0, size, at, n) /\ by[n] = Place(4 * b, size, by, n)
  BY PlacesExist
<1>2. DOMAIN at = 1..L
  BY PlacesExist
<1> HIDE DEF at, by
<1>3. 0 \in S
  OBVIOUS
<1>4. ASSUME NEW k \in Nat, k \in S PROVE k + 1 \in S
  <2>1. \A n \in 1..L : n <= k => Good(n)
    BY <1>4
  <2>2. ASSUME k + 1 \in 1..L PROVE Good(k + 1)
    <3>1. CASE k = 0
      <4>1. at[1] = 0 /\ by[1] = 4 * b
        BY <1>1, <2>2, <3>1 DEF Place
      <4>2. k + 1 = 1 /\ 1..((k + 1) - 1) = {}
        BY <3>1
      <4> QED BY <4>1, <4>2
    <3>2. CASE k # 0
      <4>1. k \in 1..L /\ k + 1 # 1 /\ (k + 1) - 1 = k
        BY <2>2, <3>2
      <4>2. Good(k)
        BY <2>1, <4>1
      <4>3. at[k + 1] = Align4(at[k] + size[k]) /\ by[k + 1] = Align4(by[k] + size[k])
        BY <1>1, <2>2, <4>1 DEF Place
      <4>4. PICK x \in Nat : x = at[k] + size[k] /\ at[k] < x
        <5>1. at[k] \in Nat
          BY <4>2
        <5>2. size[k] \in Nat /\ size[k] > 0
          BY <4>1
        <5> QED BY <5>1, <5>2
      <4>5. by[k] + size[k] = 4 * b + x
        BY <4>1, <4>2, <4>4
      <4>6. at[k + 1] \in Nat /\ at[k] < at[k + 1] /\ by[k + 1] = 4 * b + at[k + 1]
        <5>1. Align4(x) \in Nat /\ x <= Align4(x) /\ Align4(4 * b + x) = 4 * b + Align4(x)
          BY Aligned
        <5>2. at[k] < Align4(x)
          BY <4>2, <4>4, <5>1
        <5> QED BY <4>3, <4>4, <4>5, <5>1, <5>2
      <4>7. ASSUME NEW m \in 1..k PROVE at[m] < at[k + 1]
        <5>1. CASE m = k
          BY <4>6, <5>1
        <5>2. CASE m # k
          <6>1. m \in 1..(k - 1)
            BY <5>2
          <6>2. at[m] < at[k] /\ at[m] \in Nat
            <7>1. m \in 1..L /\ m <= k
              BY <4>1
            <7> QED BY <2>1, <4>2, <6>1, <7>1
          <6> QED BY <4>2, <4>6, <6>2
        <5> QED BY <5>1, <5>2
      <4> QED BY <4>1, <4>6, <4>7
    <3> QED BY <3>1, <3>2
  <2>3. ASSUME NEW n \in 1..L, n <= k + 1 PROVE Good(n)
    <3>1. n <= k \/ n = k + 1
      BY <2>3
    <3> HIDE DEF Good
    <3> QED BY <2>1, <2>2, <3>1
  <2> HIDE DEF Good
  <2> QED BY <2>3
<1>5. \A n \in 1..L : Good(n)
  <2>1. L \in S
    <3> HIDE DEF S
    <3> QED BY <1>3, <1>4, SetInduction
  <2> HIDE DEF Good
  <2> QED BY <2>1
<1>6. ASSUME NEW m \in 1..L, NEW n \in 1..L, at[m] = at[n] PROVE m = n
  <2>1. at[m] \in Nat /\ at[n] \in Nat
    BY <1>5
  <2>2. m < n => at[m] < at[n]
    <3> SUFFICES ASSUME m < n PROVE at[m] < at[n]
      OBVIOUS
    <3>1. m \in 1..(n - 1)
      OBVIOUS
    <3> QED BY <1>5, <3>1
  <2>3. n < m => at[n] < at[m]
    <3> SUFFICES ASSUME n < m PROVE at[n] < at[m]
      OBVIOUS
    <3>1. n \in 1..(m - 1)
      OBVIOUS
    <3> QED BY <1>5, <3>1
  <2> QED BY <1>6, <2>1, <2>2, <2>3
<1> QED BY <1>2, <1>5, <1>6 DEF at, by

\* t lies in s after the first n items.
Holds(s, n, t) == \A k \in 1..Len(t) : n + k \in DOMAIN s /\ s[n + k] = t[k]

\* Two sequences after one another.
LEMMA HoldsBoth ==
  ASSUME NEW s, IsSequence(s), NEW t, IsSequence(t)
  PROVE  /\ IsSequence(s \o t) /\ Len(s \o t) = Len(s) + Len(t) /\ Holds(s \o t, Len(s), t)
         /\ \A n \in Nat : \A u : Holds(s, n, u) => Holds(s \o t, n, u)
         /\ \A P : Range(s) \subseteq P /\ Range(t) \subseteq P => Range(s \o t) \subseteq P
<1> DEFINE q == s \o t
<1>1. /\ IsSequence(q) /\ Len(q) = Len(s) + Len(t) /\ DOMAIN q = 1..(Len(s) + Len(t))
      /\ \A n \in 1..Len(s) : q[n] = s[n]
      /\ \A n \in 1..Len(t) : q[Len(s) + n] = t[n]
  BY SequenceConcat
<1>2. Len(s) \in Nat /\ DOMAIN s = 1..Len(s) /\ Len(t) \in Nat /\ DOMAIN t = 1..Len(t)
  BY SequenceFacts
<1> HIDE DEF q
<1>3. Holds(q, Len(s), t)
  <2>1. \A k \in 1..Len(t) : Len(s) + k \in 1..(Len(s) + Len(t))
    BY <1>2
  <2> QED BY <1>1, <2>1 DEF Holds
<1>4. ASSUME NEW n \in Nat, NEW u, Holds(s, n, u) PROVE Holds(q, n, u)
  <2>1. \A k \in 1..Len(s) : k \in 1..(Len(s) + Len(t))
    BY <1>2
  <2> QED BY <1>1, <1>2, <1>4, <2>1 DEF Holds
<1>5. ASSUME NEW P, Range(s) \subseteq P, Range(t) \subseteq P PROVE Range(q) \subseteq P
  <2> SUFFICES ASSUME NEW n \in 1..(Len(s) + Len(t)) PROVE q[n] \in P
    BY <1>1 DEF Range
  <2>1. CASE n \in 1..Len(s)
    BY <1>1, <1>2, <1>5, <2>1 DEF Range
  <2>2. CASE n \notin 1..Len(s)
    <3>1. n - Len(s) \in 1..Len(t) /\ Len(s) + (n - Len(s)) = n
      BY <1>2, <2>2
    <3>2. q[n] = t[n - Len(s)]
      BY <1>1, <3>1
    <3> QED BY <1>2, <1>5, <3>1, <3>2 DEF Range
  <2> QED BY <2>1, <2>2
<1> QED BY <1>1, <1>3, <1>4, <1>5 DEF q

\* Six sequences after one another.
AreSequences(a, b, c, d, e, f) ==
  /\ IsSequence(a) /\ IsSequence(b) /\ IsSequence(c)
  /\ IsSequence(d) /\ IsSequence(e) /\ IsSequence(f)

\* s has them in turn, and nothing else.
InTurn(s, a, b, c, d, e, f) ==
  /\ IsSequence(s)
  /\ Holds(s, 0, a) /\ Holds(s, Len(a), b) /\ Holds(s, Len(a) + Len(b), c)
  /\ Holds(s, Len(a) + Len(b) + Len(c), d)
  /\ Holds(s, Len(a) + Len(b) + Len(c) + Len(d), e)
  /\ Holds(s, Len(a) + Len(b) + Len(c) + Len(d) + Len(e), f)
  /\ \A P : (/\ Range(a) \subseteq P /\ Range(b) \subseteq P /\ Range(c) \subseteq P
             /\ Range(d) \subseteq P /\ Range(e) \subseteq P /\ Range(f) \subseteq P)
            => Range(s) \subseteq P

\* So has their concatenation.
LEMMA HoldsSix ==
  ASSUME NEW a, NEW b, NEW c, NEW d, NEW e, NEW f, AreSequences(a, b, c, d, e, f)
  PROVE  InTurn(a \o b \o c \o d \o e \o f, a, b, c, d, e, f)
<1> DEFINE s2 == a \o b
           s3 == s2 \o c
           s4 == s3 \o d
           s5 == s4 \o e
           s6 == s5 \o f
<1> IsSequence(a) /\ IsSequence(b) /\ IsSequence(c) /\ IsSequence(d) /\ IsSequence(e) /\ IsSequence(f)
  BY DEF AreSequences
<1>0. /\ Len(a) \in Nat /\ Len(b) \in Nat /\ Len(c) \in Nat /\ Len(d) \in Nat /\ Len(e) \in Nat
      /\ DOMAIN a = 1..Len(a)
  BY SequenceFacts
<1>1. Holds(a, 0, a)
  BY <1>0 DEF Holds
<1>2. /\ IsSequence(s2) /\ Len(s2) = Len(a) + Len(b) /\ Holds(s2, Len(a), b)
      /\ \A n \in Nat : \A u : Holds(a, n, u) => Holds(s2, n, u)
      /\ \A P : Range(a) \subseteq P /\ Range(b) \subseteq P => Range(s2) \subseteq P
  BY HoldsBoth
<1> HIDE DEF s2
<1>3. /\ IsSequence(s3) /\ Len(s3) = Len(s2) + Len(c) /\ Holds(s3, Len(s2), c)
      /\ \A n \in Nat : \A u : Holds(s2, n, u) => Holds(s3, n, u)
      /\ \A P : Range(s2) \subseteq P /\ Range(c) \subseteq P => Range(s3) \subseteq P
  BY <1>2, HoldsBoth
<1> HIDE DEF s3
<1>4. /\ IsSequence(s4) /\ Len(s4) = Len(s3) + Len(d) /\ Holds(s4, Len(s3), d)
      /\ \A n \in Nat : \A u : Holds(s3, n, u) => Holds(s4, n, u)
      /\ \A P : Range(s3) \subseteq P /\ Range(d) \subseteq P => Range(s4) \subseteq P
  BY <1>3, HoldsBoth
<1> HIDE DEF s4
<1>5. /\ IsSequence(s5) /\ Len(s5) = Len(s4) + Len(e) /\ Holds(s5, Len(s4), e)
      /\ \A n \in Nat : \A u : Holds(s4, n, u) => Holds(s5, n, u)
      /\ \A P : Range(s4) \subseteq P /\ Range(e) \subseteq P => Range(s5) \subseteq P
  BY <1>4, HoldsBoth
<1> HIDE DEF s5
<1>6. /\ IsSequence(s6) /\ Len(s6) = Len(s5) + Len(f) /\ Holds(s6, Len(s5), f)
      /\ \A n \in Nat : \A u : Holds(s5, n, u) => Holds(s6, n, u)
      /\ \A P : Range(s5) \subseteq P /\ Range(f) \subseteq P => Range(s6) \subseteq P
  BY <1>5, HoldsBoth
<1>7. a \o b \o c \o d \o e \o f = s6
  BY DEF s2, s3, s4, s5, s6
<1> HIDE DEF s6
<1>8. /\ Len(s2) = Len(a) + Len(b) /\ Len(s3) = Len(a) + Len(b) + Len(c)
      /\ Len(s4) = Len(a) + Len(b) + Len(c) + Len(d)
      /\ Len(s5) = Len(a) + Len(b) + Len(c) + Len(d) + Len(e)
      /\ Len(s2) \in Nat /\ Len(s3) \in Nat /\ Len(s4) \in Nat /\ 0 \in Nat
  BY <1>0, <1>2, <1>3, <1>4, <1>5
<1>9. /\ Holds(s6, 0, a) /\ Holds(s6, Len(a), b) /\ Holds(s6, Len(s2), c)
      /\ Holds(s6, Len(s3), d) /\ Holds(s6, Len(s4), e) /\ Holds(s6, Len(s5), f)
  BY <1>0, <1>1, <1>2, <1>3, <1>4, <1>5, <1>6, <1>8
<1>10. InTurn(s6, a, b, c, d, e, f)
  BY <1>2, <1>3, <1>4, <1>5, <1>6, <1>8, <1>9 DEF InTurn
<1> QED BY <1>7, <1>10

-----------------------------------------------------------------------------
(* The order of the heap *)

\* A value that has something in the heap.
IsInHeap(h) == h \in 1..NValues /\ values[h].type \in BlobType \cup PrimVector \cup ValueVector \cup TableType

\* The sets and maps are numbered like the others.
LEMMA TablesAreRanked ==
  ASSUME SerializerInv, NEW t \in TableType
  PROVE  Ranks(values, Of({t}), Len(tables[t]))
<1>1. TablesAreNumbered /\ TypeOK
  BY DEF SerializerInv, NumberInv
<1>2. Len(tables[t]) \in Nat /\ DOMAIN tables[t] = 1..Len(tables[t])
  BY <1>1 DEF TypeOK
<1>3. Of({t}) = {h \in Tables : values[h].type = t}
  BY DEF Of, Tables
<1>4. \A h \in Tables : values[h].data \in Int
  BY <1>1, TypeFacts, ValueFields DEF Tables
<1>5. ASSUME NEW h \in Of({t}) PROVE values[h].data \in 0..(Len(tables[t]) - 1)
  <2>1. values[h].data + 1 \in 1..Len(tables[t]) /\ values[h].data \in Int
    BY <1>1, <1>2, <1>3, <1>4 DEF TablesAreNumbered
  <2> QED BY <1>2, <2>1
<1>6. \A g, h \in Of({t}) : g < h => values[g].data < values[h].data
  BY <1>1, <1>3 DEF TablesAreNumbered
<1>7. ASSUME NEW d \in 0..(Len(tables[t]) - 1) PROVE \E h \in Of({t}) : values[h].data = d
  <2>1. d + 1 \in DOMAIN tables[t]
    BY <1>2
  <2>2. PICK h \in Tables : values[h].type = t /\ values[h].data + 1 = d + 1
    BY <1>1, <2>1 DEF TablesAreNumbered
  <2>3. values[h].data = d
    BY <1>4, <2>2
  <2> QED BY <1>3, <2>2, <2>3
<1> QED BY <1>5, <1>6, <1>7 DEF Ranks

\* The passes over the values meet each one that is written, at the place in its
\* section that its number says.
LEMMA HeapIndex ==
  ASSUME SerializerInv, OrderInv, phase = "written", file = Image
  PROVE  /\ IsSequence(HeapOrder)
         /\ \A n \in DOMAIN HeapOrder : IsInHeap(HeapOrder[n])
         /\ \A h : IsInHeap(h) =>
               LET n == Section(values[h].type) + ToRead(h).data + 1
               IN  n \in DOMAIN HeapOrder /\ HeapOrder[n] = h
<1> DEFINE a == Ascending(Strings)
           b == Ascending(Vectors)
           c == Ascending(Outsides)
           d == Ascending(Of({"BITVECTOR"}))
           e == Ascending(Of({"SET"}))
           f == Ascending(Of({"MAP"}))
           Listed(S, n) ==
             LET s == Ascending(S)
             IN  /\ IsSequence(s) /\ Len(s) = n
                 /\ \A h \in S : values[h].data + 1 \in 1..n /\ s[values[h].data + 1] = h
                 /\ Range(s) \subseteq S
<1>0. TypeOK /\ HandleInv
  BY DEF SerializerInv
<1>1. /\ NValues \in Nat /\ \A h \in 1..NValues : h \in DOMAIN values /\ values[h] \in ValueRecord
      /\ Len(privs) \in Nat /\ Len(outs) \in Nat
  BY <1>0, TypeFacts
<1>2. Len(blobs.text) \in Nat /\ Len(blobs.bits) \in Nat /\ Len(tables.SET) \in Nat /\ Len(tables.MAP) \in Nat
  BY <1>0 DEF TypeOK, TableType
<1>3. ASSUME NEW S, S \subseteq 1..NValues, NEW n \in Nat, Ranks(values, S, n)
      PROVE  Listed(S, n)
  <2>1. S \in SUBSET Int
    BY <1>1, <1>3
  <2>2. /\ IsSequence(Ascending(S)) /\ Len(Ascending(S)) = n
        /\ \A h \in S : values[h].data + 1 \in 1..n /\ Ascending(S)[values[h].data + 1] = h
        /\ \A k \in 1..n : Ascending(S)[k] \in S
    BY <1>3, <2>1, AscendingByNumber
  <2>3. Range(Ascending(S)) \subseteq S
    BY <2>2, SequenceFacts DEF Range
  <2> QED BY <2>2, <2>3
<1>4. /\ Strings \subseteq 1..NValues /\ Vectors \subseteq 1..NValues /\ Outsides \subseteq 1..NValues
      /\ \A t : Of(t) \subseteq 1..NValues
  BY DEF Strings, Vectors, Outsides, Of
<1>5. /\ Ranks(values, Strings, Len(blobs.text)) /\ Ranks(values, Vectors, Len(privs))
      /\ Ranks(values, Outsides, Len(outs)) /\ Ranks(values, Of({"BITVECTOR"}), Len(blobs.bits))
      /\ Ranks(values, Of({"SET"}), Len(tables.SET)) /\ Ranks(values, Of({"MAP"}), Len(tables.MAP))
  <2>1. Ranks(values, Of({"SET"}), Len(tables["SET"])) /\ Ranks(values, Of({"MAP"}), Len(tables["MAP"]))
    BY TablesAreRanked DEF TableType
  <2> QED BY <2>1, NumberedIsRanks DEF OrderInv
<1>6. /\ Listed(Strings, Len(blobs.text)) /\ Listed(Vectors, Len(privs)) /\ Listed(Outsides, Len(outs))
      /\ Listed(Of({"BITVECTOR"}), Len(blobs.bits))
      /\ Listed(Of({"SET"}), Len(tables.SET)) /\ Listed(Of({"MAP"}), Len(tables.MAP))
  <2> HIDE DEF Listed
  <2> QED BY <1>1, <1>2, <1>3, <1>4, <1>5
<1>7. HeapOrder = a \o b \o c \o d \o e \o f
  BY DEF HeapOrder
<1>8. /\ IsSequence(a) /\ IsSequence(b) /\ IsSequence(c) /\ IsSequence(d) /\ IsSequence(e) /\ IsSequence(f)
      /\ Len(a) = Len(blobs.text) /\ Len(b) = Len(privs) /\ Len(c) = Len(outs)
      /\ Len(d) = Len(blobs.bits) /\ Len(e) = Len(tables.SET) /\ Len(f) = Len(tables.MAP)
  BY <1>6
<1>9. /\ Range(a) \subseteq Strings /\ Range(b) \subseteq Vectors /\ Range(c) \subseteq Outsides
      /\ Range(d) \subseteq Of({"BITVECTOR"}) /\ Range(e) \subseteq Of({"SET"}) /\ Range(f) \subseteq Of({"MAP"})
  BY <1>6
<1>10. /\ \A h \in Strings : values[h].data + 1 \in 1..Len(a) /\ a[values[h].data + 1] = h
       /\ \A h \in Vectors : values[h].data + 1 \in 1..Len(b) /\ b[values[h].data + 1] = h
       /\ \A h \in Outsides : values[h].data + 1 \in 1..Len(c) /\ c[values[h].data + 1] = h
       /\ \A h \in Of({"BITVECTOR"}) : values[h].data + 1 \in 1..Len(d) /\ d[values[h].data + 1] = h
       /\ \A h \in Of({"SET"}) : values[h].data + 1 \in 1..Len(e) /\ e[values[h].data + 1] = h
       /\ \A h \in Of({"MAP"}) : values[h].data + 1 \in 1..Len(f) /\ f[values[h].data + 1] = h
  BY <1>6
<1> HIDE DEF a, b, c, d, e, f
<1>11. /\ IsSequence(HeapOrder)
       /\ Holds(HeapOrder, 0, a) /\ Holds(HeapOrder, Len(a), b) /\ Holds(HeapOrder, Len(a) + Len(b), c)
       /\ Holds(HeapOrder, Len(a) + Len(b) + Len(c), d)
       /\ Holds(HeapOrder, Len(a) + Len(b) + Len(c) + Len(d), e)
       /\ Holds(HeapOrder, Len(a) + Len(b) + Len(c) + Len(d) + Len(e), f)
       /\ \A P : (/\ Range(a) \subseteq P /\ Range(b) \subseteq P /\ Range(c) \subseteq P
                  /\ Range(d) \subseteq P /\ Range(e) \subseteq P /\ Range(f) \subseteq P)
                 => Range(HeapOrder) \subseteq P
  <2>0. AreSequences(a, b, c, d, e, f)
    BY <1>8 DEF AreSequences
  <2>1. InTurn(a \o b \o c \o d \o e \o f, a, b, c, d, e, f)
    BY Zenon, <2>0, HoldsSix
  <2>2. InTurn(HeapOrder, a, b, c, d, e, f)
    BY Zenon, <1>7, <2>1
  <2> QED BY <2>2 DEF InTurn
<1>12. ASSUME NEW n \in DOMAIN HeapOrder PROVE IsInHeap(HeapOrder[n])
  <2> DEFINE P == {h \in 1..NValues : IsInHeap(h)}
  <2>1. /\ Strings \subseteq P /\ Vectors \subseteq P /\ Outsides \subseteq P
        /\ Of({"BITVECTOR"}) \subseteq P /\ Of({"SET"}) \subseteq P /\ Of({"MAP"}) \subseteq P
    BY DEF Strings, Vectors, Outsides, Of, IsInHeap, BlobType, TableType
  <2> HIDE DEF P
  <2>2. Range(HeapOrder) \subseteq P
    <3>1. /\ Range(a) \subseteq P /\ Range(b) \subseteq P /\ Range(c) \subseteq P
          /\ Range(d) \subseteq P /\ Range(e) \subseteq P /\ Range(f) \subseteq P
      BY <1>9, <2>1
    <3> QED BY <1>11, <3>1
  <2>3. HeapOrder[n] \in P
    BY <1>11, <2>2, SequenceFacts
  <2> QED BY <2>3 DEF P
<1>13. /\ file.counts.text = Len(a) /\ file.counts.vector = Len(b) + Len(c) /\ file.counts.bits = Len(d)
       /\ file.counts.SET = Len(e)
  <2>1. count.out = Len(outs) /\ \A t \in TableType : count[t] = Len(tables[t])
    BY DEF OrderInv
  <2>2. count.SET = Len(tables.SET)
    BY <2>1 DEF TableType
  <2>3. file.counts = [text |-> Len(blobs.text), vector |-> Len(privs) + count.out,
                       bits |-> Len(blobs.bits), SET |-> count.SET, MAP |-> count.MAP]
    BY DEF Image
  <2> QED BY <1>8, <2>1, <2>2, <2>3
<1>14. /\ Len(a) \in Nat /\ Len(b) \in Nat /\ Len(c) \in Nat /\ Len(d) \in Nat /\ Len(e) \in Nat
  BY <1>1, <1>2, <1>8
<1>15. ASSUME NEW h, IsInHeap(h), NEW n, n = Section(values[h].type) + ToRead(h).data + 1
       PROVE  n \in DOMAIN HeapOrder /\ HeapOrder[n] = h
  <2>1. h \in 1..NValues /\ values[h] \in ValueRecord /\ values[h].data \in Int /\ HandleOK(h)
    BY <1>0, <1>1, <1>15, ValueFields DEF IsInHeap, HandleInv
  <2>2. PICK x : x = values[h].data + 1
    OBVIOUS
  <2>3. x \in Int
    BY <2>1, <2>2
  <2>4. /\ ~values[h].outside => ToRead(h).data + 1 = x
        /\ values[h].outside => ToRead(h).data + 1 = Len(b) + x
        /\ ToRead(h).data \in Int
    <3>1. ToRead(h).data = values[h].data + IF values[h].outside THEN Len(privs) ELSE 0
      BY DEF ToRead
    <3>2. Len(privs) = Len(b) /\ Len(b) \in Nat
      BY <1>1, <1>8
    <3> QED BY <2>1, <2>2, <3>1, <3>2
  <2>5. values[h].outside => values[h].type \in PrimVector
    BY <2>1 DEF HandleOK
  <2>6. CASE values[h].type \in {"STRING", "UNICODE"}
    <3>1. h \in Strings /\ ~values[h].outside
      BY <2>1, <2>5, <2>6 DEF Strings, Of, PrimVector
    <3>2. x \in 1..Len(a) /\ a[x] = h
      BY <1>10, <2>2, <3>1
    <3>3. n = 0 + x
      <4>1. Section(values[h].type) = 0
        BY <2>6 DEF Section, PrimVector, ValueVector
      <4>2. n = 0 + ToRead(h).data + 1
        BY <1>15, <4>1
      <4> QED BY <2>3, <2>4, <3>1, <4>2
    <3> QED BY <1>11, <3>2, <3>3 DEF Holds
  <2>7. CASE values[h].type \in PrimVector \cup ValueVector
    <3>1. Section(values[h].type) = Len(a)
      BY <1>13, <2>7 DEF Section, PrimVector, ValueVector
    <3>2. CASE ~values[h].outside
      <4>1. h \in Vectors
        BY <2>1, <2>7, <3>2 DEF Vectors, Of
      <4>2. x \in 1..Len(b) /\ b[x] = h
        BY <1>10, <2>2, <4>1
      <4>3. n = Len(a) + x
        BY <1>14, <1>15, <2>3, <2>4, <3>1, <3>2
      <4> QED BY <1>11, <4>2, <4>3 DEF Holds
    <3>3. CASE values[h].outside
      <4>1. h \in Outsides
        BY <2>1, <2>5, <3>3 DEF Outsides, Of
      <4>2. x \in 1..Len(c) /\ c[x] = h
        BY <1>10, <2>2, <4>1
      <4>3. n = Len(a) + Len(b) + x
        BY <1>14, <1>15, <2>3, <2>4, <3>1, <3>3
      <4> QED BY <1>11, <4>2, <4>3 DEF Holds
    <3> QED BY <3>2, <3>3
  <2>8. CASE values[h].type = "BITVECTOR"
    <3>1. h \in Of({"BITVECTOR"}) /\ ~values[h].outside
      BY <2>1, <2>5, <2>8 DEF Of, PrimVector
    <3>2. x \in 1..Len(d) /\ d[x] = h
      BY <1>10, <2>2, <3>1
    <3>3. Section(values[h].type) = Len(a) + (Len(b) + Len(c))
      BY <1>13, <2>8 DEF Section, PrimVector, ValueVector
    <3>4. n = Len(a) + Len(b) + Len(c) + x
      <4>1. PICK q, y : q = Section(values[h].type) /\ y = ToRead(h).data
        OBVIOUS
      <4>2. n = q + y + 1 /\ y + 1 = x /\ y \in Int
        BY <1>15, <2>4, <3>1, <4>1
      <4>3. q = Len(a) + (Len(b) + Len(c))
        BY <3>3, <4>1
      <4> QED BY <1>14, <2>3, <4>2, <4>3
    <3> QED BY <1>11, <3>2, <3>4 DEF Holds
  <2>9. CASE values[h].type = "SET"
    <3>1. h \in Of({"SET"}) /\ ~values[h].outside
      BY <2>1, <2>5, <2>9 DEF Of, PrimVector
    <3>2. x \in 1..Len(e) /\ e[x] = h
      BY <1>10, <2>2, <3>1
    <3>3. Section(values[h].type) = Len(a) + (Len(b) + Len(c)) + Len(d)
      BY <1>13, <2>9 DEF Section, PrimVector, ValueVector
    <3>4. n = Len(a) + Len(b) + Len(c) + Len(d) + x
      <4>1. PICK q, y : q = Section(values[h].type) /\ y = ToRead(h).data
        OBVIOUS
      <4>2. n = q + y + 1 /\ y + 1 = x /\ y \in Int
        BY <1>15, <2>4, <3>1, <4>1
      <4>3. q = Len(a) + (Len(b) + Len(c)) + Len(d)
        BY <3>3, <4>1
      <4> QED BY <1>14, <2>3, <4>2, <4>3
    <3> QED BY <1>11, <3>2, <3>4 DEF Holds
  <2>10. CASE values[h].type = "MAP"
    <3>1. h \in Of({"MAP"}) /\ ~values[h].outside
      BY <2>1, <2>5, <2>10 DEF Of, PrimVector
    <3>2. x \in 1..Len(f) /\ f[x] = h
      BY <1>10, <2>2, <3>1
    <3>3. Section(values[h].type) = Len(a) + (Len(b) + Len(c)) + Len(d) + Len(e)
      BY <1>13, <2>10 DEF Section, PrimVector, ValueVector
    <3>4. n = Len(a) + Len(b) + Len(c) + Len(d) + Len(e) + x
      <4>1. PICK q, y : q = Section(values[h].type) /\ y = ToRead(h).data
        OBVIOUS
      <4>2. n = q + y + 1 /\ y + 1 = x /\ y \in Int
        BY <1>15, <2>4, <3>1, <4>1
      <4>3. q = Len(a) + (Len(b) + Len(c)) + Len(d) + Len(e)
        BY <3>3, <4>1
      <4> QED BY <1>14, <2>3, <4>2, <4>3
    <3> QED BY <1>11, <3>2, <3>4 DEF Holds
  <2>11. values[h].type \in {"STRING", "UNICODE", "BITVECTOR", "SET", "MAP"} \cup PrimVector \cup ValueVector
    BY <1>15 DEF IsInHeap, BlobType, TableType
  <2> QED BY <2>6, <2>7, <2>8, <2>9, <2>10, <2>11
<1> QED BY <1>11, <1>12, <1>15

\* What is written when the file is.
WrittenInv == SerializerInv /\ FaithInv /\ phase = "written"

\* Bytes in an item.
LEMMA WidthIsSmall == \A t : Width(t) \in {1, 2, 4, 8}
  BY DEF Width

\* A blob's data leads to it.
LEMMA BlobIsThere ==
  ASSUME TypeOK, OrderInv, NEW h \in 1..NValues, values[h].type \in BlobType
  PROVE  /\ Pool(values[h].type) \in {"text", "bits"}
         /\ values[h].data + 1 \in DOMAIN blobs[Pool(values[h].type)]
         /\ blobs[Pool(values[h].type)][values[h].data + 1] \in Blob
<1>1. blobs.text \in Seq(Blob) /\ blobs.bits \in Seq(Blob)
  BY DEF TypeOK
<1>2. CASE values[h].type = "BITVECTOR"
  <2>1. values[h].data \in 0..(Len(blobs.bits) - 1)
    BY <1>2 DEF OrderInv, Numbered, Of
  <2>2. Len(blobs.bits) \in Nat /\ DOMAIN blobs.bits = 1..Len(blobs.bits)
    BY <1>1
  <2>3. values[h].data + 1 \in 1..Len(blobs.bits)
    BY <2>1, <2>2
  <2>4. blobs.bits[values[h].data + 1] \in Blob
    BY <1>1, <2>3
  <2> QED BY <1>2, <2>2, <2>3, <2>4 DEF Pool
<1>3. CASE values[h].type \in {"STRING", "UNICODE"}
  <2>1. values[h].data \in 0..(Len(blobs.text) - 1)
    BY <1>3 DEF OrderInv, Numbered, Of, Strings
  <2>2. Len(blobs.text) \in Nat /\ DOMAIN blobs.text = 1..Len(blobs.text)
    BY <1>1
  <2>3. values[h].data + 1 \in 1..Len(blobs.text)
    BY <2>1, <2>2
  <2>4. blobs.text[values[h].data + 1] \in Blob
    BY <1>1, <2>3
  <2> QED BY <1>3, <2>2, <2>3, <2>4 DEF Pool
<1> QED BY <1>2, <1>3 DEF BlobType

\* A vector that is written has a sequence of items, in its own entry.
LEMMA ItemsAreThere ==
  ASSUME SerializerInv, phase = "written", NEW h \in 1..NValues,
         values[h].type \in PrimVector \cup ValueVector
  PROVE  /\ IsSequence(VectorItems(h))
         /\ object[h].kind # "internal" => VectorItems(h) = object[h].holds
<1>1. TypeOK /\ HandleOK(h) /\ VectorOK(h)
  BY DEF SerializerInv, HandleInv, VectorInv
<1>2. CASE values[h].outside
  <2>1. IsSequence(object[h].holds)
    BY <1>1, TypeFacts DEF TypeOK
  <2> QED BY <1>1, <1>2, <2>1 DEF HandleOK, VectorItems
<1>3. CASE ~values[h].outside
  <2>1. /\ values[h].data + 1 \in DOMAIN privs
        /\ object[h].kind # "internal" => privs[values[h].data + 1].items = object[h].holds
    BY <1>1, <1>3 DEF VectorOK, IsPrivVector, Home
  <2>2. VectorItems(h) = privs[values[h].data + 1].items
    BY <1>3 DEF VectorItems, Vec
  <2> QED BY <1>1, <2>1, <2>2 DEF TypeOK, IsVectorList
<1> QED BY <1>2, <1>3

\* Everything in the heap takes up room.
LEMMA SizeIsPositive ==
  ASSUME WrittenInv, NEW h, IsInHeap(h)
  PROVE  HeapSize(h) \in Nat /\ HeapSize(h) > 0
<1>1. h \in 1..NValues /\ TypeOK /\ OrderInv /\ SerializerInv /\ phase = "written"
  BY DEF IsInHeap, WrittenInv, SerializerInv, FaithInv
<1>2. CASE values[h].type \in BlobType
  <2>1. PICK b : b = blobs[Pool(values[h].type)][values[h].data + 1]
    OBVIOUS
  <2>2. b \in [type : BlobType, len : Nat]
    BY <1>1, <1>2, <2>1, BlobIsThere, BlobAssumption
  <2>3. HeapSize(h) = BlobSize(b)
    BY <1>2, <2>1 DEF HeapSize, BlobType
  <2>4. (b.len + 7) \div 8 \in Nat /\ b.len + 1 \in Nat
    BY <2>2
  <2>5. (b.len + 1) * 1 \in Nat /\ (b.len + 1) * 2 \in Nat /\ (b.len + 1) * 4 \in Nat /\ (b.len + 1) * 8 \in Nat
    BY <2>4
  <2>6. (b.len + 1) * Width(b.type) \in Nat
    BY <2>5, WidthIsSmall
  <2> QED BY <2>3, <2>4, <2>6 DEF BlobSize
<1>3. CASE values[h].type \in TableType
  BY <1>3 DEF HeapSize, TableType, BlobType
<1>4. CASE values[h].type \in PrimVector \cup ValueVector
  <2>1. Len(VectorItems(h)) \in Nat
    BY <1>1, <1>4, ItemsAreThere, SequenceFacts
  <2>2. HeapSize(h) = 4 + Len(VectorItems(h)) * Width(values[h].type)
    BY <1>4 DEF HeapSize, TableType, BlobType, PrimVector, ValueVector
  <2>3. PICK n \in Nat : n = Len(VectorItems(h))
    BY <2>1
  <2>4. n * 1 \in Nat /\ n * 2 \in Nat /\ n * 4 \in Nat /\ n * 8 \in Nat
    OBVIOUS
  <2>5. n * Width(values[h].type) \in Nat
    BY <2>4, WidthIsSmall
  <2> QED BY <2>2, <2>3, <2>5
<1> QED BY <1>2, <1>3, <1>4 DEF IsInHeap

\* The offset advances by what is written, unless a vector is too long.
LEMMA SizesAgree ==
  ASSUME WrittenInv, SizesFit, NEW h, IsInHeap(h)
  PROVE  OffsetSize(h) = HeapSize(h)
<1>1. HeapSize(h) \in Nat
  BY SizeIsPositive
<1>2. CASE values[h].type \in PrimVector \cup ValueVector
  <2>1. HeapSize(h) < Base ^ 4
    BY <1>2 DEF SizesFit, Of, IsInHeap
  <2>2. Base ^ 4 \in Int
    BY BoundAssumption
  <2>3. ASSUME NEW x \in Nat, NEW w \in Int, x < w PROVE x % w = x
    BY <2>3
  <2>4. HeapSize(h) % (Base ^ 4) = HeapSize(h)
    BY <1>1, <2>1, <2>2, <2>3
  <2> QED BY <1>2, <2>4 DEF OffsetSize
<1>3. CASE values[h].type \notin PrimVector \cup ValueVector
  BY <1>3 DEF OffsetSize
<1> QED BY <1>2, <1>3

\* Things are written where the offsets say, and nowhere else.
LEMMA PassesAgree ==
  ASSUME WrittenInv, SizesFit
  PROVE  /\ DOMAIN OffsetAt = DOMAIN HeapOrder
         /\ \A n \in DOMAIN HeapOrder : PositionAt[n] = OffsetAt[n]
         /\ \A m, n \in DOMAIN HeapOrder : OffsetAt[m] = OffsetAt[n] => m = n
<1> DEFINE size == [n \in DOMAIN HeapOrder |-> HeapSize(HeapOrder[n])]
           offs == [n \in DOMAIN HeapOrder |-> OffsetSize(HeapOrder[n])]
           L == Len(HeapOrder)
<1>1. IsSequence(HeapOrder) /\ \A n \in DOMAIN HeapOrder : IsInHeap(HeapOrder[n])
  BY HeapIndex DEF WrittenInv, FaithInv, ImageInv
<1>2. L \in Nat /\ DOMAIN HeapOrder = 1..L
  BY <1>1, SequenceFacts
<1>3. DOMAIN size = 1..L /\ \A n \in 1..L : size[n] \in Nat /\ size[n] > 0
  BY <1>1, <1>2, SizeIsPositive
<1>4. offs = size
  BY <1>1, SizesAgree
<1>5. OffsetAt = Placed(0, size)
  BY <1>4 DEF OffsetAt
<1>6. PICK b \in Nat : b = 8 + 2 * L
  BY <1>2
<1>7. HeapBase = 4 * b /\ 4 * b \in Nat
  BY <1>2, <1>6 DEF HeapBase
<1>8. PositionAt = [n \in DOMAIN HeapOrder |-> Placed(4 * b, size)[n] - 4 * b]
  BY <1>7 DEF PositionAt
<1> HIDE DEF size, offs, L
<1>9. /\ DOMAIN Placed(0, size) = 1..L
      /\ \A m, n \in 1..L : Placed(0, size)[m] = Placed(0, size)[n] => m = n
      /\ \A n \in 1..L : Placed(0, size)[n] \in Nat /\ Placed(4 * b, size)[n] = 4 * b + Placed(0, size)[n]
  BY <1>2, <1>3, PlacedApart
<1>10. ASSUME NEW n \in 1..L PROVE PositionAt[n] = OffsetAt[n]
  <2>1. PICK x \in Nat : x = Placed(0, size)[n] /\ Placed(4 * b, size)[n] = 4 * b + x
    BY <1>9
  <2>2. (4 * b + x) - 4 * b = x
    BY <1>7, <2>1
  <2> QED BY <1>2, <1>5, <1>8, <2>1, <2>2
<1> QED BY <1>2, <1>5, <1>9, <1>10

\* What the reader fetches for the reference to a value is the value's record.
LEMMA FetchesRecord ==
  ASSUME WrittenInv, SizesFit, NEW h, IsInHeap(h)
  PROVE  Fetched(ToRead(h)) = {Record(h)}
<1> DEFINE n == Section(values[h].type) + ToRead(h).data + 1
<1>1. n \in DOMAIN HeapOrder /\ HeapOrder[n] = h
  BY HeapIndex DEF WrittenInv, FaithInv, ImageInv
<1>2. /\ file.offsets = OffsetAt
      /\ file.heap = [k \in DOMAIN HeapOrder |-> [at |-> PositionAt[k], record |-> Record(HeapOrder[k])]]
  BY DEF WrittenInv, FaithInv, ImageInv, Image
<1>3. ToRead(h).type = values[h].type
  BY DEF ToRead
<1>4. Fetched(ToRead(h)) =
        {e.record : e \in {x \in Range(file.heap) : n \in DOMAIN file.offsets /\ x.at = file.offsets[n]}}
  BY <1>3 DEF Fetched
<1> HIDE DEF n
<1>5. Range(file.heap) = {[at |-> PositionAt[k], record |-> Record(HeapOrder[k])] : k \in DOMAIN HeapOrder}
  BY <1>2 DEF Range
<1>6. {x \in Range(file.heap) : n \in DOMAIN file.offsets /\ x.at = file.offsets[n]}
        = {[at |-> PositionAt[n], record |-> Record(h)]}
  <2>1. ASSUME NEW k \in DOMAIN HeapOrder PROVE PositionAt[k] = OffsetAt[n] <=> k = n
    BY <1>1, PassesAgree
  <2>2. n \in DOMAIN file.offsets /\ file.offsets[n] = OffsetAt[n]
    BY <1>1, <1>2, PassesAgree
  <2> DEFINE y == [at |-> PositionAt[n], record |-> Record(h)]
  <2>3. y \in Range(file.heap) /\ y.at = OffsetAt[n]
    BY <1>1, <1>5, <2>1
  <2>4. ASSUME NEW x \in Range(file.heap), x.at = OffsetAt[n] PROVE x = y
    <3>1. PICK k \in DOMAIN HeapOrder : x = [at |-> PositionAt[k], record |-> Record(HeapOrder[k])]
      BY <1>5
    <3>2. k = n
      BY <2>1, <2>4, <3>1
    <3> QED BY <1>1, <3>1, <3>2
  <2> HIDE DEF y
  <2>5. {x \in Range(file.heap) : n \in DOMAIN file.offsets /\ x.at = file.offsets[n]} = {y}
    BY <2>2, <2>3, <2>4
  <2> QED BY <2>5 DEF y
<1>7. Fetched(ToRead(h)) = {e.record : e \in {[at |-> PositionAt[n], record |-> Record(h)]}}
  BY <1>4, <1>6
<1> QED BY <1>7

-----------------------------------------------------------------------------
(* What a reader finds *)

\* Whatever kind of value the client has, a reader finds what was put there.
LEMMA ReadsEachKind ==
  ASSUME WrittenInv, SizesFit, NEW h \in Mine
  PROVE  ReadsAs(ToRead(h), h)
<1> DEFINE holds == object[h].holds
           v == values[h]
           refs(s) == [n \in DOMAIN s |-> ToRead(s[n])]
<1>1. SerializerInv /\ TypeOK /\ OrderInv /\ ContentInv /\ phase = "written" /\ file = Image
  BY DEF WrittenInv, SerializerInv, FaithInv, ImageInv
<1>2. /\ h \in 1..NValues /\ HandleOK(h) /\ ContentOK(h) /\ object[h].kind # "internal"
      /\ values[h] \in ValueRecord /\ IsSequence(holds) /\ object[h].kind \in Kind
  <2>1. h \in 1..NValues
    BY <1>1, TypeFacts
  <2> QED BY <1>1, <2>1, TypeFacts DEF SerializerInv, HandleInv, ContentInv, Mine, TypeOK
<1>3. v.outside \in BOOLEAN /\ v.data \in Int
  BY <1>2, ValueFields
<1>4. ToRead(h).type = v.type
  BY DEF ToRead
<1>5. CASE object[h].kind = "inline"
  <2>1. ~v.outside /\ v.type = holds[1].type /\ v.data = holds[1].data
    BY <1>2, <1>5 DEF HandleOK, ContentOK
  <2>2. ToRead(h) = [type |-> holds[1].type, data |-> holds[1].data]
    BY <1>3, <2>1 DEF ToRead
  <2> QED BY <1>5, <2>2 DEF ReadsAs
<1>6. CASE object[h].kind = "blob"
  <2>1. /\ v.type \in BlobType /\ v.type = holds[1].type
        /\ blobs[Pool(v.type)][v.data + 1] = holds[1]
    BY <1>2, <1>6 DEF HandleOK, ContentOK
  <2>2. Fetched(ToRead(h)) = {Record(h)}
    BY <1>2, <2>1, FetchesRecord DEF IsInHeap
  <2>3. Record(h) = holds[1]
    BY <2>1 DEF Record, BlobType, TableType, PrimVector, ValueVector
  <2> QED BY <1>4, <1>6, <2>1, <2>2, <2>3 DEF ReadsAs
<1>7. CASE object[h].kind = "vector"
  <2>1. /\ v.type \in PrimVector \cup ValueVector \/ (v.type = "VECTOR_EMPTY" /\ holds = <<>>)
        /\ ~v.outside
        /\ Range(holds) \subseteq Mine /\ (v.type \in PrimVector => FitsItems(h))
    BY <1>2, <1>7 DEF HandleOK, ContentOK, IsVector, IsEmpty
  <2>2. CASE v.type = "VECTOR_EMPTY" /\ holds = <<>>
    BY <1>4, <1>7, <2>2 DEF ReadsAs
  <2>3. ASSUME v.type \in PrimVector \cup ValueVector
        PROVE  Fetched(ToRead(h)) = {Record(h)} /\ Vec(h).items = holds
    <3>1. Fetched(ToRead(h)) = {Record(h)}
      BY <1>2, <2>3, FetchesRecord DEF IsInHeap
    <3>2. VectorItems(h) = holds
      BY <1>1, <1>2, <2>3, ItemsAreThere
    <3> QED BY <2>1, <3>1, <3>2 DEF VectorItems
  <2>4. CASE v.type \in ValueVector
    <3>1. Record(h) = refs(Vec(h).items)
      BY <2>4 DEF Record, ValueVector, BlobType, TableType, PrimVector
    <3>2. Fetched(ToRead(h)) = {refs(holds)}
      BY <2>3, <2>4, <3>1
    <3> QED BY <1>4, <1>7, <2>4, <3>2 DEF ReadsAs
  <2>5. CASE v.type \in PrimVector
    <3>1. v.compressed /\ \A x \in Range(holds) : /\ values[x].type \in InlineType
                                                  /\ Convert(v.type, values[x].data) = values[x].data
      BY <2>1, <2>5 DEF FitsItems
    <3>2. Record(h) = [n \in DOMAIN Vec(h).items |-> Convert(v.type, values[Vec(h).items[n]].data)]
      BY <2>5, <3>1 DEF Record, ValueVector, BlobType, TableType, PrimVector
    <3>3. ASSUME NEW n \in DOMAIN holds
          PROVE  /\ object[holds[n]].kind = "inline"
                 /\ Convert(v.type, values[holds[n]].data) = object[holds[n]].holds[1].data
      <4>1. PICK x : x = holds[n]
        OBVIOUS
      <4>2. x \in Range(holds) /\ x \in Mine
        BY <1>2, <2>1, <4>1, SequenceFacts
      <4>3. x \in 1..NValues /\ HandleOK(x) /\ ContentOK(x) /\ object[x].kind # "internal" /\ object[x].kind \in Kind
        <5>1. x \in 1..NValues
          BY <1>1, <4>2, TypeFacts
        <5> QED BY <1>1, <4>2, <5>1, TypeFacts DEF SerializerInv, HandleInv, ContentInv, Mine, TypeOK
      <4>4. values[x].type \in InlineType /\ Convert(v.type, values[x].data) = values[x].data
        BY <3>1, <4>2
      <4>5. object[x].kind = "inline"
        BY <4>3, <4>4 DEF HandleOK, IsVector, IsEmpty, InlineType, BlobType, PrimVector, ValueVector, Kind
      <4> QED BY <4>1, <4>3, <4>4, <4>5 DEF ContentOK
    <3>4. Record(h) = [n \in DOMAIN holds |-> object[holds[n]].holds[1].data]
      BY <2>3, <2>5, <3>2, <3>3
    <3> QED BY <1>4, <1>7, <2>3, <2>5, <3>3, <3>4 DEF ReadsAs
  <2> QED BY <2>1, <2>2, <2>4, <2>5
<1>8. CASE object[h].kind = "native"
  <2>1. /\ v.type \in PrimVector \/ (v.type = "VECTOR_EMPTY" /\ holds = <<>>)
        /\ ~v.compressed
    BY <1>2, <1>8 DEF HandleOK, ContentOK, IsVector, IsEmpty
  <2>2. CASE v.type = "VECTOR_EMPTY" /\ holds = <<>>
    BY <1>4, <1>8, <2>2 DEF ReadsAs
  <2>3. CASE v.type \in PrimVector
    <3>1. Fetched(ToRead(h)) = {Record(h)}
      BY <1>2, <2>3, FetchesRecord DEF IsInHeap
    <3>2. Record(h) = VectorItems(h)
      BY <2>1, <2>3 DEF Record, ValueVector, BlobType, TableType, PrimVector
    <3>3. VectorItems(h) = holds
      BY <1>1, <1>2, <2>3, ItemsAreThere
    <3> QED BY <1>4, <1>8, <2>3, <3>1, <3>2, <3>3 DEF ReadsAs
  <2> QED BY <2>1, <2>2, <2>3
<1>9. CASE object[h].kind \in {"set", "map"}
  <2> DEFINE t == TableOf(h)
  <2>1. v.type \in TableType /\ (object[h].kind = "map" <=> v.type = "MAP") /\ h \in Tables
    BY <1>2, <1>9 DEF HandleOK, TableType, Tables
  <2>2. /\ t.keys = Column(holds, 1)
        /\ object[h].kind = "map" => t.vals = Column(holds, 2)
    BY <1>2, <1>9 DEF ContentOK
  <2>3. /\ Len(t.parts) = IF values[h].type = "MAP" THEN 3 ELSE 2
        /\ values[t.parts[1]].type = "VECTOR_U32"
        /\ \A n \in DOMAIN t.parts \ {1} :
              /\ values[t.parts[n]].type \in ValueVector
              /\ Vec(t.parts[n]).items = Append(IF n = 2 THEN t.keys ELSE t.vals, Slot)
    BY <1>1, <2>1 DEF ContentInv, PartsOK, LaidOut
  <2>4. DOMAIN t.parts = 1..Len(t.parts)
    <3>1. t \in TableRecord
      <4>1. values[h].data + 1 \in DOMAIN tables[values[h].type]
        BY <1>1, <2>1 DEF SerializerInv, NumberInv, TablesAreNumbered
      <4>2. tables[values[h].type] \in Seq(TableRecord)
        BY <1>1, <2>1 DEF TypeOK
      <4> QED BY <4>1, <4>2 DEF TableOf
    <3> QED BY <3>1 DEF TableRecord
  <2>5. 1 \in DOMAIN t.parts /\ 2 \in DOMAIN t.parts /\ (object[h].kind = "map" => 3 \in DOMAIN t.parts)
    BY <2>1, <2>3, <2>4
  <2>6. PICK e : e = Record(h)
    OBVIOUS
  <2>7. Fetched(ToRead(h)) = {e}
    BY <1>2, <2>1, <2>6, FetchesRecord DEF IsInHeap
  <2>8. e = [n_items |-> Len(t.keys), parts |-> [n \in DOMAIN t.parts |-> ToRead(t.parts[n])]]
    BY <2>1, <2>6 DEF Record, BlobType, TableType, PrimVector, ValueVector
  <2>9. Len(t.keys) = Len(holds)
    <3>1. Column(holds, 1) = [n \in DOMAIN holds |-> Column(holds, 1)[n]]
      BY DEF Column
    <3> QED BY <1>2, <2>2, <3>1, SequenceLike
  <2>10. e.parts[1].type = "VECTOR_U32"
    BY <2>3, <2>5, <2>8 DEF ToRead
  <2>11. ASSUME NEW n \in DOMAIN t.parts \ {1}
         PROVE  Fetched(e.parts[n]) = {refs(Append(IF n = 2 THEN t.keys ELSE t.vals, Slot))}
    <3>1. PICK p : p = t.parts[n]
      OBVIOUS
    <3>2. values[p].type \in ValueVector /\ Vec(p).items = Append(IF n = 2 THEN t.keys ELSE t.vals, Slot)
      BY <2>3, <3>1
    <3>3. p \in 1..NValues
      BY <1>1, <2>1, <3>1 DEF SerializerInv, PartInv
    <3>4. Fetched(ToRead(p)) = {Record(p)}
      BY <3>2, <3>3, FetchesRecord DEF IsInHeap
    <3>5. Record(p) = refs(Vec(p).items)
      BY <3>2 DEF Record, ValueVector, BlobType, TableType, PrimVector
    <3>6. e.parts[n] = ToRead(p)
      BY <2>8, <3>1
    <3> QED BY <3>2, <3>4, <3>5, <3>6
  <2>12. Fetched(e.parts[2]) = {refs(Append(Column(holds, 1), Slot))}
    BY <2>2, <2>5, <2>11
  <2>13. object[h].kind = "map" => Fetched(e.parts[3]) = {refs(Append(Column(holds, 2), Slot))}
    BY <2>2, <2>5, <2>11
  <2> HIDE DEF t
  <2> QED BY <1>9, <2>7, <2>8, <2>9, <2>10, <2>12, <2>13 DEF ReadsAs, Column
<1> QED BY <1>2, <1>5, <1>6, <1>7, <1>8, <1>9 DEF Kind

\* In a file that has been written, with values in order and with their content.
LEMMA FaithInvIsEnough ==
  ASSUME SerializerInv, FaithInv, SizesFit
  PROVE  FileIsFaithful
<1> SUFFICES ASSUME phase = "written" PROVE file.root = ToRead(root) /\ \A h \in Mine : ReadsAs(ToRead(h), h)
  BY DEF FileIsFaithful
<1>1. WrittenInv
  BY DEF WrittenInv
<1>2. file.root = ToRead(root)
  BY DEF FaithInv, ImageInv, Image
<1> QED BY <1>1, <1>2, ReadsEachKind

\* While the client builds, the arrays of strings, bitvectors and the caller's
\* vectors grow with the values.
LEMMA OrderOf ==
  ASSUME phase' = "build", count'.out = 0,
         Ranks(values', Strings', Len(blobs'.text)), Ranks(values', Of({"BITVECTOR"})', Len(blobs'.bits)),
         Ranks(values', Outsides', Len(outs'))
  PROVE  OrderInv'
<1>1. /\ Numbered(Strings, Len(blobs.text))' /\ Numbered(Of({"BITVECTOR"}), Len(blobs.bits))'
      /\ Numbered(Outsides, Len(outs))'
  BY DEF Numbered, Ranks
<1> QED BY <1>1 DEF OrderInv

\* The order, of the values as they are.
LEMMA OrderRanks ==
  ASSUME OrderInv
  PROVE  /\ Ranks(values, Strings, Len(blobs.text)) /\ Ranks(values, Of({"BITVECTOR"}), Len(blobs.bits))
         /\ Ranks(values, Outsides, Len(outs))
BY NumberedIsRanks DEF OrderInv

\* The values the client had, and those that a call adds.
Extends == NValues <= NValues' /\ \A h \in 1..NValues : values'[h] = values[h]

\* Those that it adds.
NewHandles == {h \in 1..NValues' : ~(h \in 1..NValues)}

\* A class of values grows by the new ones that are in it.
LEMMA ClassesGrow ==
  ASSUME TypeOK, TypeOK', Extends
  PROVE  /\ \A ts : Of(ts)' = Of(ts) \cup {h \in NewHandles : values'[h].type \in ts}
         /\ Strings' = Strings \cup {h \in NewHandles : values'[h].type \in {"STRING", "UNICODE"}}
         /\ Of({"BITVECTOR"})' = Of({"BITVECTOR"}) \cup {h \in NewHandles : values'[h].type = "BITVECTOR"}
         /\ Outsides' = Outsides \cup {h \in NewHandles : values'[h].type \in PrimVector /\ values'[h].outside}
<1>1. NValues \in Nat /\ NValues' \in Nat /\ 1..NValues \subseteq 1..NValues'
  <2>1. NValues \in Nat
    BY TypeFacts
  <2>2. IsSequence(object') /\ NValues' = Len(object')
    BY DEF TypeOK, NValues
  <2>3. NValues' \in Nat
    BY <2>2, SequenceFacts
  <2> QED BY <2>1, <2>3 DEF Extends
<1>2. ASSUME NEW ts PROVE Of(ts)' = Of(ts) \cup {h \in NewHandles : values'[h].type \in ts}
  <2>1. Of(ts)' = {h \in 1..NValues' : values'[h].type \in ts} /\ Of(ts) = {h \in 1..NValues : values[h].type \in ts}
    BY DEF Of
  <2> QED BY <1>1, <2>1 DEF Extends, NewHandles
<1>3. Outsides' = {h \in Of(PrimVector)' : values'[h].outside} /\ Outsides = {h \in Of(PrimVector) : values[h].outside}
  BY DEF Outsides
<1>4. Outsides' = Outsides \cup {h \in NewHandles : values'[h].type \in PrimVector /\ values'[h].outside}
  <2>1. Of(PrimVector)' = Of(PrimVector) \cup {h \in NewHandles : values'[h].type \in PrimVector}
    BY <1>2
  <2>2. Of(PrimVector) \subseteq 1..NValues
    BY DEF Of
  <2> QED BY <1>3, <2>1, <2>2 DEF Extends
<1>5. Strings' = Strings \cup {h \in NewHandles : values'[h].type \in {"STRING", "UNICODE"}}
  BY <1>2 DEF Strings
<1>6. Of({"BITVECTOR"})' = Of({"BITVECTOR"}) \cup {h \in NewHandles : values'[h].type = "BITVECTOR"}
  BY <1>2
<1> QED BY <1>2, <1>4, <1>5, <1>6

\* A call that adds no string, bitvector or vector of the caller's.
LEMMA OrderStays ==
  ASSUME TypeOK, TypeOK', OrderInv, phase = "build", phase' = "build", count' = count, Extends,
         blobs' = blobs, outs' = outs,
         \A h \in NewHandles : values'[h].type \notin BlobType /\ ~values'[h].outside
  PROVE  OrderInv'
<1>1. Strings' = Strings /\ Of({"BITVECTOR"})' = Of({"BITVECTOR"}) /\ Outsides' = Outsides
  <2>1. Strings' = Strings
    <3>1. {h \in NewHandles : values'[h].type \in {"STRING", "UNICODE"}} = {}
      BY DEF BlobType
    <3> QED BY <3>1, ClassesGrow
  <2>2. Of({"BITVECTOR"})' = Of({"BITVECTOR"})
    <3>1. {h \in NewHandles : values'[h].type = "BITVECTOR"} = {}
      BY DEF BlobType
    <3> QED BY <3>1, ClassesGrow
  <2>3. Outsides' = Outsides
    <3>1. {h \in NewHandles : values'[h].type \in PrimVector /\ values'[h].outside} = {}
      OBVIOUS
    <3> QED BY <3>1, ClassesGrow
  <2> QED BY <2>1, <2>2, <2>3
<1>2. ASSUME NEW S, S \subseteq 1..NValues, NEW n, Ranks(values, S, n) PROVE Ranks(values', S, n)
  BY <1>2, RanksSame DEF Extends
<1>3. Strings \subseteq 1..NValues /\ Of({"BITVECTOR"}) \subseteq 1..NValues /\ Outsides \subseteq 1..NValues
  BY DEF Strings, Outsides, Of
<1>4. count'.out = 0
  BY DEF OrderInv
<1> QED BY <1>1, <1>2, <1>3, <1>4, OrderRanks, OrderOf

\* What a call while the client builds leaves alone, and has to establish for the rest.
LEMMA ContentGrows ==
  ASSUME SerializerInv, TypeOK', ContentInv, phase = "build", phase' = "build", Extends,
         Mine \subseteq Mine',
         \A p \in {"text", "bits"} : \A d \in DOMAIN blobs[p] : d \in DOMAIN blobs'[p] /\ blobs'[p][d] = blobs[p][d],
         \A h \in 1..NValues' :
            \/ h \in 1..NValues /\ object'[h] = object[h] /\ (h \in Tables => TableOf(h)' = TableOf(h))
            \/ ContentOK(h)' /\ (object'[h].kind = "vector" => values'[h].type \notin PrimVector),
         \A h \in Tables' : (h \in Tables /\ TableOf(h)'.parts = TableOf(h).parts) \/ PartsOK(h)'
  PROVE  ContentInv'
<1>1. TypeOK /\ HandleInv /\ PartInv
  BY DEF SerializerInv
<1>2. ASSUME NEW h \in 1..NValues, object'[h] = object[h], h \in Tables => TableOf(h)' = TableOf(h)
      PROVE  ContentOK(h)' /\ (object'[h].kind = "vector" => values'[h].type \notin PrimVector)
  <2>1. HandleOK(h) /\ ContentOK(h) /\ values'[h] = values[h]
    BY <1>1 DEF HandleInv, ContentInv, Extends
  <2>2. object[h].kind = "vector" => values[h].type \notin PrimVector
    BY DEF ContentInv
  <2>3. object[h].kind \in {"set", "map"} => h \in Tables
    BY <2>1 DEF HandleOK, Tables, TableType
  <2>4. ASSUME object[h].kind = "blob"
        PROVE  /\ values[h].data + 1 \in DOMAIN blobs'[Pool(values[h].type)]
               /\ blobs'[Pool(values[h].type)][values[h].data + 1] = object[h].holds[1]
    BY <2>1, <2>4 DEF ContentOK, Pool
  <2> QED BY <1>2, <2>1, <2>2, <2>3, <2>4 DEF ContentOK
<1>3. ASSUME NEW h \in Tables, TableOf(h)'.parts = TableOf(h).parts PROVE PartsOK(h)'
  <2>1. PartsOK(h) /\ h \in 1..NValues
    BY DEF ContentInv, Tables
  <2>2. \A n \in DOMAIN TableOf(h).parts : values'[TableOf(h).parts[n]] = values[TableOf(h).parts[n]]
    BY <1>1 DEF PartInv, Extends
  <2>3. ~LaidOut(h)'
    BY DEF LaidOut
  <2>4. values'[h] = values[h]
    BY <2>1 DEF Extends
  <2>5. Len(TableOf(h).parts) \in {2, 3}
    BY <1>1 DEF PartInv
  <2>6. 1 \in DOMAIN TableOf(h).parts
    <3>1. TableOf(h).parts \in Seq(Nat)
      BY TablesHaveParts
    <3> QED BY <2>5, <3>1
  <2> QED BY <1>3, <2>1, <2>2, <2>3, <2>4, <2>6 DEF PartsOK
<1> QED BY <1>2, <1>3 DEF ContentInv

\* One value more.
LEMMA PushedOne ==
  ASSUME TypeOK, TypeOK', phase = "build", NEW v, values' = Append(values, v), NEW o, object' = Append(object, o)
  PROVE  /\ NValues' = NValues + 1 /\ values'[NValues + 1] = v /\ object'[NValues + 1] = o
         /\ \A h \in 1..NValues : values'[h] = values[h] /\ object'[h] = object[h]
         /\ Extends /\ NewHandles = {NValues + 1} /\ NValues + 1 \in 1..NValues'
         /\ Mine \subseteq Mine'
         /\ \A h \in 1..NValues' : h \in 1..NValues \/ h = NValues + 1
         /\ \A h \in 1..NValues : h < NValues + 1
         /\ NValues \in Nat
<1>1. IsSequence(values) /\ IsSequence(object) /\ NValues \in Nat /\ Len(object) = NValues /\ Len(values) = NValues
      /\ DOMAIN object = 1..NValues
  BY TypeFacts DEF TypeOK, NValues
<1>2. /\ values'[NValues + 1] = v /\ object'[NValues + 1] = o
      /\ \A h \in 1..NValues : values'[h] = values[h] /\ object'[h] = object[h]
      /\ DOMAIN object' = 1..(NValues + 1) /\ Len(object') = NValues + 1
  BY <1>1, SequencePush
<1>3. NValues' = NValues + 1
  BY <1>2 DEF NValues
<1>4. Extends
  BY <1>1, <1>2, <1>3 DEF Extends
<1>5. /\ \A h \in 1..(NValues + 1) : h \in 1..NValues \/ h = NValues + 1
      /\ \A h \in 1..NValues : h < NValues + 1
      /\ NValues + 1 \in 1..(NValues + 1) /\ ~(NValues + 1 \in 1..NValues) /\ 1..NValues \subseteq 1..(NValues + 1)
  BY <1>1
<1>6. NewHandles = {NValues + 1}
  BY <1>3, <1>5 DEF NewHandles
<1>7. Mine \subseteq Mine'
  BY <1>1, <1>2, <1>5 DEF Mine
<1> QED BY <1>1, <1>2, <1>3, <1>4, <1>5, <1>6, <1>7

\* What one new value needs, where no set or map changes.
LEMMA ContentOfOne ==
  ASSUME SerializerInv, TypeOK', ContentInv, phase = "build", phase' = "build", tables' = tables,
         NEW v, values' = Append(values, v), NEW o, object' = Append(object, o),
         \A p \in {"text", "bits"} : \A d \in DOMAIN blobs[p] : d \in DOMAIN blobs'[p] /\ blobs'[p][d] = blobs[p][d],
         v.type \notin TableType,
         NEW g, g = NValues + 1, ContentOK(g)', o.kind = "vector" => v.type \notin PrimVector
  PROVE  ContentInv'
<1>1. TypeOK
  BY DEF SerializerInv
<1>2. /\ NValues' = NValues + 1 /\ values'[NValues + 1] = v /\ object'[NValues + 1] = o
      /\ \A h \in 1..NValues : values'[h] = values[h] /\ object'[h] = object[h]
      /\ Extends /\ Mine \subseteq Mine'
      /\ \A h \in 1..NValues' : h \in 1..NValues \/ h = NValues + 1
  BY <1>1, PushedOne
<1>3. \A h \in Tables : TableOf(h)' = TableOf(h)
  BY <1>2 DEF TableOf, Tables
<1>4. Tables' \subseteq Tables
  BY <1>2 DEF Tables
<1>5. \A h \in 1..NValues' :
            \/ h \in 1..NValues /\ object'[h] = object[h] /\ (h \in Tables => TableOf(h)' = TableOf(h))
            \/ ContentOK(h)' /\ (object'[h].kind = "vector" => values'[h].type \notin PrimVector)
  <2> TAKE h \in 1..NValues'
  <2>1. CASE h \in 1..NValues
    BY <1>2, <1>3, <2>1
  <2>2. CASE h = NValues + 1
    <3>1. h = g
      BY <2>2
    <3> QED BY <1>2, <2>2, <3>1
  <2> QED BY <1>2, <2>1, <2>2
<1>6. \A h \in Tables' : (h \in Tables /\ TableOf(h)'.parts = TableOf(h).parts) \/ PartsOK(h)'
  BY <1>3, <1>4
<1> QED BY <1>2, <1>5, <1>6, ContentGrows

-----------------------------------------------------------------------------
(* Each call of the client keeps FaithInv *)

\* An inline value.
LEMMA InlineIsFaithful ==
  ASSUME SerializerInv, SerializerInv', FaithInv, NEW v \in Inline, CreateInline(v)
  PROVE  FaithInv'
<1> DEFINE w == NewValue(v.type, v.data)
           o == Thing("inline", <<v>>)
<1>1. /\ phase = "build" /\ phase' = "build" /\ values' = Append(values, w) /\ object' = Append(object, o)
      /\ tables' = tables /\ blobs' = blobs /\ outs' = outs /\ count' = count
  BY DEF CreateInline, RoomFor, output
<1>2. TypeOK /\ TypeOK' /\ OrderInv /\ ContentInv
  BY DEF SerializerInv, FaithInv
<1>3. v.type \in InlineType /\ v.data \in Int
  BY InlineAssumption
<1>4. w.type = v.type /\ w.data = v.data /\ w.outside = FALSE
  BY DEF NewValue
<1>5. o.kind = "inline" /\ o.holds = <<v>>
  BY DEF Thing
<1> HIDE DEF w, o
<1>6. PICK g : g = NValues + 1
  OBVIOUS
<1>7. /\ values'[g] = w /\ object'[g] = o /\ Extends /\ NewHandles = {g}
  BY <1>1, <1>2, <1>6, PushedOne
<1>8. ContentOK(g)'
  BY <1>4, <1>5, <1>7 DEF ContentOK
<1>9. w.type \notin TableType /\ w.type \notin BlobType
  BY <1>3, <1>4 DEF InlineType, TableType, BlobType
<1>10. ContentInv'
  BY <1>1, <1>2, <1>5, <1>6, <1>8, <1>9, ContentOfOne
<1>11. OrderInv'
  BY <1>1, <1>2, <1>4, <1>7, <1>9, OrderStays
<1> QED BY <1>1, <1>10, <1>11 DEF FaithInv, ImageInv

\* A vector of the library's, with no items yet.
LEMMA VectorIsFaithful ==
  ASSUME SerializerInv, SerializerInv', FaithInv, NEW t \in Native \cup {"VECTOR_VALUE"}, CreateVector(t)
  PROVE  FaithInv'
<1> DEFINE w == NewValue(t, Len(privs))
           o == Thing(IF t = "VECTOR_VALUE" THEN "vector" ELSE "native", <<>>)
<1>1. /\ phase = "build" /\ phase' = "build" /\ values' = Append(values, w) /\ object' = Append(object, o)
      /\ tables' = tables /\ blobs' = blobs /\ outs' = outs /\ count' = count
  BY DEF CreateVector, RoomFor, output
<1>2. TypeOK /\ TypeOK' /\ OrderInv /\ ContentInv
  BY DEF SerializerInv, FaithInv
<1>3. t = "VECTOR_VALUE" \/ t \in PrimVector
  BY VectorAssumption
<1>4. w.type = t /\ w.outside = FALSE /\ w.compressed = FALSE
  BY DEF NewValue
<1>5. o.kind = (IF t = "VECTOR_VALUE" THEN "vector" ELSE "native") /\ o.holds = <<>>
  BY DEF Thing
<1> HIDE DEF w, o
<1>6. PICK g : g = NValues + 1
  OBVIOUS
<1>7. /\ values'[g] = w /\ object'[g] = o /\ Extends /\ NewHandles = {g}
  BY <1>1, <1>2, <1>6, PushedOne
<1>8. Range(<<>>) = {}
  BY EmptySequence DEF Range
<1>9. ContentOK(g)' /\ (o.kind = "vector" => w.type \notin PrimVector)
  BY <1>3, <1>4, <1>5, <1>7, <1>8 DEF ContentOK, PrimVector, ValueVector
<1>10. w.type \notin TableType /\ w.type \notin BlobType
  BY <1>3, <1>4 DEF PrimVector, TableType, BlobType
<1>11. ContentInv'
  BY <1>1, <1>2, <1>6, <1>9, <1>10, ContentOfOne
<1>12. OrderInv'
  BY <1>1, <1>2, <1>4, <1>7, <1>10, OrderStays
<1> QED BY <1>1, <1>11, <1>12 DEF FaithInv, ImageInv

\* A vector in a buffer of the caller's, which gets the next number of its kind.
LEMMA OutsideIsFaithful ==
  ASSUME SerializerInv, SerializerInv', FaithInv, NEW t \in Native, NEW items \in Seq(NativeItem), CreateOutside(t, items)
  PROVE  FaithInv'
<1> DEFINE e == NewValue("VECTOR_EMPTY", 0)
           f == [NewValue(t, Len(outs)) EXCEPT !.outside = TRUE]
           o == Thing("native", items)
<1>1. /\ phase = "build" /\ phase' = "build" /\ object' = Append(object, o)
      /\ tables' = tables /\ blobs' = blobs /\ count' = count
      /\ \/ values' = Append(values, e) /\ outs' = outs
         \/ values' = Append(values, f) /\ outs' = Append(outs, items)
  BY DEF CreateOutside, RoomFor, output
<1>2. TypeOK /\ TypeOK' /\ OrderInv /\ ContentInv
  BY DEF SerializerInv, FaithInv
<1>3. t \in PrimVector
  BY VectorAssumption
<1>4. /\ e.type = "VECTOR_EMPTY" /\ e.outside = FALSE /\ e.compressed = FALSE
      /\ f.type = t /\ f.data = Len(outs) /\ f.outside = TRUE /\ f.compressed = FALSE
  BY DEF NewValue
<1>5. o.kind = "native"
  BY DEF Thing
<1> HIDE DEF e, f, o
<1>6. PICK g : g = NValues + 1
  OBVIOUS
<1>7. ASSUME NEW w, w \in {e, f}, values' = Append(values, w)
      PROVE  /\ values'[g] = w /\ object'[g] = o /\ Extends /\ NewHandles = {g} /\ ContentInv'
             /\ w.type \notin BlobType /\ \A h \in 1..NValues : h < g /\ values'[h] = values[h]
             /\ g \in Int /\ 1..NValues \subseteq Int
  <2>1. /\ values'[g] = w /\ object'[g] = o /\ Extends /\ NewHandles = {g}
        /\ \A h \in 1..NValues : h < g /\ values'[h] = values[h]
        /\ NValues \in Nat
    BY <1>1, <1>2, <1>6, <1>7, PushedOne
  <2>2. ContentOK(g)'
    BY <1>3, <1>4, <1>5, <1>7, <2>1 DEF ContentOK, PrimVector, ValueVector
  <2>3. w.type \notin TableType /\ w.type \notin BlobType
    BY <1>3, <1>4, <1>7 DEF PrimVector, TableType, BlobType
  <2>4. ContentInv'
    BY <1>1, <1>2, <1>5, <1>6, <1>7, <2>2, <2>3, ContentOfOne
  <2>5. g \in Int /\ 1..NValues \subseteq Int
    BY <1>6, <2>1
  <2> QED BY <2>1, <2>3, <2>4, <2>5
<1>8. OrderInv' /\ ContentInv'
  <2>1. CASE values' = Append(values, e) /\ outs' = outs
    <3>1. /\ values'[g] = e /\ Extends /\ NewHandles = {g} /\ ContentInv' /\ e.type \notin BlobType
      BY <1>7, <2>1
    <3> QED BY <1>1, <1>2, <1>4, <2>1, <3>1, OrderStays
  <2>2. CASE values' = Append(values, f) /\ outs' = Append(outs, items)
    <3>1. /\ values'[g] = f /\ Extends /\ NewHandles = {g} /\ ContentInv' /\ f.type \notin BlobType
          /\ \A h \in 1..NValues : h < g /\ values'[h] = values[h]
          /\ g \in Int /\ 1..NValues \subseteq Int
      BY <1>7, <2>2
    <3>2. Strings' = Strings /\ Of({"BITVECTOR"})' = Of({"BITVECTOR"}) /\ Outsides' = Outsides \cup {g}
      <4>1. Strings' = Strings
        <5>1. {h \in NewHandles : values'[h].type \in {"STRING", "UNICODE"}} = {}
          BY <3>1 DEF BlobType
        <5> QED BY <1>2, <3>1, <5>1, ClassesGrow
      <4>2. Of({"BITVECTOR"})' = Of({"BITVECTOR"})
        <5>1. {h \in NewHandles : values'[h].type = "BITVECTOR"} = {}
          BY <3>1 DEF BlobType
        <5> QED BY <1>2, <3>1, <5>1, ClassesGrow
      <4>3. Outsides' = Outsides \cup {g}
        <5>1. {h \in NewHandles : values'[h].type \in PrimVector /\ values'[h].outside} = {g}
          BY <1>3, <1>4, <3>1
        <5> QED BY <1>2, <3>1, <5>1, ClassesGrow
      <4> QED BY <4>1, <4>2, <4>3
    <3>3. Strings \subseteq 1..NValues /\ Of({"BITVECTOR"}) \subseteq 1..NValues /\ Outsides \subseteq 1..NValues
      BY DEF Strings, Outsides, Of
    <3>4. Ranks(values', Strings, Len(blobs.text)) /\ Ranks(values', Of({"BITVECTOR"}), Len(blobs.bits))
      <4>1. ASSUME NEW S, S \subseteq 1..NValues, NEW n, Ranks(values, S, n) PROVE Ranks(values', S, n)
        BY <3>1, <4>1, RanksSame
      <4> QED BY <1>2, <3>3, <4>1, OrderRanks
    <3>5. Len(outs) \in Nat /\ Len(outs') = Len(outs) + 1
      BY <1>2, <2>2, TypeFacts, SequencePush DEF TypeOK
    <3>6. Ranks(values', Outsides \cup {g}, Len(outs) + 1)
      <4>1. Outsides \in SUBSET Int /\ \A h \in Outsides : values'[h].data = values[h].data /\ h < g
        BY <3>1, <3>3
      <4>2. values'[g].data = Len(outs)
        BY <1>4, <3>1
      <4>3. Ranks(values, Outsides, Len(outs))
        BY <1>2, OrderRanks
      <4> QED BY <3>1, <3>5, <4>1, <4>2, <4>3, RanksPush
    <3>7. count'.out = 0
      BY <1>1, <1>2 DEF OrderInv
    <3> QED BY <1>1, <3>1, <3>2, <3>4, <3>5, <3>6, <3>7, OrderOf
  <2> QED BY <1>1, <2>1, <2>2
<1> QED BY <1>1, <1>8 DEF FaithInv, ImageInv

\* A string or bitvector, which gets the next number of its pool.
LEMMA BlobIsFaithful ==
  ASSUME SerializerInv, SerializerInv', FaithInv, NEW b \in Blob, NEW normalize, CreateBlob(b, normalize)
  PROVE  FaithInv'
<1> DEFINE p == Pool(b.type)
           w == NewValue(b.type, Len(blobs[p]))
           o == Thing("blob", <<b>>)
<1>1. /\ phase = "build" /\ phase' = "build" /\ values' = Append(values, w) /\ object' = Append(object, o)
      /\ tables' = tables /\ blobs' = [blobs EXCEPT ![p] = Append(blobs[p], b)] /\ outs' = outs /\ count' = count
  BY DEF CreateBlob, RoomFor, output
<1>2. TypeOK /\ TypeOK' /\ OrderInv /\ ContentInv /\ blobs \in [{"text", "bits"} -> Seq(Blob)]
  BY DEF SerializerInv, FaithInv, TypeOK
<1>3. b.type \in BlobType /\ p \in {"text", "bits"} /\ (p = "bits" <=> b.type = "BITVECTOR")
  BY BlobAssumption DEF Pool
<1>4. w.type = b.type /\ w.data = Len(blobs[p]) /\ w.outside = FALSE /\ p = Pool(w.type)
  BY DEF NewValue
<1>5. o.kind = "blob" /\ o.holds = <<b>>
  BY DEF Thing
<1>6. /\ blobs[p] \in Seq(Blob) /\ Len(blobs[p]) \in Nat /\ DOMAIN blobs[p] = 1..Len(blobs[p])
      /\ blobs'[p] = Append(blobs[p], b) /\ \A q \in {"text", "bits"} \ {p} : blobs'[q] = blobs[q]
  BY <1>1, <1>2, <1>3
<1> HIDE DEF w, o, p
<1>7. /\ Len(blobs'[p]) = Len(blobs[p]) + 1 /\ Len(blobs[p]) + 1 \in DOMAIN blobs'[p]
      /\ blobs'[p][Len(blobs[p]) + 1] = b
      /\ \A d \in DOMAIN blobs[p] : d \in DOMAIN blobs'[p] /\ blobs'[p][d] = blobs[p][d]
  <2>1. IsSequence(blobs[p])
    BY <1>6, SequenceOver
  <2>2. /\ Len(Append(blobs[p], b)) = Len(blobs[p]) + 1
        /\ DOMAIN Append(blobs[p], b) = 1..(Len(blobs[p]) + 1)
        /\ Append(blobs[p], b)[Len(blobs[p]) + 1] = b
        /\ \A n \in 1..Len(blobs[p]) : Append(blobs[p], b)[n] = blobs[p][n]
    BY <2>1, SequencePush
  <2>3. Len(blobs[p]) + 1 \in 1..(Len(blobs[p]) + 1) /\ \A d \in 1..Len(blobs[p]) : d \in 1..(Len(blobs[p]) + 1)
    BY <1>6
  <2> QED BY <1>6, <2>2, <2>3
<1>8. PICK g : g = NValues + 1
  OBVIOUS
<1>9. /\ values'[g] = w /\ object'[g] = o /\ Extends /\ NewHandles = {g}
      /\ \A h \in 1..NValues : h < g /\ values'[h] = values[h]
      /\ NValues \in Nat
  BY <1>1, <1>2, <1>8, PushedOne
<1>10. g \in Int /\ 1..NValues \subseteq Int
  BY <1>8, <1>9
<1>11. ContentOK(g)'
  <2>1. /\ object'[g].kind = "blob" /\ object'[g].holds = <<b>> /\ Len(<<b>>) = 1 /\ <<b>>[1] = b
        /\ values'[g].type = b.type
    BY <1>4, <1>5, <1>9
  <2>2. /\ values'[g].data + 1 \in DOMAIN blobs'[Pool(values'[g].type)]
        /\ blobs'[Pool(values'[g].type)][values'[g].data + 1] = b
    BY <1>4, <1>7, <1>9
  <2> QED BY <2>1, <2>2 DEF ContentOK, Pool
<1>12. w.type \notin TableType
  BY <1>3, <1>4 DEF TableType, BlobType
<1>13. ContentInv'
  <2>1. \A q \in {"text", "bits"} : \A d \in DOMAIN blobs[q] : d \in DOMAIN blobs'[q] /\ blobs'[q][d] = blobs[q][d]
    BY <1>6, <1>7
  <2> QED BY <1>1, <1>2, <1>5, <1>8, <1>11, <1>12, <2>1, ContentOfOne
<1>14. Strings \subseteq 1..NValues /\ Of({"BITVECTOR"}) \subseteq 1..NValues /\ Outsides \subseteq 1..NValues
  BY DEF Strings, Outsides, Of
<1>15. ASSUME NEW S, S \subseteq 1..NValues, NEW n, Ranks(values, S, n) PROVE Ranks(values', S, n)
  BY <1>9, <1>15, RanksSame
<1>16. ASSUME NEW S, S \subseteq 1..NValues, Ranks(values, S, Len(blobs[p]))
       PROVE  Ranks(values', S \cup {g}, Len(blobs'[p]))
  <2>1. S \in SUBSET Int /\ \A h \in S : values'[h].data = values[h].data /\ h < g
    BY <1>9, <1>10, <1>16
  <2>2. values'[g].data = Len(blobs[p])
    BY <1>4, <1>9
  <2> QED BY <1>6, <1>7, <1>10, <1>16, <2>1, <2>2, RanksPush
<1>17. /\ Ranks(values, Strings, Len(blobs.text)) /\ Ranks(values, Of({"BITVECTOR"}), Len(blobs.bits))
       /\ Ranks(values, Outsides, Len(outs)) /\ count'.out = 0
  BY <1>1, <1>2, OrderRanks DEF OrderInv
<1>18. Outsides' = Outsides
  <2>1. {h \in NewHandles : values'[h].type \in PrimVector /\ values'[h].outside} = {}
    BY <1>4, <1>9
  <2> QED BY <1>2, <1>9, <2>1, ClassesGrow
<1>19. CASE p = "text"
  <2>1. b.type \in {"STRING", "UNICODE"}
    BY <1>3, <1>19 DEF BlobType
  <2>2. {h \in NewHandles : values'[h].type \in {"STRING", "UNICODE"}} = {g}
        /\ {h \in NewHandles : values'[h].type = "BITVECTOR"} = {}
    BY <1>4, <1>9, <2>1
  <2>3. Strings' = Strings \cup {g} /\ Of({"BITVECTOR"})' = Of({"BITVECTOR"})
    BY <1>2, <1>9, <2>2, ClassesGrow
  <2>4. blobs'.bits = blobs.bits
    BY <1>6, <1>19
  <2>5. Ranks(values', Strings \cup {g}, Len(blobs'.text)) /\ Ranks(values', Of({"BITVECTOR"}), Len(blobs'.bits))
        /\ Ranks(values', Outsides, Len(outs'))
    BY <1>1, <1>14, <1>15, <1>16, <1>17, <1>19, <2>4
  <2>6. OrderInv'
    BY <1>1, <1>17, <1>18, <2>3, <2>5, OrderOf
  <2> QED BY <1>1, <1>13, <2>6 DEF FaithInv, ImageInv
<1>20. CASE p = "bits"
  <2>1. b.type = "BITVECTOR"
    BY <1>3, <1>20
  <2>2. {h \in NewHandles : values'[h].type \in {"STRING", "UNICODE"}} = {}
        /\ {h \in NewHandles : values'[h].type = "BITVECTOR"} = {g}
    BY <1>4, <1>9, <2>1
  <2>3. Strings' = Strings /\ Of({"BITVECTOR"})' = Of({"BITVECTOR"}) \cup {g}
    BY <1>2, <1>9, <2>2, ClassesGrow
  <2>4. blobs'.text = blobs.text
    BY <1>6, <1>20
  <2>5. Ranks(values', Strings, Len(blobs'.text)) /\ Ranks(values', Of({"BITVECTOR"}) \cup {g}, Len(blobs'.bits))
        /\ Ranks(values', Outsides, Len(outs'))
    BY <1>1, <1>14, <1>15, <1>16, <1>17, <1>20, <2>4
  <2>6. OrderInv'
    BY <1>1, <1>17, <1>18, <2>3, <2>5, OrderOf
  <2> QED BY <1>1, <1>13, <2>6 DEF FaithInv, ImageInv
<1> QED BY <1>3, <1>19, <1>20

\* What is left of a set or map that could not be created means nothing to the client.
LEMMA FailedTableIsFaithful ==
  ASSUME SerializerInv, SerializerInv', FaithInv, NEW t \in Table, CreateTableFails(t)
  PROVE  FaithInv'
<1>1. /\ phase = "build" /\ phase' = "build" /\ tables' = tables /\ blobs' = blobs /\ outs' = outs /\ count' = count
  BY DEF CreateTableFails, RoomFor, output
<1>2. PICK ts \in Leftovers(t) :
         /\ values' = values \o PartValues(ts, ts = Parts(t))
         /\ privs' = privs \o PartVectors(ts)
         /\ object' = object \o PartThings(ts)
  BY DEF CreateTableFails
<1>3. ts \in Seq(PrimVector \cup ValueVector) /\ (ts = Parts(t)) \in BOOLEAN
  BY PartsAreVectors, TableAssumption
<1>4. TypeOK /\ TypeOK' /\ OrderInv /\ ContentInv
  BY DEF SerializerInv, FaithInv
<1>5. WithParts(values', privs', object', ts, ts = Parts(t))
  <2> DEFINE flag == ts = Parts(t)
             vs == values'
             ps == privs'
             os == object'
  <2>1. flag \in BOOLEAN
    BY <1>3
  <2> HIDE DEF flag
  <2>2. vs = values \o PartValues(ts, flag) /\ ps = privs \o PartVectors(ts) /\ os = object \o PartThings(ts)
    BY <1>2 DEF flag
  <2>3. phase = "build"
    BY <1>1
  <2> HIDE DEF vs, ps, os
  <2>4. WithParts(vs, ps, os, ts, flag)
    BY <1>3, <1>4, <2>1, <2>2, <2>3, PartsAdded
  <2> QED BY <2>4 DEF vs, ps, os, flag
<1>6. /\ NValues' = NValues + Len(ts) /\ NValues \in Nat /\ Len(ts) \in Nat
      /\ DOMAIN object = 1..NValues /\ DOMAIN object' = 1..NValues'
      /\ \A h \in 1..NValues : values'[h] = values[h] /\ object'[h] = object[h]
      /\ \A n \in 1..Len(ts) :
            /\ values'[NValues + n].type \in PrimVector \cup ValueVector /\ ~values'[NValues + n].outside
            /\ object'[NValues + n].kind = "internal"
  <2>1. NValues \in Nat /\ DOMAIN object = 1..NValues /\ DOMAIN object' = 1..NValues' /\ NValues' = Len(object')
    BY <1>4, TypeFacts DEF NValues, TypeOK, IsSequence
  <2>2. Len(object') = NValues + Len(ts)
    BY <1>5 DEF WithParts
  <2>3. Len(ts) \in Nat /\ \A n \in 1..Len(ts) : ts[n] \in PrimVector \cup ValueVector
    BY <1>3
  <2>4. \A h \in 1..NValues : values'[h] = values[h] /\ object'[h] = object[h]
    BY <1>5 DEF WithParts
  <2>5. \A n \in 1..Len(ts) : values'[NValues + n].type = ts[n] /\ ~values'[NValues + n].outside
                              /\ object'[NValues + n].kind = "internal"
    BY <1>5 DEF WithParts
  <2> QED BY <2>1, <2>2, <2>3, <2>4, <2>5
<1>7. \A h \in 1..NValues' : h \in 1..NValues \/ \E n \in 1..Len(ts) : h = NValues + n
  <2>1. ASSUME NEW a \in Nat, NEW b \in Nat, NEW c \in 1..(a + b)
        PROVE  c \in 1..a \/ (c - a \in 1..b /\ c = a + (c - a))
    OBVIOUS
  <2> QED BY <1>6, <2>1
<1>8. Extends /\ Mine \subseteq Mine'
  <2>1. 1..NValues \subseteq 1..NValues' /\ NValues <= NValues'
    BY <1>6
  <2> QED BY <1>6, <2>1 DEF Extends, Mine
<1>9. \A h \in NewHandles : values'[h].type \in PrimVector \cup ValueVector /\ ~values'[h].outside
                            /\ object'[h].kind = "internal"
  BY <1>6, <1>7 DEF NewHandles
<1>10. OrderInv'
  <2>1. \A h \in NewHandles : values'[h].type \notin BlobType /\ ~values'[h].outside
    BY <1>9 DEF BlobType, PrimVector, ValueVector
  <2> QED BY <1>1, <1>4, <1>8, <2>1, OrderStays
<1>11. Tables' \subseteq Tables /\ \A h \in Tables : TableOf(h)' = TableOf(h)
  <2>1. ASSUME NEW h \in 1..NValues', values'[h].type \in TableType PROVE h \in Tables
    <3>1. h \in 1..NValues
      BY <1>9, <2>1 DEF NewHandles, TableType, PrimVector, ValueVector
    <3> QED BY <1>6, <2>1, <3>1 DEF Tables
  <2> QED BY <1>1, <1>6, <2>1 DEF Tables, TableOf
<1>12. ContentInv'
  <2>1. ASSUME NEW h \in NewHandles PROVE ContentOK(h)'
    BY <1>9 DEF ContentOK
  <2>2. \A h \in 1..NValues' :
            \/ h \in 1..NValues /\ object'[h] = object[h] /\ (h \in Tables => TableOf(h)' = TableOf(h))
            \/ ContentOK(h)' /\ (object'[h].kind = "vector" => values'[h].type \notin PrimVector)
    <3> TAKE h \in 1..NValues'
    <3>1. CASE h \in 1..NValues
      BY <1>6, <1>11, <3>1
    <3>2. CASE ~(h \in 1..NValues)
      <4>1. h \in NewHandles
        BY <3>2 DEF NewHandles
      <4> QED BY <1>9, <2>1, <4>1
    <3> QED BY <3>1, <3>2
  <2>3. \A h \in Tables' : (h \in Tables /\ TableOf(h)'.parts = TableOf(h).parts) \/ PartsOK(h)'
    BY <1>11
  <2> QED BY <1>1, <1>4, <1>8, <2>2, <2>3, ContentGrows
<1> QED BY <1>1, <1>10, <1>12 DEF FaithInv, ImageInv

\* A set has two vectors and a map three: numbers first, then values.
LEMMA PartTypes ==
  ASSUME NEW t \in TableType
  PROVE  /\ Len(Parts(t)) = IF t = "MAP" THEN 3 ELSE 2
         /\ Parts(t)[1] = "VECTOR_U32"
         /\ \A n \in 2..Len(Parts(t)) : Parts(t)[n] = "VECTOR_VALUE"
<1> DEFINE a == <<"VECTOR_U32", "VECTOR_VALUE">>
           b == IF t = "MAP" THEN <<"VECTOR_VALUE">> ELSE <<>>
<1>1. /\ IsSequence(a) /\ Len(a) = 2 /\ a[1] = "VECTOR_U32" /\ a[2] = "VECTOR_VALUE"
      /\ IsSequence(b) /\ Len(b) = IF t = "MAP" THEN 1 ELSE 0
      /\ \A n \in 1..Len(b) : b[n] = "VECTOR_VALUE"
  <2>1. a \in Seq({"VECTOR_U32", "VECTOR_VALUE"}) /\ Len(a) = 2 /\ a[1] = "VECTOR_U32" /\ a[2] = "VECTOR_VALUE"
    OBVIOUS
  <2>2. b \in Seq({"VECTOR_VALUE"}) /\ Len(b) = IF t = "MAP" THEN 1 ELSE 0
    <3>1. /\ <<"VECTOR_VALUE">> \in Seq({"VECTOR_VALUE"}) /\ Len(<<"VECTOR_VALUE">>) = 1
          /\ <<>> \in Seq({"VECTOR_VALUE"}) /\ Len(<<>>) = 0
      OBVIOUS
    <3>2. CASE t = "MAP"
      BY <3>1, <3>2
    <3>3. CASE t # "MAP"
      BY <3>1, <3>3
    <3> QED BY <3>2, <3>3
  <2> HIDE DEF a, b
  <2>3. IsSequence(a) /\ IsSequence(b)
    BY <2>1, <2>2, SequenceOver
  <2> QED BY <2>1, <2>2, <2>3
<1>2. Parts(t) = a \o b
  BY DEF Parts
<1> HIDE DEF a, b
<1>3. /\ Len(Parts(t)) = 2 + Len(b)
      /\ \A n \in 1..2 : Parts(t)[n] = a[n]
      /\ \A n \in 1..Len(b) : Parts(t)[2 + n] = b[n]
  <2>1. /\ Len(a \o b) = Len(a) + Len(b)
        /\ \A n \in 1..Len(a) : (a \o b)[n] = a[n]
        /\ \A n \in 1..Len(b) : (a \o b)[Len(a) + n] = b[n]
    <3>1. IsSequence(a) /\ IsSequence(b)
      BY <1>1
    <3>2. ASSUME NEW x, NEW y, IsSequence(x), IsSequence(y)
          PROVE  /\ Len(x \o y) = Len(x) + Len(y)
                 /\ \A n \in 1..Len(x) : (x \o y)[n] = x[n]
                 /\ \A n \in 1..Len(y) : (x \o y)[Len(x) + n] = y[n]
      BY <3>2, SequenceConcat
    <3> QED BY <3>1, <3>2
  <2> QED BY <1>1, <1>2, <2>1
<1>4. \A n \in 2..Len(Parts(t)) : n = 2 \/ (n = 3 /\ Len(b) = 1)
  BY <1>1, <1>3
<1>5. Parts(t)[1] = "VECTOR_U32" /\ Parts(t)[2] = "VECTOR_VALUE"
  BY <1>1, <1>3
<1>6. Len(b) = 1 => Parts(t)[3] = "VECTOR_VALUE"
  <2>1. Len(b) = 1 => Parts(t)[2 + 1] = b[1] /\ b[1] = "VECTOR_VALUE"
    BY <1>1, <1>3
  <2> QED BY <2>1
<1> QED BY <1>1, <1>3, <1>4, <1>5, <1>6

\* The columns of what a set or map holds.
LEMMA ColumnFacts ==
  /\ \A c : Column(<<>>, c) = <<>>
  /\ \A s, k, v : IsSequence(s) => Column(Append(s, <<k, v>>), 1) = Append(Column(s, 1), k)
                                   /\ Column(Append(s, <<k, v>>), 2) = Append(Column(s, 2), v)
<1>1. \A c : Column(<<>>, c) = <<>>
  BY EmptySequence DEF Column
<1>2. ASSUME NEW s, IsSequence(s), NEW k, NEW v, NEW c \in {1, 2}
      PROVE  Column(Append(s, <<k, v>>), c) = Append(Column(s, c), <<k, v>>[c])
  <2> DEFINE x == <<k, v>>
             y == Append(s, x)
             n == Len(s)
             z == Column(s, c)
             w == Append(z, x[c])
  <2>1. n \in Nat /\ DOMAIN s = 1..n
    BY <1>2, SequenceFacts
  <2>2. DOMAIN y = 1..(n + 1) /\ y[n + 1] = x /\ \A m \in 1..n : y[m] = s[m]
    BY <1>2, SequencePush
  <2>3. IsSequence(z) /\ Len(z) = n /\ \A m \in 1..n : z[m] = s[m][c]
    <3>1. z = [m \in 1..n |-> s[m][c]]
      BY <2>1 DEF Column
    <3>2. \A m \in 1..n : z[m] = s[m][c]
      BY <3>1
    <3> HIDE DEF n
    <3>3. z \in Seq(Range(z)) /\ Len(z) = n
      BY <2>1, <3>1 DEF Range
    <3> QED BY <3>2, <3>3 DEF IsSequence
  <2> HIDE DEF x, y, z
  <2>4. DOMAIN w = 1..(n + 1) /\ w[n + 1] = x[c] /\ \A m \in 1..n : w[m] = s[m][c]
    BY <2>3, SequencePush
  <2>5. IsSequence(w)
    BY <2>3, SequencePush
  <2> HIDE DEF w
  <2>6. \A m \in 1..(n + 1) : w[m] = y[m][c]
    <3>1. \A m \in 1..(n + 1) : m \in 1..n \/ m = n + 1
      BY <2>1
    <3> QED BY <2>2, <2>4, <3>1
  <2>7. w = [m \in 1..(n + 1) |-> w[m]]
    <3>1. w \in Seq(Range(w))
      BY <2>5 DEF IsSequence
    <3> QED BY <2>4, <3>1
  <2>8. Column(y, c) = [m \in 1..(n + 1) |-> y[m][c]]
    BY <2>2 DEF Column
  <2>9. Column(y, c) = w
    BY <2>6, <2>7, <2>8
  <2> QED BY <2>9 DEF w, y, z, x
<1>3. \A k, v : <<k, v>>[1] = k /\ <<k, v>>[2] = v
  OBVIOUS
<1> QED BY <1>1, <1>2, <1>3

\* A set or map, with its vectors.
LEMMA TableIsFaithful ==
  ASSUME SerializerInv, SerializerInv', FaithInv, NEW t \in Table, CreateTable(t)
  PROVE  FaithInv'
<1> DEFINE L == Len(Parts(t))
<1>1. PICK H : HasTable(t, H)
  BY TableIsCreated
<1>2. /\ phase = "build" /\ phase' = "build" /\ count' = count /\ outs' = outs /\ blobs' = blobs
      /\ t \in TableType /\ L \in {2, 3} /\ H = (NValues + L) + 1 /\ H \in Nat /\ NValues' = H
      /\ DOMAIN object' = 1..H
      /\ \A h \in 1..H : h \in 1..NValues \/ (\E n \in 1..L : h = NValues + n) \/ h = H
      /\ \A h \in 1..NValues : values'[h] = values[h] /\ object'[h] = object[h]
      /\ values'[H].type = t /\ ~values'[H].outside
      /\ object'[H].kind = (IF t = "SET" THEN "set" ELSE "map") /\ object'[H].holds = <<>>
  BY <1>1 DEF HasTable
<1>3. \A n \in 1..L :
       /\ values'[NValues + n].type = Parts(t)[n] /\ Parts(t)[n] \in PrimVector \cup ValueVector
       /\ ~values'[NValues + n].outside /\ object'[NValues + n].kind = "internal"
  BY <1>1 DEF HasTable
<1>4. Tables' = Tables \cup {H} /\ \A h \in Tables : TableOf(h)' = TableOf(h)
  BY <1>1 DEF HasTable
<1>5. /\ TableOf(H)'.keys = <<>> /\ TableOf(H)'.vals = <<>>
      /\ Len(TableOf(H)'.parts) = L /\ DOMAIN TableOf(H)'.parts = 1..L
      /\ \A n \in 1..L : TableOf(H)'.parts[n] = NValues + n
  BY <1>1 DEF HasTable, TableOf
<1>6. TypeOK /\ TypeOK' /\ OrderInv /\ ContentInv /\ NValues \in Nat /\ DOMAIN object = 1..NValues
  BY TypeFacts DEF SerializerInv, FaithInv
<1> HIDE DEF L
<1>7. Extends /\ Mine \subseteq Mine'
  <2>1. 1..NValues \subseteq 1..H /\ NValues <= H
    BY <1>2, <1>6
  <2> QED BY <1>2, <1>6, <2>1 DEF Extends, Mine
<1>8. \A h \in NewHandles : h = H \/ \E n \in 1..L : h = NValues + n
  BY <1>2 DEF NewHandles
<1>9. OrderInv'
  <2>1. \A h \in NewHandles : values'[h].type \notin BlobType /\ ~values'[h].outside
    BY <1>2, <1>3, <1>8 DEF BlobType, PrimVector, ValueVector, TableType
  <2> QED BY <1>2, <1>6, <1>7, <2>1, OrderStays
<1>10. ContentOK(H)' /\ object'[H].kind # "vector"
  BY <1>2, <1>5, ColumnFacts DEF ContentOK
<1>11. PartsOK(H)'
  <2>1. ~LaidOut(H)'
    BY <1>2 DEF LaidOut
  <2>2. L = (IF t = "MAP" THEN 3 ELSE 2) /\ Parts(t)[1] = "VECTOR_U32"
        /\ \A n \in 2..L : Parts(t)[n] = "VECTOR_VALUE"
    BY <1>2, PartTypes DEF L
  <2>3. values'[TableOf(H)'.parts[1]].type = "VECTOR_U32"
    BY <1>2, <1>3, <1>5, <2>2
  <2>4. \A n \in DOMAIN TableOf(H)'.parts \ {1} : values'[TableOf(H)'.parts[n]].type \in ValueVector
    <3>1. \A n \in 1..L : n = 1 \/ n \in 2..L
      BY <1>2
    <3>2. "VECTOR_VALUE" \in ValueVector
      BY DEF ValueVector
    <3> QED BY <1>3, <1>5, <2>2, <3>1, <3>2
  <2> QED BY <1>2, <1>5, <2>1, <2>2, <2>3, <2>4 DEF PartsOK
<1>12. \A h \in 1..NValues' :
            \/ h \in 1..NValues /\ object'[h] = object[h] /\ (h \in Tables => TableOf(h)' = TableOf(h))
            \/ ContentOK(h)' /\ (object'[h].kind = "vector" => values'[h].type \notin PrimVector)
  <2> TAKE h \in 1..NValues'
  <2>1. CASE h \in 1..NValues
    BY <1>2, <1>4, <2>1
  <2>2. CASE \E n \in 1..L : h = NValues + n
    <3>1. object'[h].kind = "internal"
      BY <1>3, <2>2
    <3> QED BY <3>1 DEF ContentOK
  <2>3. CASE h = H
    BY <1>10, <2>3
  <2> QED BY <1>2, <2>1, <2>2, <2>3
<1>13. \A h \in Tables' : (h \in Tables /\ TableOf(h)'.parts = TableOf(h).parts) \/ PartsOK(h)'
  BY <1>4, <1>11
<1>14. ContentInv'
  BY <1>2, <1>6, <1>7, <1>12, <1>13, ContentGrows
<1> QED BY <1>2, <1>9, <1>14 DEF FaithInv, ImageInv

\* A change of one vector's items leaves every value what it is; those of a vector
\* of values are the client's.
LEMMA ItemsAreFaithful ==
  ASSUME SerializerInv, SerializerInv', FaithInv, NEW v \in Mine, NEW y, ChangesItems(v, y),
         object[v].kind = "vector" => Range(y) \subseteq Mine
  PROVE  FaithInv'
<1> DEFINE o == [object[v] EXCEPT !.holds = y]
<1>1. /\ phase = "build" /\ phase' = "build" /\ count' = count
      /\ values' = values /\ outs' = outs /\ blobs' = blobs /\ tables' = tables
      /\ object' = [object EXCEPT ![v] = o] /\ object[v].kind \in {"vector", "native"}
  BY DEF ChangesItems
<1>2. /\ TypeOK /\ TypeOK' /\ NValues \in Nat /\ DOMAIN object = 1..NValues /\ IsSequence(object)
      /\ OrderInv /\ ContentInv
  BY TypeFacts DEF SerializerInv, TypeOK, FaithInv
<1>3. v \in 1..NValues /\ DOMAIN object[v] = {"kind", "holds"}
  BY <1>2 DEF Mine, TypeOK
<1>4. o.kind = object[v].kind /\ o.holds = y
  BY <1>3
<1> HIDE DEF o
<1>5. /\ NValues' = NValues /\ DOMAIN object' = 1..NValues
      /\ \A h \in 1..NValues : object'[h] = IF h = v THEN o ELSE object[h]
  BY <1>1, <1>2, SequenceUpdate DEF NValues
<1>6. Extends /\ Mine' = Mine /\ NewHandles = {}
  <2>1. Extends /\ NewHandles = {}
    BY <1>1, <1>2, <1>5 DEF Extends, NewHandles
  <2>2. Mine' = Mine
    BY <1>2, <1>4, <1>5 DEF Mine
  <2> QED BY <2>1, <2>2
<1>7. OrderInv'
  BY <1>1, <1>2, <1>6, OrderStays
<1>8. Tables' = Tables /\ \A h \in Tables : TableOf(h)' = TableOf(h)
  BY <1>1, <1>5 DEF Tables, TableOf
<1>9. ContentOK(v)' /\ (object'[v].kind = "vector" => values'[v].type \notin PrimVector)
  <2>1. ContentOK(v)
    BY <1>2, <1>3 DEF ContentInv
  <2>2. object[v].kind = "vector" => values[v].type \notin PrimVector
    BY <1>1, <1>2, <1>3 DEF ContentInv
  <2>3. object'[v].kind = object[v].kind /\ object'[v].holds = y
    BY <1>3, <1>4, <1>5
  <2> QED BY <1>1, <1>6, <2>1, <2>2, <2>3 DEF ContentOK
<1>10. ContentInv'
  <2>1. \A h \in 1..NValues' :
            \/ h \in 1..NValues /\ object'[h] = object[h] /\ (h \in Tables => TableOf(h)' = TableOf(h))
            \/ ContentOK(h)' /\ (object'[h].kind = "vector" => values'[h].type \notin PrimVector)
    BY <1>5, <1>8, <1>9
  <2>2. \A h \in Tables' : (h \in Tables /\ TableOf(h)'.parts = TableOf(h).parts) \/ PartsOK(h)'
    BY <1>8
  <2> QED BY <1>1, <1>2, <1>6, <2>1, <2>2, ContentGrows
<1> QED BY <1>1, <1>7, <1>10 DEF FaithInv, ImageInv

\* An item is appended to a vector.
LEMMA AppendIsFaithful ==
  ASSUME SerializerInv, SerializerInv', FaithInv, NEW v \in Mine, NEW x, VectorAppend(v, x)
  PROVE  FaithInv'
<1> DEFINE y == Append(object[v].holds, x)
<1>1. /\ phase = "build" /\ object[v].kind \in {"vector", "native"}
      /\ values[v].type # "VECTOR_EMPTY" /\ ~values[v].outside
      /\ object[v].kind = "vector" => x \in Mine
  BY DEF VectorAppend, RoomForItem
<1>2. v \in 1..NValues /\ privs[values[v].data + 1].items = object[v].holds
  BY <1>1, OwnVector
<1>3. IsSequence(object[v].holds)
  BY <1>2, TypeFacts DEF SerializerInv, TypeOK
<1>4. IsSequence(y) /\ y # <<>>
  BY <1>3, SequencePush
<1>5. ChangesItems(v, y)
  BY <1>2, <1>4 DEF VectorAppend, RoomForItem, ChangesItems, output
<1>6. ASSUME object[v].kind = "vector" PROVE Range(y) \subseteq Mine
  <2>1. Range(object[v].holds) \subseteq Mine
    BY <1>2, <1>6 DEF FaithInv, ContentInv, ContentOK
  <2>2. object[v].holds \in Seq(Mine)
    <3>1. object[v].holds \in Seq(Range(object[v].holds))
      BY <1>3 DEF IsSequence
    <3> QED BY <2>1, <3>1
  <2>3. y \in Seq(Mine)
    BY <1>1, <1>6, <2>2
  <2> HIDE DEF y
  <2> QED BY <2>3 DEF Range
<1> HIDE DEF y
<1> QED BY <1>5, <1>6, ItemsAreFaithful

\* An item of a vector is replaced.
LEMMA SetIsFaithful ==
  ASSUME SerializerInv, SerializerInv', FaithInv, NEW v \in Mine, NEW n, NEW x \in Mine, VectorSet(v, n, x)
  PROVE  FaithInv'
<1> DEFINE y == [object[v].holds EXCEPT ![n] = x]
<1>1. phase = "build" /\ object[v].kind = "vector" /\ n \in DOMAIN object[v].holds
  BY DEF VectorSet
<1>2. v \in 1..NValues /\ IsSequence(object[v].holds)
  BY TypeFacts DEF SerializerInv, TypeOK
<1>3. values[v].type # "VECTOR_EMPTY" /\ ~values[v].outside
  <2>1. HandleOK(v)
    BY <1>2 DEF SerializerInv, HandleInv
  <2>2. object[v].holds # <<>>
    BY <1>1, EmptySequence
  <2> QED BY <1>1, <2>1, <2>2 DEF HandleOK, IsVector, IsEmpty, PrimVector, ValueVector
<1>4. privs[values[v].data + 1].items = object[v].holds
  BY <1>1, <1>3, OwnVector
<1>5. IsSequence(y) /\ y # <<>>
  <2>1. IsSequence(y) /\ DOMAIN y = DOMAIN object[v].holds
    BY <1>2, SequenceUpdate
  <2> QED BY <1>1, <2>1, EmptySequence
<1>6. ChangesItems(v, y)
  BY <1>1, <1>3, <1>4, <1>5 DEF VectorSet, ChangesItems, output
<1>7. Range(y) \subseteq Mine
  <2>1. Range(object[v].holds) \subseteq Mine
    BY <1>1, <1>2 DEF FaithInv, ContentInv, ContentOK
  <2> QED BY <2>1 DEF Range
<1> HIDE DEF y
<1> QED BY <1>6, <1>7, ItemsAreFaithful

\* A key is added to a set, or a key and a value to a map.
LEMMA AddIsFaithful ==
  ASSUME SerializerInv, SerializerInv', FaithInv, NEW s \in Mine, NEW k \in Mine, NEW v \in Mine, TableAdd(s, k, v)
  PROVE  FaithInv'
<1>1. HasKey(s, k, v)
  BY KeyIsAdded
<1>2. /\ phase = "build" /\ phase' = "build" /\ count' = count
      /\ values' = values /\ outs' = outs /\ blobs' = blobs
      /\ s \in Tables /\ s \in 1..NValues /\ object[s].kind \in {"set", "map"} /\ IsSequence(object[s].holds)
      /\ NValues' = NValues /\ DOMAIN object' = 1..NValues
      /\ object'[s].kind = object[s].kind /\ object'[s].holds = Append(object[s].holds, <<k, v>>)
      /\ \A h \in 1..NValues : h # s => object'[h] = object[h]
  BY <1>1 DEF HasKey
<1>3. /\ TableOf(s)'.keys = Append(TableOf(s).keys, k) /\ TableOf(s)'.parts = TableOf(s).parts
      /\ values[s].type = "MAP" => TableOf(s)'.vals = Append(TableOf(s).vals, v)
  BY <1>1 DEF HasKey, TableOf
<1>4. ASSUME NEW h \in Tables, h # s PROVE TableOf(h)' = TableOf(h)
  <2>1. \A u \in TableType : \A e \in DOMAIN tables[u] :
          ~(u = values[s].type /\ e = values[s].data + 1) => tables'[u][e] = tables[u][e]
    BY <1>1 DEF HasKey
  <2>2. values[h].type \in TableType /\ values[h].data + 1 \in DOMAIN tables[values[h].type]
    BY DEF Tables, SerializerInv, NumberInv, TablesAreNumbered
  <2>3. ~(values[h].type = values[s].type /\ values[h].data + 1 = values[s].data + 1)
    <3>1. values[h].data \in Int /\ values[s].data \in Int /\ h \in 1..NValues /\ NValues \in Nat
      BY <1>2, TypeFacts, ValueFields DEF Tables, SerializerInv
    <3>2. h < s \/ s < h
      BY <1>2, <1>4, <3>1
    <3>3. values[h].type = values[s].type => values[h].data # values[s].data
      BY <1>2, <3>1, <3>2 DEF SerializerInv, NumberInv, TablesAreNumbered
    <3> QED BY <3>1, <3>3
  <2> QED BY <1>2, <2>1, <2>2, <2>3 DEF TableOf
<1>5. TypeOK /\ TypeOK' /\ NValues \in Nat /\ DOMAIN object = 1..NValues /\ OrderInv /\ ContentInv
  BY TypeFacts DEF SerializerInv, FaithInv
<1>6. Extends /\ Mine' = Mine /\ NewHandles = {} /\ Tables' = Tables
  <2>1. Extends /\ NewHandles = {}
    BY <1>2, <1>5 DEF Extends, NewHandles
  <2>2. Mine' = Mine
    BY <1>2, <1>5 DEF Mine
  <2>3. Tables' = Tables
    BY <1>2 DEF Tables
  <2> QED BY <2>1, <2>2, <2>3
<1>7. OrderInv'
  BY <1>2, <1>5, <1>6, OrderStays
<1>8. ContentOK(s)'
  <2>1. ContentOK(s) /\ HandleOK(s)
    BY <1>2, <1>5 DEF ContentInv, SerializerInv, HandleInv
  <2>2. TableOf(s).keys = Column(object[s].holds, 1)
    BY <1>2, <2>1 DEF ContentOK
  <2>3. TableOf(s)'.keys = Column(object'[s].holds, 1)
    BY <1>2, <1>3, <2>2, ColumnFacts
  <2>4. ASSUME object[s].kind = "map" PROVE TableOf(s)'.vals = Column(object'[s].holds, 2)
    <3>1. TableOf(s).vals = Column(object[s].holds, 2) /\ values[s].type = "MAP"
      BY <2>1, <2>4 DEF ContentOK, HandleOK
    <3>2. TableOf(s)'.vals = Append(Column(object[s].holds, 2), v)
      BY <1>3, <3>1
    <3>3. Column(Append(object[s].holds, <<k, v>>), 2) = Append(Column(object[s].holds, 2), v)
      BY <1>2, ColumnFacts
    <3> QED BY <1>2, <3>2, <3>3
  <2> QED BY <1>2, <2>3, <2>4 DEF ContentOK
<1>9. ContentInv'
  <2>1. \A h \in 1..NValues' :
            \/ h \in 1..NValues /\ object'[h] = object[h] /\ (h \in Tables => TableOf(h)' = TableOf(h))
            \/ ContentOK(h)' /\ (object'[h].kind = "vector" => values'[h].type \notin PrimVector)
    BY <1>2, <1>4, <1>8
  <2>2. \A h \in Tables' : (h \in Tables /\ TableOf(h)'.parts = TableOf(h).parts) \/ PartsOK(h)'
    BY <1>3, <1>4, <1>6
  <2>3. \A p \in {"text", "bits"} : \A d \in DOMAIN blobs[p] : d \in DOMAIN blobs'[p] /\ blobs'[p][d] = blobs[p][d]
    BY <1>2
  <2> QED BY <1>2, <1>5, <1>6, <2>1, <2>2, <2>3, ContentGrows
<1> QED BY <1>2, <1>7, <1>9 DEF FaithInv, ImageInv

\* The root is set.
LEMMA RootIsFaithful ==
  ASSUME SerializerInv, SerializerInv', FaithInv, NEW h \in Mine, SetRoot(h)
  PROVE  FaithInv'
<1>1. /\ phase = "build" /\ phase' = "build" /\ count' = count
      /\ values' = values /\ outs' = outs /\ blobs' = blobs /\ tables' = tables /\ object' = object
  BY DEF SetRoot, output
<1>2. /\ TypeOK /\ TypeOK' /\ NValues \in Nat /\ NValues' = NValues /\ OrderInv /\ ContentInv
  BY <1>1, TypeFacts DEF SerializerInv, FaithInv, NValues
<1>3. Extends /\ Mine' = Mine /\ NewHandles = {}
  BY <1>1, <1>2 DEF Extends, NewHandles, Mine
<1>4. OrderInv'
  BY <1>1, <1>2, <1>3, OrderStays
<1>5. Tables' = Tables /\ \A g \in Tables : TableOf(g)' = TableOf(g)
  BY <1>1, <1>2 DEF Tables, TableOf
<1>6. ContentInv'
  BY <1>1, <1>2, <1>3, <1>5, ContentGrows
<1> QED BY <1>1, <1>4, <1>6 DEF FaithInv, ImageInv

\* Every call of the client.
LEMMA ClientIsFaithful ==
  ASSUME SerializerInv, SerializerInv', FaithInv, Client
  PROVE  FaithInv'
<1>1. ASSUME NEW t \in Native, NEW s \in BoundedSeq(NativeItem, MaxItems), CreateOutside(t, s)
      PROVE  FaithInv'
  <2>1. s \in Seq(NativeItem)
    BY BoundAssumption DEF BoundedSeq, SeqOf
  <2> QED BY <1>1, <2>1, OutsideIsFaithful
<1> QED
  BY <1>1, InlineIsFaithful, BlobIsFaithful, VectorIsFaithful, TableIsFaithful, FailedTableIsFaithful,
     AppendIsFaithful, SetIsFaithful, AddIsFaithful, RootIsFaithful DEF Client

-----------------------------------------------------------------------------
(* Each step of the output keeps FaithInv *)

\* The phases in which the vectors have been renumbered, and those before compression is over.
Late == {"mark", "tag", "compress", "sets", "maps", "write", "written"}
Early == {"build", "renumber", "mark", "tag", "compress"}

\* What the values are numbered by stays as it is.
SameClass(h) ==
  /\ values'[h].data = values[h].data /\ values'[h].outside = values[h].outside
  /\ \/ values'[h].type = values[h].type
     \/ /\ {values[h].type, values'[h].type} \subseteq PrimVector \cup ValueVector
        /\ ~values[h].outside

\* Then the classes are the same.
LEMMA ClassesStay ==
  ASSUME NValues' = NValues, \A h \in 1..NValues : SameClass(h)
  PROVE  /\ Strings' = Strings /\ Of({"BITVECTOR"})' = Of({"BITVECTOR"}) /\ Outsides' = Outsides
         /\ Vectors' = Vectors /\ \A t \in TableType : Of({t})' = Of({t})
         /\ \A S, n : S \subseteq 1..NValues => (Numbered(S, n) <=> Ranks(values', S, n))
<1>1. \A h \in 1..NValues : values'[h].outside = values[h].outside /\ values'[h].data = values[h].data
  BY DEF SameClass
<1>2. ASSUME NEW ts, ts \cap (PrimVector \cup ValueVector) = {} PROVE Of(ts)' = Of(ts)
  <2>1. \A h \in 1..NValues : values'[h].type \in ts <=> values[h].type \in ts
    BY <1>2 DEF SameClass
  <2> QED BY <2>1 DEF Of
<1>3. Strings' = Strings /\ Of({"BITVECTOR"})' = Of({"BITVECTOR"}) /\ \A t \in TableType : Of({t})' = Of({t})
  BY <1>2 DEF Strings, PrimVector, ValueVector, TableType
<1>4. Vectors' = Vectors
  <2>1. \A h \in 1..NValues : values'[h].type \in PrimVector \cup ValueVector
                              <=> values[h].type \in PrimVector \cup ValueVector
    BY DEF SameClass
  <2> QED BY <1>1, <2>1 DEF Vectors, Of
<1>5. Outsides' = Outsides
  <2>1. \A h \in 1..NValues : values[h].outside => values'[h].type = values[h].type
    BY DEF SameClass
  <2> QED BY <1>1, <2>1 DEF Outsides, Of
<1>6. ASSUME NEW S, NEW n, S \subseteq 1..NValues PROVE Numbered(S, n) <=> Ranks(values', S, n)
  <2>1. Ranks(values, S, n) => Ranks(values', S, n)
    BY <1>1, <1>6, RanksSame
  <2>2. Ranks(values', S, n) => Ranks(values, S, n)
    BY <1>1, <1>6, RanksSame
  <2> QED BY <2>1, <2>2, NumberedIsRanks
<1> QED BY <1>3, <1>4, <1>5, <1>6

\* The order in a step after the renumbering, and in one that ends the output.
LEMMA OrderAfter ==
  ASSUME OrderInv, NValues' = NValues, \A h \in 1..NValues : SameClass(h),
         blobs' = blobs, Len(outs') = Len(outs), \A t \in TableType : Len(tables[t])' = Len(tables[t]),
         phase' \notin {"build", "renumber"},
         phase' \in Late => phase \in Late /\ count' = count /\ Len(privs') = Len(privs)
  PROVE  OrderInv'
<1>1. /\ Strings \subseteq 1..NValues /\ Of({"BITVECTOR"}) \subseteq 1..NValues
      /\ Outsides \subseteq 1..NValues /\ Vectors \subseteq 1..NValues
  BY DEF Strings, Outsides, Vectors, Of
<1>2. ASSUME NEW S, NEW n PROVE Numbered(S, n)' <=> Ranks(values', S', n')
  BY DEF Numbered, Ranks
<1>3. /\ Numbered(Strings, Len(blobs.text))' /\ Numbered(Of({"BITVECTOR"}), Len(blobs.bits))'
      /\ Numbered(Outsides, Len(outs))'
  <2>1. /\ Ranks(values', Strings, Len(blobs.text)) /\ Ranks(values', Of({"BITVECTOR"}), Len(blobs.bits))
        /\ Ranks(values', Outsides, Len(outs))
    BY <1>1, ClassesStay DEF OrderInv
  <2>2. Strings' = Strings /\ Of({"BITVECTOR"})' = Of({"BITVECTOR"}) /\ Outsides' = Outsides
    BY ClassesStay
  <2>3. /\ Ranks(values', Strings', Len(blobs'.text)) /\ Ranks(values', Of({"BITVECTOR"})', Len(blobs'.bits))
        /\ Ranks(values', Outsides', Len(outs'))
    BY <2>1, <2>2
  <2> QED BY <2>3 DEF Numbered, Ranks
<1>4. ASSUME phase' \in Late
      PROVE  /\ count'.out = Len(outs') /\ \A t \in TableType : count'[t] = Len(tables[t])'
             /\ Numbered(Vectors, Len(privs))'
  <2>1. /\ count.out = Len(outs) /\ \A t \in TableType : count[t] = Len(tables[t])
        /\ Numbered(Vectors, Len(privs))
    BY <1>4 DEF OrderInv, Late
  <2>2. Ranks(values', Vectors', Len(privs'))
    BY <1>1, <1>4, <2>1, ClassesStay
  <2> QED BY <1>4, <2>1, <2>2 DEF Numbered, Ranks
<1> QED BY <1>3, <1>4 DEF OrderInv, Late

\* What the client built stays, and no set or map is newly laid out.
LEMMA ContentStays ==
  ASSUME SerializerInv, ContentInv, values' = values, object' = object, blobs' = blobs, tables' = tables,
         phase' \in Early => phase \in Early,
         \A h \in Tables : LaidOut(h)' => LaidOut(h) /\ privs' = privs
  PROVE  ContentInv'
<1>1. NValues' = NValues /\ Mine' = Mine /\ Tables' = Tables
  BY DEF NValues, Mine, Tables
<1>2. ASSUME NEW h \in 1..NValues PROVE ContentOK(h)'
  <2>1. ContentOK(h)
    BY DEF ContentInv
  <2> QED BY <1>1, <2>1 DEF ContentOK, FitsItems, TableOf, Convert
<1>3. ASSUME NEW h \in Tables PROVE PartsOK(h)'
  <2>1. PartsOK(h)
    BY DEF ContentInv
  <2>2. TableOf(h)' = TableOf(h) /\ Slot' = Slot
    BY <1>1 DEF TableOf, Slot
  <2>3. LaidOut(h)' => \A x : Vec(x)' = Vec(x)
    BY DEF Vec
  <2> QED BY <2>1, <2>2, <2>3 DEF PartsOK
<1>4. phase' \in Early => \A h \in 1..NValues : object'[h].kind = "vector" => values'[h].type \notin PrimVector
  BY DEF ContentInv, Early
<1> QED BY <1>1, <1>2, <1>3, <1>4 DEF ContentInv, Early

\* The image is made of what the client built and the numbers it got.
LEMMA ImageStays ==
  ASSUME build' = build, count' = count
  PROVE  Image' = Image
<1>1. /\ values' = values /\ privs' = privs /\ outs' = outs /\ blobs' = blobs /\ tables' = tables
      /\ root' = root /\ object' = object
  BY DEF build
<1>2. \A ts : Of(ts)' = Of(ts)
  BY <1>1 DEF Of, NValues
<1>3. Strings' = Strings /\ Vectors' = Vectors /\ Outsides' = Outsides
  BY <1>1, <1>2 DEF Strings, Vectors, Outsides
<1>4. HeapOrder' = HeapOrder
  <2>1. /\ Of({"BITVECTOR"})' = Of({"BITVECTOR"})
        /\ Of({"SET"})' = Of({"SET"}) /\ Of({"MAP"})' = Of({"MAP"})
    BY <1>2
  <2> QED BY <1>3, <2>1, Zenon DEF HeapOrder
<1>5. \A h : VectorItems(h)' = VectorItems(h) /\ TableOf(h)' = TableOf(h) /\ Vec(h)' = Vec(h)
  BY <1>1 DEF VectorItems, TableOf, Vec
<1>6. \A h : HeapSize(h)' = HeapSize(h)
  BY <1>1, <1>5 DEF HeapSize
<1>7. \A h : OffsetSize(h)' = OffsetSize(h)
  BY <1>1, <1>6 DEF OffsetSize
<1>8. OffsetAt' = OffsetAt
  <2>1. [n \in DOMAIN HeapOrder |-> OffsetSize(HeapOrder[n])]' = [n \in DOMAIN HeapOrder |-> OffsetSize(HeapOrder[n])]
    BY <1>4, <1>7
  <2> QED BY <2>1, Zenon DEF OffsetAt
<1>9. PositionAt' = PositionAt
  <2>1. [n \in DOMAIN HeapOrder |-> HeapSize(HeapOrder[n])]' = [n \in DOMAIN HeapOrder |-> HeapSize(HeapOrder[n])]
    BY <1>4, <1>6
  <2>2. HeapBase' = HeapBase
    BY <1>4 DEF HeapBase
  <2> QED BY <1>4, <2>1, <2>2, Zenon DEF PositionAt
<1>10. \A h : ToRead(h)' = ToRead(h)
  BY <1>1 DEF ToRead
<1>11. ASSUME NEW h PROVE Record(h)' = Record(h)
  BY <1>1, <1>5, <1>10 DEF Record, Convert
<1> QED BY <1>1, <1>4, <1>8, <1>9, <1>10, <1>11 DEF Image

\* Steps that write nothing but marks, the phase and the file.
LEMMA MarkIsFaithful ==
  ASSUME SerializerInv, FaithInv, MarkCycles \/ HashCrashes \/ TablesDone \/ WriteFile \/ OutputFails
  PROVE  FaithInv'
<1>1. build' = build /\ count' = count
  BY DEF MarkCycles, HashCrashes, TablesDone, WriteFile, OutputFails
<1>2. /\ values' = values /\ privs' = privs /\ outs' = outs /\ blobs' = blobs /\ tables' = tables
      /\ object' = object
  BY <1>1 DEF build
<1>3. /\ phase \in {"mark", "sets", "maps", "write"}
      /\ phase' \in {"tag", "maps", "write", "written", "undefined", "failed"}
      /\ phase' \in Early => phase \in Early
  BY DEF MarkCycles, HashCrashes, TablesDone, WriteFile, OutputFails, Goto, Populating, Early
<1>4. OrderInv'
  <2>1. NValues' = NValues /\ \A h \in 1..NValues : SameClass(h)
    BY <1>2 DEF NValues, SameClass
  <2>2. phase' \notin {"build", "renumber"} /\ phase \in Late
    BY <1>3 DEF Late
  <2> QED BY <1>1, <1>2, <2>1, <2>2, OrderAfter DEF FaithInv
<1>5. ContentInv'
  BY <1>2, <1>3, NothingIsLaidOut, ContentStays DEF FaithInv
<1>6. ImageInv'
  <2>1. CASE WriteFile
    BY <1>1, <2>1, ImageStays DEF WriteFile, ImageInv
  <2>2. CASE ~WriteFile
    <3>1. phase' # "written"
      BY <2>2 DEF MarkCycles, HashCrashes, TablesDone, OutputFails, Goto
    <3> QED BY <3>1 DEF ImageInv
  <2> QED BY <2>1, <2>2
<1> QED BY <1>4, <1>5, <1>6 DEF FaithInv

\* The output comes to an end, or runs out of memory in the middle of the renumbering.
LEMMA EndIsFaithful ==
  ASSUME SerializerInv, FaithInv, End \/ RenumberFails
  PROVE  FaithInv'
<1>1. /\ values' = values /\ outs' = outs /\ blobs' = blobs /\ tables' = tables /\ object' = object
      /\ phase' \in {"done", "lost", "ended", "leaked"}
  <2>1. CASE End
    BY <2>1 DEF End, Goto
  <2>2. CASE RenumberFails
    BY <2>2 DEF RenumberFails, Goto, build
  <2> QED BY <2>1, <2>2
<1>2. NValues' = NValues /\ \A h \in 1..NValues : SameClass(h)
  BY <1>1 DEF NValues, SameClass
<1>3. phase' \notin Early /\ phase' \notin Late /\ \A h : ~LaidOut(h)'
  BY <1>1 DEF Early, Late, LaidOut
<1>4. OrderInv'
  BY <1>1, <1>2, <1>3, OrderAfter DEF FaithInv, Early
<1>5. ContentInv'
  BY <1>1, <1>3, ContentStays DEF FaithInv
<1> QED BY <1>1, <1>4, <1>5 DEF FaithInv, ImageInv

-----------------------------------------------------------------------------
(* The renumbering *)

\* Counted, of any values and place.
CountsTo(vs, k, c, S, n) == c \in 0..n /\ \A h \in S : h < k <=> vs[h].data < c

\* It says the same of the values and the place as they are.
LEMMA CountedIsCountsTo == \A c, S, n : Counted(c, S, n) <=> CountsTo(values, i, c, S, n)
  BY DEF Counted, CountsTo

\* The count goes on when the place passes one that is counted.
LEMMA CountNext ==
  ASSUME NEW vs, NEW S \in SUBSET Int, NEW n \in Nat, Ranks(vs, S, n), NEW k \in Int, NEW c,
         CountsTo(vs, k, c, S, n)
  PROVE  CountsTo(vs, k + 1, IF k \in S THEN c + 1 ELSE c, S, n)
<1>1. c \in 0..n /\ \A h \in S : vs[h].data \in 0..(n - 1) /\ (h < k <=> vs[h].data < c)
  BY DEF CountsTo, Ranks
<1>2. \A g, h \in S : g < h => vs[g].data < vs[h].data
  BY DEF Ranks
<1>3. CASE k \notin S
  <2>1. \A h \in S : h < k + 1 <=> h < k
    BY <1>3
  <2> QED BY <1>1, <1>3, <2>1 DEF CountsTo
<1>4. CASE k \in S
  <2>1. PICK d : d = vs[k].data
    OBVIOUS
  <2>2. d \in 0..(n - 1) /\ ~(d < c)
    BY <1>1, <1>4, <2>1
  <2>3. c \in 0..(n - 1)
    BY <1>1, <2>2
  <2>4. PICK g \in S : vs[g].data = c
    BY <2>3 DEF Ranks
  <2>5. ~(g < k)
    BY <1>1, <2>3, <2>4
  <2>6. ~(k < g)
    <3> SUFFICES ASSUME k < g PROVE FALSE
      OBVIOUS
    <3>1. d < c
      BY <1>2, <1>4, <2>1, <2>4
    <3> QED BY <2>2, <3>1
  <2>7. d = c
    BY <1>4, <2>1, <2>4, <2>5, <2>6
  <2>8. ASSUME NEW h \in S PROVE h < k + 1 <=> vs[h].data < c + 1
    <3>1. PICK e : e = vs[h].data
      OBVIOUS
    <3>2. e \in 0..(n - 1) /\ (h < k <=> e < c) /\ (k < h => c < e)
      BY <1>1, <1>2, <1>4, <2>1, <2>7, <3>1
    <3>3. h = k => e = c
      BY <2>1, <2>7, <3>1
    <3> QED BY <2>3, <3>1, <3>2, <3>3
  <2> QED BY <1>4, <2>3, <2>8 DEF CountsTo
<1> QED BY <1>3, <1>4

\* A step of the renumbering, which may give the vector at hand a number or drop it.
Renumbered ==
  /\ phase = "renumber" /\ phase' = "renumber" /\ i \in 1..NValues /\ i' = i + 1
  /\ object' = object /\ blobs' = blobs /\ outs' = outs /\ tables' = tables
  /\ \A h \in 1..NValues : h # i => values'[h] = values[h]
  /\ \/ values'[i] = values[i]
     \/ i \in Vectors /\ ~values'[i].outside /\ values'[i].type \in PrimVector \cup ValueVector \cup {"VECTOR_EMPTY"}
  /\ count'.out = IF i \in Outsides THEN count.out + 1 ELSE count.out
  /\ \A t \in TableType : count'[t] = IF i \in Of({t}) THEN count[t] + 1 ELSE count[t]

\* What is in order then, besides the new array.
LEMMA RenumberedOrder ==
  ASSUME SerializerInv, OrderInv, Renumbered, Numbered({h \in Vectors : h < i}, Len(spare))'
  PROVE  OrderInv'
<1>1. /\ phase = "renumber" /\ phase' = "renumber" /\ i \in 1..NValues /\ i' = i + 1
      /\ object' = object /\ blobs' = blobs /\ outs' = outs /\ tables' = tables /\ NValues' = NValues
  BY DEF Renumbered, NValues
<1>2. /\ TypeOK /\ NValues \in Nat /\ i \in Int /\ 1..NValues \subseteq Int /\ Len(outs) \in Nat
      /\ \A t \in TableType : Len(tables[t]) \in Nat
  BY <1>1, TypeFacts DEF SerializerInv, TypeOK
<1>3. ASSUME NEW ts, ts \cap (PrimVector \cup ValueVector \cup {"VECTOR_EMPTY"}) = {}
      PROVE  Of(ts)' = Of(ts) /\ \A h \in Of(ts) : values'[h] = values[h]
  <2>1. ASSUME NEW h \in 1..NValues
        PROVE  /\ values'[h].type \in ts <=> values[h].type \in ts
               /\ values[h].type \in ts => values'[h] = values[h]
    <3>1. CASE values'[h] = values[h]
      BY <3>1
    <3>2. CASE values'[h] # values[h]
      <4>1. h = i /\ i \in Vectors /\ values'[i].type \in PrimVector \cup ValueVector \cup {"VECTOR_EMPTY"}
        BY <3>2 DEF Renumbered
      <4>2. values[h].type \in PrimVector \cup ValueVector
        BY <4>1 DEF Vectors, Of
      <4> QED BY <1>3, <4>1, <4>2
    <3> QED BY <3>1, <3>2
  <2> QED BY <1>1, <2>1 DEF Of
<1>4. /\ Strings' = Strings /\ \A h \in Strings : values'[h] = values[h]
      /\ Of({"BITVECTOR"})' = Of({"BITVECTOR"}) /\ \A h \in Of({"BITVECTOR"}) : values'[h] = values[h]
      /\ \A t \in TableType : Of({t})' = Of({t}) /\ \A h \in Of({t}) : values'[h] = values[h]
  BY <1>3 DEF Strings, PrimVector, ValueVector, TableType
<1>5. Outsides' = Outsides /\ \A h \in Outsides : values'[h] = values[h]
  <2>1. ASSUME NEW h \in 1..NValues
        PROVE  values'[h] = values[h] \/ (~values[h].outside /\ ~values'[h].outside)
    BY DEF Renumbered, Vectors
  <2> QED BY <1>1, <2>1 DEF Outsides, Of
<1>6. ASSUME NEW S, NEW n, Numbered(S, n), \A h \in S : values'[h] = values[h] PROVE Ranks(values', S, n)
  BY <1>6, NumberedIsRanks, RanksSame
<1>7. /\ Ranks(values', Strings, Len(blobs.text)) /\ Ranks(values', Of({"BITVECTOR"}), Len(blobs.bits))
      /\ Ranks(values', Outsides, Len(outs))
  BY <1>4, <1>5, <1>6 DEF OrderInv
<1>8. ASSUME NEW S, S \subseteq 1..NValues, NEW n \in Nat, NEW c, Counted(c, S, n), Ranks(values, S, n),
             \A h \in S : values'[h] = values[h]
      PROVE  CountsTo(values', i', IF i \in S THEN c + 1 ELSE c, S, n)
  <2>1. CountsTo(values, i + 1, IF i \in S THEN c + 1 ELSE c, S, n)
    BY <1>2, <1>8, CountedIsCountsTo, CountNext
  <2> QED BY <1>1, <1>8, <2>1 DEF CountsTo
<1>9. CountsTo(values', i', count'.out, Outsides, Len(outs))
  <2>1. Counted(count.out, Outsides, Len(outs)) /\ Ranks(values, Outsides, Len(outs)) /\ Outsides \subseteq 1..NValues
    BY <1>1, NumberedIsRanks DEF OrderInv, Outsides, Of
  <2>2. count'.out = IF i \in Outsides THEN count.out + 1 ELSE count.out
    BY DEF Renumbered
  <2> QED BY <1>2, <1>5, <1>8, <2>1, <2>2
<1>10. ASSUME NEW t \in TableType PROVE CountsTo(values', i', count'[t], Of({t}), Len(tables[t]))
  <2>1. Counted(count[t], Of({t}), Len(tables[t])) /\ Ranks(values, Of({t}), Len(tables[t])) /\ Of({t}) \subseteq 1..NValues
    BY <1>1, TablesAreRanked DEF OrderInv, Of
  <2>2. count'[t] = IF i \in Of({t}) THEN count[t] + 1 ELSE count[t]
    BY DEF Renumbered
  <2>3. PICK S, n, c : S = Of({t}) /\ n = Len(tables[t]) /\ c = count[t]
    OBVIOUS
  <2>4. S \subseteq 1..NValues /\ n \in Nat /\ Counted(c, S, n) /\ Ranks(values, S, n)
    BY <1>2, <2>1, <2>3
  <2>5. \A h \in S : values'[h] = values[h]
    BY <1>4, <2>3
  <2>6. CountsTo(values', i', IF i \in S THEN c + 1 ELSE c, S, n)
    BY <1>8, <2>4, <2>5
  <2> QED BY <2>2, <2>3, <2>6
<1>11. /\ Numbered(Strings, Len(blobs.text))' /\ Numbered(Of({"BITVECTOR"}), Len(blobs.bits))'
       /\ Numbered(Outsides, Len(outs))'
  <2>1. /\ Ranks(values', Strings', Len(blobs'.text)) /\ Ranks(values', Of({"BITVECTOR"})', Len(blobs'.bits))
        /\ Ranks(values', Outsides', Len(outs'))
    BY <1>1, <1>4, <1>5, <1>7
  <2> QED BY <2>1 DEF Numbered, Ranks
<1>12. Counted(count.out, Outsides, Len(outs))'
  <2>1. CountsTo(values', i', count'.out, Outsides', Len(outs'))
    BY <1>1, <1>5, <1>9
  <2> QED BY <2>1 DEF Counted, CountsTo
<1>13. \A t \in TableType : Counted(count[t], Of({t}), Len(tables[t]))'
  <2> TAKE t \in TableType
  <2>1. CountsTo(values', i', count'[t], Of({t})', Len(tables'[t]))
    BY <1>1, <1>4, <1>10
  <2> QED BY <2>1 DEF Counted, CountsTo
<1> QED BY <1>1, <1>11, <1>12, <1>13 DEF OrderInv

\* The vectors before the place, as the renumbering goes on.
LEMMA PlaceMoves ==
  ASSUME SerializerInv, i \in 1..NValues, i' = i + 1
  PROVE  \A S : S \subseteq 1..NValues => {h \in S : h < i'} = {h \in S : h < i} \cup {h \in S : h = i}
<1>1. NValues \in Nat /\ i \in Int
  BY TypeFacts DEF SerializerInv
<1>2. \A h \in 1..NValues : h < i + 1 <=> h < i \/ h = i
  BY <1>1
<1> QED BY <1>2

\* A value that is not a vector of the library's gets its number without moving.
LEMMA CountIsFaithful ==
  ASSUME SerializerInv, FaithInv, CountOutside \/ SkipValue \/ NumberTable
  PROVE  FaithInv'
<1>1. /\ phase = "renumber" /\ phase' = phase /\ i \in 1..NValues /\ i' = i + 1
      /\ privs' = privs /\ outs' = outs /\ blobs' = blobs /\ tables' = tables /\ object' = object
      /\ spare' = spare /\ values' = values
  <2>1. i \in Nat \ {0} /\ NValues \in Nat
    BY TypeFacts DEF SerializerInv, TypeOK
  <2>2. CASE CountOutside
    BY <2>1, <2>2 DEF CountOutside, Renumbering, build
  <2>3. CASE SkipValue
    BY <2>1, <2>3 DEF SkipValue, Renumbering, build
  <2>4. CASE NumberTable
    BY <2>1, <2>4, TableHasNumber DEF NumberTable, Renumbering
  <2> QED BY <2>2, <2>3, <2>4
<1>2. /\ count \in [{"out", "SET", "MAP"} -> Nat] /\ OrderInv /\ ContentInv /\ NValues' = NValues
      /\ TypeOK /\ values[i] \in ValueRecord
  BY <1>1, TypeFacts DEF SerializerInv, TypeOK, FaithInv, NValues
<1>3. i \notin Vectors
  <2>1. CASE CountOutside
    BY <2>1 DEF CountOutside, Vectors
  <2>2. CASE SkipValue
    BY <2>2 DEF SkipValue, Vectors, Of, InlineType, BlobType, PrimVector, ValueVector
  <2>3. CASE NumberTable
    BY <2>3 DEF NumberTable, Vectors, Of, TableType, PrimVector, ValueVector
  <2> QED BY <2>1, <2>2, <2>3
<1>4. /\ count'.out = IF i \in Outsides THEN count.out + 1 ELSE count.out
      /\ \A t \in TableType : count'[t] = IF i \in Of({t}) THEN count[t] + 1 ELSE count[t]
  <2>1. CASE CountOutside
    <3>1. i \in Outsides /\ \A t \in TableType : i \notin Of({t})
      BY <1>1, <2>1 DEF CountOutside, Outsides, Of, TableType, PrimVector
    <3>2. count' = [count EXCEPT !.out = count.out + 1]
      BY <2>1 DEF CountOutside
    <3>3. count'.out = count.out + 1 /\ \A t \in TableType : count'[t] = count[t]
      BY <1>2, <3>2 DEF TableType
    <3> QED BY <3>1, <3>3
  <2>2. CASE SkipValue
    <3>1. i \notin Outsides /\ \A t \in TableType : i \notin Of({t})
      BY <2>2 DEF SkipValue, Outsides, Of, TableType, PrimVector, InlineType, BlobType
    <3>2. count' = count
      BY <2>2 DEF SkipValue
    <3> QED BY <3>1, <3>2
  <2>3. CASE NumberTable
    <3>1. PICK u : u = values[i].type
      OBVIOUS
    <3>2. u \in TableType /\ count' = [count EXCEPT ![u] = count[u] + 1]
      BY <2>3, <3>1 DEF NumberTable
    <3>3. i \notin Outsides /\ \A t \in TableType : i \in Of({t}) <=> t = u
      BY <1>1, <3>1, <3>2 DEF Outsides, Of, TableType, PrimVector
    <3>4. count'.out = count.out /\ \A t \in TableType : count'[t] = IF t = u THEN count[t] + 1 ELSE count[t]
      BY <1>2, <3>2 DEF TableType
    <3> QED BY <3>3, <3>4
  <2> QED BY <2>1, <2>2, <2>3
<1>5. Renumbered
  BY <1>1, <1>4 DEF Renumbered
<1>6. Numbered({h \in Vectors : h < i}, Len(spare))'
  <2>1. Vectors' = Vectors /\ Vectors \subseteq 1..NValues
    BY <1>1, <1>2 DEF Vectors, Of
  <2>2. {h \in Vectors : h < i}' = {h \in Vectors : h < i}
    BY <1>1, <1>3, <2>1, PlaceMoves
  <2>3. Ranks(values', {h \in Vectors : h < i}', Len(spare'))
    BY <1>1, <1>2, <2>2, NumberedIsRanks DEF OrderInv
  <2> QED BY <2>3 DEF Numbered, Ranks
<1>7. OrderInv'
  BY <1>2, <1>5, <1>6, RenumberedOrder
<1>8. ContentInv'
  BY <1>1, <1>2, ContentStays DEF LaidOut, Early
<1> QED BY <1>1, <1>7, <1>8 DEF FaithInv, ImageInv

\* A vector without items is dropped, another one gets its number.
LEMMA MoveIsFaithful ==
  ASSUME SerializerInv, FaithInv, DropEmpty \/ KeepVector
  PROVE  FaithInv'
<1>1. /\ phase = "renumber" /\ phase' = phase /\ i \in 1..NValues /\ i' = i + 1 /\ count' = count
      /\ IsPrivVector(i)
      /\ outs' = outs /\ blobs' = blobs /\ tables' = tables /\ object' = object
  <2>1. i \in Nat \ {0} /\ NValues \in Nat
    BY TypeFacts DEF SerializerInv, TypeOK
  <2> QED BY <2>1 DEF DropEmpty, KeepVector, Renumbering
<1>2. /\ TypeOK /\ OrderInv /\ ContentInv /\ NValues \in Nat /\ NValues' = NValues /\ HandleOK(i)
      /\ 1..NValues \subseteq DOMAIN values /\ Mine' = Mine /\ IsSequence(spare) /\ Len(spare) \in Nat
  BY <1>1, TypeFacts DEF SerializerInv, HandleInv, FaithInv, NValues, Mine, TypeOK, IsVectorList
<1>3. PICK w \in ValueRecord : Renumbers(w)
  BY VectorIsRenumbered
<1>4. /\ values'[i] = w /\ \A h \in 1..NValues : h # i => values'[h] = values[h]
  <2>1. values' = [values EXCEPT ![i] = w]
    BY <1>3 DEF Renumbers
  <2> QED BY <1>1, <1>2, <1>3, <2>1, ValueUpdate
<1>5. /\ w.outside = values[i].outside /\ w.setmap = values[i].setmap /\ w.compressed = values[i].compressed
      /\ \/ w.type = "VECTOR_EMPTY" /\ ~values[i].setmap /\ spare' = spare
         \/ w.type = values[i].type /\ w.data = Len(spare) /\ spare' = Append(spare, Vec(i))
  BY <1>3 DEF Renumbers
<1>6. i \in Vectors /\ ~values[i].outside /\ values[i].type \in PrimVector \cup ValueVector
      /\ Vectors \subseteq 1..NValues
  BY <1>1 DEF IsPrivVector, Vectors, Of
<1>7. values[i].type \notin TableType /\ w.type \notin TableType
  BY <1>5, <1>6 DEF TableType, PrimVector, ValueVector
<1>8. Renumbered
  <2>1. i \notin Outsides /\ \A t \in TableType : i \notin Of({t})
    BY <1>6, <1>7 DEF Outsides, Of
  <2> QED BY <1>1, <1>4, <1>5, <1>6, <2>1 DEF Renumbered
<1>9. Numbered({h \in Vectors : h < i}, Len(spare))'
  <2> DEFINE S == {h \in Vectors : h < i}
  <2>1. Ranks(values, S, Len(spare)) /\ S \in SUBSET Int /\ i \in Int /\ i \notin S /\ S \subseteq 1..NValues
    <3>1. Ranks(values, S, Len(spare))
      <4>1. Numbered(S, Len(spare))
        BY <1>1, <1>2 DEF OrderInv
      <4> QED BY <4>1, NumberedIsRanks
    <3>2. S \subseteq 1..NValues /\ i \in Int /\ 1..NValues \subseteq Int
      <4>1. ASSUME NEW N \in Nat, NEW k \in 1..N PROVE k \in Int /\ 1..N \subseteq Int
        OBVIOUS
      <4>2. S \subseteq 1..NValues
        BY <1>6
      <4> QED BY <1>1, <1>2, <4>1, <4>2
    <3>3. i \notin S
      BY <3>2
    <3> QED BY <3>1, <3>2, <3>3
  <2>2. \A h \in S : values'[h].data = values[h].data /\ h < i
    BY <1>4, <2>1
  <2>3. Vectors' = {h \in 1..NValues : values'[h].type \in PrimVector \cup ValueVector /\ ~values'[h].outside}
    BY <1>2 DEF Vectors, Of
  <2>4. \A h \in 1..NValues : h # i => (h \in Vectors' <=> h \in Vectors)
    BY <1>4, <2>3 DEF Vectors, Of
  <2>5. Vectors' \subseteq 1..NValues
    BY <2>3
  <2>6. {h \in Vectors : h < i}' = {h \in Vectors' : h < i} \cup {h \in Vectors' : h = i}
    BY <1>1, <2>5, PlaceMoves
  <2>7. {h \in Vectors' : h < i} = S
    BY <1>6, <2>1, <2>4, <2>5
  <2> HIDE DEF S
  <2>8. CASE w.type = "VECTOR_EMPTY" /\ spare' = spare
    <3>1. i \notin Vectors'
      BY <1>4, <2>3, <2>8 DEF PrimVector, ValueVector
    <3>2. {h \in Vectors : h < i}' = S
      BY <2>6, <2>7, <3>1
    <3>3. Ranks(values', S, Len(spare))
      BY <2>1, <2>2, RanksSame
    <3>4. Ranks(values', {h \in Vectors : h < i}', Len(spare'))
      BY <2>8, <3>2, <3>3
    <3> QED BY <3>4 DEF Numbered, Ranks
  <2>9. CASE w.type = values[i].type /\ w.data = Len(spare) /\ spare' = Append(spare, Vec(i))
    <3>1. i \in Vectors'
      BY <1>1, <1>4, <1>5, <1>6, <2>3, <2>9
    <3>2. {h \in Vectors : h < i}' = S \cup {i}
      BY <2>6, <2>7, <3>1
    <3>3. values'[i].data = Len(spare)
      BY <1>4, <2>9
    <3>4. Ranks(values', S \cup {i}, Len(spare) + 1)
      BY <1>2, <2>1, <2>2, <3>3, RanksPush
    <3>5. Len(spare') = Len(spare) + 1
      BY <1>2, <2>9, SequencePush
    <3>6. Ranks(values', {h \in Vectors : h < i}', Len(spare'))
      BY <3>2, <3>4, <3>5
    <3> QED BY <3>6 DEF Numbered, Ranks
  <2> QED BY <1>5, <2>8, <2>9
<1>10. OrderInv'
  BY <1>2, <1>8, <1>9, RenumberedOrder
<1>11. ASSUME NEW h \in 1..NValues
       PROVE  ContentOK(h)' /\ (object'[h].kind = "vector" => values'[h].type \notin PrimVector)
  <2>1. /\ ContentOK(h) /\ object'[h] = object[h]
        /\ object[h].kind = "vector" => values[h].type \notin PrimVector
    BY <1>1, <1>2 DEF ContentInv
  <2>2. object[h].kind = "vector" => values'[h].type \notin PrimVector
    BY <1>4, <1>5, <2>1 DEF PrimVector
  <2>3. CASE h # i
    <3>1. values'[h] = values[h] /\ TableOf(h)' = TableOf(h)
      BY <1>1, <1>4, <2>3 DEF TableOf
    <3> QED BY <1>1, <1>2, <2>1, <2>2, <3>1 DEF ContentOK
  <2>4. CASE h = i
    <3>1. object[h].kind \in {"vector", "native", "internal"}
      <4>1. object[h].kind \in Kind
        BY <1>2, TypeFacts DEF TypeOK
      <4> QED BY <1>2, <1>6, <2>4, <4>1
               DEF HandleOK, Kind, PrimVector, ValueVector, InlineType, BlobType
    <3>2. values'[h] = w
      BY <1>4, <2>4
    <3>3. w.type \notin ValueVector \/ w.type = values[h].type
      BY <1>5, <2>4 DEF ValueVector
    <3> QED BY <1>1, <1>2, <1>5, <2>1, <2>2, <2>4, <3>1, <3>2, <3>3 DEF ContentOK
  <2> QED BY <2>2, <2>1, <2>3, <2>4
<1>12. Tables' = Tables /\ \A h \in Tables : h # i /\ TableOf(h)' = TableOf(h) /\ values'[h] = values[h]
  <2>1. Tables' = Tables /\ i \notin Tables
    BY <1>1, <1>2, <1>4, <1>7 DEF Tables
  <2>2. \A h \in Tables : h # i /\ h \in 1..NValues
    BY <2>1 DEF Tables
  <2>3. \A h \in Tables : values'[h] = values[h]
    BY <1>4, <2>2
  <2> QED BY <1>1, <2>1, <2>2, <2>3 DEF TableOf
<1>13. ASSUME NEW h \in Tables PROVE PartsOK(h)'
  <2>1. PartsOK(h) /\ ~LaidOut(h)'
    BY <1>1, <1>2 DEF ContentInv, LaidOut
  <2>2. ASSUME NEW n \in DOMAIN TableOf(h).parts
        PROVE  values'[TableOf(h).parts[n]].type = values[TableOf(h).parts[n]].type
    <3>1. PICK p : p = TableOf(h).parts[n]
      OBVIOUS
    <3>2. p \in 1..NValues /\ values[p].setmap
      BY <3>1 DEF SerializerInv, PartInv
    <3>3. values'[p].type = values[p].type
      BY <1>4, <1>5, <3>2
    <3> QED BY <3>1, <3>3
  <2>3. 1 \in DOMAIN TableOf(h).parts
    <3>1. TableOf(h).parts \in Seq(Nat) /\ Len(TableOf(h).parts) \in {2, 3}
      BY TablesHaveParts DEF SerializerInv, PartInv
    <3> QED BY <3>1
  <2> QED BY <1>12, <2>1, <2>2, <2>3 DEF PartsOK
<1>14. ContentInv'
  BY <1>2, <1>11, <1>12, <1>13 DEF ContentInv
<1> QED BY <1>1, <1>10, <1>14 DEF FaithInv, ImageInv

\* The new array takes the place of the old one.
LEMMA SwapIsFaithful ==
  ASSUME SerializerInv, FaithInv, SwapVectors
  PROVE  FaithInv'
<1>1. /\ phase = "renumber" /\ phase' = "mark" /\ i > NValues /\ count' = count /\ privs' = spare
      /\ values' = values /\ outs' = outs /\ blobs' = blobs /\ tables' = tables /\ object' = object
  BY DEF SwapVectors, Goto
<1>2. /\ NValues \in Nat /\ i \in Int /\ NValues' = NValues /\ OrderInv /\ ContentInv
      /\ Len(outs) \in Nat
  BY <1>1, TypeFacts DEF SerializerInv, TypeOK, FaithInv, NValues
<1>3. \A S : S \subseteq 1..NValues => \A h \in S : h < i
  BY <1>1, <1>2
<1>4. ASSUME NEW c, NEW S, S \subseteq 1..NValues, NEW n \in Nat, Counted(c, S, n), Ranks(values, S, n) PROVE c = n
  <2>1. c \in 0..n /\ \A h \in S : values[h].data < c
    BY <1>3, <1>4 DEF Counted
  <2>2. CASE c # n
    <3>1. c \in 0..(n - 1)
      BY <2>1, <2>2
    <3>2. PICK h \in S : values[h].data = c
      BY <1>4, <3>1 DEF Ranks
    <3>3. c < c
      BY <2>1, <3>2
    <3> QED BY <3>1, <3>3
  <2> QED BY <2>2
<1>5. count.out = Len(outs)
  <2>1. Counted(count.out, Outsides, Len(outs)) /\ Ranks(values, Outsides, Len(outs)) /\ Outsides \subseteq 1..NValues
    BY <1>1, <1>2, NumberedIsRanks DEF OrderInv, Outsides, Of
  <2> QED BY <1>2, <1>4, <2>1
<1>6. ASSUME NEW t \in TableType PROVE count[t] = Len(tables[t])
  <2>1. PICK S, n, c : S = Of({t}) /\ n = Len(tables[t]) /\ c = count[t]
    OBVIOUS
  <2>2. n \in Nat
    BY <2>1 DEF SerializerInv, TypeOK
  <2>3. S \subseteq 1..NValues /\ Counted(c, S, n) /\ Ranks(values, S, n)
    BY <1>1, <1>2, <2>1, TablesAreRanked DEF OrderInv, Of
  <2> QED BY <1>4, <2>1, <2>2, <2>3
<1>7. Numbered(Vectors, Len(spare))
  <2>1. Vectors \subseteq 1..NValues
    BY DEF Vectors, Of
  <2>2. {h \in Vectors : h < i} = Vectors
    BY <1>3, <2>1
  <2> QED BY <1>1, <1>2, <2>2 DEF OrderInv
<1>8. OrderInv'
  <2>1. \A ts : Of(ts)' = Of(ts)
    BY <1>1, <1>2 DEF Of
  <2>2. Strings' = Strings /\ Vectors' = Vectors /\ Outsides' = Outsides
    BY <1>1, <2>1 DEF Strings, Vectors, Outsides
  <2>3. /\ Ranks(values', Strings', Len(blobs'.text)) /\ Ranks(values', Of({"BITVECTOR"})', Len(blobs'.bits))
        /\ Ranks(values', Outsides', Len(outs')) /\ Ranks(values', Vectors', Len(privs'))
    BY <1>1, <1>2, <1>7, <2>1, <2>2, NumberedIsRanks DEF OrderInv
  <2>4. /\ Numbered(Strings, Len(blobs.text))' /\ Numbered(Of({"BITVECTOR"}), Len(blobs.bits))'
        /\ Numbered(Outsides, Len(outs))' /\ Numbered(Vectors, Len(privs))'
    BY <2>3 DEF Numbered, Ranks
  <2> QED BY <1>1, <1>5, <1>6, <2>4 DEF OrderInv
<1>9. ContentInv'
  <2>1. \A h : ~LaidOut(h)'
    BY <1>1 DEF LaidOut
  <2> QED BY <1>1, <1>2, <2>1, ContentStays DEF Early
<1> QED BY <1>1, <1>8, <1>9 DEF FaithInv, ImageInv

\* Output begins.
LEMMA BeginIsFaithful ==
  ASSUME SerializerInv, FaithInv, OutputBegin
  PROVE  FaithInv'
<1>1. /\ phase = "build" /\ phase' \in {"failed", "renumber"} /\ i' = 1 /\ count' = count /\ spare' = spare
      /\ values' = values /\ outs' = outs /\ blobs' = blobs /\ tables' = tables /\ object' = object
      /\ privs' = privs
  BY DEF OutputBegin, Goto, build
<1>2. /\ NValues \in Nat /\ NValues' = NValues /\ OrderInv /\ ContentInv /\ Len(outs) \in Nat
      /\ \A t \in TableType : Len(tables[t]) \in Nat
      /\ count.out = 0 /\ count.SET = 0 /\ count.MAP = 0 /\ spare = <<>>
  BY <1>1, TypeFacts DEF SerializerInv, TypeOK, FaithInv, NValues, NumberInv, OrderInv
<1>3. ASSUME NEW S, S \subseteq 1..NValues, NEW n \in Nat, Ranks(values, S, n) PROVE CountsTo(values', 1, 0, S, n)
  <2>1. \A h \in S : h \in 1..NValues /\ values[h].data \in 0..(n - 1)
    BY <1>3 DEF Ranks
  <2>2. \A h \in S : ~(h < 1) /\ ~(values[h].data < 0)
    BY <1>2, <2>1
  <2> QED BY <1>1, <2>2 DEF CountsTo
<1>4. \A ts : Of(ts)' = Of(ts) /\ Of(ts) \subseteq 1..NValues
  BY <1>1, <1>2 DEF Of
<1>5. /\ Strings' = Strings /\ Outsides' = Outsides /\ Vectors' = Vectors
      /\ Outsides \subseteq 1..NValues /\ Vectors \subseteq 1..NValues
  BY <1>1, <1>4 DEF Strings, Vectors, Outsides
<1>6. /\ Numbered(Strings, Len(blobs.text))' /\ Numbered(Of({"BITVECTOR"}), Len(blobs.bits))'
      /\ Numbered(Outsides, Len(outs))'
  <2>1. /\ Ranks(values', Strings', Len(blobs'.text)) /\ Ranks(values', Of({"BITVECTOR"})', Len(blobs'.bits))
        /\ Ranks(values', Outsides', Len(outs'))
    BY <1>1, <1>2, <1>4, <1>5, NumberedIsRanks DEF OrderInv
  <2> QED BY <2>1 DEF Numbered, Ranks
<1>7. Counted(count.out, Outsides, Len(outs))'
  <2>1. CountsTo(values', 1, 0, Outsides, Len(outs))
    BY <1>2, <1>3, <1>5, NumberedIsRanks DEF OrderInv
  <2>2. CountsTo(values', i', count'.out, Outsides', Len(outs'))
    BY <1>1, <1>2, <1>5, <2>1
  <2> QED BY <2>2 DEF Counted, CountsTo
<1>8. ASSUME NEW t \in TableType PROVE Counted(count[t], Of({t}), Len(tables[t]))'
  <2>1. PICK S, n : S = Of({t}) /\ n = Len(tables[t])
    OBVIOUS
  <2>2. S \subseteq 1..NValues /\ n \in Nat /\ Ranks(values, S, n)
    BY <1>2, <1>4, <2>1, TablesAreRanked
  <2>3. CountsTo(values', 1, 0, S, n)
    BY <1>3, <2>2
  <2>4. count[t] = 0
    BY <1>2 DEF TableType
  <2>5. CountsTo(values', i', count'[t], Of({t})', Len(tables'[t]))
    BY <1>1, <1>4, <2>1, <2>3, <2>4
  <2> QED BY <2>5 DEF Counted, CountsTo
<1>9. Numbered({h \in Vectors : h < i}, Len(spare))'
  <2>1. {h \in Vectors : h < i}' = {}
    <3>1. \A h \in 1..NValues : ~(h < 1)
      BY <1>2
    <3>2. {h \in Vectors' : h < i'} = {}
      BY <1>1, <1>5, <3>1
    <3> QED BY <3>2
  <2>2. Len(spare') = 0 /\ 0..(0 - 1) = {}
    BY <1>1, <1>2
  <2>3. Ranks(values', {}, Len(spare'))
    BY <2>2 DEF Ranks
  <2>4. Ranks(values', {h \in Vectors : h < i}', Len(spare'))
    BY <2>1, <2>3
  <2> QED BY <2>4 DEF Numbered, Ranks
<1>10. OrderInv'
  BY <1>1, <1>6, <1>7, <1>8, <1>9 DEF OrderInv
<1>11. ContentInv'
  BY <1>1, <1>2, ContentStays DEF LaidOut, Early
<1> QED BY <1>1, <1>10, <1>11 DEF FaithInv, ImageInv

\* A set or map is laid out.
LEMMA LayingOutIsFaithful ==
  ASSUME SerializerInv, FaithInv, BuildTable
  PROVE  FaithInv'
<1>1. PICK h : LaysOut(h)
  BY TableGetsParts
<1>2. /\ phase \in {"sets", "maps"} /\ phase' = phase /\ count' = count
      /\ outs' = outs /\ blobs' = blobs /\ tables' = tables /\ object' = object
      /\ h \in Tables /\ \A x \in 1..NValues : values'[x] = values[x]
      /\ DOMAIN privs' = DOMAIN privs /\ IsVectorList(privs')
      /\ \A n \in DOMAIN TableOf(h).parts :
            privs'[values[TableOf(h).parts[n]].data + 1].items = PartItems(TableOf(h), n)
      /\ \A g \in Tables : g # h => (LaidOut(g)' => LaidOut(g))
  BY <1>1 DEF LaysOut, Retypes
<1>3. /\ TypeOK /\ OrderInv /\ ContentInv /\ NValues' = NValues /\ Slot' = Slot /\ Mine' = Mine
      /\ Tables' = Tables /\ Tables \subseteq 1..NValues /\ Mine \subseteq 1..NValues
      /\ \A g \in Tables : TableOf(g)' = TableOf(g)
  BY <1>2, TypeFacts DEF SerializerInv, FaithInv, NValues, Slot, Mine, Tables, TableOf
<1>4. Len(privs') = Len(privs)
  <2>1. Len(privs) \in Nat /\ DOMAIN privs = 1..Len(privs)
    BY <1>3, TypeFacts
  <2>2. Len(privs') \in Nat /\ DOMAIN privs' = 1..Len(privs')
    BY <1>2, SequenceFacts DEF IsVectorList
  <2>3. ASSUME NEW a \in Nat, NEW b \in Nat, 1..a = 1..b PROVE a = b
    <3>1. a \in 1..a <=> a \in 1..b
      BY <2>3
    <3>2. b \in 1..a <=> b \in 1..b
      BY <2>3
    <3> QED BY <3>1, <3>2
  <2> QED BY <1>2, <2>1, <2>2, <2>3
<1>5. OrderInv'
  <2>1. \A x \in 1..NValues : SameClass(x)
    BY <1>2 DEF SameClass
  <2>2. phase' \notin {"build", "renumber"} /\ phase \in Late
    BY <1>2 DEF Late
  <2> QED BY <1>2, <1>3, <1>4, <2>1, <2>2, OrderAfter
<1>6. ASSUME NEW g \in 1..NValues PROVE ContentOK(g)'
  <2>1. ContentOK(g) /\ values'[g] = values[g]
    BY <1>2, <1>3 DEF ContentInv
  <2>2. TableOf(g)' = TableOf(g)
    BY <1>2, <2>1 DEF TableOf
  <2>3. ASSUME object[g].kind = "vector", values[g].type \in PrimVector PROVE FitsItems(g)'
    <3>1. FitsItems(g) /\ Range(object[g].holds) \subseteq 1..NValues
      BY <1>3, <2>1, <2>3 DEF ContentOK
    <3>2. \A x \in Range(object[g].holds) : values'[x] = values[x]
      BY <1>2, <3>1
    <3> QED BY <1>2, <2>1, <3>1, <3>2 DEF FitsItems, Convert
  <2> QED BY <1>2, <1>3, <2>1, <2>2, <2>3 DEF ContentOK
<1>7. ASSUME NEW g \in Tables PROVE PartsOK(g)'
  <2>1. PartsOK(g) /\ values'[g] = values[g] /\ TableOf(g)' = TableOf(g)
    BY <1>2, <1>3 DEF ContentInv
  <2>2. \A n \in DOMAIN TableOf(g).parts : TableOf(g).parts[n] \in 1..NValues
    BY DEF SerializerInv, PartInv
  <2>3. \A n \in DOMAIN TableOf(g).parts : values'[TableOf(g).parts[n]] = values[TableOf(g).parts[n]]
    BY <1>2, <2>2
  <2>4. 1 \in DOMAIN TableOf(g).parts /\ \A n \in DOMAIN TableOf(g).parts : n = 1 \/ n = 2 \/ n = 3
    <3>1. TableOf(g).parts \in Seq(Nat) /\ Len(TableOf(g).parts) \in {2, 3}
      BY TablesHaveParts DEF SerializerInv, PartInv
    <3> QED BY <3>1, TwoOrThree
  <2>5. ASSUME NEW n \in DOMAIN TableOf(g).parts \ {1}, LaidOut(g)'
        PROVE  Vec(TableOf(g).parts[n])'.items = Append(IF n = 2 THEN TableOf(g).keys ELSE TableOf(g).vals, Slot)
    <3>1. PICK x : x = TableOf(g).parts[n]
      OBVIOUS
    <3>2. CASE g = h
      <4>1. Vec(x)'.items = PartItems(TableOf(g), n)
        BY <1>2, <2>3, <3>1, <3>2 DEF Vec
      <4>2. n = 2 \/ n = 3
        BY <2>4
      <4>3. PartItems(TableOf(g), n) = Append(IF n = 2 THEN TableOf(g).keys ELSE TableOf(g).vals, Slot)
        BY <4>2 DEF PartItems
      <4>4. Vec(x)' = Vec(TableOf(g).parts[n])'
        BY <2>1, <3>1
      <4> QED BY <2>1, <3>1, <4>1, <4>3, <4>4
    <3>3. CASE g # h
      <4>1. Vec(x)' = Vec(x)
        BY <1>1, <3>1, <3>3, OthersStay
      <4>2. LaidOut(g)
        BY <1>2, <2>5, <3>3
      <4> QED BY <2>1, <3>1, <4>1, <4>2 DEF PartsOK
    <3> QED BY <3>2, <3>3
  <2> QED BY <1>3, <2>1, <2>3, <2>4, <2>5 DEF PartsOK
<1>8. ContentInv'
  BY <1>2, <1>3, <1>6, <1>7 DEF ContentInv
<1> QED BY <1>2, <1>5, <1>8 DEF FaithInv, ImageInv

\* One of finitely many numbers is the least.
LEMMA LeastOf ==
  ASSUME NEW f, NEW L \in Nat \ {0}, \A n \in 1..L : f[n] \in Int
  PROVE  \E a \in 1..L : \A n \in 1..L : f[a] <= f[n]
<1> DEFINE Least(k) == \E a \in 1..k : \A n \in 1..k : f[a] <= f[n]
           S == {k \in Nat : k + 1 <= L => Least(k + 1)}
<1>1. 0 \in S
  <2>1. \A n \in 1..1 : n = 1
    OBVIOUS
  <2>2. f[1] <= f[1] /\ 1 \in 1..1
    <3>1. f[1] \in Int
      OBVIOUS
    <3> QED BY <3>1
  <2>3. Least(1)
    BY <2>1, <2>2
  <2> HIDE DEF Least
  <2> QED BY <2>3
<1>2. ASSUME NEW k \in Nat, k \in S PROVE k + 1 \in S
  <2> SUFFICES ASSUME (k + 1) + 1 <= L PROVE Least((k + 1) + 1)
    OBVIOUS
  <2>1. PICK a \in 1..(k + 1) : \A n \in 1..(k + 1) : f[a] <= f[n]
    <3>1. k + 1 <= L
      OBVIOUS
    <3> QED BY <1>2, <3>1
  <2> DEFINE m == (k + 1) + 1
  <2>2. m \in 1..L /\ a \in 1..L /\ m \in 1..m /\ a \in 1..m /\ \A n \in 1..m : n \in 1..(k + 1) \/ n = m
    OBVIOUS
  <2> HIDE DEF m
  <2>3. f[m] \in Int /\ f[a] \in Int
    BY <2>2
  <2>4. CASE f[a] <= f[m]
    BY <2>1, <2>2, <2>4 DEF m
  <2>5. CASE f[m] <= f[a]
    <3>1. ASSUME NEW n \in 1..m PROVE f[m] <= f[n]
      <4>1. CASE n = m
        BY <2>3, <4>1
      <4>2. CASE n \in 1..(k + 1)
        <5>1. n \in 1..L
          BY <4>2
        <5>2. f[n] \in Int /\ f[a] <= f[n]
          BY <2>1, <4>2, <5>1
        <5> QED BY <2>3, <2>5, <5>2
      <4> QED BY <2>2, <4>1, <4>2
    <3>2. Least(m)
      BY <2>2, <3>1
    <3> HIDE DEF Least
    <3> QED BY <3>2 DEF m
  <2> QED BY <2>3, <2>4, <2>5
<1>3. L - 1 \in S
  <2> HIDE DEF S
  <2>1. L - 1 \in Nat
    OBVIOUS
  <2> QED BY <1>1, <1>2, <2>1, SetInduction
<1>4. L - 1 \in Nat /\ (L - 1) + 1 = L
  OBVIOUS
<1>5. Least(L)
  <2> HIDE DEF Least
  <2> QED BY <1>3, <1>4
<1> QED BY <1>5

\* A set of finitely many numbers has a least and a greatest.
LEMMA MinAndMax ==
  ASSUME NEW f, NEW L \in Nat \ {0}, \A n \in 1..L : f[n] \in Int, NEW S, S = {f[n] : n \in 1..L}
  PROVE  Min(S) \in S /\ Max(S) \in S /\ \A d \in S : Min(S) <= d /\ d <= Max(S)
<1>1. PICK a \in 1..L : \A n \in 1..L : f[a] <= f[n]
  BY LeastOf
<1>2. PICK b \in 1..L : \A n \in 1..L : f[n] <= f[b]
  <2> DEFINE g == [n \in 1..L |-> -f[n]]
  <2>1. \A n \in 1..L : g[n] \in Int /\ g[n] = -f[n] /\ f[n] \in Int
    OBVIOUS
  <2> HIDE DEF g
  <2>2. PICK b \in 1..L : \A n \in 1..L : g[b] <= g[n]
    BY <2>1, LeastOf
  <2>3. ASSUME NEW n \in 1..L PROVE f[n] <= f[b]
    <3>1. g[b] <= g[n] /\ g[b] = -f[b] /\ g[n] = -f[n] /\ f[n] \in Int /\ f[b] \in Int
      BY <2>1, <2>2
    <3> QED BY <3>1
  <2> QED BY <2>3
<1>3. Min(S) \in S /\ \A d \in S : Min(S) <= d
  <2>1. f[a] \in S /\ \A d \in S : f[a] <= d
    BY <1>1
  <2> QED BY <2>1 DEF Min
<1>4. Max(S) \in S /\ \A d \in S : d <= Max(S)
  <2>1. f[b] \in S /\ \A d \in S : d <= f[b] /\ d \in Int
    BY <1>2
  <2>2. f[b] \in S /\ \A d \in S : f[b] >= d
    BY <2>1
  <2>3. Max(S) \in S /\ \A d \in S : Max(S) >= d
    BY <2>2, Zenon DEF Max
  <2> QED BY <2>1, <2>3
<1> QED BY <1>3, <1>4

\* Numbers in the range for which a type is chosen keep their values in it.
LEMMA TypeFitsRange ==
  ASSUME NEW lo \in Int, NEW hi \in Int, NEW t, t = IntVector(lo, hi), t \notin ValueVector,
         NEW d \in Int, lo <= d, d <= hi
  PROVE  Convert(t, d) = d
<1>1. \A w \in {1, 2, 4} : Base ^ w \in Int
  BY BoundAssumption
<1> DEFINE unsigned(w) == lo >= 0 /\ hi < Base ^ w
           signed(w) == 2 * lo >= -(Base ^ w) /\ 2 * hi < Base ^ w
<1>2. ASSUME NEW w \in {1, 2, 4}, unsigned(w) PROVE d % (Base ^ w) = d
  <2>1. PICK m \in Int : m = Base ^ w
    BY <1>1
  <2>2. d \in Nat /\ d < m
    BY <1>2, <2>1
  <2>3. d % m = d
    BY <2>2
  <2> QED BY <2>1, <2>3
<1>3. ASSUME NEW w \in {1, 2, 4}, signed(w)
      PROVE  ((d + (Base ^ w) \div 2) % (Base ^ w)) - ((Base ^ w) \div 2) = d
  <2>1. PICK m \in Int : m = Base ^ w
    BY <1>1
  <2>2. 2 * d >= -m /\ 2 * d < m
    BY <1>3, <2>1
  <2>3. PICK k \in Int : k = m \div 2 /\ 2 * k <= m /\ m <= 2 * k + 1
    <3>1. ASSUME NEW n \in Nat \ {0} PROVE n \div 2 \in Int /\ 2 * (n \div 2) <= n /\ n <= 2 * (n \div 2) + 1
      OBVIOUS
    <3>2. m \in Nat \ {0}
      BY <2>2
    <3> QED BY <3>1, <3>2
  <2>4. d + k \in Nat /\ d + k < m
    BY <2>2, <2>3
  <2>5. (d + k) % m = d + k
    BY <2>4
  <2>6. ((d + k) % m) - k = d
    BY <2>3, <2>5
  <2> QED BY <2>1, <2>3, <2>6
<1>4. \/ t = "VECTOR_U8" /\ unsigned(1)
      \/ t = "VECTOR_U16" /\ unsigned(2)
      \/ t = "VECTOR_U32" /\ unsigned(4)
      \/ t = "VECTOR_I8" /\ signed(1)
      \/ t = "VECTOR_I16" /\ signed(2)
      \/ t = "VECTOR_I32" /\ signed(4)
  <2> DEFINE low == lo < 0
  <2>1. t =
          CASE unsigned(1) -> "VECTOR_U8"
          [] ~unsigned(1) /\ unsigned(2) -> "VECTOR_U16"
          [] ~unsigned(2) /\ unsigned(4) -> "VECTOR_U32"
          [] low /\ signed(1) -> "VECTOR_I8"
          [] low /\ ~signed(1) /\ signed(2) -> "VECTOR_I16"
          [] low /\ ~signed(2) /\ signed(4) -> "VECTOR_I32"
          [] OTHER -> "VECTOR_VALUE"
    BY DEF IntVector
  <2>2. t # "VECTOR_VALUE"
    BY DEF ValueVector
  <2> HIDE DEF unsigned, signed, low
  <2> QED BY <2>1, <2>2
<1> HIDE DEF unsigned, signed
<1>5. /\ Width("VECTOR_U8") = 1 /\ Width("VECTOR_I8") = 1 /\ Width("VECTOR_U16") = 2 /\ Width("VECTOR_I16") = 2
      /\ Width("VECTOR_U32") = 4 /\ Width("VECTOR_I32") = 4
  BY DEF Width
<1>6. CASE t \in {"VECTOR_U8", "VECTOR_U16", "VECTOR_U32"}
  <2>1. PICK w \in {1, 2, 4} : unsigned(w) /\ Width(t) = w
    BY <1>4, <1>5, <1>6
  <2>2. Convert(t, d) = d % (Base ^ w)
    BY <1>6, <2>1 DEF Convert
  <2> QED BY <1>2, <2>1, <2>2
<1>7. CASE t \in {"VECTOR_I8", "VECTOR_I16", "VECTOR_I32"}
  <2>1. PICK w \in {1, 2, 4} : signed(w) /\ Width(t) = w
    BY <1>4, <1>5, <1>7
  <2>2. Convert(t, d) = ((d + (Base ^ w) \div 2) % (Base ^ w)) - ((Base ^ w) \div 2)
    BY <1>7, <2>1 DEF Convert
  <2> QED BY <1>3, <2>1, <2>2
<1> QED BY <1>4, <1>6, <1>7

\* A vector that is compressed has numbers that fit.
LEMMA CompressedItemsFit ==
  ASSUME SerializerInv, ContentInv, phase = "compress", NEW h \in 1..NValues, object[h].kind = "vector",
         Compressible(h), NEW t, t = Compression(h), t \notin ValueVector, NEW x \in Range(object[h].holds)
  PROVE  values[x].type \in InlineType /\ Convert(t, values[x].data) = values[x].data
<1>1. VectorOK(h) /\ ContentOK(h) /\ TypeOK /\ IsSequence(object[h].holds)
  <2>1. h \in DOMAIN object
    BY TypeFacts DEF SerializerInv
  <2> QED BY <2>1 DEF SerializerInv, VectorInv, ContentInv, TypeOK
<1>2. Vec(h).items = object[h].holds
  <2>1. IsPrivVector(h)
    BY DEF Compressible, IsPrivVector
  <2> QED BY <1>1, <2>1 DEF VectorOK, Home, Vec
<1> DEFINE s == object[h].holds
           L == Len(s)
           ints == {values[y].data : y \in Range(s)}
<1>3. L \in Nat \ {0} /\ DOMAIN s = 1..L
  <2>1. Len(s) \in Nat /\ DOMAIN s = 1..Len(s)
    BY <1>1, SequenceFacts
  <2>2. DOMAIN s # {}
    BY DEF Range
  <2> HIDE DEF s
  <2> QED BY <2>1, <2>2
<1>4. \A y \in Range(s) : values[y].data \in Int
  <2>1. Range(s) \subseteq 1..NValues
    BY <1>1, TypeFacts DEF ContentOK
  <2> QED BY <1>1, <2>1, TypeFacts, ValueFields
<1>5. ItemTypes(h) = {values[y].type : y \in Range(s)}
  BY <1>2 DEF ItemTypes
<1>6. CASE IsIntVector(h)
  <2>1. t = IntVector(Min(ints), Max(ints))
    <3> DEFINE those == {values[y].data : y \in Range(Vec(h).items)}
               u == IntVector(Min(those), Max(those))
    <3>1. Compression(h) = CASE IsIntVector(h) -> u
                             [] ItemTypes(h) = {"float"} -> "VECTOR_FLOAT"
                             [] OTHER -> values[h].type
      BY DEF Compression
    <3>2. those = ints
      BY <1>2
    <3> HIDE DEF those, ints
    <3>3. u = IntVector(Min(ints), Max(ints))
      BY <3>2
    <3> HIDE DEF u
    <3>4. ItemTypes(h) # {"float"}
      BY <1>6 DEF IsIntVector
    <3>5. Compression(h) = u
      BY <1>6, <3>1, <3>4
    <3> QED BY <3>3, <3>5
  <2>2. values[x].type \in InlineType
    BY <1>5, <1>6 DEF IsIntVector, InlineType
  <2> DEFINE f == [n \in 1..L |-> values[s[n]].data]
  <2>3. \A n \in 1..L : s[n] \in Range(s) /\ f[n] = values[s[n]].data /\ f[n] \in Int
    BY <1>3, <1>4 DEF Range
  <2> HIDE DEF f
  <2>4. ints = {f[n] : n \in 1..L}
    <3>1. ASSUME NEW y \in Range(s) PROVE \E n \in 1..L : values[y].data = f[n]
      <4>1. PICK n \in DOMAIN s : s[n] = y
        BY DEF Range
      <4> QED BY <1>3, <2>3, <4>1
    <3> HIDE DEF s, L
    <3> QED BY <2>3, <3>1
  <2> HIDE DEF f, L, ints
  <2>5. Min(ints) \in ints /\ Max(ints) \in ints /\ \A d \in ints : Min(ints) <= d /\ d <= Max(ints)
    <3>1. L \in Nat \ {0}
      BY <1>3
    <3>2. \A n \in 1..L : f[n] \in Int
      BY <2>3
    <3> QED BY <2>4, <3>1, <3>2, MinAndMax
  <2>6. values[x].data \in ints /\ \A d \in ints : d \in Int
    BY <1>4 DEF ints
  <2> QED BY <2>1, <2>2, <2>5, <2>6, TypeFitsRange
<1>7. CASE ~IsIntVector(h)
  <2>1. ItemTypes(h) = {"float"} /\ t = "VECTOR_FLOAT"
    <3>1. t # values[h].type
      BY DEF Compressible
    <3> QED BY <1>7, <3>1 DEF Compression
  <2>2. values[x].type \in InlineType
    BY <1>5, <2>1 DEF InlineType
  <2> QED BY <2>1, <2>2 DEF Convert
<1> QED BY <1>6, <1>7

\* A vector of values gets another type: only one of the client's becomes a vector of
\* plain numbers, and then its items fit.
TypeChanges(h) ==
  /\ values[h].type \in ValueVector /\ ~values[h].outside
  /\ values'[h].type \in PrimVector \cup ValueVector
  /\ values'[h].data = values[h].data /\ values'[h].outside = values[h].outside
  /\ values'[h].type \in PrimVector =>
        ~values[h].setmap /\ (object[h].kind = "vector" => FitsItems(h)')

\* Both steps that do so.
LEMMA RetypingIsFaithful ==
  ASSUME SerializerInv, FaithInv, phase \in {"tag", "compress"}, phase' \in {"compress", "sets"}, i' = 1,
         count' = count, privs' = privs, outs' = outs, blobs' = blobs, tables' = tables, object' = object,
         \A h \in 1..NValues : values'[h] = values[h] \/ TypeChanges(h),
         phase' = "compress" => \A h \in 1..NValues : values'[h].type \in PrimVector => values[h].type \in PrimVector
  PROVE  FaithInv'
<1>1. /\ TypeOK /\ HandleInv /\ PartInv /\ OrderInv /\ ContentInv /\ NValues' = NValues /\ Mine' = Mine
      /\ NValues \in Nat
  BY TypeFacts DEF SerializerInv, FaithInv, NValues, Mine
<1>2. OrderInv'
  <2>1. \A h \in 1..NValues : SameClass(h)
    BY DEF SameClass, TypeChanges
  <2>2. phase' \notin {"build", "renumber"} /\ phase \in Late
    BY DEF Late
  <2> QED BY <1>1, <2>1, <2>2, OrderAfter
<1>3. ASSUME NEW h \in 1..NValues
      PROVE  /\ ContentOK(h)'
             /\ phase' = "compress" => (object'[h].kind = "vector" => values'[h].type \notin PrimVector)
             /\ values[h].type \notin ValueVector => values'[h] = values[h]
  <2>1. /\ ContentOK(h) /\ HandleOK(h) /\ object[h].kind \in Kind
        /\ object[h].kind = "vector" => values[h].type \notin PrimVector
    BY <1>1, TypeFacts DEF ContentInv, HandleInv, TypeOK
  <2>2. CASE values'[h] = values[h]
    <3>1. TableOf(h)' = TableOf(h)
      BY <2>2 DEF TableOf
    <3> QED BY <1>1, <2>1, <2>2, <3>1 DEF ContentOK
  <2>3. CASE TypeChanges(h)
    <3>1. object[h].kind \in {"vector", "internal"}
      <4>1. values[h].type \in ValueVector
        BY <2>3 DEF TypeChanges
      <4>2. values[h].type \notin InlineType \cup BlobType \cup TableType
        BY <4>1 DEF ValueVector, InlineType, BlobType, TableType
      <4>3. object[h].kind # "native"
        BY <2>1, <4>1 DEF ContentOK
      <4> QED BY <2>1, <4>2, <4>3 DEF HandleOK, Kind, TableType
    <3>2. ContentOK(h)'
      BY <1>1, <2>1, <2>3, <3>1 DEF ContentOK, TypeChanges
    <3> QED BY <2>1, <2>3, <3>2 DEF TypeChanges
  <2> QED BY <2>2, <2>3
<1>4. Tables' = Tables /\ \A h \in Tables : h \in 1..NValues /\ values'[h] = values[h] /\ TableOf(h)' = TableOf(h)
  <2>1. ASSUME NEW h \in 1..NValues PROVE values'[h].type \in TableType <=> values[h].type \in TableType
    BY DEF TypeChanges, TableType, PrimVector, ValueVector
  <2>2. Tables' = Tables
    BY <1>1, <2>1 DEF Tables
  <2>3. ASSUME NEW h \in Tables PROVE h \in 1..NValues /\ values'[h] = values[h]
    <3>1. h \in 1..NValues /\ values[h].type \notin ValueVector
      BY DEF Tables, TableType, ValueVector
    <3> QED BY <1>3, <3>1
  <2> QED BY <2>2, <2>3 DEF TableOf
<1>5. ASSUME NEW h \in Tables PROVE PartsOK(h)'
  <2>1. PartsOK(h)
    BY <1>1 DEF ContentInv
  <2>2. ~LaidOut(h)'
    <3>1. ~(h < 1)
      BY <1>1, <1>4
    <3> QED BY <3>1 DEF LaidOut
  <2>3. \A n \in DOMAIN TableOf(h).parts : TableOf(h).parts[n] \in 1..NValues /\ values[TableOf(h).parts[n]].setmap
    BY <1>1 DEF PartInv
  <2>4. 1 \in DOMAIN TableOf(h).parts
    <3>1. TableOf(h).parts \in Seq(Nat) /\ Len(TableOf(h).parts) \in {2, 3}
      BY <1>1, TablesHaveParts DEF PartInv
    <3> QED BY <3>1
  <2>5. values'[TableOf(h).parts[1]].type = "VECTOR_U32"
    BY <1>3, <2>1, <2>3, <2>4 DEF PartsOK, ValueVector
  <2>6. ASSUME NEW n \in DOMAIN TableOf(h).parts \ {1} PROVE values'[TableOf(h).parts[n]].type \in ValueVector
    <3>1. PICK p : p = TableOf(h).parts[n]
      OBVIOUS
    <3>2. p \in 1..NValues /\ values[p].setmap /\ values[p].type \in ValueVector
      BY <2>1, <2>3, <3>1 DEF PartsOK
    <3>3. values'[p].type \in ValueVector
      BY <3>2 DEF TypeChanges
    <3> QED BY <3>1, <3>3
  <2> QED BY <1>4, <2>1, <2>2, <2>5, <2>6 DEF PartsOK
<1>6. ContentInv'
  BY <1>1, <1>3, <1>4, <1>5 DEF ContentInv
<1> QED BY <1>2, <1>6 DEF FaithInv, ImageInv

\* Vectors without marks are tagged hashable.
LEMMA TagIsFaithful ==
  ASSUME SerializerInv, FaithInv, TagHashable
  PROVE  FaithInv'
<1> DEFINE Tagged(h) == h <= NValues /\ values[h].type = "VECTOR_VALUE" /\ ~values[h].outside /\ h \notin marked
<1>1. /\ phase = "tag" /\ phase' = "compress" /\ i' = 1 /\ count' = count /\ privs' = privs
      /\ outs' = outs /\ blobs' = blobs /\ tables' = tables /\ object' = object
      /\ values' = [h \in DOMAIN values |->
                      IF Tagged(h) THEN [values[h] EXCEPT !.type = "VECTOR_VALUE_HASHABLE"] ELSE values[h]]
  BY DEF TagHashable, Goto
<1>2. ASSUME NEW h \in 1..NValues
      PROVE  /\ values'[h] = values[h] \/ TypeChanges(h)
             /\ values'[h].type \in PrimVector => values[h].type \in PrimVector
  <2>1. h \in DOMAIN values /\ values[h] \in ValueRecord
    BY TypeFacts DEF SerializerInv
  <2> DEFINE w == [values[h] EXCEPT !.type = "VECTOR_VALUE_HASHABLE"]
  <2>2. w.type = "VECTOR_VALUE_HASHABLE" /\ w.data = values[h].data /\ w.outside = values[h].outside
    <3>1. "VECTOR_VALUE_HASHABLE" \in AnyType
      BY DEF AnyType, ValueVector
    <3> QED BY <2>1, <3>1, ValueFields
  <2>3. values'[h] = IF Tagged(h) THEN w ELSE values[h]
    BY <1>1, <2>1
  <2> HIDE DEF w
  <2>4. CASE Tagged(h)
    <3>1. values'[h] = w /\ w.type \notin PrimVector /\ w.type \in ValueVector
      BY <2>2, <2>3, <2>4 DEF PrimVector, ValueVector
    <3> QED BY <2>2, <2>4, <3>1 DEF TypeChanges, ValueVector
  <2>5. CASE ~Tagged(h)
    BY <2>3, <2>5
  <2> QED BY <2>4, <2>5
<1> QED BY <1>1, <1>2, RetypingIsFaithful

\* Vectors of numbers are compressed.
LEMMA CompressIsFaithful ==
  ASSUME SerializerInv, FaithInv, CompressVectors
  PROVE  FaithInv'
<1>1. /\ phase = "compress" /\ phase' = "sets" /\ i' = 1 /\ count' = count /\ privs' = privs
      /\ outs' = outs /\ blobs' = blobs /\ tables' = tables /\ object' = object
      /\ values' = [h \in DOMAIN values |->
                      IF Compressible(h)
                        THEN [values[h] EXCEPT !.type = Compression(h),
                                               !.compressed = Compression(h) \notin ValueVector]
                        ELSE values[h]]
      /\ ContentInv
  BY DEF CompressVectors, Goto, FaithInv
<1>2. ASSUME NEW h \in 1..NValues
      PROVE  /\ ~Compressible(h) => values'[h] = values[h]
             /\ Compressible(h) =>
                   /\ values'[h].type = Compression(h) /\ values'[h].data = values[h].data
                   /\ values'[h].outside = values[h].outside
                   /\ values'[h].compressed = (Compression(h) \notin ValueVector)
  <2>1. h \in DOMAIN values /\ values[h] \in ValueRecord
    BY TypeFacts DEF SerializerInv
  <2>2. CASE ~Compressible(h)
    BY <1>1, <2>1, <2>2
  <2>3. CASE Compressible(h)
    <3>1. PICK t : t = Compression(h)
      OBVIOUS
    <3> DEFINE z == [values[h] EXCEPT !.type = t]
               b == t \notin ValueVector
               w == [z EXCEPT !.compressed = b]
    <3>2. values'[h] = w
      BY <1>1, <2>1, <2>3, <3>1
    <3>3. t \in AnyType
      BY <2>3, <3>1, CompressionIsVector DEF AnyType, Compressible
    <3>4. z \in ValueRecord /\ z.type = t /\ z.data = values[h].data /\ z.outside = values[h].outside
      BY <2>1, <3>3, ValueFields
    <3> HIDE DEF z
    <3>5. b \in BOOLEAN
      OBVIOUS
    <3>6. b = (t \notin ValueVector)
      OBVIOUS
    <3> HIDE DEF b
    <3>7. w.type = z.type /\ w.data = z.data /\ w.outside = z.outside /\ w.compressed = b
      BY <3>4, <3>5, ValueFields
    <3> HIDE DEF w
    <3> QED BY <2>3, <3>1, <3>2, <3>4, <3>6, <3>7
  <2> QED BY <2>2, <2>3
<1>3. ASSUME NEW h \in 1..NValues, Compressible(h) PROVE TypeChanges(h)
  <2>1. values[h].type \in ValueVector /\ ~values[h].outside /\ ~values[h].setmap
    BY <1>3 DEF Compressible
  <2>2. Compression(h) \in PrimVector \cup ValueVector
    BY <2>1, CompressionIsVector
  <2>3. ASSUME object[h].kind = "vector", Compression(h) \in PrimVector PROVE FitsItems(h)'
    <3>1. Compression(h) \notin ValueVector
      BY <2>3 DEF PrimVector, ValueVector
    <3>2. values'[h].compressed /\ values'[h].type = Compression(h)
      BY <1>2, <1>3, <3>1
    <3>3. ASSUME NEW x \in Range(object[h].holds)
          PROVE  /\ values'[x].type \in InlineType
                 /\ Convert(Compression(h), values'[x].data) = values'[x].data
      <4>1. values[x].type \in InlineType /\ Convert(Compression(h), values[x].data) = values[x].data
        BY <1>1, <1>3, <2>3, <3>1, CompressedItemsFit
      <4>2. x \in 1..NValues
        <5>1. Range(object[h].holds) \subseteq Mine
          BY <1>1, <2>3 DEF ContentInv, ContentOK
        <5> QED BY <5>1, TypeFacts DEF SerializerInv
      <4>3. ~Compressible(x)
        BY <4>1 DEF Compressible, InlineType, ValueVector
      <4>4. values'[x] = values[x]
        BY <1>2, <4>2, <4>3
      <4> QED BY <4>1, <4>4
    <3> QED BY <1>1, <3>2, <3>3 DEF FitsItems, Convert
  <2> QED BY <1>2, <1>3, <2>1, <2>2, <2>3 DEF TypeChanges
<1>4. \A h \in 1..NValues : values'[h] = values[h] \/ TypeChanges(h)
  BY <1>2, <1>3
<1> QED BY <1>1, <1>4, RetypingIsFaithful

-----------------------------------------------------------------------------
(* The initial state, and every step *)

\* Nothing has been built.
LEMMA InitIsSound == Init => SerializerInv
<1> SUFFICES ASSUME Init PROVE SerializerInv
  OBVIOUS
<1>1. /\ values = <<>> /\ privs = <<>> /\ outs = <<>> /\ object = <<>> /\ spare = <<>> /\ live = {}
      /\ blobs = [text |-> <<>>, bits |-> <<>>] /\ tables = [SET |-> <<>>, MAP |-> <<>>]
      /\ root = 0 /\ phase = "build" /\ i = 1 /\ count = [out |-> 0, SET |-> 0, MAP |-> 0]
  BY DEF Init
<1>2. NValues = 0 /\ DOMAIN object = {} /\ 1..NValues = {} /\ DOMAIN values = {}
  BY <1>1, EmptySequence DEF NValues
<1>3. TypeOK
  <2>1. values \in Seq(ValueRecord) /\ Len(values) = NValues
    <3>1. <<>> \in Seq(ValueRecord) /\ Len(<<>>) = 0
      OBVIOUS
    <3> QED BY <1>1, <1>2, <3>1
  <2>2. IsSequence(object) /\ IsSequence(outs) /\ IsVectorList(privs) /\ IsVectorList(spare)
    BY <1>1, EmptySequence DEF IsVectorList
  <2>3. blobs \in [{"text", "bits"} -> Seq(Blob)] /\ tables \in [TableType -> Seq(TableRecord)]
    <3>1. <<>> \in Seq(Blob) /\ <<>> \in Seq(TableRecord)
      OBVIOUS
    <3>2. blobs = [b \in {"text", "bits"} |-> <<>>] /\ tables = [x \in TableType |-> <<>>]
      BY <1>1 DEF TableType
    <3> QED BY <3>1, <3>2
  <2>4. count \in [{"out", "SET", "MAP"} -> Nat] /\ phase \in Phase /\ i \in Nat \ {0} /\ root \in 0..NValues
    BY <1>1, <1>2 DEF Phase
  <2> QED BY <1>2, <2>1, <2>2, <2>3, <2>4 DEF TypeOK
<1>4. Tables = {}
  BY <1>2 DEF Tables
<1>5. HandleInv /\ VectorInv /\ PartInv /\ HashInv
  BY <1>2, <1>4 DEF HandleInv, VectorInv, PartInv, HashInv
<1>6. NumberInv
  <2>1. \A t \in TableType : DOMAIN tables[t] = {}
    BY <1>1, EmptySequence DEF TableType
  <2> QED BY <1>1, <1>4, <2>1 DEF NumberInv, TablesAreNumbered
<1>7. LiveInv
  BY <1>1 DEF LiveInv
<1> QED
  BY <1>3, <1>5, <1>6, <1>7 DEF SerializerInv

\* Every operation of a client and every step of the output keeps the invariant.
LEMMA NextIsKept ==
  ASSUME SerializerInv, ContentInv, [Next]_vars
  PROVE  SerializerInv'
<1>1. CASE Client
  BY <1>1, ClientIsKept
<1>2. CASE Output
  BY <1>2, BeginIsKept, SkipIsKept, RenumberIsKept, NumberIsKept, RenumberFailureIsKept, SwapIsKept,
     MarkIsKept, TagIsKept, CompressIsKept, TableIsLaidOut, EndIsKept DEF Output
<1>3. CASE UNCHANGED vars
  <2>1. build' = build /\ UNCHANGED <<phase, i, spare, count>>
    BY <1>3 DEF vars, output
  <2>2. /\ UNCHANGED <<values, privs, outs, blobs, tables, root, object, live>>
        /\ NValues' = NValues /\ Tables' = Tables /\ Mine' = Mine
    BY <2>1 DEF build, NValues, Tables, Mine
  <2>3. TypeOK'
    BY <2>1, <2>2 DEF SerializerInv, TypeOK
  <2>4. HandleInv'
    BY <2>2 DEF SerializerInv, HandleInv, HandleOK, IsVector, IsEmpty
  <2>5. VectorInv'
    BY <2>1, <2>2 DEF SerializerInv, VectorInv, VectorOK, IsPrivVector, Home
  <2>6. NumberInv' /\ PartInv'
    <3>1. TablesAreNumbered'
      BY <2>2 DEF SerializerInv, NumberInv, TablesAreNumbered
    <3>2. NumberInv'
      BY <2>1, <2>2, <3>1 DEF SerializerInv, NumberInv
    <3>3. PartInv'
      <4>1. \A h : TableOf(h)' = TableOf(h) /\ (IsPrivVector(h)' <=> IsPrivVector(h))
        BY <2>2 DEF TableOf, IsPrivVector
      <4>2. NValues' = NValues /\ Tables' = Tables /\ Mine' = Mine /\ values' = values /\ object' = object /\ PartInv
        BY <2>2 DEF SerializerInv
      <4> QED BY <4>1, <4>2, SMTT(30) DEF PartInv
    <3> QED BY <3>2, <3>3
  <2>7. LiveInv'
    <3>1. Kept' = Kept
      BY <2>2 DEF Kept, IsPrivVector
    <3> QED BY <2>1, <2>2, <3>1 DEF SerializerInv, LiveInv
  <2>8. HashInv'
    <3>1. HashInv
      BY DEF SerializerInv
    <3>2. \A h : /\ KeysOf(h)' = KeysOf(h) /\ HashesOf(h)' = HashesOf(h)
                /\ (LaidOut(h)' <=> LaidOut(h))
      BY <2>1, <2>2 DEF HashesOf, KeysOf, TableOf, Vec, LaidOut
    <3>3. \A k : (HasEmpty(k)' <=> HasEmpty(k)) /\ HashedByReader(k)' = HashedByReader(k)
      BY <2>2, ReadersStay
    <3> QED BY <2>2, <3>1, <3>2, <3>3, SMTT(30) DEF HashInv, HashedAsRead
  <2> QED BY <2>3, <2>4, <2>5, <2>6, <2>7, <2>8 DEF SerializerInv
<1> QED
  BY <1>1, <1>2, <1>3 DEF Next

\* Nothing has been built.
LEMMA InitIsFaithful == Init => FaithInv
<1> SUFFICES ASSUME Init PROVE FaithInv
  OBVIOUS
<1>1. /\ outs = <<>> /\ object = <<>> /\ blobs = [text |-> <<>>, bits |-> <<>>]
      /\ phase = "build" /\ count.out = 0
  BY DEF Init
<1>2. 1..NValues = {}
  BY <1>1, EmptySequence DEF NValues
<1>3. Strings = {} /\ Of({"BITVECTOR"}) = {} /\ Outsides = {} /\ Tables = {}
  BY <1>2 DEF Strings, Outsides, Of, Tables
<1>4. Numbered({}, 0)
  <2>1. 0..(0 - 1) = {}
    OBVIOUS
  <2> QED BY <2>1 DEF Numbered
<1>5. OrderInv
  <2>1. Len(blobs.text) = 0 /\ Len(blobs.bits) = 0 /\ Len(outs) = 0
    BY <1>1, EmptySequence
  <2> QED BY <1>1, <1>3, <1>4, <2>1 DEF OrderInv
<1> QED BY <1>1, <1>2, <1>3, <1>5 DEF FaithInv, ContentInv, ImageInv

\* A step that changes nothing here.
LEMMA StutterIsFaithful ==
  ASSUME FaithInv, UNCHANGED vars
  PROVE  FaithInv'
<1>1. build' = build /\ phase' = phase /\ i' = i /\ spare' = spare /\ count' = count /\ file' = file
  BY DEF vars, output
<1>2. /\ values' = values /\ privs' = privs /\ outs' = outs /\ blobs' = blobs /\ tables' = tables
      /\ root' = root /\ object' = object
  BY <1>1 DEF build
<1>3. /\ NValues' = NValues /\ Mine' = Mine /\ Tables' = Tables /\ Slot' = Slot
      /\ \A ts : Of(ts)' = Of(ts)
  BY <1>2 DEF NValues, Mine, Tables, Slot, Of
<1>4. Strings' = Strings /\ Outsides' = Outsides /\ Vectors' = Vectors
  BY <1>2, <1>3 DEF Strings, Outsides, Vectors
<1>5. OrderInv'
  <2>1. \A S, n : Numbered(S, n)' <=> Numbered(S, n)
    BY <1>2 DEF Numbered
  <2>2. \A c, S, n : Counted(c, S, n)' <=> Counted(c, S, n)
    BY <1>1, <1>2 DEF Counted
  <2>3. /\ Numbered(Strings, Len(blobs.text))' /\ Numbered(Of({"BITVECTOR"}), Len(blobs.bits))'
        /\ Numbered(Outsides, Len(outs))'
    BY <1>2, <1>3, <1>4 DEF FaithInv, OrderInv, Numbered
  <2>4. CASE phase = "renumber"
    <3>1. Counted(count.out, Outsides, Len(outs))'
      BY <1>1, <1>2, <1>4, <2>4 DEF FaithInv, OrderInv, Counted
    <3>2. \A t \in TableType : Counted(count[t], Of({t}), Len(tables[t]))'
      BY <1>1, <1>2, <1>3, <2>4 DEF FaithInv, OrderInv, Counted
    <3>3. Numbered({h \in Vectors : h < i}, Len(spare))'
      BY <1>1, <1>2, <1>4, <2>4 DEF FaithInv, OrderInv, Numbered
    <3> QED BY <1>1, <2>3, <2>4, <3>1, <3>2, <3>3 DEF OrderInv
  <2>5. CASE phase # "renumber"
    <3>1. phase \in Late => Numbered(Vectors, Len(privs))'
      BY <1>2, <1>4 DEF FaithInv, OrderInv, Numbered, Late
    <3> QED BY <1>1, <1>2, <2>3, <2>5, <3>1 DEF FaithInv, OrderInv, Late
  <2> QED BY <2>4, <2>5
<1>6. ContentInv'
  <2>1. ASSUME NEW h \in 1..NValues PROVE ContentOK(h)'
    <3>1. ContentOK(h)
      BY DEF FaithInv, ContentInv
    <3> QED BY <1>2, <1>3, <3>1 DEF ContentOK, FitsItems, TableOf, Convert
  <2>2. ASSUME NEW h \in Tables PROVE PartsOK(h)'
    <3>1. PartsOK(h)
      BY DEF FaithInv, ContentInv
    <3> QED BY <1>1, <1>2, <1>3, <3>1 DEF PartsOK, TableOf, LaidOut, Vec
  <2> QED BY <1>1, <1>2, <1>3, <2>1, <2>2 DEF FaithInv, ContentInv
<1>7. ImageInv'
  BY <1>1, ImageStays DEF FaithInv, ImageInv
<1> QED BY <1>5, <1>6, <1>7 DEF FaithInv

\* Every operation of a client and every step of the output keeps the invariant.
LEMMA NextIsFaithful ==
  ASSUME SerializerInv, SerializerInv', FaithInv, [Next]_vars
  PROVE  FaithInv'
<1>1. CASE Client
  BY <1>1, ClientIsFaithful
<1>2. CASE Output
  BY <1>2, BeginIsFaithful, CountIsFaithful, MoveIsFaithful, SwapIsFaithful, MarkIsFaithful, TagIsFaithful,
     CompressIsFaithful, LayingOutIsFaithful, EndIsFaithful DEF Output
<1>3. CASE UNCHANGED vars
  BY <1>3, StutterIsFaithful
<1> QED
  BY <1>1, <1>2, <1>3 DEF Next

-----------------------------------------------------------------------------
(* The theorems *)

\* In every state that a client's calls and the output's steps can lead to, the handles, vectors,
\* sets and maps of pointless_create_t belong together as SerializerInv says: through the
\* renumbering, the retyping and the layout of hash tables, and after calls that failed. The
\* hashes need that vectors hold handles of the client's, which is part of FaithInv.
THEOREM SerializerCorrect == Spec => []SerializerInv
<1>1. SerializerInv /\ FaithInv /\ [Next]_vars => SerializerInv' /\ FaithInv'
  <2> SUFFICES ASSUME SerializerInv, FaithInv, [Next]_vars PROVE SerializerInv' /\ FaithInv'
    OBVIOUS
  <2>1. SerializerInv'
    BY NextIsKept DEF FaithInv
  <2>2. FaithInv'
    BY <2>1, NextIsFaithful
  <2> QED BY <2>1, <2>2
<1> QED
  BY <1>1, InitIsSound, InitIsFaithful, PTL DEF Spec

\* Once pointless_create_end has run, nothing that the library allocated is left, however far
\* the output got, unless memory ran out in the middle of the renumbering.
THEOREM AllIsFreed == Spec => []EverythingIsFreed
<1>1. SerializerInv => EverythingIsFreed
  BY DEF SerializerInv, LiveInv, EverythingIsFreed
<1> QED
  BY <1>1, SerializerCorrect, PTL

\* In a file that has been written, the hash of a key with no empty vector in it is that of what a
\* reader finds: pointless_hash_create_32 recursed into the values that a reader's hash recurses
\* into, and found the items of each vector, at any depth, under its new number.
THEOREM HashesHold == Spec => []KeysHashedAsRead
<1>1. SerializerInv => KeysHashedAsRead
  BY DEF SerializerInv, HashInv, LaidOut, KeysHashedAsRead
<1> QED
  BY <1>1, SerializerCorrect, PTL

\* At every point of the output the arrays of pointless_create_t are in the order of the handles,
\* as far as the renumbering has come; the counts agree with them; every value has what the client
\* put under its handle, as it was or compressed; and a file that has been written is that of the
\* values as they are.
THEOREM OutputInOrder == Spec => []FaithInv
<1>1. SerializerInv /\ FaithInv /\ SerializerInv' /\ [Next]_vars => FaithInv'
  BY NextIsFaithful
<1> QED
  BY <1>1, InitIsFaithful, SerializerCorrect, PTL DEF Spec

\* A file that has been written says what the client built, if the size of no vector overflows the
\* uint32_t it is kept in: the handle that the client was given leads a reader, by way of the offset
\* that the first pass computed to the place where the second pass wrote, to what was put there.
THEOREM FileHolds == Spec => [](SizesFit => FileIsFaithful)
<1>1. SerializerInv /\ FaithInv => (SizesFit => FileIsFaithful)
  BY FaithInvIsEnough
<1> QED
  BY <1>1, SerializerCorrect, OutputInOrder, PTL
=============================================================================
