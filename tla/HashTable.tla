----------------------------- MODULE HashTable -----------------------------
(***************************************************************************)
(* The open-addressing hash table behind sets and maps: it is laid out     *)
(* once by pointless_hash_table_create / pointless_hash_table_populate     *)
(* when a file is written, checked by pointless_hash_table_validate when   *)
(* the file is opened, and probed by every lookup afterwards.              *)
(*                                                                         *)
(* Words have WordSize values (2^32 in the code).  i & mask is i % buckets *)
(* because the number of buckets is a power of two, perturb >>= 5 is the   *)
(* division by Perturb = 2^5, and every sum is taken modulo WordSize.      *)
(*                                                                         *)
(* What keys are is abstracted to their hashes and to how two of them      *)
(* compare.  The writer and the reader have a function of their own for    *)
(* each, and nothing says that they agree, that a key compares equal to    *)
(* itself (NaN does not), that two keys can be compared at all, or that    *)
(* those that are equal have one hash.                                     *)
(***************************************************************************)
EXTENDS Integers, Sequences, FiniteSets

CONSTANTS
    Key,        \* handles of values
    Hashable,   \* those for which pointless_is_hashable holds
    CreateHash, \* pointless_hash_create_32
    ReadHash,   \* pointless_hash_reader_32
    CreateCmp,  \* pointless_cmp_create, for a key in the table and a new one
    ReadCmp,    \* pointless_cmp_reader, for a key that is sought and one in the table
    Empty,      \* the empty-slot handle
    WordSize,   \* 2^32
    Perturb,    \* 2^PERTURB_SHIFT
    KeyLists    \* the key vectors considered

Word == 0..(WordSize - 1)

ASSUME WordAssumption == WordSize \in Nat \ {0} /\ Perturb \in Nat \ {0}
ASSUME KeyAssumption ==
    /\ Empty \notin Key
    /\ Hashable \subseteq Key
    /\ CreateHash \in [Key -> Word] /\ ReadHash \in [Key -> Word]
\* A comparison returns 0, or another number, or it sets *error.
Outcome == {"equal", "differ", "error"}
ASSUME CmpAssumption ==
    /\ CreateCmp \in [Key \X Key -> Outcome] /\ ReadCmp \in [Key \X Key -> Outcome]
\* Beyond 2^31 buckets next_power_of_2 shifts p to 0 and never ends.
ASSUME ListAssumption ==
    /\ KeyLists \subseteq Seq(Key)
    /\ WordSize >= 4
    /\ \A ks \in KeyLists : 2 * (Len(ks) + Len(ks) \div 2) <= WordSize

VARIABLES
    keys,       \* the key vector; the j-th key's value handle is j itself
    phase,      \* where the life of the table has got to
    buckets,    \* p in next_power_of_2, then n_buckets
    slotKey,    \* keys_serialize
    slotHash,   \* hash_serialize
    slotValue,  \* values_serialize
    j,          \* the key being placed, or the slot being validated, from 1
    probe,      \* i and perturb
    query,      \* the key being looked up, or Empty
    result      \* the bucket the last lookup returned, Miss, Error, or NoResult

table == <<slotKey, slotHash, slotValue>>
vars == <<keys, phase, buckets, slotKey, slotHash, slotValue, j, probe, query, result>>

Miss == -1
NoResult == -2
Error == -3
Phase == {"size", "populate", "oom", "unhashable", "duplicate", "incomparable", "built",
          "validate", "rejected", "ready", "lookup"}

Bucket == 0..(buckets - 1)
Probe == [i : Word, perturb : Word]

\* The probe sequence of a hash, one step at a time.
FirstProbe(h) == [i |-> h, perturb |-> h]
\* Faulty variant: 0 is followed by 0.
NextProbeStuck(s) == [i |-> (5 * s.i + s.perturb) % WordSize, perturb |-> s.perturb \div Perturb]
NextProbe(s) == [i |-> (5 * s.i + s.perturb + 1) % WordSize, perturb |-> s.perturb \div Perturb]
BucketOf(s) == s.i % buckets

Init ==
    /\ keys \in KeyLists
    /\ phase = "size"
    /\ buckets = 1
    /\ slotKey = <<>> /\ slotHash = <<>> /\ slotValue = <<>>
    /\ j = 1
    /\ probe = FirstProbe(0)
    /\ query = Empty
    /\ result = NoResult

-----------------------------------------------------------------------------
(* pointless_hash_table_create *)

\* The argument of next_power_of_2, with the special case of a single item.
WantedBuckets(n) == IF n = 1 THEN 2 ELSE (n + n \div 2) % WordSize

\* while (p < n) p <<= 1;
DoubleBuckets ==
    /\ phase = "size"
    /\ buckets < WantedBuckets(Len(keys))
    /\ buckets' = (2 * buckets) % WordSize
    /\ UNCHANGED <<keys, phase, slotKey, slotHash, slotValue, j, probe, query, result>>

\* One of the allocations fails.
OutOfMemory ==
    /\ phase = "size"
    /\ phase' = "oom"
    /\ UNCHANGED <<keys, buckets, slotKey, slotHash, slotValue, j, probe, query, result>>

\* Take up key number n: perturb = i = value_hash.
Begin(n) ==
    /\ j' = n
    /\ probe' = IF n <= Len(keys) THEN FirstProbe(CreateHash[keys[n]]) ELSE probe

\* Fill the vectors with empty slots and hash the keys.
Prepare ==
    /\ phase = "size"
    /\ buckets >= WantedBuckets(Len(keys))
    /\ slotKey' = [b \in Bucket |-> Empty]
    /\ slotHash' = [b \in Bucket |-> 0]
    /\ slotValue' = [b \in Bucket |-> Empty]
    /\ Begin(1)
    /\ phase' = IF \A n \in DOMAIN keys : keys[n] \in Hashable THEN "populate" ELSE "unhashable"
    /\ UNCHANGED <<keys, buckets, query, result>>

Placing == phase = "populate" /\ j <= Len(keys)

\* Faulty variant: the index of the slot is stored as its hash.
PlaceBucketAsHash ==
    /\ Placing
    /\ slotKey[BucketOf(probe)] = Empty
    /\ slotKey' = [slotKey EXCEPT ![BucketOf(probe)] = keys[j]]
    /\ slotHash' = [slotHash EXCEPT ![BucketOf(probe)] = BucketOf(probe)]
    /\ slotValue' = [slotValue EXCEPT ![BucketOf(probe)] = j]
    /\ Begin(j + 1)
    /\ UNCHANGED <<keys, phase, buckets, query, result>>

\* We hit an empty bucket.
Place ==
    /\ Placing
    /\ slotKey[BucketOf(probe)] = Empty
    /\ slotKey' = [slotKey EXCEPT ![BucketOf(probe)] = keys[j]]
    /\ slotHash' = [slotHash EXCEPT ![BucketOf(probe)] = CreateHash[keys[j]]]
    /\ slotValue' = [slotValue EXCEPT ![BucketOf(probe)] = j]
    /\ Begin(j + 1)
    /\ UNCHANGED <<keys, phase, buckets, query, result>>

\* Faulty variant: the hash stands for the key.
MetHash(k) == IF slotHash[BucketOf(probe)] = CreateHash[k] THEN "equal" ELSE "differ"

\* How key k fares against the one in the bucket: they are compared only if their
\* hashes are the same.
Met(k) ==
    IF slotHash[BucketOf(probe)] = CreateHash[k]
    THEN CreateCmp[<<slotKey[BucketOf(probe)], k>>] ELSE "differ"

\* "there are duplicate keys in the set/map"
Duplicate ==
    /\ Placing
    /\ slotKey[BucketOf(probe)] # Empty
    /\ Met(keys[j]) = "equal"
    /\ phase' = "duplicate"
    /\ UNCHANGED <<keys, buckets, slotKey, slotHash, slotValue, j, probe, query, result>>

\* if (*error) return 0;
Incomparable ==
    /\ Placing
    /\ slotKey[BucketOf(probe)] # Empty
    /\ Met(keys[j]) = "error"
    /\ phase' = "incomparable"
    /\ UNCHANGED <<keys, buckets, slotKey, slotHash, slotValue, j, probe, query, result>>

\* probe on
PlaceOn ==
    /\ Placing
    /\ slotKey[BucketOf(probe)] # Empty
    /\ Met(keys[j]) = "differ"
    /\ probe' = NextProbe(probe)
    /\ UNCHANGED <<keys, phase, buckets, slotKey, slotHash, slotValue, j, query, result>>

\* The vectors are handed over and written to the file.
Finish ==
    /\ phase = "populate" /\ j > Len(keys)
    /\ phase' = "built"
    /\ UNCHANGED <<keys, buckets, slotKey, slotHash, slotValue, j, probe, query, result>>

-----------------------------------------------------------------------------
(* pointless_hash_table_validate *)

Used == {b \in Bucket : slotKey[b] # Empty}

\* The checks that come before the probing.  An empty slot hashes to 0.
WellFormed ==
    /\ buckets >= WantedBuckets(Len(keys))
    /\ buckets = 1 \/ buckets \div 2 < WantedBuckets(Len(keys))
    /\ \A b \in Bucket \ Used : slotValue[b] = Empty
    /\ Used # Bucket
    /\ Cardinality(Used) = Len(keys)
    /\ \A b \in Used : slotKey[b] \in Hashable /\ slotHash[b] = ReadHash[slotKey[b]]
    /\ \A b \in Bucket \ Used : slotHash[b] = 0

Open ==
    /\ phase = "built"
    /\ phase' = IF WellFormed THEN "validate" ELSE "rejected"
    /\ j' = 1
    /\ query' = Empty
    /\ UNCHANGED <<keys, buckets, slotKey, slotHash, slotValue, probe, result>>

\* The loop over the slots.
ValidateSkip ==
    /\ phase = "validate" /\ query = Empty
    /\ j <= buckets /\ slotKey[j - 1] = Empty
    /\ j' = j + 1
    /\ UNCHANGED <<keys, phase, buckets, slotKey, slotHash, slotValue, probe, query, result>>

ValidateSlot ==
    /\ phase = "validate" /\ query = Empty
    /\ j <= buckets /\ slotKey[j - 1] # Empty
    /\ query' = slotKey[j - 1]
    /\ probe' = FirstProbe(slotHash[j - 1])
    /\ UNCHANGED <<keys, phase, buckets, slotKey, slotHash, slotValue, j, result>>

ValidateDone ==
    /\ phase = "validate" /\ query = Empty
    /\ j > buckets
    /\ phase' = "ready"
    /\ UNCHANGED <<keys, buckets, slotKey, slotHash, slotValue, j, probe, query, result>>

-----------------------------------------------------------------------------
(* pointless_hash_table_probe_priv, and the iteration by hash of            *)
(* pointless_hash_table_probe_hash whose callers compare each key it yields *)

\* Faulty variant: the hash is masked before perturb is taken from it.
LookupMasked(k) ==
    /\ phase = "ready"
    /\ k \in Hashable
    /\ phase' = "lookup"
    /\ query' = k
    /\ probe' = FirstProbe(ReadHash[k] % buckets)
    /\ result' = NoResult
    /\ UNCHANGED <<keys, buckets, slotKey, slotHash, slotValue, j>>

\* pointless_reader_set_lookup, pointless_reader_map_lookup and the like.
Lookup(k) ==
    /\ phase = "ready"
    /\ k \in Hashable
    /\ phase' = "lookup"
    /\ query' = k
    /\ probe' = FirstProbe(ReadHash[k])
    /\ result' = NoResult
    /\ UNCHANGED <<keys, buckets, slotKey, slotHash, slotValue, j>>

Probing == phase \in {"validate", "lookup"} /\ query # Empty

\* How the key that is sought fares against the one in the bucket.
Found ==
    IF slotHash[BucketOf(probe)] = ReadHash[query]
    THEN ReadCmp[<<query, slotKey[BucketOf(probe)]>>] ELSE "differ"

Hit ==
    /\ Probing
    /\ slotKey[BucketOf(probe)] # Empty
    /\ Found = "equal"
    /\ IF phase = "lookup"
         THEN phase' = "ready" /\ result' = BucketOf(probe) /\ UNCHANGED <<j, query>>
         ELSE IF BucketOf(probe) = j - 1
           THEN j' = j + 1 /\ query' = Empty /\ UNCHANGED <<phase, result>>
           ELSE phase' = "rejected" /\ UNCHANGED <<j, query, result>>
    /\ UNCHANGED <<keys, buckets, slotKey, slotHash, slotValue, probe>>

\* An unsuccessful probe: what is being validated is rejected.
ProbeEnds(r) ==
    /\ IF phase = "lookup"
         THEN phase' = "ready" /\ result' = r
         ELSE phase' = "rejected" /\ UNCHANGED result
    /\ UNCHANGED <<keys, buckets, slotKey, slotHash, slotValue, j, probe, query>>

ProbeMiss ==
    /\ Probing
    /\ slotKey[BucketOf(probe)] = Empty
    /\ ProbeEnds(Miss)

\* POINTLESS_HASH_TABLE_PROBE_ERROR
ProbeFails ==
    /\ Probing
    /\ slotKey[BucketOf(probe)] # Empty
    /\ Found = "error"
    /\ ProbeEnds(Error)

ProbeOn ==
    /\ Probing
    /\ slotKey[BucketOf(probe)] # Empty
    /\ Found = "differ"
    /\ probe' = NextProbe(probe)
    /\ UNCHANGED <<keys, phase, buckets, slotKey, slotHash, slotValue, j, query, result>>

Step ==
    \/ DoubleBuckets \/ Prepare \/ Place \/ Duplicate \/ Incomparable \/ PlaceOn \/ Finish
    \/ Open \/ ValidateSkip \/ ValidateSlot \/ ValidateDone
    \/ Hit \/ ProbeMiss \/ ProbeFails \/ ProbeOn

Next == Step \/ OutOfMemory \/ \E k \in Key : Lookup(k)

Spec == Init /\ [][Next]_vars

\* Each of these loops runs in one thread and waits for nothing.
FairSpec == Spec /\ WF_vars(Step)

-----------------------------------------------------------------------------
TypeOK ==
    /\ keys \in KeyLists
    /\ phase \in Phase
    /\ buckets \in Nat \ {0}
    /\ phase \notin {"size", "oom"} =>
          /\ slotKey \in [Bucket -> Key \cup {Empty}]
          /\ slotHash \in [Bucket -> Word]
          /\ slotValue \in [Bucket -> (Nat \ {0}) \cup {Empty}]
    /\ j \in Nat \ {0}
    /\ probe \in Probe
    /\ query \in Key \cup {Empty}
    /\ result \in Nat \cup {Miss, Error, NoResult}

Finished == {"built", "validate", "rejected", "ready", "lookup"}

\* The key vector has two keys of one hash that compare equal.
HasDuplicates ==
    \E m, n \in DOMAIN keys :
        /\ m < n
        /\ CreateHash[keys[m]] = CreateHash[keys[n]]
        /\ CreateCmp[<<keys[m], keys[n]>>] = "equal"

\* Duplicate keys are reported, exactly when there are some, whatever the other
\* keys and collisions between them (pointless_hash_table.c:169).
DuplicatesAreReported ==
    /\ phase = "duplicate" => HasDuplicates
    /\ phase \in Finished => ~HasDuplicates

\* A lookup that has returned tells whether the key was in the key vector, gives
\* the value that was given with it, and fails only where it could not be compared
\* with one of them (pointless_reader.c:442, 631).
LookupIsExact ==
    phase = "ready" /\ result # NoResult =>
      LET cmp(n) == IF ReadHash[query] = ReadHash[keys[n]] THEN ReadCmp[<<query, keys[n]>>] ELSE "differ"
      IN  \/ /\ result \in Bucket /\ slotValue[result] \in DOMAIN keys
             /\ cmp(slotValue[result]) = "equal"
          \/ result = Miss /\ \A n \in DOMAIN keys : cmp(n) # "equal"
          \/ result = Error /\ \E n \in DOMAIN keys : cmp(n) = "error"

\* assert(n_buckets > n_keys): a slot stays empty, or no probe would end.
SlotStaysEmpty == phase \in Finished \cup {"populate"} => Used # Bucket

\* A reader can probe for the n-th key: it hashes it as the writer did, and finds
\* it equal to itself.
ReadsBack(n) ==
    ReadHash[keys[n]] = CreateHash[keys[n]] /\ ReadCmp[<<keys[n], keys[n]>>] = "equal"

\* A reader also tells it from the others, of those it shares the hash with, as
\* the writer did.
ReadsApart(m, n) ==
    CreateHash[keys[m]] = CreateHash[keys[n]] =>
      {ReadCmp[<<keys[m], keys[n]>>], ReadCmp[<<keys[n], keys[m]>>]} = {CreateCmp[<<keys[m], keys[n]>>]}

ReadsAsWritten ==
    /\ \A n \in DOMAIN keys : ReadsBack(n)
    /\ \A m, n \in DOMAIN keys : m < n => ReadsApart(m, n)

\* A table that was written passes the checks made when it is read, wherever its
\* keys hash and compare as they did for the writer; and it passes them only if
\* the reader can probe for each key, so that a NaN and an empty vector, which
\* the writer takes, are refused (pointless_validate_hash_table.c:47, 58-66).
PopulatedIsValid ==
    /\ phase = "rejected" => ~ReadsAsWritten
    /\ phase \in {"ready", "lookup"} => \A n \in DOMAIN keys : ReadsBack(n)

\* Populating, validating and looking up end.
Completes ==
    /\ phase = "size" ~> phase \in {"oom", "unhashable", "duplicate", "incomparable", "ready", "rejected"}
    /\ phase = "lookup" ~> phase = "ready"

-----------------------------------------------------------------------------
(* The inductive invariant behind DuplicatesAreReported and LookupIsExact.  *)
(* A probe sequence is described by the set T of its states, which saves    *)
(* saying how long it is.                                                   *)

\* Probing from s meets used buckets only, until it meets b.
Path(s, b) ==
    \E T \in SUBSET Probe :
        /\ s \in T
        /\ \A t \in T : BucketOf(t) = b \/ (BucketOf(t) \in Used /\ NextProbe(t) \in T)

\* Probing from s meets used buckets only, until it gets to the current probe.
PathToHere(s) ==
    \E T \in SUBSET Probe :
        /\ s \in T /\ probe \in T
        /\ \A t \in T : t = probe \/ (BucketOf(t) \in Used /\ NextProbe(t) \in T)

\* The buckets that a new key k must not be placed without having met, and those
\* that decide about a key k that is sought.
Rivals(k) ==
    {b \in Used : slotHash[b] = CreateHash[k] /\ CreateCmp[<<slotKey[b], k>>] # "differ"}
Answers(k) ==
    {b \in Used : slotHash[b] = ReadHash[k] /\ ReadCmp[<<k, slotKey[b]>>] # "differ"}

\* Probing will get to each of the buckets in B.
PathTo(B) == \A b \in B : Path(probe, b)

HasTable == phase \in Finished \cup {"populate", "duplicate", "incomparable"}

\* The number of keys that have been placed.
Placed == IF phase \in Finished THEN Len(keys) ELSE j - 1

\* The used slots hold the keys placed so far, each once and with its hash and
\* value, no two of them equal, and each is found by probing for its hash.
SlotInv ==
    HasTable =>
        /\ \A b \in Used :
              /\ slotHash[b] = CreateHash[slotKey[b]]
              /\ slotValue[b] \in 1..Placed
              /\ slotKey[b] = keys[slotValue[b]]
              /\ Path(FirstProbe(CreateHash[slotKey[b]]), b)
        /\ \A n \in 1..Placed : \E b \in Used : slotValue[b] = n
        /\ \A b, c \in Used : slotValue[b] = slotValue[c] => b = c
        /\ \A b, c \in Used : slotValue[b] < slotValue[c] => b \notin Rivals(slotKey[c])

PlaceInv ==
    /\ phase \in {"populate", "duplicate", "incomparable"} => j <= Len(keys) + 1
    /\ Placing => PathToHere(FirstProbe(CreateHash[keys[j]])) /\ PathTo(Rivals(keys[j]))

\* Once the checks that come before the probing have been passed, the hashes in
\* the table are those of the reader.
HashInv ==
    phase \in {"validate", "ready", "lookup"} => \A b \in Used : slotHash[b] = ReadHash[slotKey[b]]

ProbeInv == Probing => query \in Key /\ PathTo(Answers(query))

TableInv == SlotInv /\ PlaceInv /\ HashInv /\ ProbeInv

-----------------------------------------------------------------------------
(* The same for PopulatedIsValid.                                          *)

\* No power of two smaller than the number of buckets would have done.
SmallestPower == buckets = 1 \/ buckets \div 2 < WantedBuckets(Len(keys))

\* What the writer's table owes to the checks that are not about probing.
TableIsSound ==
    /\ buckets >= WantedBuckets(Len(keys))
    /\ \A n \in DOMAIN keys : keys[n] \in Hashable
    /\ \A b \in Bucket \ Used : slotValue[b] = Empty /\ slotHash[b] = 0

\* The slots whose probe has come back to them.
Validated ==
    CASE phase = "validate" -> {b \in Used : b < j - 1}
      [] phase \in {"ready", "lookup"} -> Used
      [] OTHER -> {}

ValidInv ==
    /\ phase = "rejected" => ~ReadsAsWritten
    /\ HasTable \/ phase = "size" => SmallestPower
    /\ HasTable => TableIsSound
    /\ phase = "validate" /\ query # Empty => j - 1 \in Bucket /\ slotKey[j - 1] = query
    /\ \A b \in Validated : ReadCmp[<<slotKey[b], slotKey[b]>>] = "equal"
=============================================================================
