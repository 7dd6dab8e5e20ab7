# A TLA+ model of pointless

`pointless` is a C library, with a Python extension over it, that writes a graph
of values (numbers, texts, bitvectors, vectors, sets, maps) into one immutable
file and reads it by mapping it.  There is no server and no protocol.  What is
hard is in the algorithms that turn a mutable graph into a file, in the
agreement between the writer and the reader, in publishing a file under a name
that others are reading, and in what remains when a step in the middle fails.

This directory holds TLA+ modules of those parts, TLC configurations that
check them on small instances, and proofs that TLAPS checks for all instances.
`PROJECT.json` maps every definition to the lines it stands for.

## Inventory

| Component | Source | State | Operations | Modelled by |
|---|---|---|---|---|
| Cycle marker | `pointless_cycle_marker.c` | path, component stack, pre-order numbers, low links, marks | one depth first search from the root | `CycleMarker` |
| Hash table | `pointless_hash_table.c`, `pointless_validate_hash_table.c` | three parallel vectors: hashes, keys, values | populate, validate, probe | `HashTable` |
| File publishing | `pointless_create_output_and_end_f`, `_pointless_open_f`, `pointless_close` | descriptors, FILE buffer, the directory, mapped files | mkstemp to rename; fopen to mmap; close | `Publish`, `AtomicFile` |
| Serializer | `pointless_create.c`, `pointless_cycle_marker_wrappers.c` | arrays of values, vectors, sets, maps, blobs; the root | constructors, append, add, output, end | `Serializer` |
| Hashing | `pointless_hash.c` | none | hash of a value under construction, of a value in a file | `KeyLookup`, `Serializer` |
| Comparison | `pointless_cmp.c` | depth | order and equality of values | `KeyLookup` |
| Reader | `pointless_reader.c`, `pointless_reader_helpers.c` | header and offset vectors of a mapped file | items, lookups, typed lookups | `KeyLookup`, `ReaderObject`, `Publish`, `HashTable`, `Serializer` |
| Validator | `pointless_validate*.c`, `pointless_walk.c` | visited bitmaps, depth, cycle marks | three walks over the file | `Validate` |
| Expressions, integers | `pointless_eval.c`, `pointless_int_ops.c` | the value reached | a path of subscripts; checked arithmetic | paths in `KeyLookup`; arithmetic not |
| Bitvectors, values | `pointless_bitvector.c`, `pointless_value.c` | none | choice of a compressed form, hash and comparison across forms | in part, `KeyLookup` |
| Recreate | `pointless_recreate.c` | handles of values already copied | copy of a file into a writer | `Traverse` |
| Dynamic array, sort, memory | `pointless_dynarray.c`, `custom_sort.c`, `pointless_malloc.c` | length, capacity | growth, heap sort | in part, `PrimVector` |
| Python primitive vector | `python/pointless_prim_vector.c` | array, type, count of exports | mutation, slices, iteration, sort, buffers | `PrimVector`, but for queries |
| Python reader objects | `python/pointless_object.c`, `_vector.c`, `_map.c`, `_set.c` | references between views, file, iterators and buffers | init, close, iterate, index, slice, export | `ReaderObject` |
| Python serialisation | `python/pointless_create.c` | table of objects already written | traversal of Python objects | `Traverse`, conversions in `KeyLookup` |
| Python hash and comparison | `python/pointless_pyobject_hash.c`, `_cmp.c` | none | agreement with the C definitions | `KeyLookup` |
| Judy arrays | `judy-1.0.5/src/JudyCommon`, `JudyL` | a radix tree whose nodes change form | insert, delete, get, first/next/prev/last, count, free | `Judy`, `IndexMap` |
| Python bitvector | `python/pointless_bitvector.c` | bits, count of ones | append, extend, set, pop | no |
| Printing, debugging, text conversion | `python/pointless_print.c`, `pointless_debug.c`, `pointless_unicode_utils.c` | none | formatting | no |

How they interact: a client calls the constructors of the serializer, which
hand out handles (indices into the array of values).  The Python extension and
`pointless_recreate` are such clients: they walk a graph of objects, or of values
of another file, and keep a table from what they met to its handle.  Output renumbers the
vectors, runs the cycle marker over the graph through callbacks, tags, compresses,
builds the hash tables, computes offsets and writes, either into a buffer or
into a temporary file that is renamed over the published one.  A reader maps the
file, may validate it, and follows offsets; lookups probe the tables the
writer built with the same probe sequence, by the hash and the comparison of whoever
asks: C values, Python objects, or the typed helpers.  Python views hold a reference to the file object
and read through its pointers.  The numbers of the cycle marker and the
exporter's table of objects are JudyL arrays, on which the serializer's JudyHS maps of texts and bitvectors are built too.

What makes each correct:

* marker: it ends, every reachable cycle has a mark, nothing off a cycle has one;
* hash table: duplicates are found, lookups are exact, a free bucket remains, the
  reader's validation accepts what the writer builds, and only what can be found again;
* hashes and comparisons: where a key may be written, all who look for it agree on its
  hash and on what it equals;
* publishing: whoever fails and whenever, the name stands for a whole file;
* serializer: what a reader finds is what the client built; keys are hashed as the reader
  will hash them; memory is freed;
* traversal: the handles have the sharing and the cycles of the objects, and every failure
  reaches the caller;
* validator: what it accepts is sound on every path to it, it reads nothing that it
  has not checked, it rejects only for a fault, and it ends, unless the tags of one vector
  disagree or a hashable vector holds what cannot be hashed;
* reader objects: what a view, an iterator or a buffer points into is open as long as they live,
  and closed after;
* primitive vector: a buffer that is held keeps its memory, iteration and bulk
  operations are exact when nobody interferes, items always fit their type;
* Judy arrays: they are maps, whatever form their nodes are in, and account for every word.

The list of hazards in `PROJECT.json` says at which lines these can go wrong and
which property would show it.

## Modules

### CycleMarker

The recursion of `pointless_cycle_marker_visit` and `process_child` is the
variable for the path; each entry and exit of a call, each child looked at and
each member popped is one action.  The graph is a constant function `Children`
from containers to sequences of containers and leaves, chosen in `Init`.  Two
peculiarities of the code are kept: the number given to a container is its
distance from the root on the path by which it was reached, not the count of
containers visited, so that containers in different branches share numbers; and
the container that closes a component is popped without being marked.

`CyclesAreBroken` says that removing the marked containers leaves no cycle,
`MarksAreOnCycles` that a marked container is on one, `SearchIsComplete` that
everything reachable was settled, `DepthLimit` that the error of the depth limit
occurs only where the path is that deep, `NoInternalError` that the guard on
the number of nodes never fires, and `Terminates` that the search ends.

### HashTable

`pointless_hash_table_create`, `populate`, `validate`, and the probing that sets
and maps use.  Words have `WordSize` values, so that the perturbed probe sequence
of the code (five times the bucket plus one plus the perturbation, which is divided at
each step) is computed as in the code with its overflow.  Keys are inserted one by one;
each probe is a step.

What a key is, the module does not say: writer and reader have each a function for its
hash (`CreateHash`, `ReadHash`) and one for the comparison of two keys (`CreateCmp`,
`ReadCmp`), which may fail.  The two need not agree, a key need not equal itself, nor
equal keys have one hash.  Such keys exist: NaN differs from itself, and a writer hashes
and compares an empty vector as if it were another.  The instance holds one of each, and
keys whose comparison fails.  Where equal keys have one hash is for `KeyLookup` to say.

`DuplicatesAreReported` and `LookupIsExact` hold whatever the keys are.
`PopulatedIsValid` says that the reader accepts what the writer built where it hashes and
compares the keys as the writer did (`ReadsAsWritten`), and that a table with a key that has
another hash when read, or is not equal to itself, is refused: see Deviations.

### Publish and AtomicFile

Every system call of the writer is an action that may fail, in the order of the
code, with the cleanup that follows; the reader's `fopen`, `fstat`, `mmap` and
`close` likewise.  A file system, external, keeps inodes with a cached and a
durable length and a directory with a cached and a durable state; data and
directory reach the disk at any time in any order, except that `fsync` forces
data.  `Kill` ends a process between any two calls and `PowerFailure` falls back
to what is on disk.  The cleanup unlinks a name that it has freed; that it
removes the temporary file or not is a choice in the model.

`AtomicFile` is what clients rely on: a name stands for one version, replaced at
once, a reader keeps the version it opened, a power failure falls back to a
version that was current.  `ImplementsAtomicFile` is the refinement.

### Serializer

A client creates values in any order, fills vectors and tables, sets a root and
asks for the output; allocations may fail half way through a set or map.  Output
then runs through the passes of `pointless_create_output_and_end_`, one action
per iteration of a loop that matters and one per pass otherwise; the layout of tables is a step for each
set and then for each map.  What a failed creation of a set or map leaves behind is one of `Leftovers`.  The file is a
sequence of records with offsets; `Fetched` and `ReadsAs` read it back by the
rules of the reader.  Both passes visit the values in the order `HeapOrder`, six loops over the handles;
the first lays them out from 0 by the sizes that it computes, the second from the end of the header by those that it
writes (`Placed`), and `Image` is the file that results.

`FileIsFaithful` compares what is read, through the offsets, with what was built,
`KeysHashedAsRead` compares what the recursion of the hash looks at when a key is
written, in the key and in all vectors inside it (`Hashed`), with what it looks at when
the key is read (`HashedByReader`), for keys that no empty vector is inside of, and `EverythingIsFreed` says that all
blocks are freed when output ends, on every path but one: out of memory in the
middle of the renumbering (`pointless_create.c:754`) leaves numbers that do not match
the array, and vectors are freed through the wrong entries.

### Validate

A file is a record of what its bytes say: a version, how much of header and offsets
there is, a root, and objects, each with the room left for it in the heap and the
items it claims to have.  Nothing about it is assumed but that objects are counted
by the header.  The recursion of `pointless_walk_priv` is the variable `path`, with
the header at its bottom; each call of the callback is one action, by what it
returns: `TooDeep`, `BadReference`, `BadValue` stop the walk, `MoveUp` is a container
seen before, `VisitLeaf` and `VisitContainer` go on, and `Return` ends a loop over
children.  `Mark` is the cycle marker between the first two passes; it may set any
marks that `CyclesAreBroken` (proved) and `MarksAreOnCycles` of `CycleMarker` allow.
Which buckets of a table have another hash than their key, or cannot be probed to, is
said by the file (`wrong`); that is `HashTable`'s concern.  To hash the keys, though, pass 3
recurses into hashable vectors (`HashReach`), without a limit on the depth and without asking
whether items can be hashed: `NoAnswer` is what happens when that calls a null pointer or does not
return, and `lost` is its end.

`AcceptedIsSound` is what clients of an open file rely on, `ReadsAreChecked` what the
validator itself relies on, and `HashingEnds` what hashing relies on.  The last holds for
files whose references to one vector agree on its tag (`UniformTags`), as the writer's do; without that, a vector that is
first met as a plain one is never checked as a hashable one.  `Terminates`, that opening ends with an answer,
needs besides that hashable vectors hold hashable values (`HoldHashables`), which nothing checks;
each condition is needed, and TLC finds pass 3 lost without it.  `RejectedForCause` is
the other direction: no sound file is turned away.

### PrimVector

One vector object of the Python extension.  The interpreter lock makes each method
one step, except `append_bulk` and `__init__` with a sequence: both ask a Python
iterator for each item, in which, or in another thread, anything may be done to the
vector.  These are `BulkStart`, `BulkNext`, `BulkEnd`, `BulkFail` and
`InitSequence`, `InitNext`, `InitEnd`, `InitFail` of a `Caller`; `n` is `n_append`,
while `before` and `alone` record what the vector held and whether anybody else has
changed it.  The array is a sequence of numbers with its capacity; where it is freed or moved,
held buffers become `lost`.  A call that raises and changes nothing is a stuttering
step.  Undefined behaviour sets `fault` and ends the behaviour.  The model keeps what
the code does in a few places where one would expect something else:

* `pop_bulk` does not ask for exports (`PopBulk`); the memory stays, so buffers remain valid;
* a refused `__init__` resets the type but not the size of an item, after which
  searches and sorts compare bytes between items (`Consistent`, `Scrambled`);
* assignment to a negative index is offset by what a list keeps as its length, here
  `allow_print` and `ob_exports` (`Offset`): `v[-1] = x` assigns to the first item;
* `sort_proj` checks only the lower bound of signed items (`InBounds`);
* `append_bulk` of a vector to itself ends when memory does (`BulkSelf`);
* a failing `append_bulk` pops more than there is when other code has shortened the
  vector (`"underflow"` in `BulkFail`; the assertion in `pointless_dynarray_pop` is compiled out).

`ViewsStayBacked` says that none of this takes memory from under a buffer, with one
exception, which `NoViewIsLost` shows (see Deviations).

### ReaderObject

One `Pointless` object, the views programs take of the containers of its file (`GetRoot`, `Subscript`, slices), and the
iterators and buffers taken of the views, with the reference counts the code keeps.
A method is one step under the interpreter lock; only `__init__` releases the lock, around the close of the old file,
around the copy of a source buffer and around opening, and is split there, so that two threads may be inside it at once.
Files are numbered mappings, so that a view remembers which one it was made of; what a dangling pointer
finds afterwards is undefined and sets `fault`, which ends the behaviour.

`ViewsAreBacked` says that as long as `__init__` ran once, every view, iterator and buffer points into an
open mapping; `NothingLeaks` that each mapping is closed
once nothing holds the object, unless two calls of `__init__` overlapped; `IterationIsExact` that an iterator yields what the view showed,
for slices of slices and for the cells of a table that are not empty, and that bisection and comparison agree with it.
Any `next()` may raise because its item cannot be made a Python value (`IterNextFails`).  The iterator of a vector is still at the item then, that
of a set or a map is past it: the first returns every item in the end, the second all but those (`Lost`).  The conditions are what the code
needs and does not enforce: the object has no guard against a second `__init__`.

### Judy and IndexMap

JudyL from the inside: null, immediate, linear and bitmap leaves, linear, bitmap and uncompressed branches, the root's
word-sized leaf and the JPM.  `InsWalk` and `DelWalk` follow `j__udyInsWalk` and `j__udyDelWalk` with the changes of
form that they make (cascades up when a leaf is full, down when a population has shrunk, splits
where the skipped digits differ), in the order in which the code allocates, so that an allocation that fails leaves the tree as the code leaves it.
`GetSM`, `Seek` and `CountSM` are the state machines of `JudyLGet`, `JudyLNext` and `JudyLPrev`, and `JudyLCount`.

`TreeIsWellFormed` has the populations, skipped digits and size limits of every node, `MemoryIsAccounted` compares the words the JPM counts
with those obtained from malloc, `SearchIsExact` compares search, neighbours and counts with the set of indexes, and
`ImplementsMap` is the refinement of `IndexMap`, the map that callers rely on: an operation that fails for
memory changes nothing they can see, with one exception, which `StaysUsable` shows (see Deviations).

### KeyLookup

A key passes through four representations: a Python object, a value under construction, a value in the file
and the argument of a query.  Each has its own hash and comparison: `Value` converts, `Hash`
and `PyHash` give the words that are mixed, `CmpCreate`, `CmpReader` and `PyCmp` compare group by group.
A table is built with one and asked with another (`AskPython`, `AskInt`, `AskString`, `AskStringN`, `AskUnicode`, `AskEval`, `AskSameKeys`).
Hashes are sequences of mixed words and may all coincide (`Folds`), so that a collision is met for every pair of keys.

`WriterIsExact` says which sets are written and which refused, `PythonFindsKeys` that a Python query is exact, `SameKeysIsExact` the same of
the comparison of two key sets, `HelpersFindKeys` of the typed helpers and expressions.  Each names the cases in which the code
is not: see Deviations.  This module has recursive operators over nested values and is only checked by TLC.

### Traverse

`pointless_export_py_rec` over Python objects and `pointless_recreate_convert_rec` over the values of a file, the first
calling the second for each view it meets, as one machine: `stack` is the calls in progress and `ctl`
the call or return under way.  A container is entered into the table before its children are visited, which is
what makes cycles and sharing come out.  Any allocation may fail, any object may be refused; the error then passes up through the loops of each
level, as each of them handles it, to `serialize`, `serialize_to_bytes` or `pointless_recreate_64`.

`HandlesMirrorObjects` unfolds objects and handles together and compares them (one object per handle, except that views of a file are
copied anew for each view), `OutcomeIsReported` says that the caller sees a failure exactly when nothing was written, and `RecursionIsBounded` that
the stack never exceeds the limit in Python and the number of containers in a file.

## Runs

| Run | Shows | Bounds |
|---|---|---|
| `cycle_marker` | the search and its marks, the depth limit, termination | every graph of three containers with at most two children each (all patterns of sharing, self loops and leaves of that size); paths of four containers with all back edges and a second branch into them, where two nodes of one nesting level share a component; paths of up to five containers, the longest deeper than the limit of 7 |
| `hash_table` | build, validate, look up | keys over a word of 16 values with equal hashes, equal keys and unhashable keys, a NaN, an empty vector and keys that cannot be compared; up to the size where the number of buckets doubles |
| `publish` | failures, kills and power failures | two writers, one reader, files of two writes; enough inodes for each to hold one and the disk another |
| `serializer` | values of every kind, tables, cycles through them, half-made tables | up to five values with two items each.  The constraint `FewOrTables` keeps four families of clients: those that use every kind of value create two, those that have all numbers in vectors three, those that have sets, maps and vectors of the cached number five, and those that have one vector, one set and one native vector have three items between them, so that a key of the set can be a vector with a vector inside.  A vector in a key of a table, and a cycle through both, need no more |
| `validate` | opening and validating | all ways in which a root, a set or map and two vectors of at most two items refer to each other; objects that overrun, uneven tables, keys that are hashable vectors on cycles or with unhashable items, wrong buckets before and after them, paths around a depth limit of 4, all versions and truncations |
| `prim_vector` | methods, buffers, iterators and two callers that append or construct | arrays of up to two items, grown twice; two integer types of one size, one signed, and one of another size; two buffers, one iterator; iterators that give up to two items |
| `reader_object` | views, iterators, buffers, `__init__` in two threads | one file of a vector, a map, a set and numbers; two views, one iterator, one buffer, two calls of `__init__` and two mappings: one call to open, one to take the file from under a view; a `next()` that raises for one item (`FewRaised`), the set having two |
| `judy` | every sequence of insertions and deletions, with allocations that fail at once, after one, or never | nine indexes of four digits in base 6, with thresholds scaled down in the order of the real ones (leaf limits fall from level 2 on, an immediate holds less than a leaf).  All forms of node occur; a bitmap branch above level 2 and at the root does not, for lack of indexes |
| `key_lookup` | writing and finding keys | sets of up to two of 31 keys of every kind and every query of each; the numbers at which the code changes its mind are scaled (2^32 to 16, 2^24 to 8, 256 to 4, 27 bits to 3).  One question per table is enough, since none changes it |
| `traverse` | exports and copies | every graph of three Python objects with at most two items, views of a cyclic file of five values, a depth limit of 3 in place of 512; any allocation may fail |
| `mixed_keys`, `empty_key` | expect a violation: the findings below | |

Fairness is weak fairness of the next step in the modules that state liveness
(`CycleMarker`, `HashTable`, `Validate`).  All are loops of one thread that take no lock
and wait for nothing, so the code justifies it.  The others state no liveness: a client may stop at any time.

## Findings

* `mixed_keys`: a comment in `pointless_cmp.c` says that values of different groups compare by their
  type.  The line above it takes both comparison functions from the first value, so the branch is never
  reached, and two keys of one hash and different groups, such as 0 and None, cannot be written in one set.
* `empty_key`: an empty vector that is dropped gets number 0 and is hashed as vector
  0, be it a key or inside of one; the table that results does not validate or misses the key.

## Deviations

The models keep what the code does where one would expect something else, and the properties say where they do
not hold for that reason.  Six configurations reproduce some of these; TLC finds each property violated.

| Configuration | Property | What happens |
|---|---|---|
| `MCCycleMarker_hashable.cfg` | `HashableNotOnCycle` | `pointless_validate.h:31` says that hashable vectors are not on cycles; the member that closes a component stays unmarked and is tagged hashable |
| `MCSerializer_hashable.cfg` | `HashableHoldsHashable` | `pointless_validate.h:36` says that hashable values hold only hashable values; the writer tags by cycle marks alone |
| `MCSerializer_large.cfg` | `LargeVectorsAreFaithful` | the size of a vector is computed in a `uint32_t` (`pointless_create.c:937`, `:998`), the offset that it advances has 64 bits: after a vector of 2^32 bytes or more, whose number of items is within what the API takes, every offset is too small.  `pointless_validate.h:13` guarantees that correct use of the API never produces invalid results.  A byte has two values here, so that a `uint32_t` counts 16 |
| `MCValidate_old.cfg` | `OldFilesAreRefused` | the case of the 32 bit version in `pointless_reader.c:18` sets an error and leaves the switch where the other cases return: such a file is opened and misread |
| `MCPrimVector_lost.cfg` | `NoViewIsLost` | `__init__` asks whether there are exports, then reads its sequence, and when that fails frees the array under a buffer that was exported meanwhile |
| `MCJudy_nomem.cfg` | `StaysUsable` | deleting down to the size of a root leaf, when that cannot be allocated (`JudyDel.c:1989`), leaves a JPM that the next call takes for a leaf.  `Judy.h` says that an array is unchanged by an operation that fails for memory |

Others, by module:

* `HashTable`: a set or map with a NaN for a key, or a vector that holds one, is written; when it is opened, the probe for that key does not
  find it (`SIMPLE_CMP` of NaN with itself is not 0, `pointless_defs.h:178`), and the file is refused (`pointless_validate_hash_table.c:62`).  The same
  goes for a key that holds an empty vector, `[[]]`, after another vector was created: the hash in its slot is not that which the reader computes
  (`:47`).  `pointless_validate.h:13` guarantees that correct use of the API never produces invalid results.  Both are `rejected` tables in the run
  `hash_table`, and the condition `ReadsAsWritten` of `PopulatedIsValid` is there for them.  A comparison that fails in a lookup occurs in the proofs
  only: where writing refuses two kinds of one hash, and the cycle marker keys that are nested too deeply, no table has such a key.
* `Serializer`: out of memory in the middle of the renumbering leaves numbers that do not match the array (`pointless_create.c:754`).
  A vector that is on no marked cycle is tagged hashable, whatever it holds: as a key that holds what is not hashable, it
  makes the hash call a null pointer (`HashCrashes`, `pointless_hash.c:331`).  A cycle that the root does not lead to is never marked; the sets and
  maps on it are laid out all the same, and the hash of a key that is a vector on it recurses until the stack is full.
* `Validate`: the hashes that pass 3 computes recurse without a limit (`pointless_hash.c:231`).  In a file where a vector is first met as a plain
  one and is then a hashable one on a cycle, they do not return; where a hashable vector holds a plain one, a set or a map, they call a
  null pointer.  `Terminates` has a condition for each.
* `ReaderObject`: a second `__init__` closes the file under existing views, and two at once leave a mapping open; `GetRoot` reads a header
  that is gone when the second call failed; a `next()` of a set or a map that raises loses its item, that of a vector does not
  (`pointless_set.c:79`, `pointless_vector.c:260`); another thread may resize the source buffer while it is copied without the
  lock (`pointless_object.c:149`); a buffer of a vector in a file is exported as writable, but the mapping is not (`pointless_vector.c:496`).
* `Traverse`: the value of a dict is visited although its key has failed, and its exception may replace that of the key
  (`python/pointless_create.c:425`); a slice of a vector of values is exported as the whole vector (`:150`); sharing between two views of one file is lost,
  each view having its own table; after a failure the writer's state is not freed; the recursion over a file has no limit of its own.
* `KeyLookup`: two vectors of 64 bit numbers with one hash, and a packed and a plain bitvector of one hash, crash the writer's comparison
  (`pointless_cmp.c:451`, `pointless_bitvector.c:166`); a Python vector of 64 bit numbers hashes otherwise than the same in a file
  (`pointless_pyobject_hash.c:70`, `:257`); NaN is never found; a string finds a key that is its prefix up to a zero character; a negative and an
  unsigned number compare as less both ways (`pointless_cmp.c:203`); a query of another group with the hash of a key raises; the
  integer helpers miss negative numbers and UINT32_MAX, the unicode ones strings of more than one character, an expression the
  empty quoted key.
* `Judy`: when a bitmap branch cannot be turned into a linear one for lack of memory, the failure is ignored; the tree stays well formed.

## Proofs

TLAPS proves the theorems for every value of the constants that satisfies the
named assumptions.

* `CycleMarkerProofs`.  `SearchInv` is the inductive invariant.  Besides types it
  says that the path is made of edges, that what is on the stack can reach the
  path, that low links never exceed numbers and point at something on the path,
  and that every edge from a settled container leads to a settled one or is
  accounted for by a low link.  It is needed because `CyclesAreBroken` speaks of
  the end of the search only.  The argument that no cycle remains does not use
  that numbers are unique: it orders containers by when they were settled, and
  shows that the only edges against that order leave marked containers.
* `HashTableProofs`.  `TableInv` relates the buckets to the keys inserted so far
  and says that every bucket on the probe sequence of a key before its own is
  full, and that no key was put behind one that it equals (`Rivals`).  From it follow
  `DuplicatesAreReported` and `LookupIsExact`, since lookup walks the same sequence.
* `PublishProofs`.  `IInv` is `TypeOK` and `PublishInv`: how far each temporary
  file has come at each step of its writer, that it belongs to that writer only,
  and that what has been published or opened is whole.  It gives the safety
  properties, and the step simulation of `AtomicFile`.
* `ValidateProofs`.  `IInv` is `TypeOK` and `WalkInv`.  That a finished pass has met
  everything cannot be seen from its end alone: the invariant says that the pass is
  done with each child before the current one of every container on the path, and
  with all children of every container that was visited and is no longer on the
  path (`ProgressInv`, `VisitedInv`).  At the end of the walk the values it is done
  with are therefore closed under children, and hence contain all that can be reached
  (`WalkIsExhaustive`).  What one pass established becomes part of `PassInv` of the next.
  For the hashes of pass 3, pass 2 has left no mark on a hashable vector, so that a cycle of them would be one that the marker left
  unmarked: the recursion from a key stays within hashable vectors and what they hold, and meets no vector again (`HashDoesNotReturn`).
* `PrimVectorProofs`.  `IInv` is `TypeOK`, `ViewsStayBacked` and `SizeInv`: the size of a cell is at
  least that of an item.  The last is needed because a refused `__init__` resets the type and not
  the size; without it an export might reach beyond the array.  The argument is that each step
  either leaves the array alone or runs while `ob_exports`, the count of buffers, is zero, and
  that the one exception, an `__init__` that fails, records the buffers it frees.
  `IterationIsExact` and `BulkIsAllOrNothing` need `WaitingInv` besides: where a caller that waits for its
  iterator is alone, the vector begins with what it held before and ends in what was appended since.
  The condition on one return from an append is an operator of its own, `ReturnsWhole`, so that the
  action property can be proved step by step.
* `CycleMarkerProofs`, marks.  `MarkInv` follows the node stack in both directions: what lies above an active
  container was found from it (`DescendInv`), and what lies on the stack has a way back to an active container
  at or below it, at a level that its low link does not undercut (`AscendInv`).  A member popped while it has
  company is therefore on a cycle.  `NestingInv` says that activations are a path and that every visited
  container has a parent one level above it, from which both halves of `DepthLimit` follow.
* `HashTableProofs`, validation.  `ValidInv` adds that no smaller power of two would have done
  (`SmallestPower`), and that what no key fills is the empty slot with hash 0 (`TableIsSound`); with the probe
  sequences of `TableInv`, every check of the reader passes for keys that read as they were written.  For the other half,
  `HashInv` and `ValidInv` keep what the checks passed so far have shown.
* `ValidateProofs`, rejections.  `CauseInv` says that the containers on the path are different, because each is
  entered once in a pass, and that only what lies on a cycle was marked; so a path at the limit has that
  many containers, and each other rejection points at what can be reached.
* `ReaderObjectProofs`.  `ReaderInv` has `CountsAreExact`, which equates every reference count with the number of
  things that hold it (the program, views, iterators, buffers, calls in progress), and two parts that hold under
  the conditions of the properties: `OnceInv`, as long as `__init__` ran once at most, follows the one mapping
  through the call; `ApartInv`, as long as calls do not overlap, ties what is open to how far the call has come.
  `ViewsAreBacked` and `NothingLeaks` follow.  What iterators return is followed step by step: the item that an iterator goes on to
  is a new one, and is appended to what it returned or is lost (`GoesOn`).  For `IterationIsExact` there is besides `ViewsShowSlices` an
  induction over the bounds of `bisect_left` and an argument that the place where two vectors first differ is
  unique; the loop of `BisectLeft` is a function of the pair of its bounds for that purpose.
* `TraverseProofs`.  `WalkInv` says of the calls in progress that those for Python objects come first and are
  within the limit, that those for values of the file are of different containers that the mapping has already
  (`NestInv`), and of errors that `is_error` is never set without one, and that an error without
  it is that of a walk over the file on its way back (`ErrorInv`).
* `TraverseProofs`, mirrors.  `MirrorInv` says that, as long as no error is pending, there is a way back from handles
  to nodes, `origin`, and a view that is being visited, or none, with `Mirrors(origin, view)`.  Neither is a variable of the
  program: a container's handle does not say whether it is that of a value of the file, nor through which view it was reached.
  Its parts say that what `used`, `mapping` and `cache` remember suits the node it is
  remembered for (`SeenOK`); that every container has one handle, is remembered, and holds handles that fit its children in their order, all of
  them once its call is over (`HandlesOK`); that each call in progress is for the current child of the one below it and has added as many items as
  its index says (`CallsOK`); and that what is returned suits what was called for (`TurnOK`).  An error breaks this, because containers that
  are left half filled are remembered all the same; but an error stays, and then nothing is written.  At the end `origin` tells apart the handles of different
  containers, and an induction over the steps from the roots (`MirrorFits`) gives `HandlesMirrorObjects`.
  The invariant was first checked with TLC on the instance of `traverse`, with `origin` and `view` as history variables that the steps set.
* `SerializerProofs`.  `SerializerInv` relates the arrays of `pointless_create_t` to what the client was told.
  Its core is `VectorInv`: during the renumbering, vectors before `i` are found in the new
  array and the others in the old one (`Home`), and the entry that a vector's number leads to is its
  own and has its items.  `NumberInv` says that sets and maps are numbered in the order of their handles, so that
  their renumbering changes nothing; `PartInv` that no two of them share a vector; `LiveInv` that
  what is allocated hangs on a value that frees it; `HashInv` that each set or map laid out so far has the hashes that a reader will compute of its keys, unless an
  empty vector is inside: by `ContentInv` (below) the recursion gets to the same handles as the reader's (`SameWay`) and finds in each what the client put there.  Each action of a client and each step of the output has its lemma.  The layout of tables
  goes through the handles twice, for sets and for maps, as the code does (`phase` is `sets`, then `maps`), and
  `LaidOut` says which are behind it.
* `SerializerProofs`, the file.  `FaithInv` has three parts.  `OrderInv`: the handles of each kind are numbered from 0 in ascending order, in the
  middle of the renumbering up to `i` by the new numbers, so that the entries of each array are in the order in which a loop over the
  handles meets them.  `ContentInv`: every vector, compressed or not, and every table, with its parts as far as it is laid out, still
  has what the client put under its handle, and compressed items fit the type that was chosen.  `ImageInv`: a file that has been written is the `Image` of
  the values.  From the order follows that the number of a reference, counted from the start of its kind's section, is the
  place of its handle in `HeapOrder`; from the two passes, that offsets and positions there agree
  (`PlacedApart`: all bases are multiples of 4, so aligning from 0 and from the header comes to the same) and that no two things are at one
  place; so that `Fetched` finds one record, and that is the handle's.  The theorem `FileHolds` has the hypothesis `SizesFit`, that no vector
  takes 2^32 bytes.  It is needed: `MCSerializer_large.cfg` violates the property without it (see Deviations).

Two facts about numbers are used without an induction theorem of the library, whose operator parameters
the provers cannot instantiate: that a non-empty set of naturals has a least member, and that a set which
contains the first numbers and is closed under successor contains all of them. They are proved where they
are used, for sets in place of predicates.

The type invariants, `SearchIsComplete` and `NoInternalError` are proved and, but for `TypeOK` of `PrimVector`, no run repeats them.

Only model-checked: liveness (`Terminates`, `Completes`) and all of `KeyLookup` and `Judy`.
Liveness is out of reach of the provers, and so are `KeyLookup` and `Judy`, whose operators recurse over nested values and trees: what they
compute is an induction over data.
The two findings and the deviations are violations, which TLC shows.

The assumptions on constants (`InlineAssumption`, `BlobAssumption`, `VectorAssumption`, `TableAssumption` and `BoundAssumption` of
`Serializer`, `VectorAssumption` and `FiniteAssumption` of `ReaderObject`, and those of the other modules) say what
kind of thing each constant is, that bounds are natural numbers, and that sets which are counted are finite; TLC
evaluates them in every run.

## Plan

Every safety property of the modules that can be proved about is proved.  What is left:

1. `Judy` and `KeyLookup` stay with TLC, `ImplementsMap` included.  Written as functions over the depth of a tree instead of recursive
   operators, insertion and search could be proved about one level at a time.
2. The Python bitvector and JudyHS have no model yet.

## Not modelled

* The mixing of hash functions, text conversions, formatting, printing and debugging: data without state.
* The Python bitvector: a resizable array of bits like the primitive vector, whose methods are single steps under the interpreter lock.
  (Bulk appends and `pop` leave its count of ones, `n_one`, as it was.)
* Checked integer operations and `custom_sort.c`: a sort is any ascending permutation in `PrimVector`.
* Of the primitive vector, the queries that make a new object: slices, `FromRemap`, `serialize`, min, max.
* JudyHS, Judy1, `JudyLByCount`, the searches for empty indexes and `JudyLMemUsed`: nothing in the library calls them, except
  JudyHS, in which the serializer finds texts and bitvectors again and which `Serializer` takes as a map.  The tests, tools and documentation of Judy.
* Tests, command line tools and build files.

The Python C API, the file system and malloc are external.  Reading of uninitialised or freed
memory is a choice, or ends the behaviour, where it can be met.
