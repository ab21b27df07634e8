# Models and proofs of hannoy

hannoy keeps HNSW indexes (hierarchical graphs for nearest-neighbour search) in LMDB.
This directory holds TLA+ modules that model how an index is changed, built and searched, the TLC
runs that check them on small instances, and theorems proved with TLAPS. Paths are
relative to the crate (`src/writer.rs` and so on).

## 1. The system

One database holds any number of indexes; an index is a 16-bit prefix of the keys.
LMDB has one write transaction at a time; readers see the last committed state.

| Component | State | Operations | Modules |
|---|---|---|---|
| Index and its writer (`writer.rs`, `update_status.rs`) | entries `Item`, `Updated` (a mark per changed item), `Links` (per item and level), `Metadata`, `Version`; in memory the builder's options | `add_item`, `del_item`, `clear`, `prepare_changing_distance`, `prepare_arroy_conversion`, `build`, `force_rebuild`, `need_build` | `HannoyIndex`, which implements `IndexPromise`; its bytes: `EntryStore` |
| HNSW builder (`hnsw.rs`) | `layers`, one concurrent map per level; `entry_points`, `max_level`; locals of every thread | `build`: levels, substitutes of deleted entry points, parallel `insert`, `fill_gaps_from_deleted`, writing | `HnswBuild` |
| Frozen reader (`parallel.rs`) | a pool of nested read transactions, one per thread | `item`, `links`, `iter_links`, `iter_layer_links` | what it returns: `HnswBuild` |
| Reader (`reader.rs`, `item_iter.rs`) | metadata as read at `open` | `open`, `nns(..).by_vector / by_item`, with candidates and cancellation | `open`: `HannoyIndex`; searches: `HnswSearch`; `item_vector`, `iter`: `EntryStore` |
| Keys, prefixes and codecs (`key.rs`, `node_id.rs`, `metadata.rs`, `node.rs`, `version.rs`, `update_status.rs`, `roaring.rs`) | none | encode, decode, iterate over a prefix | `Codecs`, used by `EntryStore` |
| Vectors and distances (`distance/`, `unaligned_vector/`, `spaces/`, `ordered_float.rs`) | none | encode, decode, distance, order of distances | `Vectors`, `QuantizedCosine`; constants `Recode`, `Dist` elsewhere |
| Python bindings (`python.rs`) | process-wide environment and write transaction, readers | `Database`, `with` blocks, `add_item`, commit, abort, `reader` | `PyTxn` |
| Statistics, progress, errors | counters | none that matter | not modelled |

How they interact: the client changes items through a `Writer` inside an LMDB write
transaction; each change leaves a mark. `Writer::build` reads and deletes the marks,
hands the sets of items to insert and to delete to `HnswBuilder::build`, which reads the
database as it was (frozen, through nested read transactions) and writes link entries;
then the writer deletes the links of deleted items and writes the metadata. A reader
opens only when metadata of its distance is there and no mark is. It walks from the
metadata's entry points, level by level, along the links.

What is hard: the build's threads share the maps without a lock around
read-modify-write; the links of deleted items must survive until the others are repaired;
entry points may be deleted, updated or overtaken by a higher level; the height can be
reset while old links remain above it; every step of a build can fail or be cancelled, in
a transaction the client may still commit; options of the builder outlive a failed call;
a search walks a graph it trusts; every loop of every index runs over bytes of keys; vectors
are padded; and all Python writers of a process share one transaction. `PROJECT.json` lists
the hazards line by line, with the properties that cover them.

What makes each component correct:
- index: a reader that opens finds every stored item, and nothing else, linked as it is
  stored, with entry points on every level; no update is lost by any sequence of calls,
  failures and crashes;
- builder: degrees within their arrays, no item asked for that is gone, links closed per
  level, levels nested, entry points standing, every build ends;
- searches: no link and no vector is missing on the way, the descent ends nowhere but at a
  local minimum, results are candidates, without the item itself where the query is about one,
  and as many as asked for when there are that many;
- keys and codecs: indexes and kinds of entries never mix, iteration is in order of ids, and
  what is written is what is read back, by the arroy conversion too;
- vectors: reading back gives what the codec keeps and no padding, whichever host wrote it,
  and padding changes no order of distances;
- Python bindings: no vector is lost without an error, and what a failed build left is never
  committed.

## 2. Modules

### HnswContract
What a finished build leaves behind, as the rest of the index sees it: which link keys
are written, which entry points and height result (`HnswOutcome`). `HannoyIndex` takes any
outcome that meets it as the result of a build; `HnswBuild` is checked against it (the
action property `BuildMeetsContract`). So the two models compose: what holds of
`HannoyIndex` for every outcome of the contract holds with the construction in place.

### HannoyIndex
`disk` is the committed database, `work` what the write transaction sees. A database is a
record: `items` (the `Item` entries), `marks` (the `Updated` entries), `keys` (the keys of
the `Links` entries), `meta`, and `dist`, the distance the vectors are encoded for.
`linked` is not stored: it remembers with which vector and under which distance an item was
last inserted into the graph. `job` holds the locals of a build, `relink` the builder's
option `relink_all_items`.

A build is the actions `Build` or `ForceRebuild` (then `UnlinkAll`), `RetrieveUpdated`,
`HnswBuilt`, `DeleteLinks`, `BuildDone`, in the order of `Writer::build`; failures between
them are `RetrieveCancelled` (marks before the cancellation probe are deleted already),
`HnswCancelled` (some links are written), `HnswMissesItem` and `StoreFails` (LMDB refuses a
write; it then refuses the rest of the transaction, so this is an abort). `Crash` may come
at any time. After an operation that returned an error the client aborts, unless the
operation is in `ReusedAfter`: then it goes on in the same transaction.

Abstractions: vectors are a few values and `Recode` says what a codec makes of them (the
binary quantized codec maps several to one). Deleting an item that is not stored, which
changes nothing, is no step. `PrepareArroyConversionFails` is the failure on the first
item. `force_rebuild` without metadata panics and is not enabled. The writes of the
version entry have no effect on anything and are left out.

### IndexPromise
What all of this is for, without marks, graphs and metadata: an edit takes the index away
from readers, a build gives it back, and both reach readers when the transaction is
published. `HannoyIndex` implements it (`KeepsPromise`): `stored` and `draft` are the items of
`disk` and `work` with the distance they are encoded for, `served` and `ready` what the graph
was built from if `Reader::open` succeeds. Commits, aborts, failures and crashes are `Publish`
and `Discard`, `BuildDone` is `Build`, a build in progress is an index no reader gets.

### HnswBuild
The construction itself: one action per access to a shared map. The variables `layers`,
`eps`, `top` are the fields of `HnswBuilder`; `th` has the locals of each thread, with a
program counter:

| pc | code |
|---|---|
| rest | the thread has no insertion (`Take` starts one of the current level group) |
| enter | before `add_in_layers_below` (`Enter`) |
| walk | in the loop of `walk_layer` (`Expand`, `Descend`, `Select`) |
| lazy | `get_neighbours` found no entry and is about to insert one (`LazyInsert`) |
| link, back | the two calls of `add_link` per selected point (`LinkForth`, `LinkBack`); `NextLevel` |

`scan` is the search for substitutes of deleted entry points, `unpatched` the old entries
`fill_gaps_from_deleted` still has to repair, `old` what the build read before it started.

Abstractions:
- Distances are natural numbers given by `Dist`, 0 exactly between an item and itself. An
  item that is added again is therefore added at the same place.
- A level is drawn from `0 .. MaxLevel`, without the probabilities; `MaxLevel` fits a byte,
  as the doc of `LayerId` says. `M <= M0` as in every pair of degrees the crate uses.
- A node is the set of its links and the length of its array. An array may hold an item
  twice, which only the length shows; what pruning may drop is a set of its own.
- Where the order in which neighbours are visited decides what fits into the result list
  (`Walked`), every possible result is allowed.
- Threads patch different entries and read only their own and the frozen database, so
  `Patch` goes in key order. A cancelled or failed build ends in an abort of its
  transaction (`Cancel`); what a client may do instead is in `HannoyIndex`.

### HnswSearch
One query against an opened index. The read transaction is a snapshot, so `vectors`,
`links`, `eps` and `top` never change; the initial states are all graphs that satisfy
`Walkable`, which is what `HnswBuild` shows of every finished build
(`BuiltIsWalkable`). This is how the two compose: a search needs nothing else of the graph.
It is at least all graphs a build can leave; some of them may take more items than the
instance has to come about.

`visit` is `Visitor` with the locals of `Visitor::visit` (queue, results, links still to
follow, and `bar`, the bound `f_max` read when the candidate was expanded), `path` the set
of seen items, `stage` which of the three visits runs: on the way down, on the ground, or
one of those from unseen items. `Expand` and `Follow` are the two loops of `visit`;
`Descend`, `GroundDone`, `SearchMore`, `NoneUnseen` the code around it in `hnsw_search` and
`nns_by_item`; `StartScan`, `ScanOne`, `ScanEnds` are `brute_force_search`. Cancellation may
come wherever the code asks for it.

Abstractions: the order of ids and of distances is kept, since it decides which point a full
heap drops; distances are natural numbers. `linear_below_ratio` has its default 1.00, so only
the threshold decides. Every behaviour is one query: a query leaves nothing behind.
A reader that is used with a newer transaction than the one it was opened in is not modelled.

### Vectors, Codecs, EntryStore
`EntryStore` is the LMDB database byte for byte: a function from keys to values, both sequences
of bytes, shared by several indexes, some of them written by arroy. Its actions are the
operations of `Writer`, each done and committed at once, in terms of what they do to entries:
what a prefix finds, what decoding makes of a value, what is put and deleted.
`HannoyIndex` has the same operations with their transactions and failures and without bytes.
`Codecs` has the encodings and decodings (a decoding that fails and one that panics differ,
since `prepare_arroy_conversion` deletes what fails), `Vectors` the three vector codecs, with
the variants for vector instructions, and the distances of quantized vectors before they are
rounded: those that divide (`HammingDistance`, `CosineDistance`) are a numerator and a denominator.

The machine is scaled down: a byte has `BitsPerByte` bits and a word `WordBytes` bytes. `given`
remembers what clients stored, as the codec keeps it, and `built` what the last build wrote as
metadata; both are for the properties. Abstractions: of an `f32` its sign and whether it is
zero are kept; a header is as many zeros as it has bytes; a serialized `RoaringBitmap` is the
number of ids and the ids, and what is no bitmap is known by its length; a build draws one
level for all it inserts and links everything on a level with the rest of it, since
`HnswBuild` has the construction. The entries of arroy are its item nodes, its marks without
content, a tree of bitmaps and split planes, and metadata without a height, as the comments
and tests of the conversion describe them.

### QuantizedCosine
The binary quantized cosine distance of a query that equals an item, in single precision, and
the order `OrderedFloat` gives it. Floats are exact: 24-bit significands and an exponent, every
product, quotient and root rounded to the nearest, ties to even. A state is a number of words
and a number of differing bits.

### PyTxn
`env`, `txn` are `ENV` and `RW_TXN` of `python.rs`, `disk` the committed database, `readers` the
open `PyReader`s. No method gives up the interpreter's lock, so a call is a step; writers of the
same and of other indexes take turns call by call. An index is its vectors, its marks, and the
vectors its graph was built from; `HannoyIndex` says why that is enough. A call may fail after
any part of its work; LMDB then refuses everything that follows in the transaction
(`broken`), the commit included. A build for an `m` that `match_table!` does not have panics before it
starts. `__exit__` does not look at the exception of its block. `counted` is what a client may
count on: what it added, until a call returned an error or it aborted. A build
fails here only because LMDB refuses a write: a nested read transaction that cannot be begun
(no memory) would fail it after the marks are deleted and leave a transaction that can be
committed. Databases of different metrics over the same entries are not modelled.

Mutants, definitions such as `Linked_full`, are variants of the definition after them
with a plausible bug. No specification uses them; they show that a property depends on
the code it is about.

## 3. Runs

| Run | Question | Result |
|---|---|---|
| `index` | Do adds, deletes, clears, conversions, builds, rebuilds, failures and crashes, in any order, leave an index a reader may open that is not valid, complete and walkable? Are readers served what is committed or refused? | `OpenIsValid`, `OpenIsSearchable`, `UnmarkedIsLinked`, `OldDistanceLockedOut`, `BuildOpens` hold, and the refinement `KeepsPromise` |
| `sticky_relink` | ... and when a builder is used again after a failed `force_rebuild`? | violated: the option stays set |
| `cancel_commit` | May a client commit after `BuildCancelled`? | violated: the marks are gone, the updates are not linked |
| `hnsw_threads` | Which graphs can racing insertions and repairs leave? | degrees, closure, nesting, entry points, the contract and `Walkable` hold |
| `hnsw_levels` | Three levels, with stale upper levels after a reset of the height: does every build end? | no thread and no loop goes back, and every build ends |
| `lazy_entry` | Does an entry with room ever lose a link to an insertion? | violated: `get_neighbours` overwrites |
| `search` | What do queries return on graphs of any shape, and through two levels? | nothing is missing on the way, the descent is greedy, nothing twice, enough of it; linear scans are exact, cancelled or not; every step goes forward and every query ends. `ItselfOnlyByScan` and `CancelledForgets` say when exactly `by_item` returns the item itself and what a cancelled walk drops, which is not what the docs say |
| `search_default_ef` | Is `count` reached when it is above the default `ef`? | violated: the exhaustive search stops at `ef` |
| `codecs` | Do the operations find, keep and read back the right bytes, with indexes side by side, changes of distance and entries of arroy? | indexes apart, iteration in order, vectors and metadata right, the conversion keeps exactly the items, NEON stores what the portable code stores. `QuantizedDistances` says what padding does to each distance: nothing to the squared euclidean and the manhattan, while hamming and cosine are divided by the padded dimensions |
| `bq_to_raw` | ... with changes from quantized distances to others? | `StoredAsAdded` violated: padding becomes coordinates |
| `python` | Do writers that share the transaction of a process lose or publish what they should not? | nothing is lost silently, readers see built indexes, `__exit__` publishes everything |
| `cosine_negative` | Does an item that equals the query come first? | violated: the distance is negative for 2, 7, 8, ... words and sorts last |

The violated properties quote a doc or a comment of the crate; `PROJECT.json` ("findings")
says which, and what the code does. Three findings belong to properties that hold, because they
state what the code does where a doc says something else: `ItselfOnlyByScan`, `CancelledForgets`
and `QuantizedDistances` (the doc of `Hamming` promises the number of positions, and the trait a
distance that is not normalized; within an index the divisor is the same for all items, so that
neighbours come in the same order).

### Bounds, and why they are enough
- `MCHannoyIndex`: two items (one may be the other's entry point, substitute or neighbour; a
  third only repeats a role), two levels, a distance and its binary quantized form, two
  vectors that quantize to the same, `Probe = 1` so that cancellation may come at every mark,
  `MaxOps = 2` operations per transaction. Transactions are not bounded, so histories are
  arbitrarily long; two operations in one transaction are the shortest that disagree.
- `MCHnswBuild`: three items, so that a deleted item may lie between two others, `M = 1` and
  `M0 = 2` so that entries fill up and are pruned, two threads (exchangeable, hence the
  symmetry), two builds: the second meets what the first left, with updates and deletes
  between them. `hnsw_levels` has two items and three levels, without symmetry, since it
  checks liveness. Deadlock is not checked there: after `MaxBuilds` builds the model stops.
- `MCHnswSearch`: three items with one link each on the ground, which gives every shape from
  a cycle to three parts; all candidate sets; a query at an item or as far from one item as
  from another; counts from 0 to 3 around a default `ef` of 1, and a threshold that some
  candidate sets pass. Graphs of two levels have up to two links per item on the upper one, one
  entry point, no item that links itself, and candidates that leave out one item, so that the
  entry point may be none. `M` is above `M0` there only to give the upper level
  branches with few graphs; a search does not look at either. A query ends, so deadlock is
  not checked.
- `MCEntryStore`: bytes of two bits and words of two bytes, so that five dimensions take two
  words, the second one padded, and the third byte of the NEON variant is the one that is added
  for a remainder; ids 1 and 4, which a little-endian or native order would swap, indexes 1 and 2,
  whose first bytes agree; an unquantized, a binary quantized and a binary distance, with headers
  of the real sizes; four operations, enough for a conversion, a build, a change of distance
  and a deletion. `codecs` makes the changes of distance that do not start from padding
  (`MCMoves`), `bq_to_raw` all of them. The model stops after `MaxOps`.
- `MCPyTxn`: a writer for each of two indexes and one that cannot build, two vectors of one item.
  Nothing is bounded beyond that: transactions and histories are arbitrarily long.
- `MCQuantizedCosine`: words of 64 bits, up to 10 of them.

### Fairness
`hnsw_levels` assumes that the thread that builds goes on (`ScanLayer`, `Resolved`,
`Inserted`, `Patch`, `Finish`) and that every pool thread goes on: rayon runs all of them and
the concurrent maps do not block. Clients need neither start nor cancel builds.
`search` assumes that a call runs until it returns.

## 4. Proofs

`HannoyIndexProofs` proves, for any set of items, any vectors, distances, levels and any
length of transactions, the properties of the run `index`: `OpenedIsValid`,
`OpenedIsSearchable`, `NoLostUpdate`, `OldReadersLockedOut`, `BuiltOpens`, `TypeCorrect`. They
are about careful clients (`ReusedAfter = {}`, the assumption of each theorem): clients that
abort a transaction in which an operation failed. `cancel_commit` shows why the assumption is
needed. The properties speak of the committed database only and are not inductive; the
invariant `IInv` says what holds of the transaction's database before every step of a build:
- `Good`, between operations: marks agree with what is stored, graph and metadata agree,
  unmarked items are linked, an index of another distance is fully marked;
- `HnswReady`, once the marks are consumed: what is unmarked and about to be inserted is still
  to be linked, the rest is; inserted and kept items are exactly those the metadata will
  name, and there will be an entry point;
- `BuiltBut`, after the construction: everything is linked, up to the links of deleted items;
- `MarksConsumed`: a plain build meets no mark until it is done (for `BuildOpens`).
`IndexKeepsPromise` is the refinement: the initial states are initial states of `IndexPromise`,
and under `IInv` every step is one of its steps or a stutter. What an open index serves is
what it stores (`ServedIsStored`) because it has no marks, so that everything is linked as it is.
A lemma per operation shows how it leads from one to the next; the construction enters
through `HnswOutcome` alone.

`HnswBuildProofs` proves `TypeCorrect` and `DegreesBounded` for any items, distances, degrees
`M <= M0`, threads and number of builds: no interleaving overflows an array of links, which
would panic. The invariant adds to the types that every map entry and every stored entry
fits, those of before the build included, and that a busy thread has an item. The lemma that
needs an argument is `PrunedFits`: the selected points are counted by their rank, the number of
selected points before them, which is below the cap and differs from point to point.

`PyTxnProofs` proves all properties of the run `python` for any writers, indexes, readers, items
and vectors (`NothingIsLost`, `ReadersAreCurrent`, `FailedBuildStays`, `ExitHasPublished`). `UnmarkedIsLinked` is about the committed database; the invariant says it
of the open transaction as well, unless an operation has failed in it, and
that is the one transaction LMDB refuses to commit.

`HnswGraphProofs` proves the rest of the run `hnsw_threads`, for any items, distances, degrees,
threads, levels and number of builds: `NothingIsMissing`, `EveryLinkLeads`, `EveryLevelNests`,
`EntryPointsAlwaysStand`, `BuiltGraphIsWalkable`, `BuildsMeetContract`. The invariant `Graph`
comes on top of the one for degrees. It is about graphs that stand (`Stands`: links lead to
stored links of their level, levels nest, the entry points reach the top):
- `Idle`, between builds: what is stored stands, and differs from the items at most in marked ones;
- `Remembers`: the graph a build found stood too, so that an abort, at whatever step, goes back to
  one that does;
- `Substituting`: the search for substitutes of deleted entry points ends without any only when
  no item with links stays;
- `Grows` and `Works`: an item has a place (`Here`) on a level if the maps or the database have an
  entry for it there and it is not deleted. Whatever the maps hold and threads have in hand leads
  to places, and places never go away during a build. That is why a thread may go on with
  what it read before others changed the maps;
- `Inserting`, `Patching`: what is to be inserted is a task, in a thread's hands, or in the maps;
  what stays is in the maps or still to be patched. So nothing is forgotten when the maps are written;
- `Heights`: when and why the height changes, for the contract.

`BuildsMeetContract` closes the chain to `HannoyIndexProofs`: its theorems assume of a build only
`HnswOutcome`, so they hold with this construction in its place, for all constants.
`BuiltGraphIsWalkable` closes the one to `HnswSearch`: its initial states are the walkable graphs.
`BuildsAdvance` is the safety half of `BuildEnds`: every step takes the build, or a thread in it,
further in an order in which nothing can go further for ever.

`HnswSearchProofs` proves all of the run `search` but `QueryEnds`, on walkable graphs of any size, for
any query: `TypeCorrect`, `NothingIsMissing`, `NothingFoundTwice`, `ItselfFromScans`,
`CancelledForgetsFound`, `EnoughIsFound`, `ScansAreExact`, `DescentsAreGreedy`, and `QueriesAdvance`,
the safety half of `QueryEnds`. Of the conjuncts of its invariant, `Visits` says that a visit moves among items with
links on its level; `Misses`, for `EnoughIsFound`, that each wanted item seen on the ground is found
or a result, unless there are already `ef` results; `Greedy`, that on the way down the results are
as near as everything seen and as the stale bound, which is why the bound does no harm there; `Scans`,
that a scan holds the nearest of what it has looked at: everything else it looked at comes
after what it holds, in the order of distances and ids, and then the heap is the set of those
with fewer than `count` before them (`NearestAre`). Queries are any that the API takes
(`QueriesAssumption`).

`OrderLemmas` has what these share: finite sets with an order have a least element and ranks, counts
of subsets, keys in ascending order.

`CodecsProofs` is about `Vectors` and `Codecs`, for bytes and words of any width: numbers, keys, vectors,
nodes, bitmaps, metadata and versions are read back as written; the order of the bytes of two keys is
the order of the numbers in them; a prefix selects the keys of its index and kind and no
others; bits determine their byte. The sums over bits (`SumFunction`) are followed along a chain of
partial sums, not by induction over data, which gives the bits that quantized vectors differ in as
counts of positions, their norms and lengths as those of the padded dimensions, and the bytes the
NEON variants add up lane by lane.

`EntryStoreProofs` proves all of the run `codecs`, for any number of indexes, items, levels,
dimensions and distances. Which keys exist (`KeysStored`) is inductive by itself and gives
`StayApart` and `AlwaysAscends`. The rest comes from `StoreHolds` (`AlwaysHolds`). For each index:
- an item key holds the bytes of some vector whose kept coordinates are those given. It need not be
  the vector itself: after a change of distance padding may have become coordinates behind the
  last one. This much is enough for `VectorsAreReadBack` and `ItemsAreKept`;
- the metadata key holds the bytes of the last build's metadata (`MetadataIsReadBack`);
- no value but a mark panics when it is read as a node, under any distance, since the distance may
  change while the value stays (`MarksAlonePanic`).

Two theorems are about clients for whom padding stays padding (`PaddingStaysPadding`: every change of
distance starts from an unquantized one, or maps the bit of padding to itself), which `codecs`
satisfies and `bq_to_raw` does not: `ItemsAreAsAdded` and `QuantizedDistancesAre`. `bq_to_raw` shows
that `ItemsAreAsAdded` fails without it. `HostsAlwaysAgree` assumes words of as many bytes as a byte has
bits, as the `u64` of the code has: each lane of the NEON code then gets one bit of a byte.

The constants of a module are assumed to be what the code has. `EntryStore` has the least obvious ones:
indexes take two bytes, ids and dimensions four, and so does the size of a bitmap of all items
(`ItemAssumption`), since sizes are written as `u32`; a level fits a byte. `HnswBuild` and
`HnswSearch` assume finitely many items. TLC evaluates all of them in the runs.

All invariants and action properties of the passing runs are theorems. Checked by TLC only: liveness
(`BuildEnds`, `QueryEnds`), which needs fairness and `ENABLED`, and the properties of the runs that
expect a violation; `QuantizedCosine`, whose point is a counterexample, has no theorem.

## 5. Not modelled

- The float kernels: euclidean, manhattan and cosine distances of `f32` vectors and their AVX,
  SSE and NEON forms. `Dist` and `Recode` are constants of the graph models, with distances that
  are natural numbers; `QuantizedCosine` shows where that is too kind.
- The NEON code keeps a bit for minus zero that the portable code does not
  (`unaligned_vector/binary_quantized.rs:127`); `HostsAgree` leaves minus zero out.
- The pool of read transactions of `FrozenReader` (`parallel.rs:34`): it is as large as the number
  of threads and the caller, which are all that read, so that it is never found empty.
- The rounding of distances to an `f32`, but for the cosine in `QuantizedCosine`.
- Prefetching (`Reader::prefetch_graph`), statistics, progress, errors' texts.
- The probabilities of levels: any level may be drawn.
- Parameters outside the assumptions: `M > M0`, `M = 0`, more than 255 levels.

Observations that have no run of their own:
- `need_build` says no for an index without items that was moved to its binary quantized
  distance, while `Reader::open` refuses the metadata, which still name the old one
  (`writer.rs:363`). The metadata are overwritten by the next build.
- An arroy conversion that fails on an item of the wrong dimension (`writer.rs:324`) has deleted
  links and metadata and marked no item yet; a client that commits after it keeps items without
  links and without marks, which the next build does not insert. The clients of `index` abort.
- The bound `f_max` of a visit is read once per candidate (`reader.rs:333`); with `ef > 1`
  and several links, a nearer point that follows farther ones may be dropped.
  `DescentIsGreedy` shows that with `ef = 1`, on the way down, it does no harm.

## 6. Plan

In order of importance:
1. Databases of different metrics over one set of entries in `PyTxn`: two of its writers may
   then change the distance under each other.
2. A reader that is used with a newer transaction than the one it was opened in
   (`reader.rs:316`), on the graphs the contract allows after another build.
