----------------------------- MODULE HannoyIndex -----------------------------
(***************************************************************************)
(* One index of a hannoy database: the LMDB entries the index owns, the    *)
(* single LMDB write transaction, and every Writer operation that changes  *)
(* them (src/writer.rs).  A build is several steps that may fail: the      *)
(* cancel closure, an item LMDB does not have, an LMDB write error.        *)
(*                                                                         *)
(* The graph is seen through its link keys only, and the HNSW construction *)
(* through its contract (HnswContract); HnswBuild models the construction. *)
(* Readers see only `disk', the committed database.                        *)
(***************************************************************************)
EXTENDS HnswContract

CONSTANTS Vector,            \* the vectors a client may store
          NoVector,          \* the item is not in the database
          Distance,          \* distance types
          RawOf,             \* RawOf[nd] = d iff nd::name() is "binary quantized " + d::name()
          Recode,            \* Recode[<<v, d>>]: v as the vector codec of d stores it
          NoMeta,            \* there is no metadata entry
          Probe,             \* CANCELLATION_PROBING, scaled down
          MaxOps,            \* bound: operations in one write transaction
          ReusedAfter        \* operations after whose failure clients go on with the transaction

ASSUME VectorAssumption == NoVector \notin Vector
ASSUME RecodeAssumption == Recode \in [Vector \X Distance -> Vector]
ASSUME ProbeAssumption == Probe \in Nat \ {0}
ASSUME BoundAssumption == MaxOps \in Nat
ASSUME ReuseAssumption == ReusedAfter \subseteq {"build", "convert"}

Mark == {"none", "Updated", "Removed"}

Metadata == [items : SUBSET Item, eps : SUBSET Item, top : Level, dist : Distance]

ASSUME MetaAssumption == NoMeta \notin Metadata

\* The entries of one index.  dist is the distance the Item entries are encoded for.
\* linked is not stored: it remembers the vector and the distance each item was
\* last inserted into the graph with.
Db == [items  : [Item -> Vector \cup {NoVector}],
       marks  : [Item -> Mark],
       keys   : SUBSET LinkKey,
       meta   : Metadata \cup {NoMeta},
       dist   : Distance,
       linked : [Item -> (Vector \X Distance) \cup {NoVector}]]

Phase == {"idle", "unlink", "retrieve", "hnsw", "delete", "meta"}

Job == [phase : Phase, force : BOOLEAN, items : SUBSET Item, ins : SUBSET Item,
        del : SUBSET Item, eps : SUBSET Item, top : Level]

VARIABLES disk,    \* the committed database
          work,    \* the database as the write transaction sees it
          wtxn,    \* the write transaction: "none" or "open"
          job,     \* the build in progress
          relink,  \* the builder's relink_all_items option
          ops      \* operations made in the write transaction, to bound them

vars == <<disk, work, wtxn, job, relink, ops>>

-----------------------------------------------------------------------------
Idle == [phase |-> "idle", force |-> FALSE, items |-> {}, ins |-> {}, del |-> {},
         eps |-> {}, top |-> 0]

Stored(db) == {i \in Item : db.items[i] # NoVector}
Marked(db) == {i \in Item : db.marks[i] # "none"}

\* Mutants: the builder forgets the entry points; the height starts below the ground.
OldPoints_forgotten(db) == {}
OldTop_below(db) == IF db.meta = NoMeta THEN -1 ELSE db.meta.top

\* The metadata fields with the defaults Writer::build falls back to.
Indexed(db)   == IF db.meta = NoMeta THEN {} ELSE db.meta.items
OldPoints(db) == IF db.meta = NoMeta THEN {} ELSE db.meta.eps
OldTop(db)    == IF db.meta = NoMeta THEN 0 ELSE db.meta.top

\* Mutant: the links of deleted items stay.
Without_kept(keys, gone) == keys

Without(keys, gone) == {k \in keys : k[1] \notin gone}

EmptyDb(d) == [items |-> [i \in Item |-> NoVector], marks |-> [i \in Item |-> "none"],
               keys |-> {}, meta |-> NoMeta, dist |-> d,
               linked |-> [i \in Item |-> NoVector]]

\* Mutant: marks do not matter.
Opens_marked(db) == db.meta # NoMeta /\ db.meta.dist = db.dist

\* Reader::open with the distance the items are encoded for returns a reader.
Opens(db) == db.meta # NoMeta /\ db.meta.dist = db.dist /\ Marked(db) = {}

Init == /\ \E d \in Distance : disk = EmptyDb(d)
        /\ work = disk
        /\ wtxn = "none"
        /\ job = Idle
        /\ relink = FALSE
        /\ ops = 0

-----------------------------------------------------------------------------
(* The LMDB write transaction and the process around it. *)

Begin == /\ wtxn = "none"
         /\ wtxn' = "open"
         /\ UNCHANGED <<disk, work, job, relink, ops>>

Commit == /\ wtxn = "open" /\ job = Idle
          /\ disk' = work
          /\ wtxn' = "none" /\ ops' = 0
          /\ UNCHANGED <<work, job, relink>>

Abort == /\ wtxn = "open" /\ job = Idle
         /\ work' = disk
         /\ wtxn' = "none" /\ ops' = 0
         /\ UNCHANGED <<disk, job, relink>>

\* LMDB refuses a write of a build (the map is full): it then refuses every other
\* operation of the transaction, its commit too.  The builder is still there.
StoreFails == /\ job # Idle
              /\ work' = disk
              /\ wtxn' = "none" /\ ops' = 0
              /\ job' = Idle
              /\ UNCHANGED <<disk, relink>>

\* The process dies; LMDB finds the last committed state and builders are made anew.
Crash == /\ wtxn = "open"
         /\ work' = disk
         /\ wtxn' = "none" /\ ops' = 0
         /\ job' = Idle
         /\ relink' = FALSE
         /\ UNCHANGED disk

\* Writer::builder returns a builder with default options.
NewBuilder == /\ relink /\ job = Idle
              /\ relink' = FALSE
              /\ UNCHANGED <<disk, work, wtxn, job, ops>>

CanWrite == wtxn = "open" /\ job = Idle /\ ops < MaxOps

\* An operation returned an error.  What it wrote stays in the transaction, which a
\* careful client aborts and another goes on with.
Fails(op, db) == /\ work' = IF op \in ReusedAfter THEN db ELSE disk
                 /\ wtxn' = IF op \in ReusedAfter THEN "open" ELSE "none"
                 /\ job' = Idle
                 /\ ops' = IF op \in ReusedAfter THEN ops + 1 ELSE 0
                 /\ UNCHANGED <<disk, relink>>

Writes(db) == /\ work' = db
              /\ ops' = ops + 1
              /\ UNCHANGED <<disk, wtxn, job, relink>>

-----------------------------------------------------------------------------
(* Writer::add_item, del_item and clear. *)

WithItem(db, i, v) == [db EXCEPT !.items[i] = v]
WithMark(db, i, m) == [db EXCEPT !.marks[i] = m]

\* Mutant: the new vector is put, the mark is not.
Added_unmarked(db, i, v) == WithItem(db, i, Recode[<<v, db.dist>>])

Added(db, i, v) == WithMark(WithItem(db, i, Recode[<<v, db.dist>>]), i, "Updated")

AddItem(i, v) == CanWrite /\ Writes(Added(work, i, v))

Deleted(db, i) == WithMark(WithItem(db, i, NoVector), i, "Removed")

\* Deleting an item that is not stored changes nothing, so it is no step.
DelItem(i) == CanWrite /\ i \in Stored(work) /\ Writes(Deleted(work, i))

Cleared(db) == EmptyDb(db.dist)

Clear == CanWrite /\ Writes(Cleared(work))

-----------------------------------------------------------------------------
(* Preparing the index for another distance, or for hannoy itself. *)

\* Mutant: the re-encoded items are not marked.
MarkStored_skipped(db) == db.marks

MarkStored(db) == [i \in Item |-> IF i \in Stored(db) THEN "Updated" ELSE db.marks[i]]

Unbuilt(db) == [db EXCEPT !.keys = {}, !.meta = NoMeta]

\* The graph survives only a move from d to the binary quantized d.
ForDistance(db, nd) ==
    [(IF RawOf[nd] = db.dist THEN db ELSE Unbuilt(db)) EXCEPT
        !.items = [i \in Item |-> IF i \in Stored(db) THEN Recode[<<db.items[i], nd>>]
                                                       ELSE NoVector],
        !.marks = MarkStored(db),
        !.dist  = nd]

\* It consumes the writer, so the builder that borrows the writer is gone.
PrepareChangingDistance(nd) ==
    /\ CanWrite /\ nd # work.dist
    /\ work' = ForDistance(work, nd)
    /\ relink' = FALSE
    /\ ops' = ops + 1
    /\ UNCHANGED <<disk, wtxn, job>>

\* Everything of the index but its items goes.  Marks are no nodes: reading one panics,
\* which is as good as an abort.
PrepareArroyConversion ==
    CanWrite /\ Marked(work) = {}
    /\ Writes([Unbuilt(work) EXCEPT !.marks = MarkStored(Unbuilt(work))])

\* The first item has the wrong dimension: everything before it is deleted already.
PrepareArroyConversionFails ==
    CanWrite /\ Marked(work) = {} /\ Stored(work) # {} /\ Fails("convert", Unbuilt(work))

-----------------------------------------------------------------------------
(* Writer::build and HannoyBuilder::force_rebuild. *)

StartJob(phase, force) ==
    job' = [phase |-> phase, force |-> force, items |-> Indexed(work),
            ins |-> IF phase = "retrieve" THEN {} ELSE Indexed(work), del |-> {},
            eps |-> OldPoints(work), top |-> OldTop(work)]

\* relink_all_items skips the marks and takes the items of the metadata.
Build == /\ CanWrite
         /\ StartJob(IF relink THEN "hnsw" ELSE "retrieve", FALSE)
         /\ ops' = ops + 1
         /\ UNCHANGED <<disk, work, wtxn, relink>>

\* Without metadata force_rebuild panics, which is as good as an abort.
ForceRebuild == /\ CanWrite /\ work.meta # NoMeta
                /\ relink' = TRUE
                /\ StartJob("unlink", TRUE)
                /\ ops' = ops + 1
                /\ UNCHANGED <<disk, work, wtxn>>

Enter(phase) == job' = [job EXCEPT !.phase = phase]

\* delete_links_from_db over the items of the metadata, before a forced rebuild.
UnlinkAll == /\ job.phase = "unlink"
             /\ work' = [work EXCEPT !.keys = Without(work.keys, job.items)]
             /\ Enter("hnsw")
             /\ UNCHANGED <<disk, wtxn, relink, ops>>

\* Mutant: only the marks of updated items are deleted.
WithoutMarks_removed(db, gone) ==
    [db EXCEPT !.marks = [i \in Item |-> IF i \in gone /\ db.marks[i] = "Updated"
                                         THEN "none" ELSE db.marks[i]]]

WithoutMarks(db, gone) ==
    [db EXCEPT !.marks = [i \in Item |-> IF i \in gone THEN "none" ELSE db.marks[i]]]

\* reset_and_retrieve_updated_items, and the three item sets computed from it.
RetrieveUpdated ==
    LET all     == Marked(work)
        deleted == {i \in all : work.marks[i] = "Removed"}
        indices == ((all \ deleted) \cup job.items) \ deleted
    IN  /\ job.phase = "retrieve"
        /\ work' = WithoutMarks(work, all)
        /\ job' = [job EXCEPT !.phase = "hnsw", !.items = indices,
                              !.ins = indices \cap all, !.del = all \ indices]
        /\ UNCHANGED <<disk, wtxn, relink, ops>>

\* The marks are read in key order; those before the probe are deleted already.
RetrieveCancelled ==
    /\ job.phase = "retrieve"
    /\ \E m \in Marked(work) :
         LET before == {i \in Marked(work) : i < m}
         IN  Cardinality(before) % Probe = 0 /\ Fails("build", WithoutMarks(work, before))

AllStored == job.ins \subseteq Stored(work)

\* HnswBuilder::build returns Ok.  The links of deleted items are still there.
HnswBuilt ==
    /\ job.phase = "hnsw" /\ AllStored
    /\ \E written \in SUBSET LinkKey, eps2 \in SUBSET Item, top2 \in Level :
         /\ HnswOutcome(work.keys, job.eps, job.top, job.ins, job.del, written, eps2, top2)
         /\ work' = [work EXCEPT
              !.keys = @ \cup written,
              !.linked = [i \in Item |-> IF i \in job.ins THEN <<work.items[i], work.dist>>
                                                           ELSE work.linked[i]]]
         /\ job' = [job EXCEPT !.phase = "delete", !.eps = eps2, !.top = top2]
    /\ UNCHANGED <<disk, wtxn, relink, ops>>

\* It was cancelled: some of the links are written, in no particular order.
HnswCancelled ==
    /\ job.phase = "hnsw" /\ AllStored /\ (job.ins \cup Ids(work.keys)) # {}
    /\ \E part \in SUBSET (((job.ins \cup Ids(work.keys)) \ job.del) \X Level) :
         Fails("build", [work EXCEPT !.keys = @ \cup part])

\* FrozenReader::item finds no vector for an item to insert.
HnswMissesItem == job.phase = "hnsw" /\ ~AllStored /\ Fails("build", work)

DeleteLinks == /\ job.phase = "delete"
               /\ work' = [work EXCEPT !.keys = Without(work.keys, job.del)]
               /\ Enter("meta")
               /\ UNCHANGED <<disk, wtxn, relink, ops>>

BuildDone ==
    /\ job.phase = "meta"
    /\ work' = [work EXCEPT !.meta = [items |-> job.items, eps |-> job.eps,
                                      top |-> job.top, dist |-> work.dist]]
    /\ job' = Idle
    /\ relink' = IF job.force THEN FALSE ELSE relink
    /\ UNCHANGED <<disk, wtxn, ops>>

-----------------------------------------------------------------------------
ItemStep == \/ \E i \in Item, v \in Vector : AddItem(i, v)
            \/ \E i \in Item : DelItem(i)
            \/ Clear

PrepareStep == \/ \E nd \in Distance : PrepareChangingDistance(nd)
               \/ PrepareArroyConversion
               \/ PrepareArroyConversionFails

BuildStep == \/ Build \/ ForceRebuild \/ UnlinkAll
             \/ RetrieveUpdated \/ RetrieveCancelled
             \/ HnswBuilt \/ HnswCancelled \/ HnswMissesItem
             \/ DeleteLinks \/ BuildDone

Next == \/ Begin \/ Commit \/ Abort \/ StoreFails \/ Crash \/ NewBuilder
        \/ ItemStep \/ PrepareStep \/ BuildStep

Spec == Init /\ [][Next]_vars

-----------------------------------------------------------------------------
(* Properties. *)

\* Every variable keeps its type (the fields of Metadata, Db and the build's locals).
TypeOK == /\ disk \in Db /\ work \in Db
          /\ wtxn \in {"none", "open"}
          /\ job \in Job
          /\ relink \in BOOLEAN
          /\ ops \in Nat

\* Reader::assert_validity: the items stored, the items of the metadata and the items
\* with links are the same, and entry points are among them.
Valid(db) == /\ Stored(db) = db.meta.items
             /\ Ids(db.keys) = db.meta.items
             /\ db.meta.eps \subseteq db.meta.items

\* Reader::visit can start and move down: unless the index is empty there is an entry
\* point, entry points have links on every level, every item has links on the ground.
Searchable(db) == /\ db.meta.items # {} => db.meta.eps # {}
                  /\ Covers(db.keys, db.meta.eps, db.meta.top)
                  /\ \A i \in db.meta.items : <<i, 0>> \in db.keys

\* The item is in the graph with the vector and under the distance it is stored with.
IsLinked(db, i) == i \in Indexed(db) /\ db.linked[i] = <<db.items[i], db.dist>>

\* Whatever operations, builds, failures and crashes came before, a reader that opens
\* finds an index that passes Reader::assert_validity.
OpenIsValid == Opens(disk) => Valid(disk)

\* A reader that opens can walk: Reader::visit's expect("Links must exist") cannot fail
\* on an entry point at any level of its descent.
OpenIsSearchable == Opens(disk) => Searchable(disk)

\* No lost update: in a committed database an item without an "updated" mark is linked
\* as it is stored, or is neither stored nor in the metadata.
UnmarkedLinked(db) ==
    \A i \in Item : db.marks[i] = "none" =>
        IF i \in Stored(db) THEN IsLinked(db, i) ELSE i \notin Indexed(db)

UnmarkedIsLinked == UnmarkedLinked(disk)

\* A reader of the old distance cannot open an index whose vectors were re-encoded:
\* metadata that still names another distance has every item marked.
LockedOut(db) ==
    db.meta # NoMeta /\ db.meta.dist # db.dist => Stored(db) \subseteq Marked(db)

OldDistanceLockedOut == LockedOut(disk)

\* A build that succeeds leaves the transaction with an index a reader can open, when
\* its builder was not left with relink_all_items set.
BuildOpens == [][BuildDone /\ ~job.force /\ ~relink => Opens(work')]_vars

\* The same of every build: HannoyBuilder::force_rebuild says it resets the option
\* "as this builder can be reused", but not when the forced rebuild fails.
ReusedBuilderBuildOpens == [][BuildDone /\ ~job.force => Opens(work')]_vars

\* "A Reader can't be opened unless updates are commited through a build": a committed
\* index a reader opens has every stored vector in its graph.
OpenIsBuilt == Opens(disk) => \A i \in Stored(disk) : IsLinked(disk, i)

\* What readers are promised (IndexPromise): the vectors and the distance of the stored
\* items, all of them and as they are, or no reader.
Contents(db) == [i \in Item |-> IF i \in Stored(db) THEN <<db.items[i], db.dist>> ELSE NoVector]

Served(db) ==
    IF Opens(db) THEN [i \in Item |-> IF i \in db.meta.items THEN db.linked[i] ELSE NoVector]
    ELSE NoMeta

Promise == INSTANCE IndexPromise WITH
    Content <- Vector \X Distance, Absent <- NoVector, Closed <- NoMeta,
    stored  <- Contents(disk),
    served  <- Served(disk),
    draft   <- Contents(work),
    ready   <- IF job = Idle THEN Served(work) ELSE NoMeta

\* Whatever Writers, builds, failures and crashes do: what Reader::open and the graph give
\* is the committed content or nothing, it changes by commits only, and a transaction that
\* is given up leaves no trace.
KeepsPromise == Promise!Spec
=============================================================================
