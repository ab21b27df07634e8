------------------------- MODULE HannoyIndexProofs -------------------------
(***************************************************************************)
(* What HannoyIndex guarantees for every set of items, vectors and         *)
(* distances, however many operations a transaction makes: the invariants  *)
(* its runs check on a small instance, proved for careful clients, that is *)
(* clients that abort a transaction in which an operation failed.          *)
(***************************************************************************)
EXTENDS HannoyIndex, TLAPS

CarefulClients == ReusedAfter = {}

-----------------------------------------------------------------------------
(* The inductive invariant.  Good(db) is what holds of a database between     *)
(* operations; the Ready predicates say what holds of the transaction and the *)
(* build's locals before each of its steps, whatever made them so.            *)

\* A mark says whether the item is stored.
MarksAgree(db) ==
    /\ \A i \in Item : db.marks[i] = "Updated" => i \in Stored(db)
    /\ \A i \in Item : db.marks[i] = "Removed" => i \notin Stored(db)

\* The graph and the metadata come and go together, and agree.
GraphAgrees(db) ==
    /\ db.meta = NoMeta => db.keys = {}
    /\ db.meta # NoMeta => /\ Ids(db.keys) = db.meta.items
                           /\ db.meta.eps \subseteq db.meta.items
                           /\ Searchable(db)

Good(db) == MarksAgree(db) /\ GraphAgrees(db) /\ UnmarkedLinked(db) /\ LockedOut(db)

\* The build has read the metadata and nothing else.
HasRead(db, j) == /\ j.items = Indexed(db)
                  /\ j.eps = OldPoints(db)
                  /\ j.top = OldTop(db)
                  /\ j.del = {}

\* An unmarked item is stored iff the build is about to write it in the metadata.
ItemsAgree(db, j) ==
    \A i \in Item : db.marks[i] = "none" => (i \in Stored(db) <=> i \in j.items)

\* Unmarked items outside gone are linked as they are stored.
LinkedBut(db, gone) ==
    \A i \in Item : db.marks[i] = "none" /\ i \in Stored(db) /\ i \notin gone =>
        db.linked[i] = <<db.items[i], db.dist>>

HnswReady(db, j) ==
    /\ MarksAgree(db) /\ ItemsAgree(db, j) /\ LinkedBut(db, j.ins)
    /\ j.ins \cup (Ids(db.keys) \ j.del) \cup (j.eps \ j.del) = j.items
    /\ \A i \in j.items \ j.ins : <<i, 0>> \in db.keys
    /\ j.items # {} => \/ j.ins # {}
                       \/ j.eps \ j.del # {}
                       \/ j.eps \cap j.del # {} /\ HasSubstitute(db.keys, j.top, j.del)
    /\ j.items \cap j.del = {}

\* HNSW is built; gone are items whose links are still to be deleted.
BuiltBut(db, j, gone) ==
    /\ MarksAgree(db) /\ ItemsAgree(db, j) /\ LinkedBut(db, {})
    /\ Ids(db.keys) \ gone = j.items
    /\ j.items \cap gone = {}
    /\ \A i \in j.items : <<i, 0>> \in db.keys
    /\ j.eps \subseteq j.items
    /\ j.items # {} => j.eps # {}
    /\ Covers(db.keys, j.eps, j.top)

JobInv == /\ job.phase = "idle" => job = Idle /\ Good(work)
          /\ job.phase = "unlink" => /\ Good(work) /\ HasRead(work, job)
                                     /\ job.ins = job.items /\ job.force
          /\ job.phase = "retrieve" => /\ Good(work) /\ HasRead(work, job)
                                       /\ ~relink /\ ~job.force
          /\ job.phase = "hnsw" => HnswReady(work, job)
          /\ job.phase = "delete" => BuiltBut(work, job, job.del)
          /\ job.phase = "meta" => BuiltBut(work, job, {})

\* A build that consumed the marks meets none until it is done.
MarksConsumed == job.phase \in {"hnsw", "delete", "meta"} /\ ~job.force /\ ~relink
                     => Marked(work) = {}

IInv == /\ TypeOK
        /\ Good(disk)
        /\ wtxn = "none" => job.phase = "idle" /\ work = disk
        /\ JobInv
        /\ MarksConsumed

-----------------------------------------------------------------------------
(* What each operation makes of a good database. *)

\* An empty index (Writer::clear, a new database) is good.
LEMMA EmptyGood ==
    ASSUME NEW d \in Distance
    PROVE  EmptyDb(d) \in Db /\ Good(EmptyDb(d))
<1>1. EmptyDb(d) \in Db
  BY DEF EmptyDb, Db, Mark, LinkKey
<1>2. MarksAgree(EmptyDb(d)) /\ GraphAgrees(EmptyDb(d))
  BY DEF EmptyDb, MarksAgree, GraphAgrees
<1>3. UnmarkedLinked(EmptyDb(d)) /\ LockedOut(EmptyDb(d))
  BY DEF EmptyDb, UnmarkedLinked, LockedOut, Stored, Indexed
<1> QED BY <1>1, <1>2, <1>3 DEF Good

\* Putting or deleting an Item entry touches nothing else.
LEMMA WithItemFacts ==
    ASSUME NEW db \in Db, NEW i \in Item, NEW w \in Vector \cup {NoVector}
    PROVE  LET new == WithItem(db, i, w)
           IN  /\ new \in Db
               /\ new.items[i] = w
               /\ \A k \in Item : k # i => new.items[k] = db.items[k]
               /\ new.marks = db.marks /\ new.keys = db.keys /\ new.meta = db.meta
               /\ new.dist = db.dist /\ new.linked = db.linked
  BY DEF WithItem, Db

\* Putting a mark touches nothing else.
LEMMA WithMarkFacts ==
    ASSUME NEW db \in Db, NEW i \in Item, NEW m \in Mark
    PROVE  LET new == WithMark(db, i, m)
           IN  /\ new \in Db
               /\ new.marks[i] = m
               /\ \A k \in Item : k # i => new.marks[k] = db.marks[k]
               /\ new.items = db.items /\ new.keys = db.keys /\ new.meta = db.meta
               /\ new.dist = db.dist /\ new.linked = db.linked
  BY DEF WithMark, Db

\* Writer::add_item keeps a database good: the item it stores is marked.
LEMMA AddedGood ==
    ASSUME NEW db \in Db, Good(db), NEW i \in Item, NEW v \in Vector
    PROVE  Added(db, i, v) \in Db /\ Good(Added(db, i, v))
<1> DEFINE w == Recode[<<v, db.dist>>]
           mid == WithItem(db, i, w)
           new == Added(db, i, v)
<1>1. w \in Vector /\ w # NoVector
  BY RecodeAssumption, VectorAssumption DEF Db
<1>2. /\ mid \in Db /\ mid.items[i] = w
      /\ \A k \in Item : k # i => mid.items[k] = db.items[k]
      /\ mid.marks = db.marks /\ mid.keys = db.keys /\ mid.meta = db.meta
      /\ mid.dist = db.dist /\ mid.linked = db.linked
  BY <1>1, WithItemFacts
<1> HIDE DEF w, mid
<1>3. new = WithMark(mid, i, "Updated")
  BY DEF Added, mid, w
<1> HIDE DEF new
<1>4. /\ new \in Db
      /\ new.keys = db.keys /\ new.meta = db.meta /\ new.dist = db.dist
      /\ new.linked = db.linked
      /\ new.marks[i] = "Updated" /\ new.items[i] = w
      /\ \A k \in Item : k # i => new.marks[k] = db.marks[k] /\ new.items[k] = db.items[k]
  <2>1. "Updated" \in Mark
    BY DEF Mark
  <2>2. /\ new \in Db /\ new.marks[i] = "Updated"
        /\ \A k \in Item : k # i => new.marks[k] = mid.marks[k]
        /\ new.items = mid.items /\ new.keys = mid.keys /\ new.meta = mid.meta
        /\ new.dist = mid.dist /\ new.linked = mid.linked
    BY <1>2, <1>3, <2>1, WithMarkFacts
  <2> QED BY <1>2, <2>2
<1>5. Stored(new) = Stored(db) \cup {i}
  BY <1>1, <1>4 DEF Stored
<1>6. Marked(new) = Marked(db) \cup {i}
  BY <1>4 DEF Marked
<1>7. MarksAgree(new)
  BY <1>4, <1>5 DEF MarksAgree, Good
<1>8. GraphAgrees(new)
  BY <1>4 DEF GraphAgrees, Searchable, Good
<1>9. UnmarkedLinked(new)
  BY <1>4, <1>5 DEF UnmarkedLinked, IsLinked, Indexed, Good
<1>10. LockedOut(new)
  BY <1>4, <1>5, <1>6 DEF LockedOut, Good
<1> QED BY <1>4, <1>7, <1>8, <1>9, <1>10 DEF Good, new

\* Writer::del_item keeps a database good.
LEMMA DeletedGood ==
    ASSUME NEW db \in Db, Good(db), NEW i \in Item
    PROVE  Deleted(db, i) \in Db /\ Good(Deleted(db, i))
<1> DEFINE mid == WithItem(db, i, NoVector)
           new == Deleted(db, i)
<1>2. /\ mid \in Db /\ mid.items[i] = NoVector
      /\ \A k \in Item : k # i => mid.items[k] = db.items[k]
      /\ mid.marks = db.marks /\ mid.keys = db.keys /\ mid.meta = db.meta
      /\ mid.dist = db.dist /\ mid.linked = db.linked
  BY WithItemFacts
<1> HIDE DEF mid
<1>3. new = WithMark(mid, i, "Removed")
  BY DEF Deleted, mid
<1> HIDE DEF new
<1>4. /\ new \in Db
      /\ new.keys = db.keys /\ new.meta = db.meta /\ new.dist = db.dist
      /\ new.linked = db.linked
      /\ new.marks[i] = "Removed" /\ new.items[i] = NoVector
      /\ \A k \in Item : k # i => new.marks[k] = db.marks[k] /\ new.items[k] = db.items[k]
  <2>1. "Removed" \in Mark
    BY DEF Mark
  <2>2. /\ new \in Db /\ new.marks[i] = "Removed"
        /\ \A k \in Item : k # i => new.marks[k] = mid.marks[k]
        /\ new.items = mid.items /\ new.keys = mid.keys /\ new.meta = mid.meta
        /\ new.dist = mid.dist /\ new.linked = mid.linked
    BY <1>2, <1>3, <2>1, WithMarkFacts
  <2> QED BY <1>2, <2>2
<1>5. Stored(new) = Stored(db) \ {i}
  BY <1>4 DEF Stored
<1>6. Marked(new) = Marked(db) \cup {i}
  BY <1>4 DEF Marked
<1>7. MarksAgree(new)
  BY <1>4, <1>5 DEF MarksAgree, Good
<1>8. GraphAgrees(new)
  BY <1>4 DEF GraphAgrees, Searchable, Good
<1>9. UnmarkedLinked(new)
  BY <1>4, <1>5 DEF UnmarkedLinked, IsLinked, Indexed, Good
<1>10. LockedOut(new)
  BY <1>4, <1>5, <1>6 DEF LockedOut, Good
<1> QED BY <1>4, <1>7, <1>8, <1>9, <1>10 DEF Good, new

\* Every stored item marked and the rest as before: what both preparations end with.
LEMMA MarkStoredFacts ==
    ASSUME NEW db \in Db
    PROVE  /\ MarkStored(db) \in [Item -> Mark]
           /\ \A i \in Stored(db) : MarkStored(db)[i] = "Updated"
           /\ \A i \in Item \ Stored(db) : MarkStored(db)[i] = db.marks[i]
  BY DEF MarkStored, Mark, Db, Stored

\* Writer::prepare_changing_distance keeps a database good, whether it keeps the graph
\* and the metadata of the old distance or not.
LEMMA ForDistanceGood ==
    ASSUME NEW db \in Db, Good(db), NEW nd \in Distance
    PROVE  ForDistance(db, nd) \in Db /\ Good(ForDistance(db, nd))
<1> DEFINE new == ForDistance(db, nd)
           items == [i \in Item |-> IF i \in Stored(db) THEN Recode[<<db.items[i], nd>>]
                                                         ELSE NoVector]
<1>1. \A i \in Stored(db) : items[i] \in Vector /\ items[i] # NoVector
  BY RecodeAssumption, VectorAssumption DEF Db, Stored
<1>2. items \in [Item -> Vector \cup {NoVector}]
  BY <1>1 DEF Stored
<1>3. /\ new.items = items /\ new.marks = MarkStored(db) /\ new.dist = nd
      /\ new.linked = db.linked
      /\ \/ new.keys = db.keys /\ new.meta = db.meta
         \/ new.keys = {} /\ new.meta = NoMeta
  BY DEF ForDistance, Unbuilt, Db
<1>4. new \in Db
  <2>1. db.marks \in [Item -> Mark] /\ MarkStored(db) \in [Item -> Mark]
    BY MarkStoredFacts DEF Db
  <2>2. CASE RawOf[nd] = db.dist
    BY <1>2, <2>1, <2>2 DEF ForDistance, Db
  <2>3. CASE RawOf[nd] # db.dist
    BY <1>2, <2>1, <2>3 DEF ForDistance, Unbuilt, Db
  <2> QED BY <2>2, <2>3
<1>5. Stored(new) = Stored(db)
  BY <1>1, <1>3 DEF Stored
<1>6. Stored(new) \subseteq Marked(new)
  BY <1>3, <1>5, MarkStoredFacts DEF Marked, Stored
<1>7. MarksAgree(new)
  BY <1>3, <1>5, MarkStoredFacts DEF MarksAgree, Good
<1>8. GraphAgrees(new)
  BY <1>3 DEF GraphAgrees, Searchable, Good
<1>9. UnmarkedLinked(new)
  <2> SUFFICES ASSUME NEW i \in Item, new.marks[i] = "none"
               PROVE  i \notin Stored(new) /\ i \notin Indexed(new)
    BY DEF UnmarkedLinked
  <2>1. i \notin Stored(db) /\ db.marks[i] = "none"
    BY <1>3, <1>5, MarkStoredFacts
  <2>2. i \notin Indexed(db)
    BY <2>1 DEF Good, UnmarkedLinked
  <2> QED BY <1>3, <1>5, <2>1, <2>2 DEF Indexed
<1>10. LockedOut(new)
  BY <1>6 DEF LockedOut
<1> QED BY <1>4, <1>7, <1>8, <1>9, <1>10 DEF Good

\* Writer::prepare_arroy_conversion makes any database without marks good.
LEMMA ConvertedGood ==
    ASSUME NEW db \in Db, Marked(db) = {}
    PROVE  LET new == [Unbuilt(db) EXCEPT !.marks = MarkStored(Unbuilt(db))]
           IN  new \in Db /\ Good(new)
<1> DEFINE old == Unbuilt(db)
           new == [old EXCEPT !.marks = MarkStored(old)]
<1>1. old \in Db /\ old.keys = {} /\ old.meta = NoMeta
  BY DEF Unbuilt, Db
<1>2. \A i \in Item : old.marks[i] = "none"
  BY DEF Unbuilt, Db, Marked
<1>3. new \in Db /\ new.keys = {} /\ new.meta = NoMeta /\ new.marks = MarkStored(old)
  BY <1>1, MarkStoredFacts DEF Db
<1>4. Stored(new) = Stored(old)
  BY <1>1 DEF Stored, Db
<1>5. MarksAgree(new)
  BY <1>1, <1>2, <1>3, <1>4, MarkStoredFacts DEF MarksAgree
<1>6. GraphAgrees(new) /\ LockedOut(new)
  BY <1>3 DEF GraphAgrees, LockedOut
<1>7. UnmarkedLinked(new)
  BY <1>1, <1>3, <1>4, MarkStoredFacts DEF UnmarkedLinked, Indexed
<1> QED BY <1>3, <1>5, <1>6, <1>7 DEF Good

-----------------------------------------------------------------------------
(* What each step of a build makes of the transaction and of its locals. *)

\* Deleting link keys of some items touches nothing else.
LEMMA WithoutFacts ==
    ASSUME NEW db \in Db, NEW gone \in SUBSET Item
    PROVE  LET new == [db EXCEPT !.keys = Without(db.keys, gone)]
           IN  /\ new \in Db
               /\ new.keys = {k \in db.keys : k[1] \notin gone}
               /\ new.marks = db.marks /\ new.items = db.items /\ new.meta = db.meta
               /\ new.dist = db.dist /\ new.linked = db.linked
  BY DEF Without, Db

\* reset_and_retrieve_updated_items and the item sets computed from it: a good database
\* without its marks is ready for the HNSW construction.
LEMMA RetrievedReady ==
    ASSUME NEW db \in Db, NEW j \in Job, Good(db), HasRead(db, j)
    PROVE  LET all     == Marked(db)
               deleted == {i \in all : db.marks[i] = "Removed"}
               indices == ((all \ deleted) \cup j.items) \ deleted
               new     == WithoutMarks(db, all)
               nj      == [j EXCEPT !.phase = "hnsw", !.items = indices,
                                    !.ins = indices \cap all, !.del = all \ indices]
           IN  new \in Db /\ Marked(new) = {} /\ nj \in Job /\ HnswReady(new, nj)
<1> DEFINE all     == Marked(db)
           deleted == {i \in all : db.marks[i] = "Removed"}
           indices == ((all \ deleted) \cup j.items) \ deleted
           new     == WithoutMarks(db, all)
           nj      == [j EXCEPT !.phase = "hnsw", !.items = indices,
                                !.ins = indices \cap all, !.del = all \ indices]
<1>1. /\ new \in Db /\ \A i \in Item : new.marks[i] = "none"
      /\ new.items = db.items /\ new.keys = db.keys /\ new.meta = db.meta
      /\ new.dist = db.dist /\ new.linked = db.linked
  BY DEF WithoutMarks, Marked, Db, Mark
<1>2. all \subseteq Item /\ deleted \subseteq all /\ indices \subseteq Item
  BY DEF Marked, Job
<1>3. /\ nj \in Job /\ nj.items = indices /\ nj.ins = indices \cap all
      /\ nj.del = all \ indices /\ nj.eps = j.eps /\ nj.top = j.top
  BY <1>2 DEF Job, Phase
<1>4. /\ \A i \in all : i \notin deleted <=> i \in Stored(db)
      /\ \A i \in Item \ all : i \in Stored(db) <=> i \in j.items
  <2>1. ASSUME NEW i \in all PROVE i \notin deleted <=> i \in Stored(db)
    BY <2>1, <1>2 DEF Good, MarksAgree, Marked, Db, Mark
  <2>2. ASSUME NEW i \in Item \ all PROVE i \in Stored(db) <=> i \in j.items
    BY <2>2 DEF Good, UnmarkedLinked, IsLinked, HasRead, Marked
  <2> QED BY <2>1, <2>2
<1>5. \A i \in Item : i \in indices <=> i \in Stored(db)
  BY <1>2, <1>4
<1>6. /\ j.eps \subseteq j.items
      /\ Ids(db.keys) = j.items
      /\ \A i \in j.items : <<i, 0>> \in db.keys
      /\ j.items # {} => j.eps # {}
  <2>1. CASE db.meta = NoMeta
    BY <2>1 DEF Good, GraphAgrees, HasRead, Indexed, OldPoints, Ids
  <2>2. CASE db.meta # NoMeta
    BY <2>2 DEF Good, GraphAgrees, HasRead, Indexed, OldPoints, Searchable
  <2> QED BY <2>1, <2>2
<1>7. nj.del = all \ Stored(db) /\ indices \ nj.ins = j.items \ all
  BY <1>2, <1>3, <1>4, <1>5
<1>8. MarksAgree(new) /\ ItemsAgree(new, nj) /\ LinkedBut(new, nj.ins)
  <2>1. Stored(new) = Stored(db)
    BY <1>1 DEF Stored
  <2>2. MarksAgree(new)
    BY <1>1 DEF MarksAgree
  <2>3. ItemsAgree(new, nj)
    BY <1>3, <1>5, <2>1 DEF ItemsAgree
  <2>4. LinkedBut(new, nj.ins)
    <3> SUFFICES ASSUME NEW i \in Item, i \in Stored(db), i \notin nj.ins
                 PROVE  db.linked[i] = <<db.items[i], db.dist>>
      BY <1>1, <2>1 DEF LinkedBut
    <3>1. i \notin all
      BY <1>3, <1>5
    <3> QED BY <3>1 DEF Good, UnmarkedLinked, IsLinked, Marked
  <2> QED BY <2>2, <2>3, <2>4
<1>9. nj.ins \cup (Ids(new.keys) \ nj.del) \cup (nj.eps \ nj.del) = nj.items
  BY <1>1, <1>2, <1>3, <1>4, <1>5, <1>6
<1>10. \A i \in nj.items \ nj.ins : <<i, 0>> \in new.keys
  BY <1>1, <1>3, <1>6, <1>7
<1>11. nj.items # {} => \/ nj.ins # {}
                        \/ nj.eps \ nj.del # {}
                        \/ nj.eps \cap nj.del # {} /\ HasSubstitute(new.keys, nj.top, nj.del)
  <2> SUFFICES ASSUME NEW i \in nj.items, nj.ins = {}, nj.eps \ nj.del = {}
               PROVE  nj.eps \cap nj.del # {} /\ HasSubstitute(new.keys, nj.top, nj.del)
    OBVIOUS
  <2>1. i \in j.items /\ i \notin nj.del /\ <<i, 0>> \in new.keys
    BY <1>1, <1>2, <1>3, <1>6, <1>7
  <2>2. nj.eps \cap nj.del # {}
    BY <2>1, <1>3, <1>6
  <2>3. j.top \in Level
    BY DEF Job
  <2>4. 0 <= nj.top
    BY <1>3, <2>3 DEF Level
  <2>5. \E k \in new.keys : k[1] \notin nj.del /\ k[2] <= nj.top
    BY <2>1, <2>4
  <2> QED BY <2>2, <2>5 DEF HasSubstitute
<1>12. nj.items \cap nj.del = {}
  BY <1>3
<1> HIDE DEF new, nj
<1>13. HnswReady(new, nj)
  BY <1>8, <1>9, <1>10, <1>11, <1>12 DEF HnswReady
<1>14. Marked(new) = {}
  BY <1>1 DEF Marked
<1> QED BY <1>1, <1>3, <1>13, <1>14 DEF new, nj

\* A build that takes the items of the metadata (relink_all_items) is ready too, with
\* the old links still there or all deleted.
LEMMA RelinkReady ==
    ASSUME NEW db \in Db, NEW j \in Job, Good(db), NEW keys \in {db.keys, {}},
           HasRead(db, j), j.ins = j.items
    PROVE  HnswReady([db EXCEPT !.keys = keys], j)
<1> DEFINE new == [db EXCEPT !.keys = keys]
<1>1. /\ new.marks = db.marks /\ new.items = db.items /\ new.keys = keys
      /\ new.dist = db.dist /\ new.linked = db.linked
  BY DEF Db
<1>2. Stored(new) = Stored(db)
  BY <1>1 DEF Stored
<1>3. MarksAgree(new)
  BY <1>1, <1>2 DEF Good, MarksAgree
<1>4. ItemsAgree(new, j)
  BY <1>1, <1>2 DEF ItemsAgree, Good, UnmarkedLinked, IsLinked, HasRead
<1>5. LinkedBut(new, j.ins)
  BY <1>1, <1>2 DEF LinkedBut, Good, UnmarkedLinked, IsLinked, HasRead
<1>6. Ids(keys) \subseteq j.items /\ j.eps \subseteq j.items
  BY DEF Good, GraphAgrees, HasRead, Indexed, OldPoints, Ids
<1> HIDE DEF new
<1> QED BY <1>1, <1>3, <1>4, <1>5, <1>6 DEF HnswReady, HasRead, new

\* HnswBuilder::build returns what Writer::build needs.
LEMMA BuiltFromReady ==
    ASSUME NEW db \in Db, NEW j \in Job, HnswReady(db, j), j.ins \subseteq Stored(db),
           NEW written \in SUBSET LinkKey, NEW eps2 \in SUBSET Item, NEW top2 \in Level,
           HnswOutcome(db.keys, j.eps, j.top, j.ins, j.del, written, eps2, top2)
    PROVE  LET new == [db EXCEPT
                 !.keys = @ \cup written,
                 !.linked = [i \in Item |-> IF i \in j.ins THEN <<db.items[i], db.dist>>
                                                           ELSE db.linked[i]]]
               nj  == [j EXCEPT !.phase = "delete", !.eps = eps2, !.top = top2]
           IN  /\ new \in Db /\ new.marks = db.marks
               /\ nj \in Job /\ BuiltBut(new, nj, nj.del)
<1> DEFINE linked == [i \in Item |-> IF i \in j.ins THEN <<db.items[i], db.dist>>
                                                    ELSE db.linked[i]]
           new == [db EXCEPT !.keys = @ \cup written, !.linked = linked]
           nj  == [j EXCEPT !.phase = "delete", !.eps = eps2, !.top = top2]
<1>1. linked \in [Item -> (Vector \X Distance) \cup {NoVector}]
  BY DEF Db, Stored
<1>2. /\ new \in Db /\ new.keys = db.keys \cup written /\ new.linked = linked
      /\ new.marks = db.marks /\ new.items = db.items /\ new.dist = db.dist
  BY <1>1 DEF Db
<1>3. /\ nj \in Job /\ nj.items = j.items /\ nj.ins = j.ins /\ nj.del = j.del
      /\ nj.eps = eps2 /\ nj.top = top2
  BY DEF Job, Phase
<1>4. Stored(new) = Stored(db)
  BY <1>2 DEF Stored
<1>5. MarksAgree(new) /\ ItemsAgree(new, nj)
  BY <1>2, <1>3, <1>4 DEF HnswReady, MarksAgree, ItemsAgree
<1>6. LinkedBut(new, {})
  BY <1>2, <1>4 DEF HnswReady, LinkedBut
<1>7. Ids(written) = j.items
  BY DEF HnswReady, HnswOutcome
<1>8. Ids(new.keys) = Ids(db.keys) \cup Ids(written)
  BY <1>2 DEF Ids
<1>9. Ids(new.keys) \ nj.del = nj.items /\ nj.items \cap nj.del = {}
  BY <1>3, <1>7, <1>8 DEF HnswReady
<1>10. \A i \in nj.items : <<i, 0>> \in new.keys
  BY <1>2, <1>3 DEF HnswReady, HnswOutcome
<1>11. nj.eps \subseteq nj.items /\ Covers(new.keys, nj.eps, nj.top)
  BY <1>2, <1>3, <1>7 DEF HnswOutcome, Covers
<1>12. nj.items # {} => nj.eps # {}
  BY <1>3 DEF HnswReady, HnswOutcome
<1> HIDE DEF new, nj
<1>13. BuiltBut(new, nj, nj.del)
  BY <1>5, <1>6, <1>9, <1>10, <1>11, <1>12 DEF BuiltBut
<1> QED BY <1>2, <1>3, <1>13 DEF new, nj, linked

\* delete_links_from_db over the deleted items leaves none of their links.
LEMMA UnlinkedBuilt ==
    ASSUME NEW db \in Db, NEW j \in Job, BuiltBut(db, j, j.del)
    PROVE  LET new == [db EXCEPT !.keys = Without(db.keys, j.del)]
           IN  new \in Db /\ new.marks = db.marks /\ BuiltBut(new, j, {})
<1> DEFINE new == [db EXCEPT !.keys = Without(db.keys, j.del)]
<1>1. /\ new \in Db /\ new.keys = {k \in db.keys : k[1] \notin j.del}
      /\ new.marks = db.marks /\ new.items = db.items /\ new.meta = db.meta
      /\ new.dist = db.dist /\ new.linked = db.linked
  BY WithoutFacts DEF Job
<1>2. Stored(new) = Stored(db)
  BY <1>1 DEF Stored
<1>3. MarksAgree(new) /\ ItemsAgree(new, j) /\ LinkedBut(new, {})
  BY <1>1, <1>2 DEF BuiltBut, MarksAgree, ItemsAgree, LinkedBut
<1>4. Ids(new.keys) = Ids(db.keys) \ j.del
  BY <1>1 DEF Ids
<1>5. \A i \in j.items : <<i, 0>> \in new.keys
  BY <1>1 DEF BuiltBut
<1>6. Covers(new.keys, j.eps, j.top)
  BY <1>1 DEF BuiltBut, Covers
<1> HIDE DEF new
<1>7. BuiltBut(new, j, {})
  BY <1>3, <1>4, <1>5, <1>6 DEF BuiltBut
<1> QED BY <1>1, <1>7 DEF new

\* Writing the metadata over what was built makes a good database.
LEMMA DoneGood ==
    ASSUME NEW db \in Db, NEW j \in Job, BuiltBut(db, j, {})
    PROVE  LET new == [db EXCEPT !.meta = [items |-> j.items, eps |-> j.eps,
                                           top |-> j.top, dist |-> db.dist]]
           IN  /\ new \in Db /\ Good(new)
               /\ Marked(db) = {} => Opens(new)
<1> DEFINE meta == [items |-> j.items, eps |-> j.eps, top |-> j.top, dist |-> db.dist]
           new == [db EXCEPT !.meta = meta]
<1>1. meta \in Metadata /\ meta # NoMeta
  BY MetaAssumption DEF Metadata, Job, Db
<1>2. /\ new \in Db /\ new.meta = meta /\ new.keys = db.keys
      /\ new.marks = db.marks /\ new.items = db.items /\ new.dist = db.dist
      /\ new.linked = db.linked
  BY <1>1 DEF Db
<1>3. Stored(new) = Stored(db) /\ Marked(new) = Marked(db)
  BY <1>2 DEF Stored, Marked
<1>4. MarksAgree(new)
  BY <1>2, <1>3 DEF MarksAgree, BuiltBut
<1>5. GraphAgrees(new)
  BY <1>1, <1>2 DEF GraphAgrees, Searchable, BuiltBut
<1>6. UnmarkedLinked(new)
  BY <1>1, <1>2, <1>3 DEF UnmarkedLinked, IsLinked, Indexed, BuiltBut, ItemsAgree, LinkedBut
<1>7. LockedOut(new)
  BY <1>2 DEF LockedOut
<1>8. Marked(db) = {} => Opens(new)
  BY <1>1, <1>2, <1>3 DEF Opens
<1> HIDE DEF new
<1> QED BY <1>2, <1>4, <1>5, <1>6, <1>7, <1>8 DEF Good, new, meta

-----------------------------------------------------------------------------
(* The invariant of the specification. *)

\* The initial states satisfy it.
LEMMA InitIInv == Init => IInv
<1> SUFFICES ASSUME Init PROVE IInv
  OBVIOUS
<1>1. disk \in Db /\ Good(disk) /\ work = disk
  BY EmptyGood DEF Init
<1>2. Idle \in Job /\ Idle.phase = "idle"
  BY LevelAssumption DEF Idle, Job, Phase, Level
<1>3. TypeOK
  BY <1>1, <1>2 DEF Init, TypeOK
<1>4. job = Idle /\ job.phase = "idle"
  BY <1>2 DEF Init
<1>5. JobInv /\ MarksConsumed
  BY <1>1, <1>4 DEF JobInv, MarksConsumed
<1> QED BY <1>1, <1>3, <1>4, <1>5 DEF IInv

\* Between operations nothing more than good databases is asked.
LEMMA IdleStep ==
    ASSUME TypeOK', Good(disk'), Good(work'), job' = Idle,
           wtxn' = "none" => work' = disk'
    PROVE  IInv'
<1>1. Idle.phase = "idle"
  BY DEF Idle
<1> QED BY <1>1 DEF IInv, JobInv, MarksConsumed

\* The state between builds is a state of a build.
LEMMA IdleIsJob == Idle \in Job /\ Idle.phase = "idle"
  BY LevelAssumption DEF Idle, Job, Phase, Level

\* The transaction ends without a trace, or publishes a good database.
LEMMA TxnStep ==
    ASSUME IInv, Begin \/ Commit \/ Abort \/ StoreFails \/ Crash \/ NewBuilder
    PROVE  IInv'
<1> USE IdleIsJob DEF TypeOK
<1>1. CASE Begin
  <2>1. job = Idle /\ Good(work)
    BY <1>1 DEF IInv, JobInv, Begin
  <2> QED BY <1>1, <2>1, IdleStep DEF IInv, Begin
<1>2. CASE Commit
  <2>1. Good(work)
    BY <1>2 DEF IInv, JobInv, Commit
  <2> QED BY <1>2, <2>1, IdleStep DEF IInv, Commit
<1>3. CASE Abort
  BY <1>3, IdleStep DEF IInv, Abort
<1>4. CASE StoreFails
  BY <1>4, IdleStep DEF IInv, StoreFails
<1>5. CASE Crash
  BY <1>5, IdleStep DEF IInv, Crash
<1>6. CASE NewBuilder
  <2>1. Good(work)
    BY <1>6 DEF IInv, JobInv, NewBuilder
  <2> QED BY <1>6, <2>1, IdleStep DEF IInv, NewBuilder
<1> QED BY <1>1, <1>2, <1>3, <1>4, <1>5, <1>6

\* A failed operation of a careful client is an abort.
LEMMA FailStep ==
    ASSUME IInv, CarefulClients, NEW op, NEW db, Fails(op, db)
    PROVE  IInv'
  BY IdleIsJob, IdleStep DEF IInv, CarefulClients, Fails, TypeOK

\* Operations on items keep the invariant.
LEMMA ItemStepIInv == IInv /\ ItemStep => IInv'
<1> SUFFICES ASSUME IInv, ItemStep PROVE IInv'
  OBVIOUS
<1>1. ASSUME NEW db \in Db, Good(db), CanWrite, Writes(db) PROVE IInv'
  <2>1. TypeOK'
    BY <1>1 DEF IInv, TypeOK, Writes, CanWrite
  <2> QED BY <1>1, <2>1, IdleStep DEF IInv, Writes, CanWrite
<1>2. CanWrite /\ work \in Db /\ Good(work)
  <2>1. CanWrite
    BY DEF ItemStep, AddItem, DelItem, Clear
  <2> QED BY <2>1, IdleIsJob DEF IInv, JobInv, CanWrite, TypeOK
<1>3. CASE \E i \in Item, v \in Vector : AddItem(i, v)
  BY <1>1, <1>2, <1>3, AddedGood DEF AddItem
<1>4. CASE \E i \in Item : DelItem(i)
  BY <1>1, <1>2, <1>4, DeletedGood DEF DelItem
<1>5. CASE Clear
  <2>1. work.dist \in Distance
    BY <1>2 DEF Db
  <2> QED BY <1>1, <1>2, <1>5, <2>1, EmptyGood DEF Clear, Cleared
<1> QED BY <1>3, <1>4, <1>5 DEF ItemStep

\* Preparations for another distance or from arroy keep the invariant.
LEMMA PrepareStepIInv == IInv /\ CarefulClients /\ PrepareStep => IInv'
<1> SUFFICES ASSUME IInv, CarefulClients, PrepareStep PROVE IInv'
  OBVIOUS
<1>1. CASE \E nd \in Distance : PrepareChangingDistance(nd)
  <2> PICK nd \in Distance : PrepareChangingDistance(nd)
    BY <1>1
  <2>1. work \in Db /\ Good(work)
    BY IdleIsJob DEF IInv, JobInv, PrepareChangingDistance, CanWrite, TypeOK
  <2>2. work' \in Db /\ Good(work')
    BY <2>1, ForDistanceGood DEF PrepareChangingDistance
  <2>3. /\ relink' \in BOOLEAN
        /\ disk' = disk /\ wtxn' = wtxn /\ job' = job /\ ops' = ops + 1
        /\ wtxn = "open" /\ job = Idle
    BY DEF PrepareChangingDistance, CanWrite
  <2>4. TypeOK'
    BY <2>2, <2>3 DEF IInv, TypeOK
  <2> QED BY <2>2, <2>3, <2>4, IdleStep DEF IInv
<1>2. CASE PrepareArroyConversion
  <2>1. work \in Db
    BY DEF IInv, TypeOK
  <2>2. work' \in Db /\ Good(work')
    BY <1>2, <2>1, ConvertedGood DEF PrepareArroyConversion, Writes
  <2>3. TypeOK'
    BY <1>2, <2>2 DEF IInv, TypeOK, PrepareArroyConversion, Writes, CanWrite
  <2> QED BY <1>2, <2>2, <2>3, IdleStep DEF IInv, PrepareArroyConversion, Writes, CanWrite
<1>3. CASE PrepareArroyConversionFails
  BY <1>3, FailStep DEF PrepareArroyConversionFails
<1> QED BY <1>1, <1>2, <1>3 DEF PrepareStep

\* The transaction is open while a build runs.
LEMMA BuildIsInTxn == IInv /\ job.phase # "idle" => wtxn = "open"
  BY DEF IInv, TypeOK

\* Every step of a build keeps the invariant.
LEMMA BuildStepIInv == IInv /\ CarefulClients /\ BuildStep => IInv'
<1> SUFFICES ASSUME IInv, CarefulClients, BuildStep PROVE IInv'
  OBVIOUS
<1>0. /\ disk \in Db /\ work \in Db /\ job \in Job /\ Good(disk)
      /\ wtxn \in {"none", "open"} /\ relink \in BOOLEAN /\ ops \in Nat
  BY DEF IInv, TypeOK
<1>1. CASE Build
  <2> DEFINE phase == IF relink THEN "hnsw" ELSE "retrieve"
  <2>1. Good(work) /\ wtxn = "open"
    BY <1>1, IdleIsJob DEF IInv, JobInv, Build, CanWrite
  <2>2. /\ disk' = disk /\ work' = work /\ wtxn' = wtxn /\ relink' = relink
        /\ ops' = ops + 1
        /\ job' = [phase |-> phase, force |-> FALSE, items |-> Indexed(work),
                   ins |-> IF phase = "retrieve" THEN {} ELSE Indexed(work),
                   del |-> {}, eps |-> OldPoints(work), top |-> OldTop(work)]
    BY <1>1 DEF Build, StartJob
  <2>3. /\ Indexed(work) \in SUBSET Item /\ OldPoints(work) \in SUBSET Item
        /\ OldTop(work) \in Level
    BY <1>0, LevelAssumption DEF Indexed, OldPoints, OldTop, Db, Metadata, Level
  <2>4. job' \in Job /\ job'.phase = phase /\ ~job'.force
    BY <2>2, <2>3 DEF Job, Phase
  <2>5. HasRead(work, job')
    BY <2>2 DEF HasRead
  <2>6. TypeOK'
    BY <1>0, <2>2, <2>4 DEF TypeOK
  <2>7. CASE relink
    <3>1. job'.phase = "hnsw" /\ job'.ins = job'.items
      BY <2>2, <2>7
    <3>2. work = [work EXCEPT !.keys = work.keys]
      BY <1>0 DEF Db
    <3>3. HnswReady(work', job')
      BY <1>0, <2>1, <2>2, <2>4, <2>5, <3>1, <3>2, RelinkReady
    <3> QED BY <1>0, <2>1, <2>2, <2>6, <2>7, <3>1, <3>3
            DEF IInv, JobInv, MarksConsumed
  <2>8. CASE ~relink
    <3>1. job'.phase = "retrieve"
      BY <2>2, <2>8
    <3> QED BY <1>0, <2>1, <2>2, <2>4, <2>5, <2>6, <2>8, <3>1
            DEF IInv, JobInv, MarksConsumed, HasRead, Indexed, OldPoints, OldTop
  <2> QED BY <1>0, <2>7, <2>8
<1>2. CASE ForceRebuild
  <2>1. Good(work) /\ wtxn = "open"
    BY <1>2, IdleIsJob DEF IInv, JobInv, ForceRebuild, CanWrite
  <2>2. /\ disk' = disk /\ work' = work /\ wtxn' = wtxn /\ relink' = TRUE
        /\ ops' = ops + 1
        /\ job' = [phase |-> "unlink", force |-> TRUE, items |-> Indexed(work),
                   ins |-> Indexed(work),
                   del |-> {}, eps |-> OldPoints(work), top |-> OldTop(work)]
    BY <1>2 DEF ForceRebuild, StartJob
  <2>3. /\ Indexed(work) \in SUBSET Item /\ OldPoints(work) \in SUBSET Item
        /\ OldTop(work) \in Level
    BY <1>0, LevelAssumption DEF Indexed, OldPoints, OldTop, Db, Metadata, Level
  <2>4. job' \in Job /\ job'.phase = "unlink" /\ job'.force /\ job'.ins = job'.items
    BY <2>2, <2>3 DEF Job, Phase
  <2>5. HasRead(work', job')
    BY <2>2 DEF HasRead
  <2>6. TypeOK'
    BY <1>0, <2>2, <2>4 DEF TypeOK
  <2> QED BY <1>0, <2>1, <2>2, <2>4, <2>5, <2>6 DEF IInv, JobInv, MarksConsumed
<1>3. CASE UnlinkAll
  <2>1. /\ Good(work) /\ HasRead(work, job) /\ job.ins = job.items /\ job.force
        /\ wtxn = "open"
    BY <1>3, BuildIsInTxn DEF IInv, JobInv, UnlinkAll
  <2>2. /\ disk' = disk /\ wtxn' = wtxn /\ relink' = relink /\ ops' = ops
        /\ work' = [work EXCEPT !.keys = Without(work.keys, job.items)]
        /\ job' = [job EXCEPT !.phase = "hnsw"]
    BY <1>3 DEF UnlinkAll, Enter
  <2>3. /\ job' \in Job /\ job'.phase = "hnsw" /\ job'.force = job.force
        /\ job'.items = job.items /\ job'.ins = job.ins /\ job'.del = job.del
        /\ job'.eps = job.eps /\ job'.top = job.top
    BY <1>0, <2>2 DEF Job, Phase
  <2>4. Without(work.keys, job.items) = {}
    BY <2>1 DEF Without, Good, GraphAgrees, HasRead, Indexed, Ids
  <2>5. HasRead(work, job')
    BY <2>1, <2>3 DEF HasRead
  <2>6. HnswReady(work', job')
    BY <1>0, <2>1, <2>2, <2>3, <2>4, <2>5, RelinkReady
  <2>7. work' \in Db
    BY <1>0, <2>2, WithoutFacts DEF Job
  <2>8. TypeOK'
    BY <1>0, <2>2, <2>3, <2>7 DEF TypeOK
  <2> QED BY <1>0, <2>1, <2>2, <2>3, <2>6, <2>8 DEF IInv, JobInv, MarksConsumed
<1>4. CASE RetrieveUpdated
  <2>1. Good(work) /\ HasRead(work, job) /\ ~relink /\ wtxn = "open"
    BY <1>4, BuildIsInTxn DEF IInv, JobInv, RetrieveUpdated
  <2>2. work' \in Db /\ Marked(work') = {} /\ job' \in Job /\ HnswReady(work', job')
    BY <1>0, <1>4, <2>1, RetrievedReady DEF RetrieveUpdated
  <2>3. /\ disk' = disk /\ wtxn' = wtxn /\ relink' = relink /\ ops' = ops
        /\ job'.phase = "hnsw"
    BY <1>0, <1>4 DEF RetrieveUpdated, Job
  <2>4. TypeOK'
    BY <1>0, <2>2, <2>3 DEF TypeOK
  <2> QED BY <1>0, <2>1, <2>2, <2>3, <2>4 DEF IInv, JobInv, MarksConsumed
<1>5. CASE RetrieveCancelled
  BY <1>5, FailStep DEF RetrieveCancelled
<1>6. CASE HnswBuilt
  <2>1. HnswReady(work, job) /\ wtxn = "open" /\ job.ins \subseteq Stored(work)
    BY <1>6, BuildIsInTxn DEF IInv, JobInv, HnswBuilt, AllStored
  <2>2. PICK written \in SUBSET LinkKey, eps2 \in SUBSET Item, top2 \in Level :
          /\ HnswOutcome(work.keys, job.eps, job.top, job.ins, job.del,
                         written, eps2, top2)
          /\ work' = [work EXCEPT
               !.keys = @ \cup written,
               !.linked = [i \in Item |-> IF i \in job.ins
                                           THEN <<work.items[i], work.dist>>
                                           ELSE work.linked[i]]]
          /\ job' = [job EXCEPT !.phase = "delete", !.eps = eps2, !.top = top2]
    BY <1>6 DEF HnswBuilt
  <2>3. /\ work' \in Db /\ work'.marks = work.marks
        /\ job' \in Job /\ BuiltBut(work', job', job'.del)
    BY <1>0, <2>1, <2>2, BuiltFromReady
  <2>4. /\ disk' = disk /\ wtxn' = wtxn /\ relink' = relink /\ ops' = ops
        /\ job.phase = "hnsw" /\ job'.phase = "delete" /\ job'.force = job.force
    BY <1>0, <1>6, <2>2 DEF HnswBuilt, Job
  <2>5. Marked(work') = Marked(work)
    BY <2>3 DEF Marked
  <2>6. TypeOK'
    BY <1>0, <2>3, <2>4 DEF TypeOK
  <2> QED BY <1>0, <2>1, <2>3, <2>4, <2>5, <2>6 DEF IInv, JobInv, MarksConsumed
<1>7. CASE HnswCancelled
  BY <1>7, FailStep DEF HnswCancelled
<1>8. CASE HnswMissesItem
  BY <1>8, FailStep DEF HnswMissesItem
<1>9. CASE DeleteLinks
  <2>1. BuiltBut(work, job, job.del) /\ wtxn = "open"
    BY <1>9, BuildIsInTxn DEF IInv, JobInv, DeleteLinks
  <2>2. /\ work' \in Db /\ work'.marks = work.marks /\ BuiltBut(work', job, {})
    BY <1>0, <1>9, <2>1, UnlinkedBuilt DEF DeleteLinks
  <2>3. /\ disk' = disk /\ wtxn' = wtxn /\ relink' = relink /\ ops' = ops
        /\ job.phase = "delete" /\ job' \in Job /\ job'.phase = "meta"
        /\ job'.force = job.force /\ job'.items = job.items
        /\ job'.eps = job.eps /\ job'.top = job.top
    BY <1>0, <1>9 DEF DeleteLinks, Enter, Job, Phase
  <2>4. BuiltBut(work', job', {})
    BY <2>2, <2>3 DEF BuiltBut, ItemsAgree
  <2>5. Marked(work') = Marked(work)
    BY <2>2 DEF Marked
  <2>6. TypeOK'
    BY <1>0, <2>2, <2>3 DEF TypeOK
  <2> QED BY <1>0, <2>1, <2>3, <2>4, <2>5, <2>6 DEF IInv, JobInv, MarksConsumed
<1>10. CASE BuildDone
  <2>1. BuiltBut(work, job, {}) /\ wtxn = "open"
    BY <1>10, BuildIsInTxn DEF IInv, JobInv, BuildDone
  <2>2. work' \in Db /\ Good(work')
    BY <1>0, <1>10, <2>1, DoneGood DEF BuildDone
  <2>3. disk' = disk /\ wtxn' = wtxn /\ ops' = ops /\ job' = Idle
    BY <1>10 DEF BuildDone
  <2>4. relink' \in BOOLEAN
    BY <1>0, <1>10 DEF BuildDone
  <2>5. TypeOK'
    BY <1>0, <2>2, <2>3, <2>4, IdleIsJob DEF TypeOK
  <2> QED BY <1>0, <2>1, <2>2, <2>3, <2>5, IdleStep
<1> QED BY <1>1, <1>2, <1>3, <1>4, <1>5, <1>6, <1>7, <1>8, <1>9, <1>10 DEF BuildStep

\* Every step keeps the inductive invariant.
LEMMA NextIInv == IInv /\ CarefulClients /\ [Next]_vars => IInv'
<1> SUFFICES ASSUME IInv, CarefulClients, [Next]_vars PROVE IInv'
  OBVIOUS
<1>1. CASE Next
  BY <1>1, TxnStep, ItemStepIInv, PrepareStepIInv, BuildStepIInv DEF Next
<1>2. CASE UNCHANGED vars
  BY <1>2 DEF vars, IInv, TypeOK, JobInv, MarksConsumed
<1> QED BY <1>1, <1>2

\* The invariant holds for ever.
THEOREM Invariance == ASSUME CarefulClients PROVE Spec => []IInv
<1>1. IInv /\ [Next]_vars => IInv'
  BY NextIInv
<1> QED BY <1>1, InitIInv, PTL DEF Spec

-----------------------------------------------------------------------------
(* What follows for the code's users. *)

\* Every variable keeps its type: in particular no level leaves the byte it is stored in.
THEOREM TypeCorrect == ASSUME CarefulClients PROVE Spec => []TypeOK
<1>1. IInv => TypeOK
  BY DEF IInv
<1> QED BY <1>1, Invariance, PTL

\* An index that Reader::open accepts passes Reader::assert_validity.
THEOREM OpenedIsValid == ASSUME CarefulClients PROVE Spec => []OpenIsValid
<1>1. ASSUME IInv, Opens(disk) PROVE Valid(disk)
  <2>1. /\ GraphAgrees(disk) /\ disk.meta # NoMeta
        /\ \A i \in Item : i \in Stored(disk) <=> i \in disk.meta.items
    BY <1>1 DEF IInv, Good, Opens, Marked, UnmarkedLinked, IsLinked, Indexed
  <2>2. disk.meta.items \subseteq Item
    BY <1>1, <2>1 DEF IInv, TypeOK, Db, Metadata
  <2>3. Stored(disk) = disk.meta.items
    BY <2>1, <2>2 DEF Stored
  <2> QED BY <2>1, <2>3 DEF GraphAgrees, Valid
<1>2. IInv => OpenIsValid
  BY <1>1 DEF OpenIsValid
<1> QED BY <1>2, Invariance, PTL

\* An index that Reader::open accepts has entry points to descend from.
THEOREM OpenedIsSearchable == ASSUME CarefulClients PROVE Spec => []OpenIsSearchable
<1>1. IInv => OpenIsSearchable
  BY DEF IInv, Good, GraphAgrees, OpenIsSearchable, Opens
<1> QED BY <1>1, Invariance, PTL

\* No update that was committed is forgotten.
THEOREM NoLostUpdate == ASSUME CarefulClients PROVE Spec => []UnmarkedIsLinked
<1>1. IInv => UnmarkedIsLinked
  BY DEF IInv, Good, UnmarkedIsLinked
<1> QED BY <1>1, Invariance, PTL

\* Re-encoded vectors are never read under the distance they were encoded for before.
THEOREM OldReadersLockedOut == ASSUME CarefulClients PROVE Spec => []OldDistanceLockedOut
<1>1. IInv => OldDistanceLockedOut
  BY DEF IInv, Good, OldDistanceLockedOut
<1> QED BY <1>1, Invariance, PTL

\* HannoyBuilder::build leaves an index that opens.
THEOREM BuiltOpens == ASSUME CarefulClients PROVE Spec => BuildOpens
<1>1. ASSUME IInv, BuildDone, ~job.force, ~relink PROVE Opens(work')
  <2>1. /\ work \in Db /\ BuiltBut(work, job, {}) /\ Marked(work) = {}
    BY <1>1 DEF IInv, TypeOK, JobInv, MarksConsumed, BuildDone
  <2>2. work' = [work EXCEPT !.meta = [items |-> job.items, eps |-> job.eps,
                                       top |-> job.top, dist |-> work.dist]]
    BY <1>1 DEF BuildDone
  <2>3. job \in Job
    BY <1>1 DEF IInv, TypeOK
  <2> QED BY <2>1, <2>2, <2>3, DoneGood
<1>2. IInv /\ [Next]_vars => [BuildDone /\ ~job.force /\ ~relink => Opens(work')]_vars
  BY <1>1
<1> QED BY <1>2, Invariance, PTL DEF Spec, BuildOpens

-----------------------------------------------------------------------------
(* HannoyIndex implements IndexPromise. *)

\* What a database stores is a content of the promise.
LEMMA ContentsType ==
    ASSUME NEW db \in Db
    PROVE  Contents(db) \in [Item -> (Vector \X Distance) \cup {NoVector}]
<1>1. \A i \in Stored(db) : <<db.items[i], db.dist>> \in Vector \X Distance
  BY DEF Stored, Db
<1> QED BY <1>1 DEF Contents

\* A good database that opens serves what it stores: unmarked items are linked.
LEMMA ServedIsStored ==
    ASSUME NEW db \in Db, Good(db), Opens(db)
    PROVE  Served(db) = Contents(db)
<1>1. ASSUME NEW i \in Item
      PROVE  (IF i \in db.meta.items THEN db.linked[i] ELSE NoVector)
               = (IF i \in Stored(db) THEN <<db.items[i], db.dist>> ELSE NoVector)
  BY DEF Good, UnmarkedLinked, IsLinked, Indexed, Opens, Marked
<1> QED BY <1>1 DEF Served, Contents

\* A step within the transaction is an edit of the promise, or a build when the index can
\* be opened after it; then it must not have changed what is stored.
LEMMA DraftStep ==
    ASSUME IInv', disk' = disk,
           job' = Idle /\ Opens(work') => Contents(work') = Contents(work)
    PROVE  Promise!Next
<1>1. work' \in Db
  BY DEF IInv, TypeOK
<1>2. CASE job' = Idle /\ Opens(work')
  <2>1. Good(work')
    BY <1>2, IdleIsJob DEF IInv, JobInv
  <2>2. Served(work') = Contents(work')
    BY <1>1, <1>2, <2>1, ServedIsStored
  <2>3. Promise!Build
    BY <1>2, <2>2 DEF Promise!Build
  <2> QED BY <2>3 DEF Promise!Next
<1>3. CASE ~(job' = Idle /\ Opens(work'))
  <2>1. (IF job' = Idle THEN Served(work') ELSE NoMeta) = NoMeta
    BY <1>3 DEF Served
  <2>2. Contents(work') \in [Item -> (Vector \X Distance) \cup {NoVector}]
    BY <1>1, ContentsType
  <2>3. Promise!Edit
    BY <2>1, <2>2 DEF Promise!Edit
  <2> QED BY <2>3 DEF Promise!Next
<1> QED BY <1>2, <1>3

\* A step that gives the transaction up discards the draft.
LEMMA DiscardStep ==
    ASSUME work' = disk, disk' = disk, job' = Idle
    PROVE  Promise!Next
  BY DEF Promise!Next, Promise!Discard

\* A new database keeps the promise.
LEMMA PromiseInit == Init => Promise!Init
<1> SUFFICES ASSUME Init PROVE Promise!Init
  OBVIOUS
<1> PICK d \in Distance : disk = EmptyDb(d)
  BY DEF Init
<1>1. Contents(disk) = [i \in Item |-> NoVector] /\ Served(disk) = NoMeta
  BY DEF Contents, Stored, EmptyDb, Served, Opens
<1>2. work = disk /\ job = Idle
  BY DEF Init
<1> QED BY <1>1, <1>2 DEF Promise!Init

\* The transaction's own steps, and the failures that end it.
LEMMA PromiseTxn ==
    ASSUME IInv, IInv', Begin \/ Commit \/ Abort \/ StoreFails \/ Crash \/ NewBuilder
    PROVE  [Promise!Next]_(Promise!vars)
<1>1. CASE Begin
  BY <1>1 DEF Begin, Promise!vars
<1>2. CASE Commit
  <2>1. Promise!Publish
    BY <1>2 DEF Commit, Promise!Publish
  <2> QED BY <2>1 DEF Promise!Next
<1>3. CASE Abort
  BY <1>3, DiscardStep DEF Abort
<1>4. CASE StoreFails
  BY <1>4, DiscardStep DEF StoreFails
<1>5. CASE Crash
  BY <1>5, DiscardStep DEF Crash
<1>6. CASE NewBuilder
  BY <1>6 DEF NewBuilder, Promise!vars
<1> QED BY <1>1, <1>2, <1>3, <1>4, <1>5, <1>6

\* Operations on items leave an index no reader can open.
LEMMA PromiseItem ==
    ASSUME IInv, IInv', ItemStep
    PROVE  Promise!Next
<1>1. disk' = disk /\ work \in Db
  BY DEF IInv, TypeOK, ItemStep, AddItem, DelItem, Clear, Writes
<1>2. ~Opens(work')
  <2>1. ASSUME NEW i \in Item, NEW v \in Vector, AddItem(i, v) PROVE ~Opens(work')
    <3> DEFINE w == Recode[<<v, work.dist>>]
    <3>1. w \in Vector
      BY <1>1, RecodeAssumption DEF Db
    <3>2. WithItem(work, i, w) \in Db
      BY <1>1, <3>1, WithItemFacts
    <3>3. work'.marks[i] = "Updated"
      BY <2>1, <3>2, WithMarkFacts DEF AddItem, Writes, Added, Mark
    <3> QED BY <3>3 DEF Opens, Marked
  <2>2. ASSUME NEW i \in Item, DelItem(i) PROVE ~Opens(work')
    <3>1. WithItem(work, i, NoVector) \in Db
      BY <1>1, WithItemFacts
    <3>2. work'.marks[i] = "Removed"
      BY <2>2, <3>1, WithMarkFacts DEF DelItem, Writes, Deleted, Mark
    <3> QED BY <3>2 DEF Opens, Marked
  <2>3. CASE Clear
    BY <2>3 DEF Clear, Writes, Cleared, EmptyDb, Opens
  <2> QED BY <2>1, <2>2, <2>3 DEF ItemStep
<1> QED BY <1>1, <1>2, DraftStep

\* So do preparations, unless nothing is stored.
LEMMA PromisePrepare ==
    ASSUME IInv, IInv', CarefulClients, PrepareStep
    PROVE  Promise!Next
<1>0. work \in Db
  BY DEF IInv, TypeOK
<1>1. CASE \E nd \in Distance : PrepareChangingDistance(nd)
  <2> PICK nd \in Distance : PrepareChangingDistance(nd)
    BY <1>1
  <2>1. disk' = disk /\ work' = ForDistance(work, nd)
    BY DEF PrepareChangingDistance
  <2>2. ASSUME Opens(work') PROVE Contents(work') = Contents(work)
    <3>1. work'.marks = MarkStored(work)
      BY <1>0, <2>1 DEF ForDistance, Unbuilt, Db
    <3>2. Stored(work) = {}
      BY <1>0, <2>2, <3>1, MarkStoredFacts DEF Opens, Marked, Stored
    <3>3. work'.items = [i \in Item |-> IF i \in Stored(work)
                                         THEN Recode[<<work.items[i], nd>>] ELSE NoVector]
      BY <1>0, <2>1 DEF ForDistance, Unbuilt, Db
    <3>4. Stored(work') = {}
      BY <3>2, <3>3 DEF Stored
    <3> QED BY <3>2, <3>4 DEF Contents
  <2> QED BY <2>1, <2>2, DraftStep
<1>2. CASE PrepareArroyConversion
  <2>1. disk' = disk /\ work'.meta = NoMeta
    BY <1>0, <1>2 DEF PrepareArroyConversion, Writes, Unbuilt, Db
  <2>2. ~Opens(work')
    BY <2>1 DEF Opens
  <2> QED BY <2>1, <2>2, DraftStep
<1>3. CASE PrepareArroyConversionFails
  BY <1>3, DiscardStep DEF PrepareArroyConversionFails, Fails, CarefulClients
<1> QED BY <1>1, <1>2, <1>3 DEF PrepareStep

\* While a build runs no reader is served the draft; when it is done, all of it or nothing.
LEMMA PromiseBuild ==
    ASSUME IInv, IInv', CarefulClients, BuildStep
    PROVE  Promise!Next
<1>0. work \in Db /\ job \in Job
  BY DEF IInv, TypeOK
<1>1. CASE Build \/ ForceRebuild
  <2>1. disk' = disk /\ job'.phase # "idle"
    BY <1>1 DEF Build, ForceRebuild, StartJob
  <2> QED BY <2>1, IdleIsJob, DraftStep
<1>2. CASE UnlinkAll
  <2>1. disk' = disk /\ job'.phase # "idle"
    BY <1>0, <1>2 DEF UnlinkAll, Enter, Job
  <2> QED BY <2>1, IdleIsJob, DraftStep
<1>3. CASE RetrieveUpdated
  <2>1. disk' = disk /\ job'.phase # "idle"
    BY <1>0, <1>3 DEF RetrieveUpdated, Job
  <2> QED BY <2>1, IdleIsJob, DraftStep
<1>4. CASE HnswBuilt
  <2>1. disk' = disk /\ job'.phase # "idle"
    BY <1>0, <1>4 DEF HnswBuilt, Job
  <2> QED BY <2>1, IdleIsJob, DraftStep
<1>5. CASE DeleteLinks
  <2>1. disk' = disk /\ job'.phase # "idle"
    BY <1>0, <1>5 DEF DeleteLinks, Enter, Job
  <2> QED BY <2>1, IdleIsJob, DraftStep
<1>6. CASE BuildDone
  <2>1. disk' = disk /\ work'.items = work.items /\ work'.dist = work.dist
    BY <1>0, <1>6 DEF BuildDone, Db
  <2>2. Contents(work') = Contents(work)
    BY <2>1 DEF Contents, Stored
  <2> QED BY <2>1, <2>2, DraftStep
<1>7. CASE RetrieveCancelled \/ HnswCancelled \/ HnswMissesItem
  BY <1>7, DiscardStep
     DEF RetrieveCancelled, HnswCancelled, HnswMissesItem, Fails, CarefulClients
<1> QED BY <1>1, <1>2, <1>3, <1>4, <1>5, <1>6, <1>7 DEF BuildStep

\* The database, its write transaction and every operation on the index together keep the
\* promise: readers get what is committed, whole, or nothing.
THEOREM IndexKeepsPromise == ASSUME CarefulClients PROVE Spec => KeepsPromise
<1>1. IInv /\ IInv' /\ [Next]_vars => [Promise!Next]_(Promise!vars)
  <2> SUFFICES ASSUME IInv, IInv', [Next]_vars PROVE [Promise!Next]_(Promise!vars)
    OBVIOUS
  <2>1. CASE UNCHANGED vars
    BY <2>1 DEF vars, Promise!vars
  <2>2. CASE Next
    BY <2>2, PromiseTxn, PromiseItem, PromisePrepare, PromiseBuild DEF Next
  <2> QED BY <2>1, <2>2
<1> QED BY <1>1, PromiseInit, Invariance, PTL DEF Spec, KeepsPromise, Promise!Spec
=============================================================================
