---------------------------- MODULE PyTxnProofs ----------------------------
(***************************************************************************)
(* Proofs about PyTxn, for any number of writers, indexes, readers, items  *)
(* and vectors.  UnmarkedIsLinked and NothingLostSilently speak of what is *)
(* committed; the invariant says the same of the open transaction, unless  *)
(* an operation has failed in it, which is the one case LMDB refuses.      *)
(***************************************************************************)
EXTENDS PyTxn, TLAPS

\* What is not marked is in the graph as it is stored.
Linked(c) == \A i \in Item :
    i \notin c.marks => c.items[i] = IF c.graph = NotBuilt THEN NoVector ELSE c.graph[i]

AllLinked(db) == \A x \in Index : Linked(db[x])

IInv == /\ TypeOK
        /\ NothingLostSilently
        /\ ReadersSeeBuilt
        /\ AllLinked(disk)
        /\ txn # NoTxn /\ ~txn.broken => AllLinked(txn.db)

-----------------------------------------------------------------------------
(* Contents and databases. *)

\* An index without vectors, as it is before the first build.
LEMMA EmptyContent == Empty \in Content /\ Linked(Empty)
<1>1. [i \in Item |-> NoVector] \in [Item -> Vector \cup {NoVector}]
  OBVIOUS
<1> QED BY <1>1 DEF Empty, Content, Linked

\* PyWriter::add_item keeps a content one.
LEMMA AddedContent ==
    ASSUME NEW c \in Content, NEW i \in Item, NEW v \in Vector
    PROVE  /\ Added(c, i, v) \in Content
           /\ Linked(c) => Linked(Added(c, i, v))
           /\ Added(c, i, v).items = [c.items EXCEPT ![i] = v]
<1>1. Added(c, i, v) = [items |-> [c.items EXCEPT ![i] = v], marks |-> c.marks \cup {i},
                        graph |-> c.graph]
  BY DEF Added, WithItem, WithMarks
<1>2. [c.items EXCEPT ![i] = v] \in [Item -> Vector \cup {NoVector}]
  BY DEF Content
<1>3. c.marks \cup {i} \in SUBSET Item
  BY DEF Content
<1>4. Added(c, i, v) \in Content
  BY <1>1, <1>2, <1>3 DEF Content
<1>5. Linked(c) => Linked(Added(c, i, v))
  BY <1>1 DEF Linked, Content
<1> QED BY <1>1, <1>4, <1>5

\* A build leaves a content that opens, with what is stored in its graph.
LEMMA BuiltContent ==
    ASSUME NEW c \in Content
    PROVE  /\ Built(c) \in Content /\ Linked(Built(c)) /\ Opens(Built(c))
           /\ Built(c).items = c.items /\ Built(c).graph = c.items
<1>1. Built(c) = [items |-> c.items, marks |-> {}, graph |-> c.items]
  BY DEF Built
<1>2. c.items \in [Item -> Vector \cup {NoVector}] /\ c.items # NotBuilt
  BY NoneAssumption DEF Content
<1> QED BY <1>1, <1>2 DEF Content, Linked, Opens

\* An index that opens has exactly its vectors in its graph.
LEMMA OpensIsBuilt ==
    ASSUME NEW c \in Content, Linked(c), Opens(c)
    PROVE  c.graph = c.items
<1>1. c.items \in [Item -> Vector \cup {NoVector}] /\ c.graph \in [Item -> Vector \cup {NoVector}]
  BY DEF Content, Opens
<1>2. \A i \in Item : c.items[i] = c.graph[i]
  BY DEF Linked, Opens
<1> QED BY <1>1, <1>2

\* Replacing an index of a database.
LEMMA ReplacedDb ==
    ASSUME NEW db \in Db, NEW x \in Index, NEW c \in Content
    PROVE  /\ [db EXCEPT ![x] = c] \in Db
           /\ AllLinked(db) /\ Linked(c) => AllLinked([db EXCEPT ![x] = c])
           /\ ItemsOf([db EXCEPT ![x] = c]) = [ItemsOf(db) EXCEPT ![x] = c.items]
<1>1. \A y \in Index : [db EXCEPT ![x] = c][y] = IF y = x THEN c ELSE db[y]
  BY DEF Db
<1>2. [db EXCEPT ![x] = c] \in Db
  BY DEF Db
<1>3. AllLinked(db) /\ Linked(c) => AllLinked([db EXCEPT ![x] = c])
  BY <1>1 DEF AllLinked
<1>4. ItemsOf([db EXCEPT ![x] = c]) = [ItemsOf(db) EXCEPT ![x] = c.items]
  <2>1. \A y \in Index : ItemsOf([db EXCEPT ![x] = c])[y]
                           = [ItemsOf(db) EXCEPT ![x] = c.items][y]
    BY <1>1 DEF ItemsOf
  <2> QED BY <2>1 DEF ItemsOf
<1> QED BY <1>2, <1>3, <1>4

\* The vectors of a database, by index and item.
LEMMA ItemsOfType == \A db \in Db : ItemsOf(db) \in [Index -> [Item -> Vector \cup {NoVector}]]
  BY DEF ItemsOf, Db, Content

\* What the next call works on: the open transaction, or a new one.
LEMMA SharedIsLive ==
    ASSUME IInv
    PROVE  /\ Shared \in Txn /\ Shared # NoTxn
           /\ ~Shared.broken => AllLinked(Shared.db) /\ ItemsOf(Shared.db) = counted
<1>1. CASE txn = NoTxn
  <2>1. Shared = [db |-> disk, broken |-> FALSE]
    BY <1>1 DEF Shared, Sound
  <2>2. Shared \in Txn
    BY <2>1 DEF IInv, TypeOK, Txn
  <2> QED BY <1>1, <2>1, <2>2, TxnAssumption DEF IInv, NothingLostSilently, Live
<1>2. CASE txn # NoTxn
  <2>1. Shared = txn
    BY <1>2 DEF Shared
  <2> QED BY <1>2, <2>1, TxnAssumption DEF IInv, TypeOK, NothingLostSilently, Live
<1> QED BY <1>1, <1>2

-----------------------------------------------------------------------------
(* The invariant, call by call. *)

\* A call that leaves the transaction open, or empty, and commits nothing.
LEMMA TxnStep ==
    ASSUME IInv, UNCHANGED <<disk, readers>>, env' \in BOOLEAN,
           txn' \in Txn \cup {NoTxn},
           txn' # NoTxn /\ ~txn'.broken => AllLinked(txn'.db),
           counted' = ItemsOf(Live')
    PROVE  IInv'
<1>1. Live' \in Db
  BY TxnAssumption DEF Live, IInv, TypeOK, Txn
<1>2. TypeOK'
  BY <1>1, ItemsOfType DEF IInv, TypeOK
<1> QED BY <1>2 DEF IInv, NothingLostSilently, ReadersSeeBuilt, AllLinked, Linked

\* An error after which the transaction is refused, or empty: what is committed counts.
LEMMA ForgetStep ==
    ASSUME IInv, UNCHANGED <<disk, readers>>, env' \in BOOLEAN, Forget,
           txn' = NoTxn \/ (txn' \in Txn /\ txn'.broken)
    PROVE  IInv'
<1>1. Live' = disk'
  BY DEF Live
<1> QED BY <1>1, TxnStep DEF Forget

\* The invariant holds before any call.
LEMMA InitIInv == Init => IInv
<1> SUFFICES ASSUME Init PROVE IInv
  OBVIOUS
<1>1. disk \in Db /\ AllLinked(disk)
  BY EmptyContent DEF Init, Db, AllLinked
<1> QED BY <1>1, ItemsOfType, TxnAssumption
        DEF Init, IInv, TypeOK, NothingLostSilently, Live, ReadersSeeBuilt

\* PyDatabase::new, commit_rw_txn, abort_rw_txn, and an add_item that is refused.
LEMMA TxnSteps ==
    ASSUME IInv, OpenDatabase \/ CommitRwTxn \/ CommitRwTxnFails \/ AbortRwTxn \/ AddItemRefused
    PROVE  IInv'
<1>1. CASE OpenDatabase \/ AddItemRefused
  <2>1. Live' = Live
    BY <1>1, TxnAssumption DEF OpenDatabase, AddItemRefused, Live, Shared, Sound
  <2>2. counted' = ItemsOf(Live')
    BY <1>1, <2>1 DEF OpenDatabase, AddItemRefused, IInv, NothingLostSilently
  <2>3. txn' \in Txn /\ (~txn'.broken => AllLinked(txn'.db))
    BY <1>1, SharedIsLive DEF OpenDatabase, AddItemRefused
  <2>4. env' \in BOOLEAN
    BY <1>1 DEF OpenDatabase, AddItemRefused, IInv, TypeOK
  <2> QED BY <1>1, <2>2, <2>3, <2>4, TxnStep DEF OpenDatabase, AddItemRefused
<1>2. CASE CommitRwTxn
  <2>1. txn.db \in Db /\ AllLinked(txn.db)
    BY <1>2 DEF CommitRwTxn, IInv, TypeOK, Txn
  <2>2. counted = ItemsOf(txn.db)
    BY <1>2 DEF CommitRwTxn, IInv, NothingLostSilently, Live
  <2> QED BY <1>2, <2>1, <2>2
          DEF CommitRwTxn, IInv, TypeOK, NothingLostSilently, Live, ReadersSeeBuilt, AllLinked, Linked
<1>3. CASE CommitRwTxnFails \/ AbortRwTxn
  BY <1>3, ForgetStep DEF CommitRwTxnFails, AbortRwTxn, IInv, TypeOK
<1> QED BY <1>1, <1>2, <1>3

\* PyWriter::add_item.
LEMMA AddItemSteps ==
    ASSUME IInv, NEW w \in Writer, NEW i \in Item, NEW v \in Vector,
           AddItem(w, i, v) \/ AddItemFails(w, i, v)
    PROVE  IInv'
<1> DEFINE x == IndexOf[w]
           c == Shared.db[x]
<1>1. x \in Index
  BY WriterAssumption
<1>2. Shared.db \in Db /\ c \in Content /\ ~Shared.broken
  BY <1>1, SharedIsLive DEF Txn, Db, AddItem, AddItemFails
<1>3. AllLinked(Shared.db) /\ Linked(c) /\ ItemsOf(Shared.db) = counted
  BY <1>1, <1>2, SharedIsLive DEF AllLinked
<1>4. env' \in BOOLEAN
  BY DEF AddItem, AddItemFails, IInv, TypeOK
<1>5. CASE AddItem(w, i, v)
  <2> DEFINE db == [Shared.db EXCEPT ![x] = Added(c, i, v)]
  <2>1. db \in Db /\ AllLinked(db)
    BY <1>1, <1>2, <1>3, AddedContent, ReplacedDb
  <2>2. txn' = Sound(db) /\ txn' \in Txn /\ ~txn'.broken /\ txn'.db = db
    BY <1>5, <2>1 DEF AddItem, Sound, Txn
  <2>3. Live' = db
    BY <2>2, TxnAssumption DEF Live
  <2>4. ItemsOf(db) = [counted EXCEPT ![x] = [c.items EXCEPT ![i] = v]]
    BY <1>1, <1>2, <1>3, AddedContent, ReplacedDb
  <2>5. c.items = counted[x]
    BY <1>1, <1>3 DEF ItemsOf
  <2>6. counted' = [counted EXCEPT ![x] = [@ EXCEPT ![i] = v]]
    BY <1>5 DEF AddItem
  <2>7. counted' = ItemsOf(Live')
    BY <2>3, <2>4, <2>5, <2>6
  <2> HIDE DEF db
  <2> QED BY <1>4, <1>5, <2>1, <2>2, <2>7, TxnStep DEF AddItem
<1>6. CASE AddItemFails(w, i, v)
  <2>1. WithItem(c, i, v) \in Content
    BY <1>2 DEF WithItem, Content
  <2>2. [Shared.db EXCEPT ![x] = WithItem(c, i, v)] \in Db
    BY <1>1, <1>2, <2>1, ReplacedDb
  <2>3. txn' \in Txn /\ txn'.broken
    BY <1>2, <1>6, <2>2 DEF AddItemFails, Broken, Txn
  <2> QED BY <1>4, <1>6, <2>3, ForgetStep DEF AddItemFails
<1> QED BY <1>5, <1>6

\* What __exit__ commits when nothing fails.
LEMMA ExitDisk ==
    ASSUME IInv, NEW w \in Writer, Exit(w)
    PROVE  /\ disk' \in Db /\ AllLinked(disk') /\ ItemsOf(disk') = counted
           /\ Opens(disk'[IndexOf[w]])
           /\ disk'[IndexOf[w]].graph = counted[IndexOf[w]]
<1> DEFINE x == IndexOf[w]
           c == Shared.db[x]
<1>1. x \in Index
  BY WriterAssumption
<1>2. Shared.db \in Db /\ c \in Content /\ ~Shared.broken
  BY <1>1, SharedIsLive DEF Txn, Db, Exit
<1>3. AllLinked(Shared.db) /\ ItemsOf(Shared.db) = counted
  BY <1>2, SharedIsLive
<1>4. disk' = [Shared.db EXCEPT ![x] = Built(c)]
  BY DEF Exit
<1>5. disk' \in Db /\ AllLinked(disk') /\ ItemsOf(disk') = [counted EXCEPT ![x] = c.items]
  BY <1>1, <1>2, <1>3, <1>4, BuiltContent, ReplacedDb
<1>6. c.items = counted[x]
  BY <1>1, <1>3 DEF ItemsOf
<1>7. [counted EXCEPT ![x] = counted[x]] = counted
  BY DEF IInv, TypeOK
<1>8. disk'[x] = Built(c)
  BY <1>1, <1>2, <1>4 DEF Db
<1> QED BY <1>2, <1>5, <1>6, <1>7, <1>8, BuiltContent

\* PyWriter::__exit__.
LEMMA ExitSteps ==
    ASSUME IInv, NEW w \in Writer,
           Exit(w) \/ ExitPanics(w) \/ ExitBuildFails(w) \/ ExitCommitFails(w)
    PROVE  IInv'
<1>1. CASE Exit(w)
  <2>1. Live' = disk'
    BY <1>1 DEF Exit, Live
  <2> QED BY <1>1, <2>1, ExitDisk DEF Exit, IInv, TypeOK, NothingLostSilently, ReadersSeeBuilt
<1>2. CASE ExitPanics(w)
  <2>1. Live' = Live
    BY <1>2, TxnAssumption DEF ExitPanics, Live, Shared, Sound
  <2>2. counted' = ItemsOf(Live')
    BY <1>2, <2>1 DEF ExitPanics, IInv, NothingLostSilently
  <2>3. txn' \in Txn /\ (~txn'.broken => AllLinked(txn'.db)) /\ env' \in BOOLEAN
    BY <1>2, SharedIsLive DEF ExitPanics, IInv, TypeOK
  <2> QED BY <1>2, <2>2, <2>3, TxnStep DEF ExitPanics
<1>3. CASE ExitBuildFails(w)
  <2> DEFINE x == IndexOf[w]
             c == Shared.db[x]
  <2>1. x \in Index /\ Shared.db \in Db /\ c \in Content
    BY WriterAssumption, SharedIsLive DEF Txn, Db
  <2>2. PICK marks \in SUBSET c.marks :
          txn' = Broken([Shared.db EXCEPT ![x] = WithMarks(c, marks)])
    BY <1>3 DEF ExitBuildFails
  <2>3. WithMarks(c, marks) \in Content
    BY <2>1 DEF WithMarks, Content
  <2>4. txn' \in Txn /\ txn'.broken
    BY <2>1, <2>2, <2>3, ReplacedDb DEF Broken, Txn
  <2> QED BY <1>3, <2>4, ForgetStep DEF ExitBuildFails, IInv, TypeOK
<1>4. CASE ExitCommitFails(w)
  BY <1>4, ForgetStep DEF ExitCommitFails, IInv, TypeOK
<1> QED BY <1>1, <1>2, <1>3, <1>4

\* PyDatabase::reader, and the end of readers and of the process.
LEMMA ReaderSteps ==
    ASSUME IInv, Restart \/ \E r \in Reader : DropReader(r) \/ \E x \in Index : OpenReader(r, x)
    PROVE  IInv'
<1>1. CASE Restart
  <2>1. Live' = disk'
    BY <1>1 DEF Restart, Live
  <2> QED BY <1>1, <2>1, ItemsOfType
          DEF Restart, Forget, IInv, TypeOK, NothingLostSilently, ReadersSeeBuilt, AllLinked, Linked
<1>2. ASSUME NEW r \in Reader, DropReader(r)
      PROVE  IInv'
  BY <1>2 DEF DropReader, IInv, TypeOK, NothingLostSilently, Live, ReadersSeeBuilt, AllLinked, Linked
<1>3. ASSUME NEW r \in Reader, NEW x \in Index, OpenReader(r, x)
      PROVE  IInv'
  <2>1. disk[x] \in Content /\ Linked(disk[x])
    BY DEF IInv, TypeOK, Db, AllLinked
  <2>2. disk[x].graph = disk[x].items
    BY <1>3, <2>1, OpensIsBuilt DEF OpenReader
  <2>3. readers' = [readers EXCEPT ![r] = disk[x]]
    BY <1>3 DEF OpenReader
  <2>4. readers' \in [Reader -> Content \cup {Closed}] /\ ReadersSeeBuilt'
    BY <2>1, <2>2, <2>3 DEF IInv, TypeOK, ReadersSeeBuilt
  <2> QED BY <1>3, <2>4 DEF OpenReader, IInv, TypeOK, NothingLostSilently, Live, AllLinked, Linked
<1> QED BY <1>1, <1>2, <1>3

\* Every call, whole or failing half way, preserves the invariant.
LEMMA NextIInv == IInv /\ [Next]_vars => IInv'
<1> SUFFICES ASSUME IInv, [Next]_vars PROVE IInv'
  OBVIOUS
<1>1. CASE UNCHANGED vars
  BY <1>1 DEF vars, IInv, TypeOK, NothingLostSilently, Live, ReadersSeeBuilt, AllLinked, Linked
<1>2. CASE Next
  BY <1>2, TxnSteps, AddItemSteps, ExitSteps, ReaderSteps DEF Next
<1> QED BY <1>1, <1>2

\* The inductive invariant holds throughout.
LEMMA Invariance == Spec => []IInv
  BY InitIInv, NextIInv, PTL DEF Spec

-----------------------------------------------------------------------------
(* The properties. *)

\* The transaction, the readers and what clients count on keep their types.
THEOREM TypeCorrect == Spec => []TypeOK
<1>1. IInv => TypeOK
  BY DEF IInv
<1> QED BY <1>1, Invariance, PTL

\* Whatever writers add in turns to the one transaction of get_rw_txn is in it or committed,
\* until a call returns an error or the client aborts.
THEOREM NothingIsLost == Spec => []NothingLostSilently
<1>1. IInv => NothingLostSilently
  BY DEF IInv
<1> QED BY <1>1, Invariance, PTL

\* PyDatabase::reader never gives a reader of an index whose graph is behind its vectors.
THEOREM ReadersAreCurrent == Spec => []ReadersSeeBuilt
<1>1. IInv => ReadersSeeBuilt
  BY DEF IInv
<1> QED BY <1>1, Invariance, PTL

\* No call commits what a build that failed in __exit__ has left behind.
THEOREM FailedBuildStays == Spec => []UnmarkedIsLinked
<1>1. IInv => UnmarkedIsLinked
  BY DEF IInv, AllLinked, Linked, UnmarkedIsLinked
<1> QED BY <1>1, Invariance, PTL

\* An __exit__ that returns has published the vectors of all writers.
THEOREM ExitHasPublished == Spec => ExitPublishes
<1>1. IInv /\ [Next]_vars =>
        [\A w \in Writer : Exit(w) =>
           /\ ItemsOf(disk') = counted
           /\ Opens(disk'[IndexOf[w]])
           /\ disk'[IndexOf[w]].graph = counted[IndexOf[w]]]_vars
  BY ExitDisk
<1> QED BY <1>1, Invariance, PTL DEF Spec, ExitPublishes
=============================================================================
