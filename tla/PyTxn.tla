------------------------------- MODULE PyTxn -------------------------------
(***************************************************************************)
(* The Python bindings (src/python.rs): one process-wide environment and   *)
(* one process-wide write transaction that every writer of every index     *)
(* shares.  A call from Python runs to its end before another one starts   *)
(* (no method gives up the interpreter lock), so calls are actions.        *)
(* HannoyIndex has what add_item and build do to an index; here an index   *)
(* is its vectors, its marks, and the vectors its graph was built from.    *)
(***************************************************************************)
EXTENDS FiniteSets

CONSTANTS Writer,      \* PyWriter objects
          Index,       \* indexes of the database
          IndexOf,     \* the index of each writer
          Buildable,   \* writers whose m, m0 PyWriter::build has a case for
          Reader,      \* PyReader objects
          Item, Vector,
          NoVector,    \* the item is not in the index
          NotBuilt,    \* there is no metadata
          NoTxn,       \* RW_TXN holds None
          Closed       \* the reader is not there

ASSUME WriterAssumption == IndexOf \in [Writer -> Index] /\ Buildable \subseteq Writer
ASSUME NoneAssumption == /\ NoVector \notin Vector
                         /\ NotBuilt \notin [Item -> Vector \cup {NoVector}]

Content == [items : [Item -> Vector \cup {NoVector}],
            marks : SUBSET Item,
            graph : [Item -> Vector \cup {NoVector}] \cup {NotBuilt}]

Db == [Index -> Content]

\* An LMDB transaction in which an operation has failed refuses all that follow.
Txn == [db : Db, broken : BOOLEAN]

ASSUME TxnAssumption == NoTxn \notin Txn /\ Closed \notin Content

VARIABLES env,       \* ENV is initialized
          disk,      \* the committed database
          txn,       \* RW_TXN
          readers,   \* what each reader's read transaction sees of its index
          counted    \* the vectors a client counts on: no call has told it otherwise

vars == <<env, disk, txn, readers, counted>>

-----------------------------------------------------------------------------
Empty == [items |-> [i \in Item |-> NoVector], marks |-> {}, graph |-> NotBuilt]

ItemsOf(db) == [x \in Index |-> db[x].items]

Init == /\ env = FALSE
        /\ disk = [x \in Index |-> Empty]
        /\ txn = NoTxn
        /\ readers = [r \in Reader |-> Closed]
        /\ counted = ItemsOf(disk)

Sound(db)  == [db |-> db, broken |-> FALSE]
Broken(db) == [db |-> db, broken |-> TRUE]

\* Mutant: every call begins a transaction of its own.
Shared_anew == Sound(disk)

\* get_rw_txn: the transaction of the process, begun when there is none.
Shared == IF txn = NoTxn THEN Sound(disk) ELSE txn

\* The client is told of an error, or has asked for it: only what is committed counts.
Forget == counted' = ItemsOf(disk')

-----------------------------------------------------------------------------
(* PyDatabase::new, commit_rw_txn and abort_rw_txn. *)

\* create_database writes nothing an index sees, but the transaction stays open.
OpenDatabase == /\ env' = TRUE
                /\ txn' = Shared
                /\ UNCHANGED <<disk, readers, counted>>

\* Mutant: LMDB would commit what a failed operation has left.
CommitRwTxn_anyway == /\ txn # NoTxn
                      /\ disk' = txn.db
                      /\ txn' = NoTxn
                      /\ UNCHANGED <<env, readers, counted>>

CommitRwTxn == /\ txn # NoTxn /\ ~txn.broken
               /\ disk' = txn.db
               /\ txn' = NoTxn
               /\ UNCHANGED <<env, readers, counted>>

\* LMDB refuses to commit; RW_TXN is empty already.
CommitRwTxnFails == /\ txn # NoTxn
                    /\ txn' = NoTxn
                    /\ UNCHANGED <<env, disk, readers>>
                    /\ Forget

AbortRwTxn == /\ txn # NoTxn
              /\ txn' = NoTxn
              /\ UNCHANGED <<env, disk, readers>>
              /\ Forget

-----------------------------------------------------------------------------
(* PyWriter::add_item. *)

WithItem(c, i, v)   == [items |-> [c.items EXCEPT ![i] = v], marks |-> c.marks, graph |-> c.graph]
WithMarks(c, marks) == [items |-> c.items, marks |-> marks, graph |-> c.graph]

Added(c, i, v) == WithMarks(WithItem(c, i, v), c.marks \cup {i})

AddItem(w, i, v) ==
    LET x == IndexOf[w]
    IN  /\ env /\ ~Shared.broken
        /\ txn' = Sound([Shared.db EXCEPT ![x] = Added(@, i, v)])
        /\ counted' = [counted EXCEPT ![x][i] = v]
        /\ UNCHANGED <<env, disk, readers>>

\* The vector has the wrong dimension: an error, and a transaction that is open now.
AddItemRefused == /\ env
                  /\ txn' = Shared
                  /\ UNCHANGED <<env, disk, readers, counted>>

\* LMDB fails (the map is full) after the vector or after nothing is put.
AddItemFails(w, i, v) ==
    LET x == IndexOf[w]
    IN  /\ env /\ ~Shared.broken
        /\ \E db \in {Shared.db, [Shared.db EXCEPT ![x] = WithItem(@, i, v)]} : txn' = Broken(db)
        /\ UNCHANGED <<env, disk, readers>>
        /\ Forget

-----------------------------------------------------------------------------
(* PyWriter::__exit__: build, then commit_rw_txn.  Exceptions of the block are ignored. *)

\* Mutant: the marks stay.
Built_marked(c) == [c EXCEPT !.graph = c.items]

Built(c) == [items |-> c.items, marks |-> {}, graph |-> c.items]

Exit(w) ==
    LET x == IndexOf[w]
    IN  /\ env /\ w \in Buildable /\ ~Shared.broken
        /\ disk' = [Shared.db EXCEPT ![x] = Built(@)]
        /\ txn' = NoTxn
        /\ UNCHANGED <<env, readers, counted>>

\* "not supported: m = {}": a panic before the build starts, with the transaction open.
ExitPanics(w) == /\ env /\ w \notin Buildable
                 /\ txn' = Shared
                 /\ UNCHANGED <<env, disk, readers, counted>>

\* LMDB fails during the build, which has deleted marks: the transaction stays.
ExitBuildFails(w) ==
    LET x == IndexOf[w]
    IN  /\ env /\ w \in Buildable /\ ~Shared.broken
        /\ \E marks \in SUBSET Shared.db[x].marks :
             txn' = Broken([Shared.db EXCEPT ![x] = WithMarks(@, marks)])
        /\ UNCHANGED <<env, disk, readers>>
        /\ Forget

\* It is built, but LMDB refuses to commit.
ExitCommitFails(w) == /\ env /\ w \in Buildable /\ ~Shared.broken
                      /\ txn' = NoTxn
                      /\ UNCHANGED <<env, disk, readers>>
                      /\ Forget

-----------------------------------------------------------------------------
(* PyDatabase::reader, and the end of a reader or of the process. *)

\* Mutant: marks do not matter.
Opens_marked(c) == c.graph # NotBuilt

\* Reader::open
Opens(c) == c.graph # NotBuilt /\ c.marks = {}

OpenReader(r, x) == /\ env /\ readers[r] = Closed /\ Opens(disk[x])
                    /\ readers' = [readers EXCEPT ![r] = disk[x]]
                    /\ UNCHANGED <<env, disk, txn, counted>>

DropReader(r) == /\ readers[r] # Closed
                 /\ readers' = [readers EXCEPT ![r] = Closed]
                 /\ UNCHANGED <<env, disk, txn, counted>>

\* The process ends, and another one starts.
Restart == /\ env
           /\ env' = FALSE
           /\ txn' = NoTxn
           /\ readers' = [r \in Reader |-> Closed]
           /\ UNCHANGED disk
           /\ Forget

Next == \/ OpenDatabase \/ CommitRwTxn \/ CommitRwTxnFails \/ AbortRwTxn
        \/ AddItemRefused \/ Restart
        \/ \E w \in Writer :
             \/ \E i \in Item, v \in Vector : AddItem(w, i, v) \/ AddItemFails(w, i, v)
             \/ Exit(w) \/ ExitPanics(w) \/ ExitBuildFails(w) \/ ExitCommitFails(w)
        \/ \E r \in Reader : DropReader(r) \/ \E x \in Index : OpenReader(r, x)

Spec == Init /\ [][Next]_vars

-----------------------------------------------------------------------------
(* Properties. *)

\* The types of the variables, for the proofs.
TypeOK == /\ env \in BOOLEAN
          /\ disk \in Db
          /\ txn \in Txn \cup {NoTxn}
          /\ readers \in [Reader -> Content \cup {Closed}]
          /\ counted \in [Index -> [Item -> Vector \cup {NoVector}]]

\* What a new transaction or the next call finds: the open one, unless it is refused.
Live == IF txn = NoTxn \/ txn.broken THEN disk ELSE txn.db

\* Writers take turns in one transaction without losing each other's vectors: until a call
\* fails or the client aborts, everything added is in the transaction or committed.
NothingLostSilently == counted = ItemsOf(Live)

\* A `with' block that ends without an exception has published everything any writer has
\* added, and its own index can be opened with all of it in the graph.
ExitPublishes ==
    [][\A w \in Writer : Exit(w) =>
         /\ ItemsOf(disk') = counted
         /\ Opens(disk'[IndexOf[w]])
         /\ disk'[IndexOf[w]].graph = counted[IndexOf[w]]]_vars

\* Whoever commits what the writer of another index has added so far, and whatever a failed
\* build has left: a reader is opened on an index whose graph has exactly its vectors.
ReadersSeeBuilt == \A r \in Reader : readers[r] # Closed => readers[r].graph = readers[r].items

\* A failed build has deleted marks; no call that comes after it can commit that.
UnmarkedIsLinked ==
    \A x \in Index, i \in Item :
        i \notin disk[x].marks =>
            disk[x].items[i] = IF disk[x].graph = NotBuilt THEN NoVector ELSE disk[x].graph[i]
=============================================================================
