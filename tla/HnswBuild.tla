------------------------------ MODULE HnswBuild ------------------------------
(***************************************************************************)
(* HnswBuilder (src/hnsw.rs): how one incremental build after another      *)
(* changes the graph of an index.  A build                                 *)
(*   - replaces entry points that were deleted (scan, Resolved),           *)
(*   - draws a level per inserted item and groups the insertions by level, *)
(*   - lets a pool of threads insert the items of a group, sharing one     *)
(*     concurrent map per level (self.layers),                             *)
(*   - repairs the links of old items around deleted ones (Patch), and     *)
(*   - writes the maps, drops the links of deleted items and keeps the new *)
(*     entry points (Finish).                                              *)
(* Every operation on a shared map is a step of its own.                   *)
(*                                                                         *)
(* Distances are whole numbers given per pair of items, so an item that is *)
(* added again is added where it was.                                      *)
(***************************************************************************)
EXTENDS HnswContract

CONSTANTS M,               \* most links of an item on a level above the ground
          M0,              \* most links of an item on the ground
          EfConstruction,  \* width of the beam search
          Alpha,           \* how much closer robust_prune wants other points to be
          Dist,            \* Dist[<<i, j>>]: the distance of two items
          Thread,          \* the rayon pool
          Absent,          \* a map or the database has no entry for a key
          MaxBuilds        \* bound: builds started

ASSUME DegreeAssumption == M \in Nat \ {0} /\ M0 \in Nat \ {0} /\ M <= M0
ASSUME EfAssumption == EfConstruction \in Nat \ {0} /\ Alpha \in Nat \ {0}
\* Different items have different places.
ASSUME DistAssumption == /\ Dist \in [Item \X Item -> Nat]
                         /\ \A i, j \in Item : Dist[<<i, j>>] = 0 <=> i = j
ASSUME AbsentAssumption == /\ \A s \in SUBSET Item : s # Absent
                           /\ Absent \notin [links : SUBSET Item, len : Nat]
ASSUME BuildsAssumption == MaxBuilds \in Nat

\* A NodeState: its links, and how many slots of the array they take.  The array may
\* hold an item twice, which only its length shows.
Node == [links : SUBSET Item, len : Nat]

\* Item ids are 32 bits wide.
ASSUME FiniteItems == IsFiniteSet(Item)

\* An insertion to do: the item, its level, and whether it was drawn or is an old entry
\* point scheduled for re-indexing; the same item can be scheduled as both.
Task == Item \X Level \X {"drawn", "entry"}

VARIABLES
    vectors,  \* items with a vector in LMDB
    updated,  \* items marked as updated or removed since the last build
    links,    \* the Links entries of LMDB; builds read them frozen
    eps,      \* entry points: of the metadata, in a build of the builder
    top,      \* max_level, likewise
    phase,    \* where the build is
    scan,     \* the search for substitutes of deleted entry points
    layers,   \* self.layers, the maps the threads share
    tasks,    \* insertions not yet taken
    th,       \* what each thread is doing
    unpatched,\* keys of LMDB whose links are still to be patched
    old,      \* links, entry points and height as the build found them, and its item sets
    builds    \* builds started, to bound them

vars == <<vectors, updated, links, eps, top, phase, scan, layers, tasks, th,
          unpatched, old, builds>>

client == <<vectors, updated>>
stored == <<links, old, builds>>

-----------------------------------------------------------------------------
Cap(l) == IF l = 0 THEN M0 ELSE M

StoredKeys == {k \in LinkKey : links[k] # Absent}

\* The order of scored links: by distance from q, then by id.
Nearer(q, i, j) ==
    Dist[<<q, i>>] < Dist[<<q, j>>] \/ (Dist[<<q, i>>] = Dist[<<q, j>>] /\ i < j)

Nearest(q, S, n) == {i \in S : Cardinality({j \in S : Nearer(q, j, i)}) < n}

\* robust_prune selects T of the candidates S: from the nearest on, those that are not
\* closer to a point selected before than to q, until there are cap of them.
IsPruned(T, q, S, cap) ==
    \A c \in S : LET before == {i \in T : Nearer(q, i, c)}
                IN  c \in T <=> /\ Cardinality(before) < cap
                               /\ \A i \in before : Dist[<<c, i>>] * Alpha >= Dist[<<q, c>>]

Pruned(q, S, cap) == {T \in SUBSET S : IsPruned(T, q, S, cap)}

PrunedNodes(q, S, cap) == {[links |-> T, len |-> Cardinality(T)] : T \in Pruned(q, S, cap)}

StoredLinks(i, l) == IF links[<<i, l>>] = Absent THEN {} ELSE links[<<i, l>>]

\* to_insert and to_delete of the build.
ToInsert == old.ins
ToDelete == old.del

NoScan == [layer |-> 0, left |-> 0, found |-> {}]
NoLayers == [k \in LinkKey |-> Absent]
EmptyNode == [links |-> {}, len |-> 0]
Resting == [pc |-> "rest", item |-> 0, level |-> 0, at |-> 0, cand |-> {}, res |-> {},
            visited |-> {}, node |-> 0]
NoOld == [links |-> NoLayers, eps |-> {}, top |-> 0, ins |-> {}, del |-> {}]

Init == /\ vectors = {} /\ updated = {}
        /\ links = NoLayers
        /\ eps = {} /\ top = 0
        /\ phase = "idle"
        /\ scan = NoScan /\ layers = NoLayers /\ tasks = {}
        /\ th = [t \in Thread |-> Resting]
        /\ unpatched = {} /\ old = NoOld /\ builds = 0

-----------------------------------------------------------------------------
(* Between builds the client adds and deletes items (Writer::add_item, del_item). *)

AddItem(i) == /\ phase = "idle" /\ builds < MaxBuilds
              /\ vectors' = vectors \cup {i}
              /\ updated' = updated \cup {i}
              /\ UNCHANGED <<stored, eps, top, phase, scan, layers, tasks, th, unpatched>>

DelItem(i) == /\ phase = "idle" /\ builds < MaxBuilds
              /\ i \in vectors
              /\ vectors' = vectors \ {i}
              /\ updated' = updated \cup {i}
              /\ UNCHANGED <<stored, eps, top, phase, scan, layers, tasks, th, unpatched>>

-----------------------------------------------------------------------------
(* prepare_levels_and_entry_points *)

Start(ins, del) ==
    /\ phase = "idle" /\ builds < MaxBuilds
    /\ phase' = "scan" /\ builds' = builds + 1
    /\ old' = [links |-> links, eps |-> eps, top |-> top, ins |-> ins, del |-> del]
    /\ scan' = [layer |-> top, left |-> Cardinality(eps \cap del), found |-> eps \ del]
    /\ UNCHANGED <<client, eps, top, layers, tasks, th, unpatched>>

StartBuild == Start(updated \cap vectors, updated \ vectors) /\ UNCHANGED links

\* A forced rebuild of an index without updates: every link is deleted first, and every
\* item inserted; entry points and height stay those of the metadata.
StartRebuild == /\ updated = {} /\ vectors # {}
                /\ Start(vectors, {})
                /\ links' = NoLayers

\* Mutant: a deleted item may replace it too.
Substitutes_deleted(l, found) == {i \in Item : <<i, l>> \in StoredKeys /\ i \notin found}

\* An item of the layer that may replace a deleted entry point.
Substitutes(l, found) ==
    {i \in Item : <<i, l>> \in StoredKeys /\ i \notin ToDelete /\ i \notin found}

\* The first in key order: its `break' leaves the scan of one layer, not the descent.
FirstOf(S) == {i \in S : \A j \in S : i <= j}

\* Mutant: the level below the ground is scanned.
ScanLayer_wraps ==
    LET S == Substitutes(scan.layer, scan.found)
    IN  /\ phase = "scan" /\ scan.left > 0
        /\ scan' = [layer |-> scan.layer - 1,
                    left  |-> IF scan.layer = 0 THEN scan.left - 1 ELSE scan.left,
                    found |-> scan.found \cup FirstOf(S)]
        /\ UNCHANGED <<client, stored, eps, top, phase, layers, tasks, th, unpatched>>

\* Mutant: the ground is scanned again and again for the same entry point.
ScanLayer_again ==
    LET S == Substitutes(scan.layer, scan.found)
    IN  /\ phase = "scan" /\ scan.left > 0
        /\ scan' = [layer |-> IF scan.layer = 0 THEN 0 ELSE scan.layer - 1,
                    left  |-> scan.left,
                    found |-> scan.found \cup FirstOf(S)]
        /\ UNCHANGED <<client, stored, eps, top, phase, layers, tasks, th, unpatched>>

\* One iter_layer_links.  For the first deleted entry point the scan goes on below
\* even when it found a substitute; for the others only the ground is left to scan.
ScanLayer ==
    LET S == Substitutes(scan.layer, scan.found)
    IN  /\ phase = "scan" /\ scan.left > 0
        /\ scan' = [layer |-> IF scan.layer = 0 THEN 0 ELSE scan.layer - 1,
                    left  |-> IF scan.layer = 0 THEN scan.left - 1 ELSE scan.left,
                    found |-> scan.found \cup FirstOf(S)]
        /\ UNCHANGED <<client, stored, eps, top, phase, layers, tasks, th, unpatched>>

\* Mutant: the height stays.
HeightReset_never == FALSE

\* Case 1 of the code: entry points were deleted and their number is not the same.  (The
\* previous graph need not be gone: one entry point of two may be deleted, the other stays,
\* and its links above the ground with it.)
HeightReset == old.eps \cap ToDelete # {} /\ Cardinality(scan.found) # Cardinality(old.eps)

\* add_in_layers_below: an entry that is there already is left alone.
InLayersBelow(map, items, l) ==
    [k \in LinkKey |-> IF k[1] \in items /\ k[2] <= l /\ map[k] = Absent
                       THEN EmptyNode ELSE map[k]]

\* Levels are drawn; the entry points found are scheduled at the height before Case 2;
\* with a point drawn above it (Case 2) only the points of the new top level remain.
Resolved ==
    \E drawn \in [ToInsert -> Level], top2 \in Level :
      LET height == IF HeightReset THEN 0 ELSE top
          todo   == {<<i, drawn[i], "drawn">> : i \in ToInsert}
                      \cup {<<i, height, "entry">> : i \in scan.found}
          upper  == {i \in Item : \E task \in todo : task[1] = i /\ task[2] = top2}
      IN  /\ phase = "scan" /\ scan.left = 0
          /\ height <= top2 /\ \A i \in ToInsert : drawn[i] <= top2
          /\ top2 = height \/ \E i \in ToInsert : drawn[i] = top2
          /\ phase' = "insert"
          /\ scan' = NoScan
          /\ tasks' = todo
          /\ top' = top2
          /\ eps' = (IF top2 > height THEN {} ELSE scan.found) \cup upper
          /\ layers' = InLayersBelow(layers, upper, top2)
          /\ UNCHANGED <<client, stored, th, unpatched>>

-----------------------------------------------------------------------------
(* insert: each thread takes a task of the current level group. *)

\* Groups are inserted one after the other, the highest level first.
InCurrentGroup(task) ==
    /\ \A other \in tasks : other[2] <= task[2]
    /\ \A t \in Thread : th[t].pc # "rest" => th[t].level = task[2]

\* walk_layer starts from the entry points of the level.
Seeded(s, points) == [s EXCEPT !.cand = points, !.res = points, !.visited = points]

Take(t) ==
    /\ phase = "insert" /\ th[t].pc = "rest"
    /\ \E task \in tasks :
         /\ InCurrentGroup(task)
         /\ tasks' = tasks \ {task}
         /\ th' = [th EXCEPT ![t] =
              Seeded([Resting EXCEPT !.pc = IF task[2] < top THEN "walk" ELSE "enter",
                                     !.item = task[1], !.level = task[2], !.at = top], eps)]
    /\ UNCHANGED <<client, stored, eps, top, phase, scan, layers, unpatched>>

\* add_in_layers_below(query, level), once the walk has come down to its level.
Enter(t) ==
    /\ th[t].pc = "enter"
    /\ layers' = InLayersBelow(layers, {th[t].item}, th[t].level)
    /\ th' = [th EXCEPT ![t].pc = "walk"]
    /\ UNCHANGED <<client, stored, eps, top, phase, scan, tasks, unpatched>>

Greedy(s) == s.at > s.level
Width(s) == IF Greedy(s) THEN 1 ELSE EfConstruction

\* The closest candidate, unless it is farther than everything found.
Closest(s) == {c \in s.cand : \A o \in s.cand : Dist[<<s.item, c>>] <= Dist[<<s.item, o>>]}
Farther(s, c) == \A r \in s.res : Dist[<<s.item, c>>] > Dist[<<s.item, r>>]

\* What walk_layer makes of the new neighbours of a candidate: those nearer than the
\* farthest result are kept, and as many of the others as there is room for when their
\* turn comes; a full result list drops its farthest.
Walked(s, new) ==
    LET width  == Width(s)
        near   == {i \in new : \E r \in s.res : Dist[<<s.item, i>>] < Dist[<<s.item, r>>]}
        size   == Cardinality(s.res)
        inRoom == {F \in SUBSET (new \ near) :
                     /\ F = {} \/ size + Cardinality(F) <= width
                     /\ F = new \ near \/ size + Cardinality(near \cup F) >= width}
        found(F) == s.res \cup near \cup F
    IN  {[s EXCEPT !.cand = @ \cup near \cup F, !.visited = @ \cup new,
                   !.res = IF size > width THEN found(F)
                           ELSE Nearest(s.item, found(F), width)] : F \in inRoom}

\* Mutant: items that were visited are looked at again.
Unvisited_again(s, near) == near \cap vectors

\* Items without a vector are deleted ones.
Unvisited(s, near) == (near \cap vectors) \ s.visited

\* One candidate c of walk_layer: get_neighbours reads LMDB and then the map.  Items
\* without a vector are skipped.
Expand(t) ==
    LET s == th[t]
    IN  /\ s.pc = "walk"
        /\ \E c \in Closest(s) :
             LET node == layers[<<c, s.at>>]
                 near == StoredLinks(c, s.at) \cup (IF node = Absent THEN {} ELSE node.links)
             IN  /\ ~Farther(s, c)
                 /\ \E s2 \in Walked([s EXCEPT !.cand = @ \ {c}], Unvisited(s, near)) :
                      th' = [th EXCEPT ![t] =
                               [s2 EXCEPT !.pc = IF node = Absent THEN "lazy" ELSE "walk",
                                          !.node = c]]
        /\ UNCHANGED <<client, stored, eps, top, phase, scan, layers, tasks, unpatched>>

\* The map had no entry for the candidate: get_neighbours inserts an empty one, without
\* looking again.
LazyInsert(t) ==
    /\ th[t].pc = "lazy"
    /\ layers' = [layers EXCEPT ![<<th[t].node, th[t].at>>] = EmptyNode]
    /\ th' = [th EXCEPT ![t].pc = "walk"]
    /\ UNCHANGED <<client, stored, eps, top, phase, scan, tasks, unpatched>>

\* No candidate is left, or the closest one is farther than everything found.
WalkEnds(s) == s.pc = "walk" /\ \A c \in Closest(s) : Farther(s, c)

\* Above the item's level the walk goes on one level below from the closest point.
Descend(t) ==
    LET s == th[t]
    IN  /\ WalkEnds(s) /\ Greedy(s)
        /\ th' = [th EXCEPT ![t] =
             [Seeded(s, Nearest(s.item, s.res, 1)) EXCEPT
                !.at = s.at - 1, !.pc = IF s.at - 1 = s.level THEN "enter" ELSE "walk",
                !.node = 0]]
        /\ UNCHANGED <<client, stored, eps, top, phase, scan, layers, tasks, unpatched>>

\* The results are pruned to the bound of the item's own level, whatever level the walk
\* is on.  From here on cand holds the points to link and res all the selected ones.
Select(t) ==
    LET s == th[t]
    IN  /\ WalkEnds(s) /\ ~Greedy(s)
        /\ \E selected \in Pruned(s.item, s.res, Cap(s.level)) :
             th' = [th EXCEPT ![t] = [Seeded(s, selected) EXCEPT
                                        !.cand = selected \ {s.item}, !.pc = "link", !.node = 0]]
        /\ UNCHANGED <<client, stored, eps, top, phase, scan, layers, tasks, unpatched>>

\* Mutant: one link too many.
Linked_full(map, p, q, l) ==
    LET node == map[<<p, l>>]
    IN  IF node = Absent THEN {[links |-> {q}, len |-> 1]}
        ELSE IF node.len <= Cap(l)
             THEN {[links |-> node.links \cup {q}, len |-> node.len + 1]}
             ELSE PrunedNodes(p, node.links, Cap(l))

\* What add_link can make of p's entry on level l when q is to be added: an entry with
\* room takes q, a full one is pruned and does not.
Linked(map, p, q, l) ==
    LET node == map[<<p, l>>]
    IN  IF node = Absent THEN {[links |-> {q}, len |-> 1]}
        ELSE IF node.len < Cap(l)
             THEN {[links |-> node.links \cup {q}, len |-> node.len + 1]}
             ELSE PrunedNodes(p, node.links, Cap(l))

\* add_link(query, n): nearest first; a link to itself would be refused.
LinkForth(t) ==
    LET s == th[t]
    IN  /\ s.pc = "link"
        /\ \E n \in Nearest(s.item, s.cand, 1) : \E node \in Linked(layers, s.item, n, s.at) :
             /\ layers' = [layers EXCEPT ![<<s.item, s.at>>] = node]
             /\ th' = [th EXCEPT ![t].pc = "back", ![t].node = n, ![t].cand = @ \ {n}]
        /\ UNCHANGED <<client, stored, eps, top, phase, scan, tasks, unpatched>>

\* add_link(n, query)
LinkBack(t) ==
    LET s == th[t]
    IN  /\ s.pc = "back"
        /\ \E node \in Linked(layers, s.node, s.item, s.at) :
             layers' = [layers EXCEPT ![<<s.node, s.at>>] = node]
        /\ th' = [th EXCEPT ![t].pc = "link"]
        /\ UNCHANGED <<client, stored, eps, top, phase, scan, tasks, unpatched>>

\* The selected points are the entry points of the level below.
NextLevel(t) ==
    LET s == th[t]
    IN  /\ s.pc = "link" /\ s.cand = {}
        /\ th' = [th EXCEPT ![t] =
             IF s.at = 0 THEN Resting
             ELSE [Seeded(s, s.res) EXCEPT !.pc = "walk", !.at = s.at - 1, !.node = 0]]
        /\ UNCHANGED <<client, stored, eps, top, phase, scan, layers, tasks, unpatched>>

-----------------------------------------------------------------------------
(* fill_gaps_from_deleted and what follows it. *)

\* Mutant: maps are not made for the levels above the new height.
Inserted_low ==
    /\ phase = "insert" /\ tasks = {} /\ \A t \in Thread : th[t].pc = "rest"
    /\ phase' = "patch"
    /\ unpatched' = {k \in StoredKeys : k[1] \notin ToDelete /\ k[2] <= top}
    /\ UNCHANGED <<client, stored, eps, top, scan, layers, tasks, th>>

\* All groups are inserted.
Inserted ==
    /\ phase = "insert" /\ tasks = {} /\ \A t \in Thread : th[t].pc = "rest"
    /\ phase' = "patch"
    /\ unpatched' = {k \in StoredKeys : k[1] \notin ToDelete}
    /\ UNCHANGED <<client, stored, eps, top, scan, layers, tasks, th>>

\* Mutant: the links to deleted items stay.
Repaired_kept(k) ==
    LET node == IF layers[k] = Absent THEN EmptyNode ELSE layers[k]
        all  == links[k] \cup node.links
    IN  IF Cardinality(links[k]) + node.len <= Cap(k[2])
        THEN {[links |-> all, len |-> Cardinality(links[k]) + node.len]}
        ELSE PrunedNodes(k[1], all, Cap(k[2]))

\* The links of an old item, those of its deleted neighbours, and the new ones.
Repaired(k) ==
    LET gone  == links[k] \cap ToDelete
        wide  == (links[k] \cup UNION {StoredLinks(d, k[2]) : d \in gone}) \ ToDelete
        node  == IF layers[k] = Absent THEN EmptyNode ELSE layers[k]
        all   == wide \cup node.links
    IN  IF Cardinality(wide) + node.len <= Cap(k[2])
        THEN {[links |-> all, len |-> Cardinality(wide) + node.len]}
        ELSE PrunedNodes(k[1], all, Cap(k[2]))

\* Threads patch different keys and read only their own, so their order does not
\* matter: keys are patched in key order.
Patch ==
    /\ phase = "patch"
    /\ \E k \in unpatched :
         /\ \A o \in unpatched : k[1] < o[1] \/ (k[1] = o[1] /\ k[2] <= o[2])
         /\ \E node \in Repaired(k) : layers' = [layers EXCEPT ![k] = node]
         /\ unpatched' = unpatched \ {k}
    /\ UNCHANGED <<client, stored, eps, top, phase, scan, tasks, th>>

\* Mutant: only the links on the ground are deleted.
Finish_ground ==
    /\ phase = "patch" /\ unpatched = {}
    /\ links' = [k \in LinkKey |-> IF k[1] \in ToDelete /\ k[2] = 0 THEN Absent
                                   ELSE IF layers[k] # Absent THEN layers[k].links
                                   ELSE links[k]]
    /\ updated' = {}
    /\ phase' = "idle"
    /\ layers' = NoLayers
    /\ old' = NoOld
    /\ UNCHANGED <<vectors, eps, top, scan, tasks, th, unpatched, builds>>

\* Mutant: the links of deleted items stay.
Finish_ghosts ==
    /\ phase = "patch" /\ unpatched = {}
    /\ links' = [k \in LinkKey |-> IF layers[k] # Absent THEN layers[k].links ELSE links[k]]
    /\ updated' = {}
    /\ phase' = "idle"
    /\ layers' = NoLayers
    /\ old' = NoOld
    /\ UNCHANGED <<vectors, eps, top, scan, tasks, th, unpatched, builds>>

\* The links are written, those of deleted items deleted, the metadata put.
Finish ==
    /\ phase = "patch" /\ unpatched = {}
    /\ links' = [k \in LinkKey |-> IF k[1] \in ToDelete THEN Absent
                                   ELSE IF layers[k] # Absent THEN layers[k].links
                                   ELSE links[k]]
    /\ updated' = {}
    /\ phase' = "idle"
    /\ layers' = NoLayers
    /\ old' = NoOld
    /\ UNCHANGED <<vectors, eps, top, scan, tasks, th, unpatched, builds>>

\* The build is cancelled or fails, and its transaction is aborted.
Cancel ==
    /\ phase # "idle"
    /\ links' = old.links /\ eps' = old.eps /\ top' = old.top
    /\ phase' = "idle"
    /\ scan' = NoScan /\ layers' = NoLayers /\ tasks' = {}
    /\ th' = [t \in Thread |-> Resting]
    /\ unpatched' = {} /\ old' = NoOld
    /\ UNCHANGED <<client, builds>>

-----------------------------------------------------------------------------
ThreadStep(t) == \/ Take(t) \/ Enter(t) \/ Expand(t) \/ LazyInsert(t)
                 \/ Descend(t) \/ Select(t) \/ LinkForth(t) \/ LinkBack(t) \/ NextLevel(t)

Next == \/ \E i \in Item : AddItem(i) \/ DelItem(i)
        \/ StartBuild \/ StartRebuild \/ ScanLayer \/ Resolved
        \/ \E t \in Thread : ThreadStep(t)
        \/ Inserted \/ Patch \/ Finish \/ Cancel

Spec == Init /\ [][Next]_vars

\* The build's own thread runs, and rayon runs every thread of the pool: none waits for
\* another, the maps are lock-free.  Nothing obliges the client to build or to cancel.
FairSpec == /\ Spec
            /\ WF_vars(ScanLayer \/ Resolved \/ Inserted \/ Patch \/ Finish)
            /\ \A t \in Thread : WF_vars(ThreadStep(t))

-----------------------------------------------------------------------------
(* Properties. *)

LinksMap == [LinkKey -> {Absent} \cup SUBSET Item]

Pc == {"rest", "enter", "walk", "lazy", "link", "back"}

ThreadState == [pc : Pc, item : Item \cup {0}, level : Level, at : Level, cand : SUBSET Item,
                res : SUBSET Item, visited : SUBSET Item, node : Item \cup {0}]

\* Every variable keeps its type (the fields of HnswBuilder and the locals of its methods).
TypeOK == /\ vectors \in SUBSET Item /\ updated \in SUBSET Item
          /\ links \in LinksMap
          /\ eps \in SUBSET Item /\ top \in Level
          /\ phase \in {"idle", "scan", "insert", "patch"}
          /\ scan \in [layer : Level, left : Nat, found : SUBSET Item]
          /\ layers \in [LinkKey -> {Absent} \cup Node]
          /\ tasks \in SUBSET Task
          /\ th \in [Thread -> ThreadState]
          /\ unpatched \in SUBSET StoredKeys
          /\ old \in [links : LinksMap, eps : SUBSET Item, top : Level,
                     ins : SUBSET Item, del : SUBSET Item]
          /\ builds \in 0 .. MaxBuilds

\* The degree bound the builder's const generics promise, whatever threads race, however
\* often an item is re-inserted and whatever it inherits from deleted neighbours: M0 links
\* on the ground, M above.  More would overflow the array, which panics.
DegreeBound ==
    \A k \in LinkKey :
        /\ layers[k] # Absent => /\ Cardinality(layers[k].links) <= layers[k].len
                                 /\ layers[k].len <= Cap(k[2])
        /\ links[k] # Absent => Cardinality(links[k]) <= Cap(k[2])

\* A build never asks LMDB for an item that is deleted, which would make it fail: not for
\* an entry point, a candidate, a link it prunes or a link it inherits; and a walk always
\* finds something (the expect "No neighbor was found").
NothingMissing ==
    /\ phase \in {"insert", "patch"} => eps \subseteq vectors
    /\ \A task \in tasks : task[1] \in vectors
    /\ \A t \in Thread : th[t].pc # "rest" => th[t].res # {} /\ th[t].visited \subseteq vectors
    /\ \A k \in LinkKey : layers[k] # Absent => k[1] \in vectors /\ layers[k].links \subseteq vectors
    /\ \A k \in unpatched :
         links[k] \cup UNION {StoredLinks(d, k[2]) : d \in links[k] \cap ToDelete}
             \subseteq vectors \cup ToDelete

\* Every stored link leads to an item with links on the same level: a reader that follows
\* it (Reader::visit, "Links must exist") never falls off the graph.
LinksLead == \A k \in StoredKeys : \A j \in links[k] : <<j, k[2]>> \in StoredKeys

\* An item on a level is on every level below, so a search can go down from where it is.
LevelsNested == \A k \in StoredKeys : \A l \in 0 .. k[2] : <<k[1], l>> \in StoredKeys

\* Between builds entry points exist on every level up to the top, and exist when anything
\* does: a search that starts from them finds links.
EntryPointsStand == phase = "idle" => /\ Covers(StoredKeys, eps, top)
                                      /\ eps = {} <=> StoredKeys = {}

\* After a build the graph is one a reader can walk, of exactly the items stored: it has
\* no ghost of a deleted item and forgets none.
BuiltIsWalkable ==
    phase = "idle" /\ updated = {} => Walkable(vectors, StoredKeys, links, eps, top)

\* What a finished build leaves behind is what the index relies on.
BuildMeetsContract ==
    [][Finish => HnswOutcome(StoredKeys, old.eps, old.top, ToInsert, ToDelete,
                             {k \in LinkKey : layers[k] # Absent}, eps', top')]_vars

\* Every build that is started ends: the search for substitutes, each walk and each
\* insertion stop.
BuildEnds == phase # "idle" ~> phase = "idle"

\* Something is taken out of a set, and nothing put in.
Shrinks(S, T) == T \subseteq S /\ T # S

\* A thread gets on: it comes down a level or, on its level, enters it, sees more items or
\* has fewer to look at, selects, has fewer to link, or has added the entry it missed.
Advances(s, z) ==
    \/ z.pc = "rest" \/ z.at < s.at
    \/ /\ z.at = s.at
       /\ \/ <<s.pc, z.pc>> \in {<<"enter", "walk">>, <<"walk", "link">>}
          \/ /\ {s.pc, z.pc} \subseteq {"walk", "lazy"}
             /\ \/ Shrinks(z.visited, s.visited)
                \/ z.visited = s.visited /\ Shrinks(s.cand, z.cand)
                \/ z.visited = s.visited /\ z.cand = s.cand /\ s.pc = "lazy" /\ z.pc = "walk"
          \/ /\ {s.pc, z.pc} \subseteq {"link", "back"}
             /\ \/ Shrinks(s.cand, z.cand)
                \/ z.cand = s.cand /\ s.pc = "back" /\ z.pc = "link"

\* No thread ever goes back, whatever the others do to the maps it walks on, and neither
\* does the build: there are fewer levels to scan, insertions to do or entries to patch
\* after every step, or one thread has advanced and the rest is as it was.
BuildAdvances ==
    [][\/ phase = "idle" \/ phase' = "idle"
       \/ <<phase, phase'>> \in {<<"scan", "insert">>, <<"insert", "patch">>}
       \/ /\ phase = "scan" /\ phase' = "scan"
          /\ \/ scan'.left < scan.left
             \/ scan'.left = scan.left /\ scan'.layer < scan.layer
       \/ /\ phase = "insert" /\ phase' = "insert"
          /\ \/ Shrinks(tasks, tasks')
             \/ /\ tasks' = tasks
                /\ \E t \in Thread : /\ Advances(th[t], th'[t])
                                    /\ \A u \in Thread \ {t} : th'[u] = th[u]
       \/ phase = "patch" /\ phase' = "patch" /\ Shrinks(unpatched, unpatched')]_vars

\* get_neighbours adds an entry "so he can get updated later" (hnsw.rs:450): no insertion
\* takes links away from an entry that has room left.
RoomyEntryKeepsLinks ==
    [][phase = "insert" /\ phase' = "insert" =>
         \A k \in LinkKey : layers[k] # Absent /\ layers[k].len < Cap(k[2]) =>
             layers'[k] # Absent /\ layers[k].links \subseteq layers'[k].links]_vars
=============================================================================
