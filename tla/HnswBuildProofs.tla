-------------------------- MODULE HnswBuildProofs --------------------------
(***************************************************************************)
(* What HnswBuild guarantees for every set of items, distances, degrees,   *)
(* threads and number of builds: every field keeps its type, and no list   *)
(* of links outgrows its array, whatever the threads do to the maps they   *)
(* share.                                                                  *)
(***************************************************************************)
EXTENDS HnswBuild, FiniteSetTheorems, TLAPS

-----------------------------------------------------------------------------
(* The inductive invariant. *)

\* A node whose array is within the bound of its level.
Fits(node, l) == Cardinality(node.links) <= node.len /\ node.len <= Cap(l)

LayersFit(map) == \A k \in LinkKey : map[k] # Absent => Fits(map[k], k[2])

LinksFit(map) == \A k \in LinkKey : map[k] # Absent => Cardinality(map[k]) <= Cap(k[2])

\* A thread at work has an item; one about to touch another item's entry has that too.
Busy(s) == /\ s.pc # "rest" => s.item \in Item
           /\ s.pc \in {"lazy", "back"} => s.node \in Item

IInv == /\ TypeOK
        /\ LayersFit(layers) /\ LinksFit(links) /\ LinksFit(old.links)
        /\ \A t \in Thread : Busy(th[t])
        /\ phase # "patch" => unpatched = {}
        /\ unpatched \subseteq StoredKeys

-----------------------------------------------------------------------------
(* robust_prune. *)

\* Sets of items are finite, and counting them gives a number.
LEMMA ItemSets ==
    ASSUME NEW S \in SUBSET Item
    PROVE  IsFiniteSet(S) /\ Cardinality(S) \in Nat
BY FiniteItems, FS_Subset, FS_CardinalityType

\* Scored links are totally ordered.
LEMMA NearerOrders ==
    ASSUME NEW q \in Item, NEW i \in Item, NEW j \in Item
    PROVE  /\ ~Nearer(q, i, i)
           /\ i # j => Nearer(q, i, j) \/ Nearer(q, j, i)
           /\ \A h \in Item : Nearer(q, h, i) /\ Nearer(q, i, j) => Nearer(q, h, j)
<1>1. \A a \in Item : Dist[<<q, a>>] \in Nat /\ a \in Nat
  BY DistAssumption, ItemAssumption
<1> QED BY <1>1, SMT DEF Nearer

\* Of two points of a set the nearer has fewer points before it.
LEMMA RankGrows ==
    ASSUME NEW q \in Item, NEW T \in SUBSET Item, NEW c \in T, NEW d \in T, Nearer(q, c, d)
    PROVE  Cardinality({i \in T : Nearer(q, i, c)}) # Cardinality({i \in T : Nearer(q, i, d)})
<1> DEFINE C == {i \in T : Nearer(q, i, c)}
           D == {i \in T : Nearer(q, i, d)}
<1>1. C \in SUBSET D BY NearerOrders
<1>2. c \in D /\ c \notin C BY NearerOrders
<1>3. IsFiniteSet(D) BY ItemSets
<1>4. Cardinality(C) = Cardinality(D) => D = C BY <1>1, <1>3, FS_Subset
<1> QED BY <1>2, <1>4

\* robust_prune never selects more points than it may.
LEMMA PrunedFits ==
    ASSUME NEW q \in Item, NEW S \in SUBSET Item, NEW cap \in Nat, NEW T \in Pruned(q, S, cap)
    PROVE  T \in SUBSET Item /\ Cardinality(T) \in Nat /\ Cardinality(T) <= cap
<1> DEFINE before(c) == {i \in T : Nearer(q, i, c)}
           rank == [c \in T |-> Cardinality(before(c))]
<1>1. T \in SUBSET S /\ T \in SUBSET Item BY DEF Pruned
<1>2. \A c \in T : Cardinality(before(c)) \in Nat /\ Cardinality(before(c)) < cap
  <2> TAKE c \in T
  <2>1. Cardinality(before(c)) < cap BY <1>1 DEF Pruned, IsPruned
  <2>2. before(c) \in SUBSET Item BY <1>1
  <2> QED BY <2>1, <2>2, ItemSets
<1>3. rank \in [T -> 0 .. (cap - 1)] BY <1>2
<1>4. \A c, d \in T : rank[c] = rank[d] => c = d
  <2> SUFFICES ASSUME NEW c \in T, NEW d \in T, c # d PROVE rank[c] # rank[d]
    OBVIOUS
  <2>1. Nearer(q, c, d) \/ Nearer(q, d, c) BY <1>1, NearerOrders
  <2>2. Nearer(q, c, d) => rank[c] # rank[d] BY <1>1, RankGrows
  <2>3. Nearer(q, d, c) => rank[c] # rank[d] BY <1>1, RankGrows
  <2> QED BY <2>1, <2>2, <2>3
<1>5. rank \in Injection(T, 0 .. (cap - 1)) BY <1>3, <1>4 DEF Injection, IsInjective
<1>6. IsFiniteSet(0 .. (cap - 1)) /\ Cardinality(0 .. (cap - 1)) = cap
  BY FS_Interval, 0 \in Int, cap - 1 \in Int
<1>7. Cardinality(T) <= cap BY <1>5, <1>6, FS_Injection
<1> QED BY <1>1, <1>7, ItemSets

\* A pruned node is a node within the bound.
LEMMA PrunedNodesFit ==
    ASSUME NEW q \in Item, NEW S \in SUBSET Item, NEW l \in Level,
           NEW node \in PrunedNodes(q, S, Cap(l))
    PROVE  node \in Node /\ Fits(node, l)
<1>1. Cap(l) \in Nat BY DegreeAssumption DEF Cap
<1>2. PICK T \in Pruned(q, S, Cap(l)) : node = [links |-> T, len |-> Cardinality(T)]
  BY DEF PrunedNodes
<1>3. T \in SUBSET Item /\ Cardinality(T) \in Nat /\ Cardinality(T) <= Cap(l)
  BY <1>1, PrunedFits
<1> QED BY <1>2, <1>3 DEF Node, Fits

\* The empty node is within every bound.
LEMMA EmptyNodeFits ==
    ASSUME NEW l \in Level
    PROVE  EmptyNode \in Node /\ Fits(EmptyNode, l)
<1>1. Cap(l) \in Nat BY DegreeAssumption DEF Cap
<1> QED BY <1>1, FS_EmptySet DEF EmptyNode, Node, Fits

-----------------------------------------------------------------------------
(* The maps the threads share. *)

LayerMap == [LinkKey -> {Absent} \cup Node]

\* An entry of a typed map that is there is a node.
LEMMA EntryIsNode ==
    ASSUME NEW map \in LayerMap, NEW k \in LinkKey, map[k] # Absent
    PROVE  map[k] \in Node
BY DEF LayerMap

\* add_link makes of an entry one that fits.
LEMMA LinkedFits ==
    ASSUME NEW map \in LayerMap, LayersFit(map), NEW p \in Item, NEW q \in Item,
           NEW l \in Level, NEW node \in Linked(map, p, q, l)
    PROVE  node \in Node /\ Fits(node, l)
<1> DEFINE k == <<p, l>>
<1>1. k \in LinkKey /\ k[2] = l BY DEF LinkKey
<1>2. Cap(l) \in Nat \ {0} BY DegreeAssumption DEF Cap
<1>3. CASE map[k] = Absent
  <2>1. node = [links |-> {q}, len |-> 1] BY <1>3 DEF Linked
  <2>2. Cardinality({q}) = 1 BY FS_Singleton
  <2>3. node \in Node BY <2>1 DEF Node
  <2> QED BY <1>2, <2>1, <2>2, <2>3 DEF Fits
<1>4. CASE map[k] # Absent /\ map[k].len < Cap(l)
  <2>1. node = [links |-> map[k].links \cup {q}, len |-> map[k].len + 1]
    BY <1>4 DEF Linked
  <2>2. /\ map[k].links \in SUBSET Item /\ map[k].len \in Nat
        /\ Cardinality(map[k].links) <= map[k].len
    BY <1>1, <1>4, EntryIsNode DEF Node, LayersFit, Fits
  <2> DEFINE L == map[k].links
  <2>5. IsFiniteSet(L) /\ Cardinality(L) \in Nat BY <2>2, ItemSets
  <2>6. Cardinality(L \cup {q}) = IF q \in L THEN Cardinality(L) ELSE Cardinality(L) + 1
    BY <2>5, FS_AddElement
  <2>3. Cardinality(L) \in Nat /\ Cardinality(L \cup {q}) <= Cardinality(L) + 1
    BY <2>5, <2>6
  <2>4. Cardinality(map[k].links \cup {q}) \in Nat BY <2>2, ItemSets
  <2> QED BY <2>1, <2>2, <2>3, <2>4, <1>2, <1>4 DEF Node, Fits
<1>5. CASE map[k] # Absent /\ ~(map[k].len < Cap(l))
  <2>1. node \in PrunedNodes(p, map[k].links, Cap(l)) BY <1>5 DEF Linked
  <2>2. map[k].links \in SUBSET Item BY <1>1, <1>5, EntryIsNode DEF Node
  <2> QED BY <2>1, <2>2, PrunedNodesFit
<1> QED BY <1>3, <1>4, <1>5

\* fill_gaps_from_deleted makes of an old entry one that fits.
LEMMA RepairedFits ==
    ASSUME TypeOK, LayersFit(layers), NEW k \in StoredKeys, NEW node \in Repaired(k)
    PROVE  node \in Node /\ Fits(node, k[2])
<1> DEFINE gone == links[k] \cap ToDelete
           wide == (links[k] \cup UNION {StoredLinks(d, k[2]) : d \in gone}) \ ToDelete
           own  == IF layers[k] = Absent THEN EmptyNode ELSE layers[k]
           all  == wide \cup own.links
<1>1. k \in LinkKey /\ k[1] \in Item /\ k[2] \in Level BY DEF StoredKeys, LinkKey
<1>2. Cap(k[2]) \in Nat BY DegreeAssumption DEF Cap
<1>3. links[k] \in SUBSET Item BY <1>1 DEF StoredKeys, TypeOK, LinksMap
<1>4. \A d \in gone : StoredLinks(d, k[2]) \in SUBSET Item
  <2> TAKE d \in gone
  <2>1. <<d, k[2]>> \in LinkKey BY <1>1, <1>3 DEF LinkKey
  <2> QED BY <2>1 DEF StoredLinks, TypeOK, LinksMap
<1>5. wide \in SUBSET Item BY <1>3, <1>4
<1>6. layers \in LayerMap BY DEF TypeOK, LayerMap
<1>7. own \in Node /\ Fits(own, k[2])
  BY <1>1, <1>6, EntryIsNode, EmptyNodeFits DEF LayersFit
<1>8. /\ own.links \in SUBSET Item /\ own.len \in Nat
      /\ Cardinality(own.links) <= own.len
  BY <1>7 DEF Node, Fits
<1>9. CASE Cardinality(wide) + own.len <= Cap(k[2])
  <2>1. node = [links |-> all, len |-> Cardinality(wide) + own.len]
    BY <1>9 DEF Repaired
  <2>2. /\ IsFiniteSet(wide) /\ IsFiniteSet(own.links) /\ wide \cap own.links \in SUBSET Item
        /\ Cardinality(wide) \in Nat /\ Cardinality(own.links) \in Nat
        /\ Cardinality(wide \cap own.links) \in Nat
    BY <1>5, <1>8, ItemSets
  <2>3. Cardinality(all) = Cardinality(wide) + Cardinality(own.links)
                             - Cardinality(wide \cap own.links)
    BY <2>2, FS_Union
  <2>4. Cardinality(all) <= Cardinality(wide) + own.len BY <2>2, <2>3, <1>8
  <2>5. all \in SUBSET Item BY <1>5, <1>8
  <2>6. node \in Node BY <2>1, <2>2, <2>5, <1>8 DEF Node
  <2>7. node.links = all /\ node.len = Cardinality(wide) + own.len BY <2>1
  <2> QED BY <2>4, <2>6, <2>7, <1>9 DEF Fits
<1>10. CASE ~(Cardinality(wide) + own.len <= Cap(k[2]))
  <2>1. node \in PrunedNodes(k[1], all, Cap(k[2])) BY <1>10 DEF Repaired
  <2> QED BY <2>1, <1>1, <1>5, <1>8, PrunedNodesFit
<1> QED BY <1>9, <1>10

\* Putting a node that fits keeps a map typed and within bounds.
LEMMA PutFits ==
    ASSUME NEW map \in LayerMap, LayersFit(map), NEW k \in LinkKey,
           NEW node \in Node, Fits(node, k[2])
    PROVE  [map EXCEPT ![k] = node] \in LayerMap /\ LayersFit([map EXCEPT ![k] = node])
<1> DEFINE map2 == [map EXCEPT ![k] = node]
<1>1. map2 \in LayerMap BY DEF LayerMap
<1>2. ASSUME NEW j \in LinkKey, map2[j] # Absent
      PROVE  Fits(map2[j], j[2])
  <2>1. CASE j = k BY <2>1 DEF LayerMap
  <2>2. CASE j # k
    <3>1. map2[j] = map[j] BY <2>2 DEF LayerMap
    <3> QED BY <3>1, <1>2 DEF LayersFit
  <2> QED BY <2>1, <2>2
<1> QED BY <1>1, <1>2 DEF LayersFit

\* add_in_layers_below only adds empty entries.
LEMMA BelowFits ==
    ASSUME NEW map \in LayerMap, LayersFit(map), NEW items, NEW l
    PROVE  InLayersBelow(map, items, l) \in LayerMap /\ LayersFit(InLayersBelow(map, items, l))
<1> DEFINE map2 == InLayersBelow(map, items, l)
<1>1. \A k \in LinkKey : map2[k] = EmptyNode \/ map2[k] = map[k] BY DEF InLayersBelow
<1>2. \A k \in LinkKey : k[2] \in Level BY DEF LinkKey
<1>3. \A k \in LinkKey : EmptyNode \in Node /\ Fits(EmptyNode, k[2]) BY <1>2, EmptyNodeFits
<1>4. map2 \in LayerMap BY <1>1, <1>3 DEF LayerMap, InLayersBelow
<1>5. LayersFit(map2) BY <1>1, <1>3 DEF LayersFit
<1> QED BY <1>4, <1>5

\* The maps a build starts with are empty.
LEMMA NoLayersFit == /\ NoLayers \in LayerMap /\ NoLayers \in LinksMap
                     /\ LayersFit(NoLayers) /\ LinksFit(NoLayers)
BY DEF NoLayers, LayerMap, LinksMap, LayersFit, LinksFit

-----------------------------------------------------------------------------
(* The threads. *)

\* A step of a thread changes its own state, the maps and the tasks left.
LEMMA ThreadFrame ==
    ASSUME IInv, NEW t \in Thread, NEW s \in ThreadState, Busy(s), th' = [th EXCEPT ![t] = s],
           layers' \in LayerMap, LayersFit(layers'), tasks' \in SUBSET tasks,
           UNCHANGED <<client, stored, eps, top, phase, scan, unpatched>>
    PROVE  IInv'
<1>1. th' \in [Thread -> ThreadState] BY DEF IInv, TypeOK
<1>2. \A u \in Thread : Busy(th'[u]) BY DEF IInv, TypeOK
<1>3. TypeOK' BY <1>1 DEF IInv, TypeOK, client, stored, LayerMap, StoredKeys
<1>4. LinksFit(links') /\ LinksFit(old'.links) BY DEF IInv, stored
<1>5. (phase' # "patch" => unpatched' = {}) /\ unpatched' \subseteq StoredKeys'
  BY DEF IInv, stored, StoredKeys
<1> QED BY <1>1, <1>2, <1>3, <1>4, <1>5 DEF IInv

\* Seeding a walk keeps the type of a thread's state.
LEMMA SeededType ==
    ASSUME NEW s \in ThreadState, NEW points \in SUBSET Item
    PROVE  /\ Seeded(s, points) \in ThreadState
           /\ Seeded(s, points).item = s.item /\ Seeded(s, points).pc = s.pc
           /\ Seeded(s, points).node = s.node
BY DEF Seeded, ThreadState

\* The nearest points of a set are of the set.
LEMMA NearestSubset ==
    ASSUME NEW q, NEW S \in SUBSET Item, NEW n
    PROVE  Nearest(q, S, n) \in SUBSET S
BY DEF Nearest

\* A walk keeps its type when it takes in new neighbours, and its item and place.
LEMMA WalkedType ==
    ASSUME NEW s \in ThreadState, NEW new \in SUBSET Item, NEW s2 \in Walked(s, new)
    PROVE  s2 \in ThreadState /\ s2.item = s.item
<1> DEFINE near == {i \in new : \E r \in s.res : Dist[<<s.item, i>>] < Dist[<<s.item, r>>]}
           found(F) == s.res \cup near \cup F
           small == Cardinality(s.res) > Width(s)
<1>1. PICK F \in SUBSET (new \ near) :
        s2 = [s EXCEPT !.cand = @ \cup near \cup F, !.visited = @ \cup new,
                       !.res = IF small THEN found(F)
                               ELSE Nearest(s.item, found(F), Width(s))]
  BY DEF Walked
<1>2. /\ s.cand \in SUBSET Item /\ s.visited \in SUBSET Item /\ s.res \in SUBSET Item
  BY DEF ThreadState
<1>3. found(F) \in SUBSET Item BY <1>2
<1>4. Nearest(s.item, found(F), Width(s)) \in SUBSET Item BY <1>3, NearestSubset
<1> DEFINE res2 == IF small THEN found(F) ELSE Nearest(s.item, found(F), Width(s))
           cand2 == s.cand \cup near \cup F
           visited2 == s.visited \cup new
<1>5. res2 \in SUBSET Item /\ cand2 \in SUBSET Item /\ visited2 \in SUBSET Item
  BY <1>2, <1>3, <1>4
<1>6. s2 = [s EXCEPT !.cand = cand2, !.visited = visited2, !.res = res2]
  BY <1>1
<1> HIDE DEF res2, cand2, visited2
<1> QED BY <1>5, <1>6 DEF ThreadState

\* A thread that takes a task works on an item.
LEMMA TakeKeeps == ASSUME IInv, NEW t \in Thread, Take(t) PROVE IInv'
<1>1. PICK task \in tasks :
        /\ tasks' = tasks \ {task}
        /\ th' = [th EXCEPT ![t] =
             Seeded([Resting EXCEPT !.pc = IF task[2] < top THEN "walk" ELSE "enter",
                                    !.item = task[1], !.level = task[2], !.at = top], eps)]
  BY DEF Take
<1> DEFINE begun == [Resting EXCEPT !.pc = IF task[2] < top THEN "walk" ELSE "enter",
                                    !.item = task[1], !.level = task[2], !.at = top]
<1>2. task[1] \in Item /\ task[2] \in Level BY DEF IInv, TypeOK, Task
<1>3. top \in Level /\ eps \in SUBSET Item BY DEF IInv, TypeOK
<1>4. begun \in ThreadState /\ begun.item \in Item /\ begun.pc \in {"walk", "enter"}
  BY <1>2, <1>3 DEF Resting, ThreadState, Pc
<1> HIDE DEF begun
<1> DEFINE s == Seeded(begun, eps)
<1>5. s \in ThreadState /\ s.item \in Item /\ s.pc \in {"walk", "enter"}
  BY <1>3, <1>4, SeededType
<1>6. Busy(s) BY <1>5 DEF Busy
<1>7. th' = [th EXCEPT ![t] = s] BY <1>1 DEF begun
<1>8. UNCHANGED <<client, stored, eps, top, phase, scan, layers, unpatched>> BY DEF Take
<1>9. layers' \in LayerMap /\ LayersFit(layers') BY <1>8 DEF IInv, TypeOK, LayerMap
<1> HIDE DEF s
<1> QED BY <1>1, <1>5, <1>6, <1>7, <1>8, <1>9, ThreadFrame

\* add_in_layers_below of a thread's item.
LEMMA EnterKeeps == ASSUME IInv, NEW t \in Thread, Enter(t) PROVE IInv'
<1> DEFINE s == [th[t] EXCEPT !.pc = "walk"]
<1>1. th[t] \in ThreadState /\ Busy(th[t]) /\ th[t].pc = "enter" BY DEF IInv, TypeOK, Enter
<1>2. s \in ThreadState /\ Busy(s) BY <1>1 DEF ThreadState, Busy, Pc
<1>3. th' = [th EXCEPT ![t] = s] BY DEF Enter
<1>4. layers \in LayerMap /\ LayersFit(layers) BY DEF IInv, TypeOK, LayerMap
<1>5. layers' \in LayerMap /\ LayersFit(layers') BY <1>4, BelowFits DEF Enter
<1>6. UNCHANGED <<client, stored, eps, top, phase, scan, tasks, unpatched>> BY DEF Enter
<1> HIDE DEF s
<1> QED BY <1>2, <1>3, <1>5, <1>6, ThreadFrame

\* A candidate is expanded: only the thread's own state changes.
LEMMA ExpandKeeps == ASSUME IInv, NEW t \in Thread, Expand(t) PROVE IInv'
<1>1. th[t] \in ThreadState /\ Busy(th[t]) /\ th[t].pc = "walk" BY DEF IInv, TypeOK, Expand
<1>2. PICK c \in Closest(th[t]), new \in SUBSET Item, pc \in {"lazy", "walk"} :
        \E s2 \in Walked([th[t] EXCEPT !.cand = @ \ {c}], new) :
          th' = [th EXCEPT ![t] = [s2 EXCEPT !.pc = pc, !.node = c]]
  <2>1. PICK c \in Closest(th[t]) :
          LET s == th[t]
              node == layers[<<c, s.at>>]
              near == StoredLinks(c, s.at) \cup (IF node = Absent THEN {} ELSE node.links)
          IN  \E s2 \in Walked([s EXCEPT !.cand = @ \ {c}], Unvisited(s, near)) :
                th' = [th EXCEPT ![t] = [s2 EXCEPT !.pc = IF node = Absent THEN "lazy" ELSE "walk",
                                                   !.node = c]]
    BY DEF Expand
  <2>2. \A near : Unvisited(th[t], near) \in SUBSET Item BY DEF IInv, TypeOK, Unvisited
  <2> QED BY <2>1, <2>2
<1> DEFINE rest == [th[t] EXCEPT !.cand = @ \ {c}]
<1>3. PICK s2 \in Walked(rest, new) : th' = [th EXCEPT ![t] = [s2 EXCEPT !.pc = pc, !.node = c]]
  BY <1>2
<1>4. c \in Item BY <1>1 DEF Closest, ThreadState
<1>5. rest \in ThreadState /\ rest.item = th[t].item BY <1>1 DEF ThreadState
<1>6. th[t].item \in Item BY <1>1 DEF Busy
<1>7. s2 \in ThreadState /\ s2.item \in Item
  <2> HIDE DEF rest
  <2>1. s2 \in ThreadState /\ s2.item = rest.item BY <1>3, <1>5, WalkedType
  <2> QED BY <2>1, <1>5, <1>6
<1> DEFINE s == [s2 EXCEPT !.pc = pc, !.node = c]
<1>8. s \in ThreadState /\ s.item \in Item /\ s.node \in Item BY <1>4, <1>7 DEF ThreadState, Pc
<1>9. Busy(s) BY <1>8 DEF Busy
<1>10. th' = [th EXCEPT ![t] = s] BY <1>3
<1>11. UNCHANGED <<client, stored, eps, top, phase, scan, layers, tasks, unpatched>>
  BY DEF Expand
<1>12. layers' \in LayerMap /\ LayersFit(layers') BY <1>11 DEF IInv, TypeOK, LayerMap
<1> HIDE DEF s
<1> QED BY <1>8, <1>9, <1>10, <1>11, <1>12, ThreadFrame

\* The empty entry of get_neighbours fits, whatever it overwrites.
LEMMA LazyInsertKeeps == ASSUME IInv, NEW t \in Thread, LazyInsert(t) PROVE IInv'
<1> DEFINE s == [th[t] EXCEPT !.pc = "walk"]
           k == <<th[t].node, th[t].at>>
<1>1. th[t] \in ThreadState /\ Busy(th[t]) /\ th[t].pc = "lazy" BY DEF IInv, TypeOK, LazyInsert
<1>2. s \in ThreadState /\ Busy(s) BY <1>1 DEF ThreadState, Busy, Pc
<1>3. th' = [th EXCEPT ![t] = s] BY DEF LazyInsert
<1>4. layers \in LayerMap /\ LayersFit(layers) BY DEF IInv, TypeOK, LayerMap
<1>5. k \in LinkKey /\ k[2] \in Level BY <1>1 DEF ThreadState, Busy, LinkKey
<1>6. layers' = [layers EXCEPT ![k] = EmptyNode] BY DEF LazyInsert
<1>7. EmptyNode \in Node /\ Fits(EmptyNode, k[2]) BY <1>5, EmptyNodeFits
<1> HIDE DEF k
<1>8. layers' \in LayerMap /\ LayersFit(layers') BY <1>4, <1>5, <1>6, <1>7, PutFits
<1>9. UNCHANGED <<client, stored, eps, top, phase, scan, tasks, unpatched>> BY DEF LazyInsert
<1> HIDE DEF s
<1> QED BY <1>2, <1>3, <1>8, <1>9, ThreadFrame

\* The walk goes down.
LEMMA DescendKeeps == ASSUME IInv, NEW t \in Thread, Descend(t) PROVE IInv'
<1> DEFINE seeds == Nearest(th[t].item, th[t].res, 1)
           pc == IF th[t].at - 1 = th[t].level THEN "enter" ELSE "walk"
           at == th[t].at - 1
           s == [Seeded(th[t], seeds) EXCEPT !.at = at, !.pc = pc, !.node = 0]
<1>1. /\ th[t] \in ThreadState /\ Busy(th[t]) /\ th[t].pc = "walk" /\ th[t].at > th[t].level
  BY DEF IInv, TypeOK, Descend, WalkEnds, Greedy
<1>2. seeds \in SUBSET Item BY <1>1, NearestSubset DEF ThreadState
<1>3. th[t].at \in Level /\ th[t].level \in Level BY <1>1 DEF ThreadState
<1>4. at \in Level BY <1>1, <1>3, LevelAssumption DEF Level
<1>5. pc \in {"enter", "walk"} OBVIOUS
<1>6. th' = [th EXCEPT ![t] = s] BY DEF Descend
<1> HIDE DEF seeds, pc, at
<1>7. Seeded(th[t], seeds) \in ThreadState /\ Seeded(th[t], seeds).item \in Item
  BY <1>1, <1>2, SeededType DEF Busy
<1>8. s \in ThreadState /\ Busy(s) BY <1>4, <1>5, <1>7 DEF ThreadState, Pc, Busy
<1>9. UNCHANGED <<client, stored, eps, top, phase, scan, layers, tasks, unpatched>>
  BY DEF Descend
<1>10. layers' \in LayerMap /\ LayersFit(layers') BY <1>9 DEF IInv, TypeOK, LayerMap
<1> HIDE DEF s
<1> QED BY <1>6, <1>8, <1>9, <1>10, ThreadFrame

\* The results of a walk are pruned.
LEMMA SelectKeeps == ASSUME IInv, NEW t \in Thread, Select(t) PROVE IInv'
<1>1. /\ th[t] \in ThreadState /\ Busy(th[t]) /\ th[t].pc = "walk"
  BY DEF IInv, TypeOK, Select, WalkEnds
<1>2. PICK selected \in Pruned(th[t].item, th[t].res, Cap(th[t].level)) :
        th' = [th EXCEPT ![t] = [Seeded(th[t], selected) EXCEPT
                                   !.cand = selected \ {th[t].item}, !.pc = "link", !.node = 0]]
  BY DEF Select
<1>3. selected \in SUBSET Item BY <1>1 DEF Pruned, ThreadState
<1> DEFINE others == selected \ {th[t].item}
           s == [Seeded(th[t], selected) EXCEPT !.cand = others, !.pc = "link", !.node = 0]
<1>4. th' = [th EXCEPT ![t] = s] BY <1>2
<1>5. others \in SUBSET Item BY <1>3
<1> HIDE DEF others
<1>6. Seeded(th[t], selected) \in ThreadState /\ Seeded(th[t], selected).item \in Item
  BY <1>1, <1>3, SeededType DEF Busy
<1>7. s \in ThreadState /\ Busy(s) BY <1>5, <1>6 DEF ThreadState, Pc, Busy
<1>8. UNCHANGED <<client, stored, eps, top, phase, scan, layers, tasks, unpatched>>
  BY DEF Select
<1>9. layers' \in LayerMap /\ LayersFit(layers') BY <1>8 DEF IInv, TypeOK, LayerMap
<1> HIDE DEF s
<1> QED BY <1>4, <1>7, <1>8, <1>9, ThreadFrame

\* A link is added to the item's own entry.
LEMMA LinkForthKeeps == ASSUME IInv, NEW t \in Thread, LinkForth(t) PROVE IInv'
<1>1. /\ th[t] \in ThreadState /\ Busy(th[t]) /\ th[t].pc = "link"
  BY DEF IInv, TypeOK, LinkForth
<1> DEFINE p == th[t].item
           l == th[t].at
           k == <<p, l>>
<1>2. PICK n \in Nearest(th[t].item, th[t].cand, 1) :
        \E node \in Linked(layers, p, n, l) :
          /\ layers' = [layers EXCEPT ![k] = node]
          /\ th' = [th EXCEPT ![t] = [th[t] EXCEPT !.pc = "back", !.node = n, !.cand = @ \ {n}]]
  BY DEF LinkForth
<1>3. PICK node \in Linked(layers, p, n, l) :
        /\ layers' = [layers EXCEPT ![k] = node]
        /\ th' = [th EXCEPT ![t] = [th[t] EXCEPT !.pc = "back", !.node = n, !.cand = @ \ {n}]]
  BY <1>2
<1>4. n \in Item BY <1>1, NearestSubset DEF ThreadState
<1>5. p \in Item /\ l \in Level /\ k \in LinkKey /\ k[2] = l
  BY <1>1 DEF Busy, ThreadState, LinkKey
<1> DEFINE left == th[t].cand \ {n}
           s == [th[t] EXCEPT !.pc = "back", !.node = n, !.cand = left]
<1>6. left \in SUBSET Item BY <1>1 DEF ThreadState
<1>7. th' = [th EXCEPT ![t] = s] BY <1>3
<1> HIDE DEF left
<1>8. s \in ThreadState /\ Busy(s) BY <1>1, <1>4, <1>5, <1>6 DEF ThreadState, Pc, Busy
<1>9. layers \in LayerMap /\ LayersFit(layers) BY DEF IInv, TypeOK, LayerMap
<1> HIDE DEF p, l, k
<1>10. node \in Node /\ Fits(node, l) BY <1>3, <1>4, <1>5, <1>9, LinkedFits
<1>11. layers' \in LayerMap /\ LayersFit(layers') BY <1>3, <1>5, <1>9, <1>10, PutFits
<1>12. UNCHANGED <<client, stored, eps, top, phase, scan, tasks, unpatched>> BY DEF LinkForth
<1> HIDE DEF s
<1> QED BY <1>7, <1>8, <1>11, <1>12, ThreadFrame

\* A link back is added to the selected point's entry.
LEMMA LinkBackKeeps == ASSUME IInv, NEW t \in Thread, LinkBack(t) PROVE IInv'
<1>1. /\ th[t] \in ThreadState /\ Busy(th[t]) /\ th[t].pc = "back"
  BY DEF IInv, TypeOK, LinkBack
<1> DEFINE p == th[t].node
           q == th[t].item
           l == th[t].at
           k == <<p, l>>
           s == [th[t] EXCEPT !.pc = "link"]
<1>2. PICK node \in Linked(layers, p, q, l) : layers' = [layers EXCEPT ![k] = node]
  BY DEF LinkBack
<1>3. th' = [th EXCEPT ![t] = s] BY DEF LinkBack
<1>4. p \in Item /\ q \in Item /\ l \in Level /\ k \in LinkKey /\ k[2] = l
  BY <1>1 DEF Busy, ThreadState, LinkKey
<1>5. s \in ThreadState /\ Busy(s) BY <1>1 DEF ThreadState, Pc, Busy
<1>6. layers \in LayerMap /\ LayersFit(layers) BY DEF IInv, TypeOK, LayerMap
<1> HIDE DEF p, q, l, k
<1>7. node \in Node /\ Fits(node, l) BY <1>2, <1>4, <1>6, LinkedFits
<1>8. layers' \in LayerMap /\ LayersFit(layers') BY <1>2, <1>4, <1>6, <1>7, PutFits
<1>9. UNCHANGED <<client, stored, eps, top, phase, scan, tasks, unpatched>> BY DEF LinkBack
<1> HIDE DEF s
<1> QED BY <1>3, <1>5, <1>8, <1>9, ThreadFrame

\* A thread goes on with the next level, or rests.
LEMMA NextLevelKeeps == ASSUME IInv, NEW t \in Thread, NextLevel(t) PROVE IInv'
<1>1. /\ th[t] \in ThreadState /\ Busy(th[t]) /\ th[t].pc = "link"
  BY DEF IInv, TypeOK, NextLevel
<1>2. UNCHANGED <<client, stored, eps, top, phase, scan, layers, tasks, unpatched>>
  BY DEF NextLevel
<1>3. layers' \in LayerMap /\ LayersFit(layers') BY <1>2 DEF IInv, TypeOK, LayerMap
<1>4. CASE th[t].at = 0
  <2>1. th' = [th EXCEPT ![t] = Resting] BY <1>4 DEF NextLevel
  <2>2. Resting \in ThreadState /\ Busy(Resting)
    BY LevelAssumption DEF Resting, ThreadState, Pc, Busy, Level
  <2> QED BY <2>1, <2>2, <1>2, <1>3, ThreadFrame
<1>5. CASE th[t].at # 0
  <2> DEFINE at == th[t].at - 1
             s == [Seeded(th[t], th[t].res) EXCEPT !.pc = "walk", !.at = at, !.node = 0]
  <2>1. th' = [th EXCEPT ![t] = s] BY <1>5 DEF NextLevel
  <2>2. at \in Level BY <1>1, <1>5, LevelAssumption DEF ThreadState, Level
  <2> HIDE DEF at
  <2>3. Seeded(th[t], th[t].res) \in ThreadState /\ Seeded(th[t], th[t].res).item \in Item
    BY <1>1, SeededType DEF Busy, ThreadState
  <2>4. s \in ThreadState /\ Busy(s) BY <2>2, <2>3 DEF ThreadState, Pc, Busy
  <2> HIDE DEF s
  <2> QED BY <2>1, <2>4, <1>2, <1>3, ThreadFrame
<1> QED BY <1>4, <1>5

-----------------------------------------------------------------------------
(* The build around them. *)

\* The client changes items and marks only.
LEMMA ClientKeeps == ASSUME IInv, NEW i \in Item, AddItem(i) \/ DelItem(i) PROVE IInv'
<1>1. UNCHANGED <<stored, eps, top, phase, scan, layers, tasks, th, unpatched>>
  BY DEF AddItem, DelItem
<1>2. vectors' \in SUBSET Item /\ updated' \in SUBSET Item
  BY DEF IInv, TypeOK, AddItem, DelItem
<1>3. TypeOK' BY <1>1, <1>2 DEF IInv, TypeOK, stored, StoredKeys
<1> QED BY <1>1, <1>3 DEF IInv, stored, StoredKeys

\* A build starts from what is stored.
LEMMA StartKeeps == ASSUME IInv, StartBuild \/ StartRebuild PROVE IInv'
<1>1. PICK ins \in SUBSET Item, del \in SUBSET Item : Start(ins, del)
  BY DEF IInv, TypeOK, StartBuild, StartRebuild
<1>2. links' = links \/ links' = NoLayers BY DEF StartBuild, StartRebuild
<1>3. links' \in LinksMap /\ LinksFit(links') BY <1>2, NoLayersFit DEF IInv, TypeOK
<1>4. unpatched = {} /\ unpatched' = {} BY <1>1 DEF IInv, Start
<1>5. scan' \in [layer : Level, left : Nat, found : SUBSET Item]
  <2>1. eps \in SUBSET Item /\ top \in Level BY DEF IInv, TypeOK
  <2>2. Cardinality(eps \cap del) \in Nat BY <2>1, ItemSets
  <2> QED BY <1>1, <2>1, <2>2 DEF Start
<1>6. old' \in [links : LinksMap, eps : SUBSET Item, top : Level,
                ins : SUBSET Item, del : SUBSET Item] /\ old'.links = links
  BY <1>1 DEF IInv, TypeOK, Start
<1>7. builds' \in 0 .. MaxBuilds BY <1>1, BuildsAssumption DEF IInv, TypeOK, Start
<1>8. UNCHANGED <<client, eps, top, layers, tasks, th>> /\ phase' = "scan" BY <1>1 DEF Start
<1>9. TypeOK'
  <2>1. unpatched' \in SUBSET StoredKeys' BY <1>4
  <2> QED BY <2>1, <1>3, <1>5, <1>6, <1>7, <1>8 DEF IInv, TypeOK, client
<1> QED BY <1>3, <1>4, <1>6, <1>8, <1>9 DEF IInv

\* The search for substitutes.
LEMMA ScanKeeps == ASSUME IInv, ScanLayer PROVE IInv'
<1> DEFINE layer == IF scan.layer = 0 THEN 0 ELSE scan.layer - 1
           left == IF scan.layer = 0 THEN scan.left - 1 ELSE scan.left
           found == scan.found \cup FirstOf(Substitutes(scan.layer, scan.found))
<1>1. scan' = [layer |-> layer, left |-> left, found |-> found] /\ scan.left > 0
  BY DEF ScanLayer
<1>2. scan.layer \in Level /\ scan.left \in Nat /\ scan.found \in SUBSET Item
  BY DEF IInv, TypeOK
<1>3. layer \in Level /\ left \in Nat BY <1>1, <1>2, LevelAssumption DEF Level
<1>4. found \in SUBSET Item BY <1>2 DEF FirstOf, Substitutes
<1> HIDE DEF layer, left, found
<1>5. UNCHANGED <<client, stored, eps, top, phase, layers, tasks, th, unpatched>> BY DEF ScanLayer
<1>6. scan' \in [layer : Level, left : Nat, found : SUBSET Item] BY <1>1, <1>3, <1>4
<1>7. TypeOK' BY <1>5, <1>6 DEF IInv, TypeOK, client, stored, StoredKeys
<1> QED BY <1>5, <1>7 DEF IInv, stored, StoredKeys

\* Levels are drawn and tasks scheduled.
LEMMA ResolvedKeeps == ASSUME IInv, Resolved PROVE IInv'
<1> DEFINE height == IF HeightReset THEN 0 ELSE top
           todo(drawn) == {<<i, drawn[i], "drawn">> : i \in ToInsert}
                            \cup {<<i, height, "entry">> : i \in scan.found}
           upper(drawn, top2) == {i \in Item : \E task \in todo(drawn) :
                                                 task[1] = i /\ task[2] = top2}
<1>1. PICK drawn \in [ToInsert -> Level], top2 \in Level :
        /\ tasks' = todo(drawn)
        /\ top' = top2
        /\ eps' = (IF top2 > height THEN {} ELSE scan.found) \cup upper(drawn, top2)
        /\ layers' = InLayersBelow(layers, upper(drawn, top2), top2)
  BY DEF Resolved
<1>2. ToInsert \in SUBSET Item /\ scan.found \in SUBSET Item /\ top \in Level
  BY DEF IInv, TypeOK, ToInsert
<1>3. height \in Level BY <1>2, LevelAssumption DEF Level
<1>4. todo(drawn) \in SUBSET Task BY <1>2, <1>3 DEF Task
<1>5. upper(drawn, top2) \in SUBSET Item OBVIOUS
<1>6. layers \in LayerMap /\ LayersFit(layers) BY DEF IInv, TypeOK, LayerMap
<1>7. layers' \in LayerMap /\ LayersFit(layers') BY <1>1, <1>6, BelowFits
<1>8. eps' \in SUBSET Item BY <1>1, <1>2, <1>5
<1>9. tasks' \in SUBSET Task /\ top' \in Level BY <1>1, <1>4
<1>10. UNCHANGED <<client, stored, th, unpatched>> /\ phase' = "insert" /\ scan' = NoScan /\ phase = "scan"
  BY DEF Resolved
<1>11. NoScan \in [layer : Level, left : Nat, found : SUBSET Item]
  BY LevelAssumption DEF NoScan, Level
<1>12. unpatched' = {} BY <1>10 DEF IInv
<1>13. TypeOK' BY <1>7, <1>8, <1>9, <1>10, <1>11, <1>12
                  DEF IInv, TypeOK, client, stored, LayerMap
<1> QED BY <1>7, <1>10, <1>12, <1>13 DEF IInv, stored

\* Every insertion is done.
LEMMA InsertedKeeps == ASSUME IInv, Inserted PROVE IInv'
<1>1. UNCHANGED <<client, stored, eps, top, scan, layers, tasks, th>> /\ phase' = "patch"
  BY DEF Inserted
<1>2. unpatched' \in SUBSET StoredKeys' BY <1>1 DEF Inserted, stored, StoredKeys
<1>3. TypeOK' BY <1>1, <1>2 DEF IInv, TypeOK, client, stored
<1> QED BY <1>1, <1>2, <1>3 DEF IInv, stored

\* An old entry is patched.
LEMMA PatchKeeps == ASSUME IInv, Patch PROVE IInv'
<1>1. PICK k \in unpatched : /\ \E node \in Repaired(k) : layers' = [layers EXCEPT ![k] = node]
                             /\ unpatched' = unpatched \ {k}
  BY DEF Patch
<1>2. PICK node \in Repaired(k) : layers' = [layers EXCEPT ![k] = node] BY <1>1
<1>3. k \in StoredKeys /\ k \in LinkKey BY DEF IInv, StoredKeys
<1>4. layers \in LayerMap /\ LayersFit(layers) BY DEF IInv, TypeOK, LayerMap
<1>5. node \in Node /\ Fits(node, k[2]) BY <1>2, <1>3, <1>4, RepairedFits DEF IInv
<1>6. layers' \in LayerMap /\ LayersFit(layers') BY <1>2, <1>3, <1>4, <1>5, PutFits
<1>7. UNCHANGED <<client, stored, eps, top, phase, scan, tasks, th>> /\ phase = "patch"
  BY DEF Patch
<1>8. unpatched' \in SUBSET StoredKeys' BY <1>1, <1>7 DEF IInv, stored, StoredKeys
<1>9. TypeOK' BY <1>6, <1>7, <1>8 DEF IInv, TypeOK, client, stored, LayerMap
<1> QED BY <1>6, <1>7, <1>8, <1>9 DEF IInv, stored

\* No build remembers nothing.
LEMMA NoOldType ==
    /\ NoOld \in [links : LinksMap, eps : SUBSET Item, top : Level,
                  ins : SUBSET Item, del : SUBSET Item]
    /\ LinksFit(NoOld.links)
BY NoLayersFit, LevelAssumption DEF NoOld, Level

\* The links written are those of the maps, which fit.
LEMMA FinishKeeps == ASSUME IInv, Finish PROVE IInv'
<1>1. /\ UNCHANGED <<vectors, eps, top, scan, tasks, th, unpatched, builds>>
      /\ updated' = {} /\ phase' = "idle" /\ layers' = NoLayers /\ old' = NoOld
      /\ unpatched = {}
  BY DEF Finish
<1>2. \A k \in LinkKey :
        /\ links'[k] \in {Absent} \cup SUBSET Item
        /\ links'[k] # Absent => Cardinality(links'[k]) <= Cap(k[2])
  <2> TAKE k \in LinkKey
  <2>1. \/ links'[k] = Absent
        \/ layers[k] # Absent /\ links'[k] = layers[k].links
        \/ links'[k] = links[k]
    BY DEF Finish
  <2>2. CASE links'[k] = Absent BY <2>2
  <2>3. CASE layers[k] # Absent /\ links'[k] = layers[k].links
    <3>1. layers[k] \in Node BY <2>3, EntryIsNode DEF IInv, TypeOK, LayerMap
    <3>2. layers[k].links \in SUBSET Item /\ layers[k].len \in Nat BY <3>1 DEF Node
    <3>3. Cardinality(layers[k].links) \in Nat BY <3>2, ItemSets
    <3>4. Cap(k[2]) \in Nat BY DegreeAssumption DEF Cap
    <3>5. Cardinality(layers[k].links) <= layers[k].len /\ layers[k].len <= Cap(k[2])
      BY <2>3 DEF IInv, LayersFit, Fits
    <3> QED BY <2>3, <3>2, <3>3, <3>4, <3>5
  <2>4. CASE links'[k] = links[k] BY <2>4 DEF IInv, TypeOK, LinksMap, LinksFit
  <2> QED BY <2>1, <2>2, <2>3, <2>4
<1>3. links' \in LinksMap BY <1>2 DEF Finish, LinksMap
<1>4. LinksFit(links') BY <1>2 DEF LinksFit
<1>5. unpatched' \in SUBSET StoredKeys' BY <1>1
<1>6. TypeOK' BY <1>1, <1>3, <1>5, NoLayersFit, NoOldType DEF IInv, TypeOK, LayerMap
<1> QED BY <1>1, <1>4, <1>5, <1>6, NoLayersFit, NoOldType DEF IInv

\* The abort brings back what was stored, which fits.
LEMMA CancelKeeps == ASSUME IInv, Cancel PROVE IInv'
<1>1. /\ UNCHANGED <<client, builds>> /\ links' = old.links /\ eps' = old.eps /\ top' = old.top
      /\ phase' = "idle" /\ scan' = NoScan /\ layers' = NoLayers /\ tasks' = {}
      /\ th' = [t \in Thread |-> Resting] /\ unpatched' = {} /\ old' = NoOld
  BY DEF Cancel
<1>2. Resting \in ThreadState /\ Busy(Resting)
  BY LevelAssumption DEF Resting, ThreadState, Pc, Busy, Level
<1>3. NoScan \in [layer : Level, left : Nat, found : SUBSET Item]
  BY LevelAssumption DEF NoScan, Level
<1>4. unpatched' \in SUBSET StoredKeys' BY <1>1
<1>5. TypeOK' BY <1>1, <1>2, <1>3, <1>4, NoLayersFit, NoOldType
                 DEF IInv, TypeOK, client, LayerMap
<1>6. \A t \in Thread : Busy(th'[t]) BY <1>1, <1>2
<1> QED BY <1>1, <1>4, <1>5, <1>6, NoLayersFit, NoOldType DEF IInv

-----------------------------------------------------------------------------
(* The theorems. *)

\* The index starts empty.
LEMMA InitKeeps == Init => IInv
<1> SUFFICES ASSUME Init PROVE IInv OBVIOUS
<1>1. Resting \in ThreadState /\ Busy(Resting)
  BY LevelAssumption DEF Resting, ThreadState, Pc, Busy, Level
<1>2. NoScan \in [layer : Level, left : Nat, found : SUBSET Item]
  BY LevelAssumption DEF NoScan, Level
<1>3. 0 \in Level /\ 0 \in 0 .. MaxBuilds BY LevelAssumption, BuildsAssumption DEF Level
<1>4. unpatched \in SUBSET StoredKeys BY DEF Init
<1>5. TypeOK BY <1>1, <1>2, <1>3, <1>4, NoLayersFit, NoOldType DEF Init, TypeOK, LayerMap
<1>6. \A t \in Thread : Busy(th[t]) BY <1>1 DEF Init
<1> QED BY <1>4, <1>5, <1>6, NoLayersFit, NoOldType DEF Init, IInv

\* Every step keeps the inductive invariant.
LEMMA NextKeeps == ASSUME IInv, [Next]_vars PROVE IInv'
<1>1. CASE UNCHANGED vars
  BY <1>1 DEF vars, IInv, TypeOK, StoredKeys
<1>2. CASE \E i \in Item : AddItem(i) \/ DelItem(i) BY <1>2, ClientKeeps
<1>3. CASE StartBuild \/ StartRebuild BY <1>3, StartKeeps
<1>4. CASE ScanLayer BY <1>4, ScanKeeps
<1>5. CASE Resolved BY <1>5, ResolvedKeeps
<1>6. ASSUME NEW t \in Thread, ThreadStep(t) PROVE IInv'
  BY <1>6, TakeKeeps, EnterKeeps, ExpandKeeps, LazyInsertKeeps, DescendKeeps, SelectKeeps,
     LinkForthKeeps, LinkBackKeeps, NextLevelKeeps DEF ThreadStep
<1>7. CASE Inserted BY <1>7, InsertedKeeps
<1>8. CASE Patch BY <1>8, PatchKeeps
<1>9. CASE Finish BY <1>9, FinishKeeps
<1>10. CASE Cancel BY <1>10, CancelKeeps
<1> QED BY <1>1, <1>2, <1>3, <1>4, <1>5, <1>6, <1>7, <1>8, <1>9, <1>10 DEF Next

\* The inductive invariant holds throughout.
THEOREM Invariance == Spec => []IInv
<1>1. IInv /\ [Next]_vars => IInv' BY NextKeeps
<1> QED BY InitKeeps, <1>1, PTL DEF Spec

\* Every field of the builder and every local of its methods keeps its type: in particular
\* no level leaves its range and every entry a thread touches is an item's.
THEOREM TypeCorrect == Spec => []TypeOK
<1>1. IInv => TypeOK BY DEF IInv
<1> QED BY Invariance, <1>1, PTL

\* The degree bound holds for every M, M0, distance function, number of threads and of
\* builds: no interleaving of insertions and no repair overflows the array of links.
THEOREM DegreesBounded == Spec => []DegreeBound
<1>1. IInv => DegreeBound BY DEF IInv, DegreeBound, LayersFit, LinksFit, Fits
<1> QED BY Invariance, <1>1, PTL
=============================================================================
