--------------------------- MODULE HnswGraphProofs ---------------------------
(***************************************************************************)
(* What HnswBuild guarantees of the graph, for every set of items,         *)
(* distances, degrees, threads and number of builds: no build, finished or *)
(* aborted, leaves anything behind but a graph a reader can walk, of       *)
(* exactly the items stored; no build ever asks for an item that is        *)
(* deleted; and what it writes is what HannoyIndex takes it to write.      *)
(***************************************************************************)
EXTENDS HnswBuildProofs, OrderLemmas

-----------------------------------------------------------------------------
(* The inductive invariant. *)

\* The keys a map or the database has entries for.
Keyed(map) == {k \in LinkKey : map[k] # Absent}

Nested(keys) == \A k \in keys : \A l \in 0 .. k[2] : <<k[1], l>> \in keys

\* A graph that can be walked from its entry points; the index is empty without them.
Stands(ls, points, height) ==
    /\ Nested(Keyed(ls))
    /\ \A k \in Keyed(ls) : \A j \in ls[k] : <<j, k[2]>> \in Keyed(ls)
    /\ Covers(Keyed(ls), points, height)
    /\ points = {} => Keyed(ls) = {} /\ height = 0

\* The items of a graph and of the database differ at most in what is marked.
Marked(ls, items, marks) == Ids(Keyed(ls)) \ marks = items \ marks

\* Where an item is, or will be once the maps are written.
Places(items, map, ls) ==
    {k \in LinkKey : k[1] \in items /\ (map[k] # Absent \/ ls[k] # Absent)}

\* The entries of a map are of such places and lead to such places.
Leads(map, places) ==
    \A k \in Keyed(map) : k \in places /\ \A j \in map[k].links : <<j, k[2]>> \in places

\* A thread at work has found something, all of it on the level it is on; from its item's
\* level on that item has an entry on every level.
Works(s, places, keys, items) ==
    s.pc # "rest" =>
        /\ s.item \in items /\ s.res # {} /\ s.visited \subseteq items
        /\ \A i \in s.res \cup s.cand : <<i, s.at>> \in places
        /\ s.pc \in {"lazy", "back"} => <<s.node, s.at>> \in places
        /\ s.at > s.level => s.pc \in {"walk", "lazy"}
        /\ s.pc = "enter" => s.at = s.level
        /\ s.at <= s.level /\ s.pc # "enter" => \A l \in 0 .. s.level : <<s.item, l>> \in keys

Here == Places(vectors, layers, links)

\* Between builds.
Idle == phase = "idle" =>
    /\ Stands(links, eps, top) /\ Marked(links, vectors, updated)
    /\ layers = NoLayers

\* A build remembers the graph it found, which stood; it reads that one or, when it starts
\* all over again, none.
Remembers == phase # "idle" =>
    /\ Stands(old.links, old.eps, old.top) /\ Marked(old.links, vectors, updated)
    /\ ToDelete = updated \ vectors
    /\ \/ links = old.links /\ ToInsert = updated \cap vectors
       \/ links = NoLayers /\ ToInsert = vectors

\* Only insertions have tasks and threads at work.
Quiet == phase # "insert" => tasks = {} /\ \A t \in Thread : th[t].pc = "rest"

\* The search for substitutes finds items that stay; it ends with nothing only when no
\* entry point was deleted or every item with links was.
Substituting == phase = "scan" =>
    /\ eps = old.eps /\ top = old.top /\ layers = NoLayers
    /\ old.eps \ ToDelete \subseteq scan.found /\ scan.found \subseteq vectors
    /\ \/ scan.found # {}
       \/ scan.left = Cardinality(old.eps \cap ToDelete)
       \/ \A k \in StoredKeys : k[1] \in ToDelete

\* The entry points have entries from the top to the ground, and the maps lead nowhere
\* where nothing will be.
Grows == phase \in {"insert", "patch"} =>
    /\ Covers(Keyed(layers), eps, top)
    /\ eps = {} => vectors = {} /\ top = 0
    /\ Leads(layers, Here) /\ Nested(Here)

\* The height falls only when an entry point was deleted, and a new height is that of an
\* inserted item.
Heights == phase \in {"insert", "patch"} =>
    /\ top < old.top => /\ old.eps \cap ToDelete # {}
                        /\ top = 0 \/ \E i \in ToInsert : <<i, top>> \in Keyed(layers)
    /\ top > old.top => \E i \in ToInsert : <<i, top>> \in Keyed(layers)

\* No insertion is forgotten.
Inserting == phase = "insert" =>
    /\ \A task \in tasks : task[1] \in vectors /\ task[2] <= top
    /\ \A t \in Thread : Works(th[t], Here, Keyed(layers), vectors)
    /\ \A i \in ToInsert : \/ \E task \in tasks : task[1] = i
                           \/ \E t \in Thread : th[t].pc # "rest" /\ th[t].item = i
                           \/ <<i, 0>> \in Keyed(layers)

\* Nor is the entry of an item that stays.
Patching == phase = "patch" =>
    /\ \A i \in ToInsert : <<i, 0>> \in Keyed(layers)
    /\ \A k \in StoredKeys : k[1] \notin ToDelete => k \in Keyed(layers) \cup unpatched
    /\ \A k \in unpatched : k[1] \notin ToDelete

Graph == /\ Idle /\ Remembers /\ Quiet /\ Substituting
         /\ Grows /\ Heights /\ Inserting /\ Patching

-----------------------------------------------------------------------------
(* What is found is not nothing. *)

\* The order of scored links as a set of pairs.
Closer(q) == {p \in Item \X Item : Nearer(q, p[1], p[2])}

\* It orders any set of items, and something in it comes first.
LEMMA NearestExists ==
    ASSUME NEW q \in Item, NEW S \in SUBSET Item, S # {}
    PROVE  \E i \in S : \A j \in S : ~Nearer(q, j, i)
<1>1. \A i, j \in Item : <<i, j>> \in Closer(q) <=> Nearer(q, i, j) BY DEF Closer
<1>2. Orders(Closer(q), S)
  <2>1. \A x \in S : <<x, x>> \notin Closer(q) BY <1>1, NearerOrders
  <2>2. \A x, y, z \in S : <<x, y>> \in Closer(q) /\ <<y, z>> \in Closer(q) => <<x, z>> \in Closer(q)
    BY <1>1, NearerOrders
  <2> QED BY <2>1, <2>2 DEF Orders
<1>3. IsFiniteSet(S) BY ItemSets
<1>4. PICK i \in S : \A j \in S : <<j, i>> \notin Closer(q) BY <1>2, <1>3, SomethingFirst
<1> QED BY <1>1, <1>4

\* The nearest of some points are some points.
LEMMA NearestFound ==
    ASSUME NEW q \in Item, NEW S \in SUBSET Item, S # {}, NEW n \in Nat \ {0}
    PROVE  Nearest(q, S, n) # {}
<1>1. PICK i \in S : \A j \in S : ~Nearer(q, j, i) BY NearestExists
<1>2. {j \in S : Nearer(q, j, i)} = {} BY <1>1
<1>3. Cardinality({j \in S : Nearer(q, j, i)}) < n BY <1>2, FS_EmptySet
<1> QED BY <1>3 DEF Nearest

\* robust_prune selects at least the nearest point.
LEMMA PrunedFound ==
    ASSUME NEW q \in Item, NEW S \in SUBSET Item, S # {}, NEW cap \in Nat \ {0},
           NEW T \in Pruned(q, S, cap)
    PROVE  T # {}
<1>1. PICK c \in S : \A j \in S : ~Nearer(q, j, c) BY NearestExists
<1>2. T \in SUBSET S /\ IsPruned(T, q, S, cap) BY DEF Pruned
<1>3. {i \in T : Nearer(q, i, c)} = {} BY <1>1, <1>2
<1> DEFINE before == {i \in T : Nearer(q, i, c)}
<1>4. c \in T <=> /\ Cardinality(before) < cap
                  /\ \A i \in before : Dist[<<c, i>>] * Alpha >= Dist[<<q, c>>]
  BY <1>2 DEF IsPruned
<1>5. Cardinality(before) < cap BY <1>3, FS_EmptySet
<1>6. \A i \in before : Dist[<<c, i>>] * Alpha >= Dist[<<q, c>>] BY <1>3
<1> QED BY <1>4, <1>5, <1>6

\* What a walk finds, it found, saw or is told, and it keeps something.
LEMMA WalkedFinds ==
    ASSUME NEW s \in ThreadState, s.item \in Item, s.res # {}, NEW new \in SUBSET Item,
           NEW s2 \in Walked(s, new)
    PROVE  /\ s2.res # {} /\ s2.res \subseteq s.res \cup new /\ s2.cand \subseteq s.cand \cup new
           /\ s2.visited = s.visited \cup new
           /\ s2.item = s.item /\ s2.level = s.level /\ s2.at = s.at
<1> DEFINE near == {i \in new : \E r \in s.res : Dist[<<s.item, i>>] < Dist[<<s.item, r>>]}
           found(F) == s.res \cup near \cup F
           small == Cardinality(s.res) > Width(s)
<1>1. PICK F \in SUBSET (new \ near) :
        s2 = [s EXCEPT !.cand = @ \cup near \cup F, !.visited = @ \cup new,
                       !.res = IF small THEN found(F)
                               ELSE Nearest(s.item, found(F), Width(s))]
  BY DEF Walked
<1>2. s.cand \in SUBSET Item /\ s.visited \in SUBSET Item /\ s.res \in SUBSET Item
  BY DEF ThreadState
<1>3. found(F) \in SUBSET Item /\ found(F) # {} BY <1>2
<1>4. Width(s) \in Nat \ {0} BY EfAssumption DEF Width
<1>5. Nearest(s.item, found(F), Width(s)) \in SUBSET found(F) BY <1>3, NearestSubset
<1>6. Nearest(s.item, found(F), Width(s)) # {} BY <1>3, <1>4, NearestFound
<1> DEFINE res2 == IF small THEN found(F) ELSE Nearest(s.item, found(F), Width(s))
           cand2 == s.cand \cup near \cup F
           visited2 == s.visited \cup new
<1>7. /\ res2 # {} /\ res2 \subseteq s.res \cup new /\ cand2 \subseteq s.cand \cup new
      /\ visited2 = s.visited \cup new
  BY <1>3, <1>5, <1>6
<1>8. s2 = [s EXCEPT !.cand = cand2, !.visited = visited2, !.res = res2] BY <1>1
<1> HIDE DEF res2, cand2, visited2
<1> QED BY <1>7, <1>8 DEF ThreadState

-----------------------------------------------------------------------------
(* Maps and places. *)

\* KeyFacts are pairs, and levels go down to the ground.
LEMMA KeyFacts ==
    /\ \A k \in LinkKey : k[1] \in Item /\ k[2] \in Level /\ k = <<k[1], k[2]>>
    /\ \A i \in Item, l \in Level : <<i, l>> \in LinkKey
    /\ \A l \in Level : l \in Nat /\ 0 .. l \subseteq Level
    /\ 0 \in Level
BY LevelAssumption DEF LinkKey, Level

\* A node is an entry.
LEMMA NodesThere == \A node \in Node : node # Absent
BY AbsentAssumption DEF Node

\* An entry put where something will be, leading where something will be.
LEMMA PutLeads ==
    ASSUME NEW map \in LayerMap, NEW items, NEW ls, NEW k \in LinkKey, NEW node \in Node,
           k \in Places(items, map, ls), Leads(map, Places(items, map, ls)),
           \A j \in node.links : <<j, k[2]>> \in Places(items, map, ls)
    PROVE  LET map2 == [map EXCEPT ![k] = node]
           IN  /\ Keyed(map2) = Keyed(map) \cup {k}
               /\ Places(items, map2, ls) = Places(items, map, ls)
               /\ Leads(map2, Places(items, map2, ls))
<1> DEFINE map2 == [map EXCEPT ![k] = node]
           P == Places(items, map, ls)
<1>1. map2[k] = node /\ \A o \in LinkKey : o # k => map2[o] = map[o] BY DEF LayerMap
<1>2. node # Absent BY NodesThere
<1> HIDE DEF map2
<1>3. Keyed(map2) = Keyed(map) \cup {k} BY <1>1, <1>2 DEF Keyed
<1>4. Places(items, map2, ls) = P BY <1>1, <1>2 DEF Places
<1>5. ASSUME NEW o \in Keyed(map2)
      PROVE  o \in P /\ \A j \in map2[o].links : <<j, o[2]>> \in P
  <2>1. CASE o = k BY <2>1, <1>1
  <2>2. CASE o # k
    <3>1. o \in Keyed(map) /\ map2[o] = map[o] BY <2>2, <1>1, <1>3 DEF Keyed
    <3> QED BY <3>1 DEF Leads
  <2> QED BY <2>1, <2>2
<1>6. Leads(map2, Places(items, map2, ls)) BY <1>4, <1>5 DEF Leads
<1> QED BY <1>3, <1>4, <1>6 DEF map2

\* add_in_layers_below gives items entries from a level down to the ground.
LEMMA BelowLeads ==
    ASSUME NEW map \in LayerMap, NEW items, NEW ls, NEW some \in SUBSET Item,
           some \subseteq items, NEW l \in Level,
           Leads(map, Places(items, map, ls)), Nested(Places(items, map, ls))
    PROVE  LET map2 == InLayersBelow(map, some, l)
           IN  /\ Keyed(map) \subseteq Keyed(map2)
               /\ \A i \in some : \A m \in 0 .. l : <<i, m>> \in Keyed(map2)
               /\ Places(items, map, ls) \subseteq Places(items, map2, ls)
               /\ Leads(map2, Places(items, map2, ls))
               /\ Nested(Places(items, map2, ls))
<1> DEFINE map2 == InLayersBelow(map, some, l)
           P == Places(items, map, ls)
           P2 == Places(items, map2, ls)
           put == {k \in LinkKey : k[1] \in some /\ k[2] <= l}
<1>1. \A k \in LinkKey : map2[k] = IF k \in put /\ map[k] = Absent THEN EmptyNode ELSE map[k]
  BY DEF InLayersBelow
<1>2. EmptyNode # Absent BY KeyFacts, EmptyNodeFits, NodesThere
<1> HIDE DEF map2, put
<1>3. Keyed(map2) = Keyed(map) \cup put BY <1>1, <1>2 DEF Keyed, put
<1>4. P2 = P \cup put BY <1>1, <1>2 DEF Places, put
<1>5. ASSUME NEW i \in some, NEW m \in 0 .. l PROVE <<i, m>> \in put
  <2>1. m \in Level /\ m <= l BY KeyFacts
  <2>2. <<i, m>> \in LinkKey /\ <<i, m>>[1] = i /\ <<i, m>>[2] = m BY <2>1, KeyFacts
  <2> QED BY <2>1, <2>2 DEF put
<1>6. Leads(map2, P2)
  <2> SUFFICES ASSUME NEW k \in Keyed(map2)
               PROVE  k \in P2 /\ \A j \in map2[k].links : <<j, k[2]>> \in P2
    BY DEF Leads
  <2>1. CASE map[k] = Absent
    <3>1. k \in put /\ map2[k] = EmptyNode BY <2>1, <1>1, <1>3 DEF Keyed
    <3>2. EmptyNode.links = {} BY DEF EmptyNode
    <3> QED BY <3>1, <3>2, <1>4
  <2>2. CASE map[k] # Absent
    <3>1. k \in Keyed(map) /\ map2[k] = map[k] BY <2>2, <1>1 DEF Keyed
    <3> QED BY <3>1, <1>4 DEF Leads
  <2> QED BY <2>1, <2>2
<1>7. Nested(P2)
  <2> SUFFICES ASSUME NEW k \in P2, NEW m \in 0 .. k[2] PROVE <<k[1], m>> \in P2
    BY DEF Nested
  <2>1. CASE k \in P BY <2>1, <1>4 DEF Nested
  <2>2. CASE k \in put
    <3>1. k[1] \in some /\ k[2] <= l /\ k[2] \in Nat BY <2>2, KeyFacts DEF put
    <3>2. m \in 0 .. l BY <3>1, KeyFacts
    <3> QED BY <3>1, <3>2, <1>4, <1>5
  <2> QED BY <2>1, <2>2, <1>4
<1> QED BY <1>3, <1>4, <1>5, <1>6, <1>7 DEF map2

\* A thread still works when there are more places and more entries.
LEMMA WorksOn ==
    ASSUME NEW s, NEW places, NEW places2, NEW keys, NEW keys2, NEW items,
           Works(s, places, keys, items), places \subseteq places2, keys \subseteq keys2
    PROVE  Works(s, places2, keys2, items)
BY DEF Works

\* add_link takes over links of the entry and the new one, no others.
LEMMA LinkedLinks ==
    ASSUME NEW map \in LayerMap, NEW p \in Item, NEW q \in Item, NEW l \in Level,
           NEW node \in Linked(map, p, q, l)
    PROVE  \A j \in node.links : j = q \/ (map[<<p, l>>] # Absent /\ j \in map[<<p, l>>].links)
<1> DEFINE own == map[<<p, l>>]
<1>1. CASE own = Absent
  <2>1. node = [links |-> {q}, len |-> 1] BY <1>1 DEF Linked
  <2> QED BY <2>1
<1>2. CASE own # Absent /\ own.len < Cap(l)
  <2>1. node = [links |-> own.links \cup {q}, len |-> own.len + 1] BY <1>2 DEF Linked
  <2> QED BY <2>1, <1>2
<1>3. CASE own # Absent /\ ~(own.len < Cap(l))
  <2>1. node \in PrunedNodes(p, own.links, Cap(l)) BY <1>3 DEF Linked
  <2>2. node.links \subseteq own.links BY <2>1 DEF PrunedNodes, Pruned
  <2> QED BY <2>2, <1>3
<1> QED BY <1>1, <1>2, <1>3

-----------------------------------------------------------------------------
(* The graph a build reads. *)

\* What a build inserts, drops and leaves alone.
LEMMA BuildReads ==
    ASSUME IInv, Remembers, phase # "idle"
    PROVE  /\ StoredKeys = Keyed(links) /\ StoredKeys \subseteq LinkKey
           /\ ToInsert \subseteq vectors /\ ToDelete \cap vectors = {}
           /\ \A k \in StoredKeys : k[1] \in vectors \/ k[1] \in ToDelete
           /\ \A i \in vectors : i \in ToInsert \/ i \in Ids(StoredKeys)
           /\ Nested(StoredKeys)
           /\ \A k \in StoredKeys : \A j \in links[k] : <<j, k[2]>> \in StoredKeys
           /\ old.eps \ ToDelete \subseteq vectors
           /\ StoredKeys # {} => old.links = links
<1>1. StoredKeys = Keyed(links) BY DEF StoredKeys, Keyed
<1>2. Ids(Keyed(old.links)) \ updated = vectors \ updated BY DEF Remembers, Marked
<1>3. ToDelete = updated \ vectors BY DEF Remembers
<1>4. old.eps \ ToDelete \subseteq vectors
  <2> SUFFICES ASSUME NEW e \in old.eps, e \notin ToDelete PROVE e \in vectors
    OBVIOUS
  <2>1. old.top \in Level /\ 0 \in 0 .. old.top BY KeyFacts DEF IInv, TypeOK
  <2>2. <<e, 0>> \in Keyed(old.links) BY <2>1 DEF Remembers, Stands, Covers
  <2>3. e \in Ids(Keyed(old.links)) BY <2>2 DEF Ids
  <2> QED BY <2>3, <1>2, <1>3
<1>5. CASE links = old.links /\ ToInsert = updated \cap vectors
  <2>1. Nested(Keyed(links)) /\ \A k \in Keyed(links) : \A j \in links[k] : <<j, k[2]>> \in Keyed(links)
    BY <1>5 DEF Remembers, Stands
  <2>2. Ids(Keyed(links)) \ updated = vectors \ updated BY <1>2, <1>5
  <2>3. \A k \in Keyed(links) : k[1] \in Ids(Keyed(links)) BY DEF Ids
  <2>4. \A k \in Keyed(links) : k[1] \in vectors \/ k[1] \in ToDelete BY <2>2, <2>3, <1>3
  <2>5. \A i \in vectors : i \in ToInsert \/ i \in Ids(Keyed(links)) BY <2>2, <1>5
  <2>6. ToInsert \subseteq vectors /\ ToDelete \cap vectors = {} BY <1>3, <1>5
  <2>7. Keyed(links) \subseteq LinkKey BY DEF Keyed
  <2> QED BY <2>1, <2>4, <2>5, <2>6, <2>7, <1>1, <1>4, <1>5
<1>6. CASE links = NoLayers /\ ToInsert = vectors
  <2>1. Keyed(links) = {} BY <1>6 DEF Keyed, NoLayers
  <2>2. ToInsert \subseteq vectors /\ ToDelete \cap vectors = {} BY <1>3, <1>6
  <2>3. Nested(Keyed(links)) BY <2>1 DEF Nested
  <2> QED BY <2>1, <2>2, <2>3, <1>1, <1>4, <1>6
<1> QED BY <1>5, <1>6 DEF Remembers

\* Where something will be is where there is an entry or a stored one that stays.
LEMMA PlaceFacts ==
    ASSUME IInv
    PROVE  /\ Here \subseteq LinkKey /\ \A k \in Here : k[1] \in vectors
           /\ \A k \in LinkKey :
                k \in Here <=> k[1] \in vectors /\ (k \in Keyed(layers) \/ k \in StoredKeys)
           /\ \A i, l : <<i, l>> \in Here => i \in vectors /\ i \in Item /\ l \in Level
           /\ Keyed(layers) \subseteq LinkKey
BY KeyFacts DEF Here, Places, Keyed, StoredKeys

-----------------------------------------------------------------------------
(* The threads. *)

\* Only insertions have threads at work.
LEMMA AtWork ==
    ASSUME Graph, NEW t \in Thread, th[t].pc # "rest"
    PROVE  /\ phase = "insert" /\ Works(th[t], Here, Keyed(layers), vectors)
           /\ Leads(layers, Here) /\ Nested(Here) /\ Covers(Keyed(layers), eps, top)
BY DEF Graph, Quiet, Inserting, Grows

\* A step of a thread that adds entries only where something will be, and works on.
LEMMA ThreadKeeps ==
    ASSUME IInv, Graph, NEW t \in Thread, NEW s, th' = [th EXCEPT ![t] = s],
           phase = "insert", Works(s, Here', Keyed(layers'), vectors),
           Keyed(layers) \subseteq Keyed(layers'), Here \subseteq Here',
           Leads(layers', Here'), Nested(Here'),
           tasks' \in SUBSET tasks,
           \A task \in tasks \ tasks' : s.pc # "rest" /\ s.item = task[1],
           \/ th[t].pc = "rest"
           \/ s.pc # "rest" /\ s.item = th[t].item
           \/ <<th[t].item, 0>> \in Keyed(layers'),
           UNCHANGED <<client, stored, eps, top, phase, scan, unpatched>>
    PROVE  Graph'
<1>1. /\ vectors' = vectors /\ updated' = updated /\ links' = links /\ old' = old
      /\ eps' = eps /\ top' = top /\ phase' = "insert" /\ scan' = scan
  BY DEF client, stored
<1>2. ToInsert' = ToInsert /\ ToDelete' = ToDelete BY <1>1 DEF ToInsert, ToDelete
<1>3. th'[t] = s /\ \A u \in Thread : u # t => th'[u] = th[u] BY DEF IInv, TypeOK
<1>4. Idle' /\ Quiet' /\ Substituting' /\ Patching'
  BY <1>1 DEF Idle, Quiet, Substituting, Patching
<1>5. Remembers' BY <1>1, <1>2 DEF Graph, Remembers
<1>6. Covers(Keyed(layers'), eps, top) BY DEF Graph, Grows, Covers
<1>7. Grows' BY <1>1, <1>6 DEF Graph, Grows
<1>8. Heights' BY <1>1, <1>2 DEF Graph, Heights
<1>9. \A task \in tasks' : task[1] \in vectors /\ task[2] <= top BY DEF Graph, Inserting
<1>10. ASSUME NEW u \in Thread PROVE Works(th'[u], Here', Keyed(layers'), vectors)
  <2>1. CASE u = t BY <2>1, <1>3
  <2>2. CASE u # t
    <3>1. th'[u] = th[u] /\ Works(th[u], Here, Keyed(layers), vectors)
      BY <2>2, <1>3 DEF Graph, Inserting
    <3> QED BY <3>1, WorksOn
  <2> QED BY <2>1, <2>2
<1>11. ASSUME NEW i \in ToInsert
       PROVE  \/ \E task \in tasks' : task[1] = i
              \/ \E u \in Thread : th'[u].pc # "rest" /\ th'[u].item = i
              \/ <<i, 0>> \in Keyed(layers')
  <2>1. CASE \E task \in tasks : task[1] = i
    <3>1. PICK task \in tasks : task[1] = i BY <2>1
    <3>2. CASE task \in tasks' BY <3>1, <3>2
    <3>3. CASE task \notin tasks' BY <3>1, <3>3, <1>3
    <3> QED BY <3>2, <3>3
  <2>2. CASE \E u \in Thread : th[u].pc # "rest" /\ th[u].item = i
    <3>1. PICK u \in Thread : th[u].pc # "rest" /\ th[u].item = i BY <2>2
    <3>2. CASE u = t BY <3>1, <3>2, <1>3
    <3>3. CASE u # t BY <3>1, <3>3, <1>3
    <3> QED BY <3>2, <3>3
  <2>3. CASE <<i, 0>> \in Keyed(layers) BY <2>3
  <2> QED BY <2>1, <2>2, <2>3 DEF Graph, Inserting
<1>12. Inserting' BY <1>1, <1>2, <1>9, <1>10, <1>11 DEF Inserting
<1> QED BY <1>4, <1>5, <1>7, <1>8, <1>12 DEF Graph

\* A step that leaves the maps and the tasks alone leaves the places alone.
LEMMA ThreadKeepsOwn ==
    ASSUME IInv, Graph, NEW t \in Thread, NEW s, th' = [th EXCEPT ![t] = s],
           phase = "insert", Works(s, Here, Keyed(layers), vectors),
           \/ s.pc # "rest" /\ s.item = th[t].item
           \/ <<th[t].item, 0>> \in Keyed(layers),
           UNCHANGED <<client, stored, eps, top, phase, scan, layers, tasks, unpatched>>
    PROVE  Graph'
<1>1. layers' = layers /\ Here' = Here /\ tasks' = tasks BY DEF client, stored, Here
<1>2. Leads(layers, Here) /\ Nested(Here) BY DEF Graph, Grows
<1>3. UNCHANGED <<client, stored, eps, top, phase, scan, unpatched>> OBVIOUS
<1>4. \A task \in tasks \ tasks' : s.pc # "rest" /\ s.item = task[1] BY <1>1
<1> QED BY <1>1, <1>2, <1>3, <1>4, ThreadKeeps

\* A task is taken: the walk starts from the entry points, which stand on the top level.
LEMMA TakeGraph == ASSUME IInv, Graph, NEW t \in Thread, Take(t) PROVE Graph'
<1>1. PICK task \in tasks :
        /\ tasks' = tasks \ {task}
        /\ th' = [th EXCEPT ![t] =
             Seeded([Resting EXCEPT !.pc = IF task[2] < top THEN "walk" ELSE "enter",
                                    !.item = task[1], !.level = task[2], !.at = top], eps)]
  BY DEF Take
<1> DEFINE pc == IF task[2] < top THEN "walk" ELSE "enter"
           s == Seeded([Resting EXCEPT !.pc = pc, !.item = task[1], !.level = task[2], !.at = top],
                       eps)
<1>2. /\ phase = "insert" /\ th[t].pc = "rest"
      /\ UNCHANGED <<client, stored, eps, top, phase, scan, layers, unpatched>>
  BY DEF Take
<1>3. /\ s.pc = pc /\ s.item = task[1] /\ s.level = task[2] /\ s.at = top
      /\ s.cand = eps /\ s.res = eps /\ s.visited = eps
  BY DEF Seeded, Resting
<1>4. task[1] \in vectors /\ task[2] <= top /\ task[2] \in Level /\ top \in Level
  BY <1>2 DEF IInv, TypeOK, Task, Graph, Inserting
<1>5. task[2] \in Nat /\ top \in Nat BY <1>4, KeyFacts
<1>6. eps # {} BY <1>2, <1>4 DEF Graph, Grows
<1>7. \A i \in eps : <<i, top>> \in Here BY <1>2, <1>5 DEF Graph, Grows, Covers, Leads
<1>8. eps \subseteq vectors BY <1>7, PlaceFacts
<1>9. pc \in {"walk", "enter"} /\ (top > task[2] => pc = "walk")
      /\ (pc = "enter" => top = task[2]) /\ (top <= task[2] => pc = "enter")
  BY <1>4, <1>5
<1>10. th' = [th EXCEPT ![t] = s] BY <1>1
<1> HIDE DEF s, pc
<1>11. Works(s, Here, Keyed(layers), vectors) BY <1>3, <1>4, <1>6, <1>7, <1>8, <1>9 DEF Works
<1>12. layers' = layers /\ Here' = Here BY <1>2 DEF client, stored, Here
<1>13. Leads(layers, Here) /\ Nested(Here) BY <1>2 DEF Graph, Grows
<1>14. \A o \in tasks \ tasks' : s.pc # "rest" /\ s.item = o[1] BY <1>1, <1>3, <1>9
<1>15. tasks' \in SUBSET tasks BY <1>1
<1> QED BY <1>2, <1>10, <1>11, <1>12, <1>13, <1>14, <1>15, ThreadKeeps

\* The item gets its entries.
LEMMA EnterGraph == ASSUME IInv, Graph, NEW t \in Thread, Enter(t) PROVE Graph'
<1> DEFINE s == [th[t] EXCEPT !.pc = "walk"]
<1>1. /\ th[t] \in ThreadState /\ th[t].pc = "enter" /\ th' = [th EXCEPT ![t] = s]
      /\ layers' = InLayersBelow(layers, {th[t].item}, th[t].level)
      /\ UNCHANGED <<client, stored, eps, top, phase, scan, tasks, unpatched>>
  BY DEF IInv, TypeOK, Enter
<1>2. /\ phase = "insert" /\ Works(th[t], Here, Keyed(layers), vectors)
      /\ Leads(layers, Here) /\ Nested(Here)
  BY <1>1, AtWork
<1>3. th[t].item \in vectors /\ th[t].level \in Level /\ layers \in LayerMap
  BY <1>1, <1>2 DEF Works, ThreadState, IInv, TypeOK, LayerMap
<1>4. {th[t].item} \in SUBSET Item /\ {th[t].item} \subseteq vectors BY <1>3 DEF IInv, TypeOK
<1>5. Here' = Places(vectors, layers', links) BY <1>1 DEF Here, client, stored
<1>6. /\ Keyed(layers) \subseteq Keyed(layers') /\ Here \subseteq Here'
      /\ \A l \in 0 .. th[t].level : <<th[t].item, l>> \in Keyed(layers')
      /\ Leads(layers', Here') /\ Nested(Here')
  BY <1>1, <1>2, <1>3, <1>4, <1>5, BelowLeads DEF Here
<1>7. /\ s.pc = "walk" /\ s.item = th[t].item /\ s.level = th[t].level /\ s.at = th[t].at
      /\ s.cand = th[t].cand /\ s.res = th[t].res /\ s.visited = th[t].visited
  BY <1>1 DEF ThreadState
<1>8. Works(s, Here', Keyed(layers'), vectors)
  <2> HIDE DEF s
  <2>1. th[t].at = th[t].level /\ th[t].at \in Nat BY <1>1, <1>2, <1>3, KeyFacts DEF Works
  <2>2. /\ s.item \in vectors /\ s.res # {} /\ s.visited \subseteq vectors
        /\ \A i \in s.res \cup s.cand : <<i, s.at>> \in Here'
    BY <1>1, <1>2, <1>6, <1>7 DEF Works
  <2>3. \A l \in 0 .. s.level : <<s.item, l>> \in Keyed(layers') BY <1>6, <1>7
  <2> QED BY <2>1, <2>2, <2>3, <1>7 DEF Works
<1> HIDE DEF s
<1>9. \A task \in tasks \ tasks' : s.pc # "rest" /\ s.item = task[1] BY <1>1
<1> QED BY <1>1, <1>2, <1>6, <1>7, <1>8, <1>9, ThreadKeeps

\* A candidate is expanded: what it leads to has links on the level.
LEMMA ExpandGraph == ASSUME IInv, Graph, NEW t \in Thread, Expand(t) PROVE Graph'
<1> DEFINE own == th[t]
<1>1. /\ own \in ThreadState /\ own.pc = "walk"
      /\ UNCHANGED <<client, stored, eps, top, phase, scan, layers, tasks, unpatched>>
  BY DEF IInv, TypeOK, Expand
<1>2. /\ phase = "insert" /\ Works(own, Here, Keyed(layers), vectors)
      /\ Leads(layers, Here) /\ Nested(Here)
  BY <1>1, AtWork
<1>3. PICK c \in Closest(own) :
        LET node == layers[<<c, own.at>>]
            near == StoredLinks(c, own.at) \cup (IF node = Absent THEN {} ELSE node.links)
        IN  \E s2 \in Walked([own EXCEPT !.cand = @ \ {c}], Unvisited(own, near)) :
              th' = [th EXCEPT ![t] = [s2 EXCEPT !.pc = IF node = Absent THEN "lazy" ELSE "walk",
                                                 !.node = c]]
  BY DEF Expand
<1> DEFINE node == layers[<<c, own.at>>]
           near == StoredLinks(c, own.at) \cup (IF node = Absent THEN {} ELSE node.links)
           new == Unvisited(own, near)
           pc == IF node = Absent THEN "lazy" ELSE "walk"
           left == own.cand \ {c}
           rest == [own EXCEPT !.cand = left]
<1>4. PICK s2 \in Walked(rest, new) : th' = [th EXCEPT ![t] = [s2 EXCEPT !.pc = pc, !.node = c]]
  BY <1>3
<1>5. c \in own.cand /\ c \in Item /\ own.at \in Level /\ <<c, own.at>> \in Here
  BY <1>1, <1>2 DEF Closest, ThreadState, Works
<1>6. new \in SUBSET Item /\ new \subseteq vectors /\ \A j \in new : <<j, own.at>> \in Here
  <2> SUFFICES ASSUME NEW j \in new PROVE j \in Item /\ j \in vectors /\ <<j, own.at>> \in Here
    OBVIOUS
  <2>1. j \in near /\ j \in vectors /\ j \in Item BY DEF Unvisited, IInv, TypeOK
  <2>2. <<c, own.at>> \in LinkKey /\ <<j, own.at>> \in LinkKey /\ <<c, own.at>>[2] = own.at
        /\ <<j, own.at>>[1] = j
    BY <2>1, <1>5, KeyFacts
  <2>3. CASE j \in StoredLinks(c, own.at)
    <3>1. <<c, own.at>> \in StoredKeys /\ j \in links[<<c, own.at>>]
      BY <2>2, <2>3 DEF StoredLinks, StoredKeys
    <3>2. <<j, own.at>> \in StoredKeys BY <3>1, <2>2, <1>2, BuildReads DEF Graph
    <3> QED BY <3>2, <2>1, <2>2, PlaceFacts
  <2>4. CASE node # Absent /\ j \in node.links
    <3>1. <<c, own.at>> \in Keyed(layers) BY <2>2, <2>4 DEF Keyed
    <3> QED BY <3>1, <2>1, <2>2, <2>4, <1>2 DEF Leads
  <2> QED BY <2>1, <2>3, <2>4
<1>7. /\ rest \in ThreadState /\ rest.item = own.item /\ rest.res = own.res /\ rest.cand = left
      /\ rest.visited = own.visited /\ rest.level = own.level /\ rest.at = own.at
      /\ rest.pc = "walk"
  BY <1>1 DEF ThreadState
<1>8. own.item \in Item /\ own.res # {} /\ pc \in {"lazy", "walk"}
  BY <1>1, <1>2 DEF Works, IInv, TypeOK
<1> DEFINE s == [s2 EXCEPT !.pc = pc, !.node = c]
<1>9. /\ s2.res # {} /\ s2.res \subseteq own.res \cup new /\ s2.cand \subseteq left \cup new
      /\ s2.visited = own.visited \cup new /\ s2 \in ThreadState
      /\ s2.item = own.item /\ s2.level = own.level /\ s2.at = own.at
  <2> HIDE DEF rest, left, new, own
  <2> QED BY <1>4, <1>6, <1>7, <1>8, WalkedFinds, WalkedType
<1>10. /\ s.res = s2.res /\ s.cand = s2.cand /\ s.visited = s2.visited /\ s.item = own.item
       /\ s.level = own.level /\ s.at = own.at /\ s.pc = pc /\ s.node = c
  BY <1>9 DEF ThreadState
<1>11. th' = [th EXCEPT ![t] = s] BY <1>4
<1> HIDE DEF s, new, pc
<1>12. Works(s, Here, Keyed(layers), vectors)
  <2>1. /\ s.item \in vectors /\ s.res # {} /\ s.visited \subseteq vectors
    BY <1>1, <1>2, <1>6, <1>9, <1>10 DEF Works
  <2>2. \A i \in s.res \cup s.cand : <<i, s.at>> \in Here
    BY <1>1, <1>2, <1>6, <1>9, <1>10 DEF Works
  <2>3. s.pc \in {"walk", "lazy"} /\ <<s.node, s.at>> \in Here BY <1>5, <1>8, <1>10
  <2>4. s.at <= s.level => \A l \in 0 .. s.level : <<s.item, l>> \in Keyed(layers)
    BY <1>1, <1>2, <1>10 DEF Works
  <2> QED BY <2>1, <2>2, <2>3, <2>4 DEF Works
<1>13. s.pc # "rest" /\ s.item = th[t].item BY <1>8, <1>10
<1> HIDE DEF own
<1> QED BY <1>1, <1>2, <1>11, <1>12, <1>13, ThreadKeepsOwn

\* A step of a thread that puts one entry and works on.
LEMMA PutGraph ==
    ASSUME IInv, Graph, NEW t \in Thread, NEW s, th' = [th EXCEPT ![t] = s],
           NEW k \in Here, NEW node \in Node, layers' = [layers EXCEPT ![k] = node],
           \A j \in node.links : <<j, k[2]>> \in Here,
           phase = "insert", Works(s, Here, Keyed(layers), vectors),
           s.pc # "rest", s.item = th[t].item,
           UNCHANGED <<client, stored, eps, top, phase, scan, tasks, unpatched>>
    PROVE  Graph'
<1>1. k \in LinkKey BY PlaceFacts
<1>2. layers \in LayerMap BY DEF IInv, TypeOK, LayerMap
<1>3. Leads(layers, Here) /\ Nested(Here) BY DEF Graph, Grows
<1>4. Here' = Places(vectors, layers', links) BY DEF Here, client, stored
<1>5. Keyed(layers') = Keyed(layers) \cup {k} /\ Here' = Here /\ Leads(layers', Here')
  <2> DEFINE map2 == [layers EXCEPT ![k] = node]
  <2>1. Here = Places(vectors, layers, links) BY DEF Here
  <2>2. /\ Keyed(map2) = Keyed(layers) \cup {k}
        /\ Places(vectors, map2, links) = Here
        /\ Leads(map2, Places(vectors, map2, links))
    <3> DEFINE P == Places(vectors, layers, links)
    <3>1. k \in P /\ Leads(layers, P) /\ \A j \in node.links : <<j, k[2]>> \in P
      BY <1>3 DEF Here
    <3> HIDE DEF P
    <3>2. /\ Keyed(map2) = Keyed(layers) \cup {k}
          /\ Places(vectors, map2, links) = P
          /\ Leads(map2, Places(vectors, map2, links))
      BY <1>1, <1>2, <3>1, PutLeads DEF P
    <3> QED BY <3>2, <2>1 DEF P
  <2>3. layers' = map2 OBVIOUS
  <2> HIDE DEF map2
  <2> QED BY <2>2, <2>3, <1>4
<1>6. Works(s, Here', Keyed(layers'), vectors) BY <1>5, WorksOn
<1>7. \A task \in tasks \ tasks' : s.pc # "rest" /\ s.item = task[1] OBVIOUS
<1> QED BY <1>3, <1>5, <1>6, <1>7, ThreadKeeps

\* An empty entry is put for a candidate.
LEMMA LazyInsertGraph == ASSUME IInv, Graph, NEW t \in Thread, LazyInsert(t) PROVE Graph'
<1> DEFINE s == [th[t] EXCEPT !.pc = "walk"]
           k == <<th[t].node, th[t].at>>
<1>1. /\ th[t] \in ThreadState /\ th[t].pc = "lazy" /\ th' = [th EXCEPT ![t] = s]
      /\ layers' = [layers EXCEPT ![k] = EmptyNode]
      /\ UNCHANGED <<client, stored, eps, top, phase, scan, tasks, unpatched>>
  BY DEF IInv, TypeOK, LazyInsert
<1>2. phase = "insert" /\ Works(th[t], Here, Keyed(layers), vectors) BY <1>1, AtWork
<1>3. k \in Here BY <1>1, <1>2 DEF Works
<1>4. EmptyNode \in Node /\ EmptyNode.links = {}
  BY KeyFacts, EmptyNodeFits DEF EmptyNode
<1>5. /\ s.pc = "walk" /\ s.item = th[t].item /\ s.level = th[t].level /\ s.at = th[t].at
      /\ s.cand = th[t].cand /\ s.res = th[t].res /\ s.visited = th[t].visited
  BY <1>1 DEF ThreadState
<1> HIDE DEF s, k
<1>6. Works(s, Here, Keyed(layers), vectors) BY <1>1, <1>2, <1>5 DEF Works
<1>7. \A j \in EmptyNode.links : <<j, k[2]>> \in Here BY <1>4
<1> QED BY <1>1, <1>2, <1>3, <1>4, <1>5, <1>6, <1>7, PutGraph

\* The walk goes down: its closest point is on the level below too.
LEMMA DescendGraph == ASSUME IInv, Graph, NEW t \in Thread, Descend(t) PROVE Graph'
<1> DEFINE seeds == Nearest(th[t].item, th[t].res, 1)
           pc == IF th[t].at - 1 = th[t].level THEN "enter" ELSE "walk"
           at == th[t].at - 1
           s == [Seeded(th[t], seeds) EXCEPT !.at = at, !.pc = pc, !.node = 0]
<1>1. /\ th[t] \in ThreadState /\ th[t].pc = "walk" /\ th[t].at > th[t].level
      /\ th' = [th EXCEPT ![t] = s]
      /\ UNCHANGED <<client, stored, eps, top, phase, scan, layers, tasks, unpatched>>
  BY DEF IInv, TypeOK, Descend, WalkEnds, Greedy
<1>2. phase = "insert" /\ Works(th[t], Here, Keyed(layers), vectors) /\ Nested(Here)
  BY <1>1, AtWork
<1>3. /\ th[t].at \in Level /\ th[t].level \in Level /\ th[t].res \in SUBSET Item
      /\ th[t].item \in vectors /\ th[t].item \in Item /\ th[t].res # {}
  BY <1>1, <1>2 DEF ThreadState, Works, IInv, TypeOK
<1>4. th[t].at \in Nat /\ th[t].level \in Nat BY <1>3, KeyFacts
<1>5. at \in 0 .. th[t].at /\ at >= th[t].level /\ at \in Nat BY <1>1, <1>4
<1>6. seeds # {} /\ seeds \subseteq th[t].res BY <1>3, NearestFound, NearestSubset
<1>7. \A i \in seeds : <<i, at>> \in Here
  <2> HIDE DEF at
  <2> TAKE i \in seeds
  <2>1. <<i, th[t].at>> \in Here BY <1>1, <1>2, <1>6 DEF Works
  <2>2. <<i, th[t].at>>[1] = i /\ <<i, th[t].at>>[2] = th[t].at OBVIOUS
  <2> QED BY <2>1, <2>2, <1>2, <1>5 DEF Nested
<1>8. /\ s.pc = pc /\ s.item = th[t].item /\ s.level = th[t].level /\ s.at = at
      /\ s.cand = seeds /\ s.res = seeds /\ s.visited = seeds
  BY <1>1 DEF ThreadState, Seeded
<1>9. pc \in {"enter", "walk"} /\ (pc = "enter" => at = th[t].level)
      /\ (at <= th[t].level => pc = "enter")
  BY <1>1, <1>4
<1>10. seeds \subseteq vectors BY <1>7, PlaceFacts
<1> HIDE DEF s, seeds, pc, at
<1>11. Works(s, Here, Keyed(layers), vectors)
  <2>1. s.at > s.level => s.pc \in {"walk", "lazy"} BY <1>4, <1>5, <1>8, <1>9
  <2> QED BY <2>1, <1>3, <1>6, <1>7, <1>8, <1>9, <1>10 DEF Works
<1>12. s.pc # "rest" /\ s.item = th[t].item BY <1>8, <1>9
<1> QED BY <1>1, <1>2, <1>11, <1>12, ThreadKeepsOwn

\* The points selected are some of those found.
LEMMA SelectGraph == ASSUME IInv, Graph, NEW t \in Thread, Select(t) PROVE Graph'
<1>1. /\ th[t] \in ThreadState /\ th[t].pc = "walk" /\ ~(th[t].at > th[t].level)
      /\ UNCHANGED <<client, stored, eps, top, phase, scan, layers, tasks, unpatched>>
  BY DEF IInv, TypeOK, Select, WalkEnds, Greedy
<1>2. PICK selected \in Pruned(th[t].item, th[t].res, Cap(th[t].level)) :
        th' = [th EXCEPT ![t] = [Seeded(th[t], selected) EXCEPT
                                   !.cand = selected \ {th[t].item}, !.pc = "link", !.node = 0]]
  BY DEF Select
<1> DEFINE others == selected \ {th[t].item}
           s == [Seeded(th[t], selected) EXCEPT !.cand = others, !.pc = "link", !.node = 0]
<1>3. phase = "insert" /\ Works(th[t], Here, Keyed(layers), vectors) BY <1>1, AtWork
<1>4. /\ th[t].at \in Level /\ th[t].level \in Level /\ th[t].res \in SUBSET Item
      /\ th[t].item \in vectors /\ th[t].item \in Item /\ th[t].res # {}
  BY <1>1, <1>3 DEF ThreadState, Works, IInv, TypeOK
<1>5. th[t].at \in Nat /\ th[t].level \in Nat BY <1>4, KeyFacts
<1>6. Cap(th[t].level) \in Nat \ {0} BY DegreeAssumption DEF Cap
<1>7. selected # {} /\ selected \subseteq th[t].res
  BY <1>2, <1>4, <1>6, PrunedFound DEF Pruned
<1>8. \A i \in selected : <<i, th[t].at>> \in Here BY <1>1, <1>3, <1>7 DEF Works
<1>9. selected \subseteq vectors BY <1>8, PlaceFacts
<1>10. /\ s.pc = "link" /\ s.item = th[t].item /\ s.level = th[t].level /\ s.at = th[t].at
       /\ s.cand = others /\ s.res = selected /\ s.visited = selected
  BY <1>1 DEF ThreadState, Seeded
<1>11. others \subseteq selected OBVIOUS
<1>12. th' = [th EXCEPT ![t] = s] BY <1>2
<1> HIDE DEF s, others
<1>13. Works(s, Here, Keyed(layers), vectors)
  <2>1. s.at <= s.level => \A l \in 0 .. s.level : <<s.item, l>> \in Keyed(layers)
    BY <1>1, <1>3, <1>10 DEF Works
  <2>2. ~(s.at > s.level) BY <1>1, <1>10
  <2> QED BY <2>1, <2>2, <1>4, <1>7, <1>8, <1>9, <1>10, <1>11 DEF Works
<1>14. s.pc # "rest" /\ s.item = th[t].item BY <1>10
<1> QED BY <1>1, <1>3, <1>12, <1>13, <1>14, ThreadKeepsOwn

\* An item at work on or below its level has entries on its levels.
LEMMA Entered ==
    ASSUME IInv, Graph, NEW t \in Thread, th[t].pc \in {"link", "back"}
    PROVE  /\ th[t].item \in Item /\ th[t].at \in Level /\ th[t].level \in Level
           /\ th[t].at <= th[t].level
           /\ \A l \in 0 .. th[t].at : <<th[t].item, l>> \in Keyed(layers)
<1>1. th[t] \in ThreadState /\ Works(th[t], Here, Keyed(layers), vectors)
  BY AtWork DEF IInv, TypeOK
<1>2. /\ th[t].item \in Item /\ th[t].at \in Level /\ th[t].level \in Level
  BY <1>1 DEF ThreadState, Works, IInv, TypeOK
<1>3. th[t].at \in Nat /\ th[t].level \in Nat BY <1>2, KeyFacts
<1>4. th[t].at <= th[t].level BY <1>1, <1>3 DEF Works
<1>5. \A l \in 0 .. th[t].level : <<th[t].item, l>> \in Keyed(layers) BY <1>1, <1>4 DEF Works
<1>6. 0 .. th[t].at \subseteq 0 .. th[t].level BY <1>3, <1>4
<1> QED BY <1>2, <1>4, <1>5, <1>6

\* A link to a selected point leads to where it has entries.
LEMMA LinkForthGraph == ASSUME IInv, Graph, NEW t \in Thread, LinkForth(t) PROVE Graph'
<1> DEFINE p == th[t].item
           l == th[t].at
           k == <<p, l>>
<1>1. /\ th[t] \in ThreadState /\ th[t].pc = "link"
      /\ UNCHANGED <<client, stored, eps, top, phase, scan, tasks, unpatched>>
  BY DEF IInv, TypeOK, LinkForth
<1>2. PICK n \in Nearest(th[t].item, th[t].cand, 1) :
        \E node \in Linked(layers, p, n, l) :
          /\ layers' = [layers EXCEPT ![k] = node]
          /\ th' = [th EXCEPT ![t] = [th[t] EXCEPT !.pc = "back", !.node = n, !.cand = @ \ {n}]]
  BY DEF LinkForth
<1>3. PICK node \in Linked(layers, p, n, l) :
        /\ layers' = [layers EXCEPT ![k] = node]
        /\ th' = [th EXCEPT ![t] = [th[t] EXCEPT !.pc = "back", !.node = n, !.cand = @ \ {n}]]
  BY <1>2
<1> DEFINE left == th[t].cand \ {n}
           s == [th[t] EXCEPT !.pc = "back", !.node = n, !.cand = left]
<1>4. /\ phase = "insert" /\ Works(th[t], Here, Keyed(layers), vectors) /\ Leads(layers, Here)
  BY <1>1, AtWork
<1>5. p \in Item /\ l \in Level /\ l \in 0 .. l /\ k \in LinkKey /\ k[2] = l /\ k[1] = p
  BY <1>1, Entered, KeyFacts
<1>6. k \in Keyed(layers) /\ k \in Here BY <1>1, <1>4, <1>5, Entered DEF Leads
<1>7. n \in th[t].cand /\ n \in Item BY <1>1, NearestSubset DEF ThreadState
<1>8. <<n, l>> \in Here BY <1>1, <1>4, <1>7 DEF Works
<1>9. layers \in LayerMap /\ LayersFit(layers) BY DEF IInv, TypeOK, LayerMap
<1>10. /\ s.pc = "back" /\ s.item = th[t].item /\ s.level = th[t].level /\ s.at = th[t].at
       /\ s.cand = left /\ s.res = th[t].res /\ s.visited = th[t].visited /\ s.node = n
  BY <1>1 DEF ThreadState
<1>11. th' = [th EXCEPT ![t] = s] BY <1>3
<1>12. left \subseteq th[t].cand OBVIOUS
<1> HIDE DEF s, left
<1>13. Works(s, Here, Keyed(layers), vectors) BY <1>1, <1>4, <1>8, <1>10, <1>12 DEF Works
<1> HIDE DEF p, l
<1>14. node \in Node BY <1>3, <1>5, <1>7, <1>9, LinkedFits
<1>15. \A j \in node.links : <<j, k[2]>> \in Here
  <2> TAKE j \in node.links
  <2>1. j = n \/ (layers[k] # Absent /\ j \in layers[k].links)
    BY <1>3, <1>5, <1>7, <1>9, LinkedLinks
  <2> QED BY <2>1, <1>4, <1>5, <1>6, <1>8 DEF Leads
<1>16. s.pc # "rest" /\ s.item = th[t].item BY <1>10
<1> HIDE DEF k
<1> QED BY <1>1, <1>3, <1>4, <1>6, <1>11, <1>13, <1>14, <1>15, <1>16, PutGraph

\* A link back to the item leads to where it has entries.
LEMMA LinkBackGraph == ASSUME IInv, Graph, NEW t \in Thread, LinkBack(t) PROVE Graph'
<1> DEFINE p == th[t].node
           q == th[t].item
           l == th[t].at
           k == <<p, l>>
           s == [th[t] EXCEPT !.pc = "link"]
<1>1. /\ th[t] \in ThreadState /\ th[t].pc = "back" /\ th' = [th EXCEPT ![t] = s]
      /\ UNCHANGED <<client, stored, eps, top, phase, scan, tasks, unpatched>>
  BY DEF IInv, TypeOK, LinkBack
<1>2. PICK node \in Linked(layers, p, q, l) : layers' = [layers EXCEPT ![k] = node]
  BY DEF LinkBack
<1>3. /\ phase = "insert" /\ Works(th[t], Here, Keyed(layers), vectors) /\ Leads(layers, Here)
  BY <1>1, AtWork
<1>4. q \in Item /\ l \in Level /\ l \in 0 .. l BY <1>1, Entered, KeyFacts
<1>5. k \in Here /\ <<q, l>> \in Here BY <1>1, <1>3, <1>4, Entered DEF Works, Leads
<1>6. p \in Item /\ k \in LinkKey /\ k[2] = l BY <1>5, <1>4, PlaceFacts, KeyFacts
<1>7. layers \in LayerMap /\ LayersFit(layers) BY DEF IInv, TypeOK, LayerMap
<1>8. /\ s.pc = "link" /\ s.item = th[t].item /\ s.level = th[t].level /\ s.at = th[t].at
      /\ s.cand = th[t].cand /\ s.res = th[t].res /\ s.visited = th[t].visited
  BY <1>1 DEF ThreadState
<1> HIDE DEF s
<1>9. Works(s, Here, Keyed(layers), vectors) BY <1>1, <1>3, <1>8 DEF Works
<1> HIDE DEF p, q, l
<1>10. node \in Node BY <1>2, <1>4, <1>6, <1>7, LinkedFits
<1>11. \A j \in node.links : <<j, k[2]>> \in Here
  <2> TAKE j \in node.links
  <2>1. j = q \/ (layers[k] # Absent /\ j \in layers[k].links)
    BY <1>2, <1>4, <1>6, <1>7, LinkedLinks
  <2>2. layers[k] # Absent => k \in Keyed(layers) BY <1>6 DEF Keyed
  <2> QED BY <2>1, <2>2, <1>3, <1>5, <1>6 DEF Leads
<1>12. s.pc # "rest" /\ s.item = th[t].item BY <1>8
<1> HIDE DEF k
<1> QED BY <1>1, <1>2, <1>3, <1>5, <1>9, <1>10, <1>11, <1>12, PutGraph

\* A thread goes on below, or rests when its item is on the ground.
LEMMA NextLevelGraph == ASSUME IInv, Graph, NEW t \in Thread, NextLevel(t) PROVE Graph'
<1>1. /\ th[t] \in ThreadState /\ th[t].pc = "link" /\ th[t].cand = {}
      /\ UNCHANGED <<client, stored, eps, top, phase, scan, layers, tasks, unpatched>>
  BY DEF IInv, TypeOK, NextLevel
<1>2. phase = "insert" /\ Works(th[t], Here, Keyed(layers), vectors) /\ Nested(Here)
  BY <1>1, AtWork
<1>3. /\ th[t].item \in Item /\ th[t].at \in Level /\ th[t].level \in Level
      /\ th[t].at <= th[t].level
      /\ \A l \in 0 .. th[t].at : <<th[t].item, l>> \in Keyed(layers)
  BY <1>1, Entered
<1>4. th[t].at \in Nat /\ th[t].level \in Nat BY <1>3, KeyFacts
<1>5. CASE th[t].at = 0
  <2>1. th' = [th EXCEPT ![t] = Resting] BY <1>5 DEF NextLevel
  <2>2. Resting.pc = "rest" BY DEF Resting
  <2>3. Works(Resting, Here, Keyed(layers), vectors) BY <2>2 DEF Works
  <2>4. <<th[t].item, 0>> \in Keyed(layers) BY <1>3, <1>4
  <2> QED BY <2>1, <2>3, <2>4, <1>1, <1>2, ThreadKeepsOwn
<1>6. CASE th[t].at # 0
  <2> DEFINE at == th[t].at - 1
             s == [Seeded(th[t], th[t].res) EXCEPT !.pc = "walk", !.at = at, !.node = 0]
  <2>1. th' = [th EXCEPT ![t] = s] BY <1>6 DEF NextLevel
  <2>2. at \in 0 .. th[t].at /\ at \in Nat /\ at < th[t].level BY <1>3, <1>4, <1>6
  <2> HIDE DEF at
  <2>3. \A i \in th[t].res : <<i, at>> \in Here
    <3> TAKE i \in th[t].res
    <3>1. <<i, th[t].at>> \in Here BY <1>1, <1>2 DEF Works
    <3>2. <<i, th[t].at>>[1] = i /\ <<i, th[t].at>>[2] = th[t].at OBVIOUS
    <3> QED BY <3>1, <3>2, <1>2, <2>2 DEF Nested
  <2>4. th[t].res \subseteq vectors BY <2>3, PlaceFacts
  <2>5. /\ s.pc = "walk" /\ s.item = th[t].item /\ s.level = th[t].level /\ s.at = at
        /\ s.cand = th[t].res /\ s.res = th[t].res /\ s.visited = th[t].res
    BY <1>1 DEF ThreadState, Seeded
  <2> HIDE DEF s
  <2>6. ~(s.at > s.level) /\ \A l \in 0 .. s.level : <<s.item, l>> \in Keyed(layers)
    <3>1. \A l \in 0 .. th[t].level : <<th[t].item, l>> \in Keyed(layers)
      BY <1>1, <1>2, <1>3 DEF Works
    <3> QED BY <3>1, <1>4, <2>2, <2>5
  <2>7. Works(s, Here, Keyed(layers), vectors)
    BY <1>1, <1>2, <2>3, <2>4, <2>5, <2>6 DEF Works
  <2>8. s.pc # "rest" /\ s.item = th[t].item BY <2>5
  <2> QED BY <2>1, <2>7, <2>8, <1>1, <1>2, ThreadKeepsOwn
<1> QED BY <1>5, <1>6

-----------------------------------------------------------------------------
(* The build around them. *)

\* The client marks what it changes.
LEMMA ClientGraph == ASSUME IInv, Graph, NEW i \in Item, AddItem(i) \/ DelItem(i) PROVE Graph'
<1>1. /\ phase = "idle" /\ UNCHANGED <<stored, eps, top, phase, scan, layers, tasks, th, unpatched>>
      /\ updated' = updated \cup {i}
      /\ vectors' = vectors \cup {i} \/ vectors' = vectors \ {i}
  BY DEF AddItem, DelItem
<1>2. links' = links /\ eps' = eps /\ top' = top /\ phase' = "idle" /\ layers' = layers
      /\ tasks' = tasks /\ th' = th
  BY <1>1 DEF stored
<1>3. \A x : x \notin updated' => x \notin updated /\ (x \in vectors' <=> x \in vectors)
  BY <1>1
<1>4. Marked(links', vectors', updated')
  <2>1. Ids(Keyed(links)) \ updated = vectors \ updated BY <1>1 DEF Graph, Idle, Marked
  <2> DEFINE ids == Ids(Keyed(links))
  <2> HIDE DEF ids
  <2>2. ids \ updated = vectors \ updated BY <2>1 DEF ids
  <2>3. ids \ updated' = vectors' \ updated' BY <2>2, <1>3, <1>1
  <2> QED BY <2>3, <1>2 DEF Marked, ids
<1>5. Idle' BY <1>1, <1>2, <1>4 DEF Graph, Idle
<1>6. Quiet' BY <1>1, <1>2 DEF Graph, Quiet
<1>7. Remembers' /\ Substituting' /\ Grows' /\ Heights' /\ Inserting' /\ Patching'
  BY <1>2 DEF Remembers, Substituting, Grows, Heights, Inserting, Patching
<1> QED BY <1>5, <1>6, <1>7 DEF Graph

\* A build starts.
LEMMA StartGraph == ASSUME IInv, Graph, StartBuild \/ StartRebuild PROVE Graph'
<1>1. PICK ins, del : /\ Start(ins, del)
                      /\ del = updated \ vectors
                      /\ \/ links' = links /\ ins = updated \cap vectors
                         \/ links' = NoLayers /\ ins = vectors /\ updated = {}
  BY DEF StartBuild, StartRebuild
<1>2. /\ phase = "idle" /\ phase' = "scan"
      /\ vectors' = vectors /\ updated' = updated /\ eps' = eps /\ top' = top
      /\ layers' = layers /\ tasks' = tasks /\ th' = th
      /\ old' = [links |-> links, eps |-> eps, top |-> top, ins |-> ins, del |-> del]
      /\ scan' = [layer |-> top, left |-> Cardinality(eps \cap del), found |-> eps \ del]
  BY <1>1 DEF Start, client
<1>3. Stands(links, eps, top) /\ Marked(links, vectors, updated) /\ layers = NoLayers
  BY <1>2 DEF Graph, Idle
<1>4. /\ old'.links = links /\ old'.eps = eps /\ old'.top = top
      /\ ToInsert' = ins /\ ToDelete' = del
  BY <1>2 DEF ToInsert, ToDelete
<1>5. Remembers'
  <2>1. /\ Stands(old'.links, old'.eps, old'.top) /\ Marked(old'.links, vectors', updated')
        /\ ToDelete' = updated' \ vectors'
    BY <1>1, <1>2, <1>3, <1>4
  <2>2. \/ links' = old'.links /\ ToInsert' = updated' \cap vectors'
        \/ links' = NoLayers /\ ToInsert' = vectors'
    BY <1>1, <1>2, <1>4
  <2> QED BY <2>1, <2>2 DEF Remembers
<1>6. eps \ del \subseteq vectors
  <2> SUFFICES ASSUME NEW e \in eps, e \notin del PROVE e \in vectors
    OBVIOUS
  <2>1. 0 \in 0 .. top BY KeyFacts DEF IInv, TypeOK
  <2>2. <<e, 0>> \in Keyed(links) BY <2>1, <1>3 DEF Stands, Covers
  <2>3. e \in Ids(Keyed(links)) BY <2>2 DEF Ids
  <2>4. Ids(Keyed(links)) \ updated = vectors \ updated BY <1>3 DEF Marked
  <2> QED BY <2>3, <2>4, <1>1
<1>7. Substituting' BY <1>2, <1>3, <1>4, <1>6 DEF Substituting
<1>8. Quiet' BY <1>2 DEF Graph, Quiet
<1>9. Idle' /\ Grows' /\ Heights' /\ Inserting' /\ Patching'
  BY <1>2 DEF Idle, Grows, Heights, Inserting, Patching
<1> QED BY <1>5, <1>7, <1>8, <1>9 DEF Graph

\* Substitutes stay, and the ground has one unless everything with links is deleted.
LEMMA ScanGraph == ASSUME IInv, Graph, ScanLayer PROVE Graph'
<1> DEFINE S == Substitutes(scan.layer, scan.found)
           layer == IF scan.layer = 0 THEN 0 ELSE scan.layer - 1
           left == IF scan.layer = 0 THEN scan.left - 1 ELSE scan.left
           found == scan.found \cup FirstOf(S)
<1>1. /\ phase = "scan" /\ scan' = [layer |-> layer, left |-> left, found |-> found]
      /\ UNCHANGED <<client, stored, eps, top, phase, layers, tasks, th, unpatched>>
  BY DEF ScanLayer
<1>2. /\ vectors' = vectors /\ updated' = updated /\ links' = links /\ old' = old /\ eps' = eps
      /\ top' = top /\ phase' = "scan" /\ layers' = layers /\ tasks' = tasks /\ th' = th
  BY <1>1 DEF client, stored
<1>3. ToInsert' = ToInsert /\ ToDelete' = ToDelete /\ StoredKeys' = StoredKeys
  BY <1>2 DEF ToInsert, ToDelete, StoredKeys
<1>4. /\ eps = old.eps /\ top = old.top /\ layers = NoLayers
      /\ old.eps \ ToDelete \subseteq scan.found /\ scan.found \subseteq vectors
  BY <1>1 DEF Graph, Substituting
<1>5. S \subseteq vectors
  <2> SUFFICES ASSUME NEW i \in S PROVE i \in vectors OBVIOUS
  <2>1. <<i, scan.layer>> \in StoredKeys /\ i \notin ToDelete BY DEF Substitutes
  <2>2. <<i, scan.layer>>[1] = i OBVIOUS
  <2> QED BY <2>1, <2>2, <1>1, BuildReads DEF Graph
<1>6. FirstOf(S) \subseteq S BY DEF FirstOf
<1>7. found = {} /\ scan.layer = 0 => \A k \in StoredKeys : k[1] \in ToDelete
  <2> SUFFICES ASSUME found = {}, scan.layer = 0, NEW k \in StoredKeys, k[1] \notin ToDelete
               PROVE  FALSE
    OBVIOUS
  <2>1. k \in LinkKey /\ Nested(StoredKeys) BY <1>1, BuildReads DEF Graph
  <2>2. 0 \in 0 .. k[2] /\ k[1] \in Item BY <2>1, KeyFacts
  <2>3. <<k[1], 0>> \in StoredKeys BY <2>1, <2>2 DEF Nested
  <2>4. k[1] \in S BY <2>2, <2>3 DEF Substitutes
  <2>5. S \in SUBSET Nat BY ItemAssumption DEF Substitutes
  <2>6. PICK n \in S : \A m \in S : n <= m BY <2>4, <2>5, LeastNat
  <2>7. n \in FirstOf(S) BY <2>6 DEF FirstOf
  <2> QED BY <2>7
<1>8. \/ found # {} \/ left = Cardinality(old.eps \cap ToDelete)
      \/ \A k \in StoredKeys : k[1] \in ToDelete
  <2>1. CASE scan.layer = 0 BY <2>1, <1>7
  <2>2. CASE scan.layer # 0
    <3>1. left = scan.left BY <2>2
    <3> QED BY <3>1, <1>1 DEF Graph, Substituting
  <2> QED BY <2>1, <2>2
<1>9. scan'.found = found /\ scan'.left = left BY <1>1
<1>10. old.eps \ ToDelete \subseteq found /\ found \subseteq vectors BY <1>4, <1>5, <1>6
<1> HIDE DEF found, left, S
<1>11. Substituting' BY <1>2, <1>3, <1>4, <1>8, <1>9, <1>10 DEF Substituting
<1>12. Remembers' BY <1>1, <1>2, <1>3 DEF Graph, Remembers
<1>13. Quiet' BY <1>1, <1>2 DEF Graph, Quiet
<1>14. Idle' /\ Grows' /\ Heights' /\ Inserting' /\ Patching'
  BY <1>2 DEF Idle, Grows, Heights, Inserting, Patching
<1> QED BY <1>11, <1>12, <1>13, <1>14 DEF Graph

\* When the search for substitutes ends with nothing, nothing with links stays, and the
\* height falls to the ground.
LEMMA NothingLeft ==
    ASSUME IInv, Graph, phase = "scan", scan.left = 0, scan.found = {}
    PROVE  /\ \A k \in StoredKeys : k[1] \in ToDelete
           /\ HeightReset \/ top = 0
<1>1. /\ old.eps \ ToDelete \subseteq scan.found /\ top = old.top
      /\ \/ scan.left = Cardinality(old.eps \cap ToDelete)
         \/ \A k \in StoredKeys : k[1] \in ToDelete
  BY DEF Graph, Substituting
<1>2. /\ IsFiniteSet(old.eps \cap ToDelete) /\ IsFiniteSet(old.eps)
      /\ Cardinality(old.eps) \in Nat
  BY ItemSets DEF IInv, TypeOK
<1>3. CASE old.eps = {}
  <2>1. Keyed(old.links) = {} /\ old.top = 0 BY <1>3 DEF Graph, Remembers, Stands
  <2>2. StoredKeys = {} BY <2>1, BuildReads DEF Graph
  <2> QED BY <2>1, <2>2, <1>1
<1>4. CASE old.eps # {}
  <2>1. old.eps \cap ToDelete # {} BY <1>1, <1>4
  <2>2. Cardinality(old.eps \cap ToDelete) # 0 BY <2>1, <1>2, FS_EmptySet
  <2>3. Cardinality(old.eps) # 0 BY <1>2, <1>4, FS_EmptySet
  <2>4. Cardinality(scan.found) = 0 BY FS_EmptySet
  <2>5. HeightReset BY <2>1, <2>3, <2>4 DEF HeightReset
  <2> QED BY <2>2, <2>5, <1>1
<1> QED BY <1>3, <1>4

\* Levels are drawn, and the entry points get entries down to the ground.
LEMMA ResolvedGraph == ASSUME IInv, Graph, Resolved PROVE Graph'
<1> DEFINE height == IF HeightReset THEN 0 ELSE top
           todo(drawn) == {<<i, drawn[i], "drawn">> : i \in ToInsert}
                            \cup {<<i, height, "entry">> : i \in scan.found}
           upper(drawn, top2) == {i \in Item : \E task \in todo(drawn) :
                                                 task[1] = i /\ task[2] = top2}
<1>1. PICK drawn \in [ToInsert -> Level], top2 \in Level :
        /\ height <= top2 /\ \A i \in ToInsert : drawn[i] <= top2
        /\ top2 = height \/ \E i \in ToInsert : drawn[i] = top2
        /\ tasks' = todo(drawn)
        /\ top' = top2
        /\ eps' = (IF top2 > height THEN {} ELSE scan.found) \cup upper(drawn, top2)
        /\ layers' = InLayersBelow(layers, upper(drawn, top2), top2)
  BY DEF Resolved
<1>2. /\ phase = "scan" /\ scan.left = 0 /\ phase' = "insert"
      /\ vectors' = vectors /\ updated' = updated /\ links' = links /\ old' = old /\ th' = th
  BY DEF Resolved, client, stored
<1>3. ToInsert' = ToInsert /\ ToDelete' = ToDelete /\ StoredKeys' = StoredKeys
  BY <1>2 DEF ToInsert, ToDelete, StoredKeys
<1>4. /\ top = old.top /\ layers = NoLayers /\ scan.found \subseteq vectors
  BY <1>2 DEF Graph, Substituting
<1>5. /\ ToInsert \subseteq vectors /\ vectors \in SUBSET Item /\ ToDelete \cap vectors = {}
      /\ Nested(StoredKeys) /\ \A i \in vectors : i \in ToInsert \/ i \in Ids(StoredKeys)
      /\ top \in Nat /\ top2 \in Nat /\ height \in Nat
  BY <1>2, BuildReads, KeyFacts DEF Graph, IInv, TypeOK
<1> DEFINE up == upper(drawn, top2)
<1>6. \A task \in todo(drawn) :
        \/ \E i \in ToInsert : task = <<i, drawn[i], "drawn">>
        \/ \E i \in scan.found : task = <<i, height, "entry">>
  OBVIOUS
<1>7. up \in SUBSET Item /\ up \subseteq vectors
  <2> SUFFICES ASSUME NEW i \in up PROVE i \in vectors OBVIOUS
  <2>1. PICK task \in todo(drawn) : task[1] = i OBVIOUS
  <2> HIDE DEF todo
  <2> QED BY <2>1, <1>4, <1>5, <1>6
<1>8. \A i \in ToInsert : drawn[i] = top2 => i \in up
  <2> TAKE i \in ToInsert
  <2>1. <<i, drawn[i], "drawn">> \in todo(drawn) OBVIOUS
  <2> HIDE DEF todo
  <2> QED BY <2>1, <1>5
<1>9. top2 = height => scan.found \subseteq up
  <2> SUFFICES ASSUME top2 = height, NEW i \in scan.found PROVE i \in up OBVIOUS
  <2>1. <<i, height, "entry">> \in todo(drawn) OBVIOUS
  <2> HIDE DEF todo, height
  <2> QED BY <2>1, <1>4, <1>5
<1>10. \A i \in ToInsert : \E task \in tasks' : task[1] = i
  <2> TAKE i \in ToInsert
  <2>1. <<i, drawn[i], "drawn">> \in tasks' BY <1>1
  <2> QED BY <2>1
<1>11. \A task \in tasks' : task[1] \in vectors /\ task[2] <= top2
  <2> HIDE DEF todo, height
  <2> QED BY <1>1, <1>4, <1>5, <1>6
<1> HIDE DEF todo, upper
<1>12. eps' = up
  <2>1. CASE top2 > height BY <2>1, <1>1
  <2>2. CASE ~(top2 > height)
    <3>1. top2 = height BY <2>2, <1>1, <1>5
    <3> QED BY <3>1, <2>2, <1>1, <1>9
  <2> QED BY <2>1, <2>2
<1>13. height = top \/ (height = 0 /\ HeightReset) OBVIOUS
<1>14. /\ top2 = height \/ \E i \in ToInsert : drawn[i] = top2
       /\ height <= top2 /\ \A i \in ToInsert : drawn[i] <= top2 /\ drawn[i] \in Nat
  <2>1. \A i \in ToInsert : drawn[i] \in Nat BY KeyFacts
  <2> QED BY <2>1, <1>1
<1>15. height = 0 \/ ~HeightReset OBVIOUS
<1>16. layers' = InLayersBelow(layers, up, top2) /\ top' = top2 BY <1>1
<1> HIDE DEF up, height
<1>17. /\ \A i \in up : \A m \in 0 .. top2 : <<i, m>> \in Keyed(layers')
       /\ Leads(layers', Here') /\ Nested(Here')
  <2>1. Keyed(layers) = {} BY <1>4 DEF Keyed, NoLayers
  <2>2. Leads(layers, Here) BY <2>1 DEF Leads
  <2>3. Nested(Here)
    <3> SUFFICES ASSUME NEW k \in Here, NEW l \in 0 .. k[2] PROVE <<k[1], l>> \in Here
      BY DEF Nested
    <3>1. k \in StoredKeys /\ k[1] \in vectors BY <2>1, PlaceFacts
    <3>2. <<k[1], l>> \in StoredKeys BY <3>1, <1>5 DEF Nested
    <3>3. <<k[1], l>> \in LinkKey /\ <<k[1], l>>[1] = k[1] BY <3>2 DEF StoredKeys
    <3> QED BY <3>1, <3>2, <3>3, PlaceFacts
  <2>4. layers \in LayerMap BY DEF IInv, TypeOK, LayerMap
  <2>5. Here' = Places(vectors, layers', links) BY <1>2 DEF Here
  <2> QED BY <2>2, <2>3, <2>4, <2>5, <1>7, <1>16, BelowLeads DEF Here
<1>18. Covers(Keyed(layers'), eps', top') BY <1>12, <1>16, <1>17 DEF Covers
<1>19. eps' = {} => vectors = {} /\ top2 = 0
  <2> SUFFICES ASSUME up = {} PROVE vectors = {} /\ top2 = 0 BY <1>12
  <2>1. top2 = height BY <1>8, <1>14
  <2>2. scan.found = {} BY <2>1, <1>9
  <2>3. \A k \in StoredKeys : k[1] \in ToDelete BY <2>2, <1>2, NothingLeft
  <2>4. height = 0 BY <2>2, <1>2, <1>13, <1>15, NothingLeft
  <2>5. ToInsert = {}
    <3>1. \A i \in ToInsert : drawn[i] = top2 BY <2>1, <2>4, <1>14
    <3> QED BY <3>1, <1>8
  <2>6. \A i \in vectors : FALSE BY <2>3, <2>5, <1>5 DEF Ids
  <2> QED BY <2>1, <2>4, <2>6
<1>20. Grows' BY <1>2, <1>16, <1>17, <1>18, <1>19 DEF Grows
<1>21. top2 # height => \E i \in ToInsert : <<i, top2>> \in Keyed(layers')
  <2>1. top2 \in 0 .. top2 BY <1>5
  <2> QED BY <2>1, <1>8, <1>14, <1>17
<1>22. top2 < old.top => /\ old.eps \cap ToDelete # {}
                         /\ top2 = 0 \/ \E i \in ToInsert : <<i, top2>> \in Keyed(layers')
  <2> SUFFICES ASSUME top2 < old.top
               PROVE  /\ old.eps \cap ToDelete # {}
                      /\ top2 = 0 \/ \E i \in ToInsert : <<i, top2>> \in Keyed(layers')
    OBVIOUS
  <2>1. height = 0 /\ HeightReset BY <1>4, <1>5, <1>13, <1>14
  <2> QED BY <2>1, <1>21 DEF HeightReset
<1>23. top2 > old.top => \E i \in ToInsert : <<i, top2>> \in Keyed(layers')
  <2> SUFFICES ASSUME top2 > old.top PROVE top2 # height BY <1>21
  <2> QED BY <1>4, <1>5, <1>13
<1>24. Heights' BY <1>2, <1>3, <1>16, <1>22, <1>23 DEF Heights
<1>25. \A t \in Thread : Works(th'[t], Here', Keyed(layers'), vectors')
  BY <1>2 DEF Graph, Quiet, Works
<1>26. Inserting' BY <1>2, <1>3, <1>10, <1>11, <1>16, <1>25 DEF Inserting
<1>27. Remembers' BY <1>2, <1>3 DEF Graph, Remembers
<1>28. Idle' /\ Quiet' /\ Substituting' /\ Patching'
  BY <1>2 DEF Idle, Quiet, Substituting, Patching
<1> QED BY <1>20, <1>24, <1>26, <1>27, <1>28 DEF Graph

\* No task is left and no thread works: every item is inserted.
LEMMA InsertedGraph == ASSUME IInv, Graph, Inserted PROVE Graph'
<1>1. /\ phase = "insert" /\ phase' = "patch" /\ tasks = {} /\ \A t \in Thread : th[t].pc = "rest"
      /\ vectors' = vectors /\ updated' = updated /\ links' = links /\ old' = old
      /\ eps' = eps /\ top' = top /\ scan' = scan /\ layers' = layers /\ tasks' = tasks /\ th' = th
      /\ unpatched' = {k \in StoredKeys : k[1] \notin ToDelete}
  BY DEF Inserted, client, stored
<1>2. /\ ToInsert' = ToInsert /\ ToDelete' = ToDelete /\ StoredKeys' = StoredKeys
      /\ Here' = Here
  BY <1>1 DEF ToInsert, ToDelete, StoredKeys, Here
<1>3. \A i \in ToInsert : <<i, 0>> \in Keyed(layers) BY <1>1 DEF Graph, Inserting
<1>4. Patching' BY <1>1, <1>2, <1>3 DEF Patching
<1>5. Remembers' BY <1>1, <1>2 DEF Graph, Remembers
<1>6. Quiet' BY <1>1 DEF Quiet
<1>7. Grows' BY <1>1, <1>2 DEF Graph, Grows
<1>8. Heights' BY <1>1, <1>2 DEF Graph, Heights
<1>9. Idle' /\ Substituting' /\ Inserting' BY <1>1 DEF Idle, Substituting, Inserting
<1> QED BY <1>4, <1>5, <1>6, <1>7, <1>8, <1>9 DEF Graph

\* A repaired entry leads to old items that stay and to new ones.
LEMMA RepairedLinks ==
    ASSUME IInv, Graph, phase = "patch", NEW k \in StoredKeys, k[1] \notin ToDelete,
           NEW node \in Repaired(k)
    PROVE  \A j \in node.links : <<j, k[2]>> \in Here
<1> DEFINE gone == links[k] \cap ToDelete
           wide == (links[k] \cup UNION {StoredLinks(d, k[2]) : d \in gone}) \ ToDelete
           own  == IF layers[k] = Absent THEN EmptyNode ELSE layers[k]
           all  == wide \cup own.links
<1>1. /\ k \in LinkKey /\ k[2] \in Level
      /\ \A o \in StoredKeys : o[1] \in vectors \/ o[1] \in ToDelete
      /\ \A o \in StoredKeys : \A j \in links[o] : <<j, o[2]>> \in StoredKeys
  BY BuildReads, KeyFacts DEF Graph
<1>2. ASSUME NEW j, <<j, k[2]>> \in StoredKeys, j \notin ToDelete
      PROVE  <<j, k[2]>> \in Here
  <2>1. <<j, k[2]>> \in LinkKey /\ <<j, k[2]>>[1] = j BY <1>2 DEF StoredKeys
  <2>2. j \in vectors BY <2>1, <1>1, <1>2
  <2> QED BY <2>1, <2>2, <1>2, PlaceFacts
<1>3. ASSUME NEW j \in wide PROVE <<j, k[2]>> \in Here
  <2>1. j \notin ToDelete OBVIOUS
  <2>2. CASE j \in links[k] BY <2>1, <2>2, <1>1, <1>2
  <2>3. CASE \E d \in gone : j \in StoredLinks(d, k[2])
    <3>1. PICK d \in gone : j \in StoredLinks(d, k[2]) BY <2>3
    <3>2. <<d, k[2]>> \in StoredKeys BY <1>1
    <3>3. <<d, k[2]>>[2] = k[2] /\ j \in links[<<d, k[2]>>] BY <3>1, <3>2 DEF StoredLinks, StoredKeys
    <3>4. <<j, k[2]>> \in StoredKeys BY <3>2, <3>3, <1>1
    <3> QED BY <3>4, <2>1, <1>2
  <2> QED BY <2>2, <2>3
<1>4. ASSUME NEW j \in own.links PROVE <<j, k[2]>> \in Here
  <2>1. layers[k] # Absent BY DEF EmptyNode
  <2>2. k \in Keyed(layers) /\ j \in layers[k].links BY <2>1, <1>1 DEF Keyed
  <2> QED BY <2>2 DEF Graph, Grows, Leads
<1>5. node.links \subseteq all
  <2>1. CASE Cardinality(wide) + own.len <= Cap(k[2])
    <3>1. node = [links |-> all, len |-> Cardinality(wide) + own.len]
      BY <2>1 DEF Repaired
    <3> QED BY <3>1
  <2>2. CASE ~(Cardinality(wide) + own.len <= Cap(k[2]))
    <3>1. node \in PrunedNodes(k[1], all, Cap(k[2])) BY <2>2 DEF Repaired
    <3> HIDE DEF all
    <3> QED BY <3>1 DEF PrunedNodes, Pruned
  <2> QED BY <2>1, <2>2
<1> QED BY <1>3, <1>4, <1>5

\* An old entry is patched.
LEMMA PatchGraph == ASSUME IInv, Graph, Patch PROVE Graph'
<1>1. PICK k \in unpatched : /\ \E node \in Repaired(k) : layers' = [layers EXCEPT ![k] = node]
                             /\ unpatched' = unpatched \ {k}
  BY DEF Patch
<1>2. PICK node \in Repaired(k) : layers' = [layers EXCEPT ![k] = node] BY <1>1
<1>3. /\ phase = "patch" /\ phase' = "patch" /\ vectors' = vectors /\ updated' = updated
      /\ links' = links /\ old' = old /\ eps' = eps /\ top' = top /\ scan' = scan
      /\ tasks' = tasks /\ th' = th
  BY DEF Patch, client, stored
<1>4. ToInsert' = ToInsert /\ ToDelete' = ToDelete /\ StoredKeys' = StoredKeys
  BY <1>3 DEF ToInsert, ToDelete, StoredKeys
<1>5. k \in StoredKeys /\ k[1] \notin ToDelete BY <1>3 DEF IInv, Graph, Patching
<1>6. k \in LinkKey /\ k[1] \in vectors /\ k \in Here
  <2>1. k \in LinkKey /\ k[1] \in vectors BY <1>3, <1>5, BuildReads DEF Graph
  <2> QED BY <2>1, <1>5, PlaceFacts
<1>7. layers \in LayerMap /\ LayersFit(layers) BY DEF IInv, TypeOK, LayerMap
<1>8. node \in Node BY <1>5, <1>7, RepairedFits DEF IInv
<1>9. \A j \in node.links : <<j, k[2]>> \in Here BY <1>3, <1>5, RepairedLinks
<1>10. Leads(layers, Here) /\ Nested(Here) /\ Covers(Keyed(layers), eps, top)
  BY <1>3 DEF Graph, Grows
<1>11. Here' = Places(vectors, layers', links) BY <1>3 DEF Here
<1>12. Keyed(layers') = Keyed(layers) \cup {k} /\ Here' = Here /\ Leads(layers', Here')
  <2> DEFINE P == Places(vectors, layers, links)
             map2 == [layers EXCEPT ![k] = node]
  <2>1. k \in P /\ Leads(layers, P) /\ \A j \in node.links : <<j, k[2]>> \in P /\ P = Here
    BY <1>6, <1>9, <1>10 DEF Here
  <2>2. P = Here BY DEF Here
  <2> HIDE DEF P
  <2>3. /\ Keyed(map2) = Keyed(layers) \cup {k}
        /\ Places(vectors, map2, links) = P
        /\ Leads(map2, Places(vectors, map2, links))
    BY <1>6, <1>7, <1>8, <2>1, PutLeads DEF P
  <2>4. layers' = map2 BY <1>2
  <2> HIDE DEF map2
  <2> QED BY <2>2, <2>3, <2>4, <1>11
<1>13. Covers(Keyed(layers'), eps, top) BY <1>10, <1>12 DEF Covers
<1>14. Grows' BY <1>3, <1>10, <1>12, <1>13 DEF Graph, Grows
<1>15. Heights'
  <2>1. Heights BY DEF Graph
  <2> QED BY <2>1, <1>3, <1>4, <1>12 DEF Heights
<1>16. Patching'
  <2>1. Patching BY DEF Graph
  <2>2. Keyed(layers) \cup unpatched \subseteq Keyed(layers') \cup unpatched' BY <1>1, <1>12
  <2>3. \A i \in ToInsert : <<i, 0>> \in Keyed(layers') BY <2>1, <1>3, <1>12 DEF Patching
  <2>4. \A o \in StoredKeys : o[1] \notin ToDelete => o \in Keyed(layers') \cup unpatched'
    BY <2>1, <2>2, <1>3 DEF Patching
  <2>5. \A o \in unpatched' : o[1] \notin ToDelete BY <2>1, <1>1, <1>3 DEF Patching
  <2> QED BY <2>3, <2>4, <2>5, <1>3, <1>4 DEF Patching
<1>17. Remembers' BY <1>3, <1>4 DEF Graph, Remembers
<1>18. Quiet' BY <1>3 DEF Graph, Quiet
<1>19. Idle' /\ Substituting' /\ Inserting' BY <1>3 DEF Idle, Substituting, Inserting
<1> QED BY <1>14, <1>15, <1>16, <1>17, <1>18, <1>19 DEF Graph

\* Once every entry is patched the maps hold the whole graph, of exactly the items stored.
LEMMA MapsWhole ==
    ASSUME IInv, Graph, phase = "patch", unpatched = {}
    PROVE  /\ Here = Keyed(layers) /\ Nested(Keyed(layers)) /\ Leads(layers, Keyed(layers))
           /\ Ids(Keyed(layers)) = vectors
           /\ \A i \in vectors : <<i, 0>> \in Keyed(layers)
           /\ Covers(Keyed(layers), eps, top) /\ (eps = {} => vectors = {} /\ top = 0)
           /\ \A k \in StoredKeys : k[1] \notin ToDelete => k \in Keyed(layers)
           /\ \A k \in LinkKey : k[1] \in ToDelete => k \notin Keyed(layers)
<1>1. /\ Covers(Keyed(layers), eps, top) /\ (eps = {} => vectors = {} /\ top = 0)
      /\ Leads(layers, Here) /\ Nested(Here)
  BY DEF Graph, Grows
<1>2. /\ ToDelete \cap vectors = {} /\ Nested(StoredKeys)
      /\ \A i \in vectors : i \in ToInsert \/ i \in Ids(StoredKeys)
      /\ StoredKeys \subseteq LinkKey
  BY BuildReads DEF Graph
<1>3. \A k \in StoredKeys : k[1] \notin ToDelete => k \in Keyed(layers) BY DEF Graph, Patching
<1>4. Here = Keyed(layers)
  <2>1. Keyed(layers) \subseteq Here BY <1>1 DEF Leads
  <2>2. ASSUME NEW k \in Here PROVE k \in Keyed(layers)
    <3>1. k \in LinkKey /\ k[1] \in vectors /\ (k \in Keyed(layers) \/ k \in StoredKeys)
      BY PlaceFacts
    <3> QED BY <3>1, <1>2, <1>3
  <2> QED BY <2>1, <2>2
<1>5. ASSUME NEW i \in vectors PROVE <<i, 0>> \in Keyed(layers)
  <2>1. CASE i \in ToInsert BY <2>1 DEF Graph, Patching
  <2>2. CASE i \in Ids(StoredKeys)
    <3>1. PICK k \in StoredKeys : k[1] = i BY <2>2 DEF Ids
    <3>2. 0 \in 0 .. k[2] BY <3>1, <1>2, KeyFacts
    <3>3. <<i, 0>> \in StoredKeys BY <3>1, <3>2, <1>2 DEF Nested
    <3>4. <<i, 0>>[1] \notin ToDelete BY <1>2
    <3> QED BY <3>3, <3>4, <1>3
  <2> QED BY <2>1, <2>2, <1>2
<1>6. Ids(Keyed(layers)) = vectors
  <2>1. \A k \in Keyed(layers) : k[1] \in vectors BY <1>4, PlaceFacts
  <2>2. \A i \in vectors : i \in Ids(Keyed(layers))
    <3> TAKE i \in vectors
    <3>1. <<i, 0>> \in Keyed(layers) /\ <<i, 0>>[1] = i BY <1>5
    <3> QED BY <3>1 DEF Ids
  <2> QED BY <2>1, <2>2 DEF Ids
<1>7. \A k \in LinkKey : k[1] \in ToDelete => k \notin Keyed(layers)
  BY <1>2, <1>4, PlaceFacts
<1> QED BY <1>1, <1>3, <1>4, <1>5, <1>6, <1>7

\* The maps are written: what is stored is the whole graph.
LEMMA FinishGraph == ASSUME IInv, Graph, Finish PROVE Graph'
<1>1. /\ phase = "patch" /\ unpatched = {} /\ phase' = "idle" /\ updated' = {}
      /\ vectors' = vectors /\ eps' = eps /\ top' = top /\ tasks' = tasks /\ th' = th
      /\ layers' = NoLayers
      /\ links' = [k \in LinkKey |-> IF k[1] \in ToDelete THEN Absent
                                     ELSE IF layers[k] # Absent THEN layers[k].links
                                     ELSE links[k]]
  BY DEF Finish
<1>2. /\ Nested(Keyed(layers)) /\ Leads(layers, Keyed(layers)) /\ Ids(Keyed(layers)) = vectors
      /\ Covers(Keyed(layers), eps, top) /\ (eps = {} => vectors = {} /\ top = 0)
      /\ \A k \in StoredKeys : k[1] \notin ToDelete => k \in Keyed(layers)
      /\ \A k \in LinkKey : k[1] \in ToDelete => k \notin Keyed(layers)
  BY <1>1, MapsWhole
<1>3. ASSUME NEW k \in LinkKey
      PROVE  IF k \in Keyed(layers) THEN links'[k] = layers[k].links /\ links'[k] # Absent
                                    ELSE links'[k] = Absent
  <2>1. CASE k \in Keyed(layers)
    <3>1. layers[k] # Absent /\ k[1] \notin ToDelete BY <2>1, <1>2 DEF Keyed
    <3>2. layers[k].links \in SUBSET Item BY <3>1, EntryIsNode DEF IInv, TypeOK, LayerMap, Node
    <3> QED BY <3>1, <3>2, <2>1, <1>1, AbsentAssumption
  <2>2. CASE k \notin Keyed(layers)
    <3>1. layers[k] = Absent BY <2>2 DEF Keyed
    <3>2. k[1] \notin ToDelete => links[k] = Absent BY <2>2, <1>2 DEF StoredKeys
    <3> QED BY <3>1, <3>2, <2>2, <1>1
  <2> QED BY <2>1, <2>2
<1>4. Keyed(links') = Keyed(layers)
  <2>1. Keyed(layers) \subseteq LinkKey BY DEF Keyed
  <2> DEFINE K == Keyed(layers)
  <2>2. \A k \in LinkKey : links'[k] # Absent <=> k \in K BY <1>3
  <2> HIDE DEF K
  <2> QED BY <2>1, <2>2 DEF Keyed, K
<1>5. \A k \in Keyed(links') : \A j \in links'[k] : <<j, k[2]>> \in Keyed(links')
  <2> SUFFICES ASSUME NEW k \in Keyed(layers) PROVE \A j \in links'[k] : <<j, k[2]>> \in Keyed(layers)
    BY <1>4
  <2>1. k \in LinkKey BY DEF Keyed
  <2>2. links'[k] = layers[k].links BY <2>1, <1>3
  <2> QED BY <2>2, <1>2 DEF Leads
<1>6. eps = {} => Keyed(layers) = {}
  <2>1. \A k \in Keyed(layers) : k[1] \in Ids(Keyed(layers)) BY DEF Ids
  <2> QED BY <2>1, <1>2
<1>7. Stands(links', eps', top') BY <1>1, <1>2, <1>4, <1>5, <1>6 DEF Stands
<1>8. Marked(links', vectors', updated') BY <1>1, <1>2, <1>4 DEF Marked
<1>9. Idle' BY <1>1, <1>7, <1>8 DEF Idle
<1>10. Quiet' BY <1>1 DEF Graph, Quiet
<1>11. Remembers' /\ Substituting' /\ Grows' /\ Heights' /\ Inserting' /\ Patching'
  BY <1>1 DEF Remembers, Substituting, Grows, Heights, Inserting, Patching
<1> QED BY <1>9, <1>10, <1>11 DEF Graph

\* The abort brings back what stood when the build began.
LEMMA CancelGraph == ASSUME IInv, Graph, Cancel PROVE Graph'
<1>1. /\ phase # "idle" /\ phase' = "idle" /\ vectors' = vectors /\ updated' = updated
      /\ links' = old.links /\ eps' = old.eps /\ top' = old.top
      /\ layers' = NoLayers /\ tasks' = {} /\ th' = [t \in Thread |-> Resting]
  BY DEF Cancel, client
<1>2. Idle' BY <1>1 DEF Graph, Remembers, Idle
<1>3. Quiet' BY <1>1 DEF Quiet, Resting
<1>4. Remembers' /\ Substituting' /\ Grows' /\ Heights' /\ Inserting' /\ Patching'
  BY <1>1 DEF Remembers, Substituting, Grows, Heights, Inserting, Patching
<1> QED BY <1>2, <1>3, <1>4 DEF Graph

-----------------------------------------------------------------------------
(* The theorems. *)

\* The empty index is a graph.
LEMMA InitGraph == Init => Graph
<1> SUFFICES ASSUME Init PROVE Graph OBVIOUS
<1>1. Keyed(links) = {} /\ eps = {} /\ top = 0 /\ vectors = {} /\ layers = NoLayers
  BY DEF Init, Keyed, NoLayers
<1>2. Stands(links, eps, top) BY <1>1 DEF Stands, Nested, Covers
<1>3. Marked(links, vectors, updated) BY <1>1 DEF Marked, Ids
<1>4. Idle BY <1>1, <1>2, <1>3 DEF Idle
<1>5. Quiet BY DEF Init, Quiet, Resting
<1>6. phase = "idle" BY DEF Init
<1>7. Remembers /\ Substituting /\ Grows /\ Heights /\ Inserting /\ Patching
  BY <1>6 DEF Remembers, Substituting, Grows, Heights, Inserting, Patching
<1> QED BY <1>4, <1>5, <1>7 DEF Graph

\* Every step keeps the graph one that can be walked, or mended.
LEMMA NextGraph == ASSUME IInv, Graph, [Next]_vars PROVE Graph'
<1>1. CASE UNCHANGED vars
  BY <1>1 DEF vars, Graph, Idle, Remembers, Quiet, Substituting, Grows, Heights, Inserting,
              Patching, Here, ToInsert, ToDelete, StoredKeys
<1>2. CASE \E i \in Item : AddItem(i) \/ DelItem(i) BY <1>2, ClientGraph
<1>3. CASE StartBuild \/ StartRebuild BY <1>3, StartGraph
<1>4. CASE ScanLayer BY <1>4, ScanGraph
<1>5. CASE Resolved BY <1>5, ResolvedGraph
<1>6. ASSUME NEW t \in Thread, ThreadStep(t) PROVE Graph'
  BY <1>6, TakeGraph, EnterGraph, ExpandGraph, LazyInsertGraph, DescendGraph, SelectGraph,
     LinkForthGraph, LinkBackGraph, NextLevelGraph DEF ThreadStep
<1>7. CASE Inserted BY <1>7, InsertedGraph
<1>8. CASE Patch BY <1>8, PatchGraph
<1>9. CASE Finish BY <1>9, FinishGraph
<1>10. CASE Cancel BY <1>10, CancelGraph
<1> QED BY <1>1, <1>2, <1>3, <1>4, <1>5, <1>6, <1>7, <1>8, <1>9, <1>10 DEF Next

\* Between steps the graph is one that can be walked, or that the build is about to mend.
THEOREM GraphInvariance == Spec => []Graph
<1>1. IInv /\ Graph /\ [Next]_vars => Graph' BY NextGraph
<1> QED BY InitGraph, <1>1, Invariance, PTL DEF Spec

\* However threads race, a build never asks for an item that is deleted, and every walk
\* finds something.
THEOREM NothingIsMissing == Spec => []NothingMissing
<1>1. IInv /\ Graph => NothingMissing
  <2> SUFFICES ASSUME IInv, Graph PROVE NothingMissing OBVIOUS
  <2>1. phase \in {"insert", "patch"} => eps \subseteq vectors
    <3> SUFFICES ASSUME phase \in {"insert", "patch"}, NEW e \in eps PROVE e \in vectors
      OBVIOUS
    <3>1. 0 \in 0 .. top BY KeyFacts DEF IInv, TypeOK
    <3>2. <<e, 0>> \in Here BY <3>1 DEF Graph, Grows, Covers, Leads
    <3> QED BY <3>2, PlaceFacts
  <2>2. \A task \in tasks : task[1] \in vectors BY DEF Graph, Inserting, Quiet
  <2>3. \A t \in Thread : th[t].pc # "rest" => th[t].res # {} /\ th[t].visited \subseteq vectors
    BY AtWork DEF Works
  <2>4. ASSUME NEW k \in LinkKey, layers[k] # Absent
        PROVE  k[1] \in vectors /\ layers[k].links \subseteq vectors
    <3>1. layers # NoLayers BY <2>4 DEF NoLayers
    <3>2. phase \in {"insert", "patch"} BY <3>1 DEF IInv, TypeOK, Graph, Idle, Substituting
    <3>3. k \in Keyed(layers) BY <2>4 DEF Keyed
    <3>4. k \in Here /\ \A j \in layers[k].links : <<j, k[2]>> \in Here
      BY <3>2, <3>3 DEF Graph, Grows, Leads
    <3> QED BY <3>4, PlaceFacts
  <2>5. ASSUME NEW k \in unpatched
        PROVE  links[k] \cup UNION {StoredLinks(d, k[2]) : d \in links[k] \cap ToDelete}
                 \subseteq vectors \cup ToDelete
    <3>1. phase = "patch" /\ k \in StoredKeys BY DEF IInv
    <3>2. /\ \A o \in StoredKeys : o[1] \in vectors \/ o[1] \in ToDelete
          /\ \A o \in StoredKeys : \A j \in links[o] : <<j, o[2]>> \in StoredKeys
      BY <3>1, BuildReads DEF Graph
    <3>3. \A o \in StoredKeys : \A j \in links[o] : j \in vectors \cup ToDelete
      <4> TAKE o \in StoredKeys
      <4> TAKE j \in links[o]
      <4>1. <<j, o[2]>> \in StoredKeys /\ <<j, o[2]>>[1] = j BY <3>2
      <4> QED BY <4>1, <3>2
    <3>4. ASSUME NEW d \in links[k], NEW j \in StoredLinks(d, k[2])
          PROVE  j \in vectors \cup ToDelete
      <4>1. <<d, k[2]>> \in StoredKeys BY <3>1, <3>2
      <4>2. j \in links[<<d, k[2]>>] BY <4>1 DEF StoredLinks, StoredKeys
      <4> QED BY <4>1, <4>2, <3>3
    <3> QED BY <3>1, <3>3, <3>4
  <2> QED BY <2>1, <2>2, <2>3, <2>4, <2>5 DEF NothingMissing
<1> QED BY <1>1, Invariance, GraphInvariance, PTL

\* What is stored is always a graph, in the middle of a build too.
LEMMA StoredGraph ==
    ASSUME IInv, Graph
    PROVE  /\ StoredKeys = Keyed(links) /\ Nested(StoredKeys)
           /\ \A k \in StoredKeys : \A j \in links[k] : <<j, k[2]>> \in StoredKeys
<1>1. StoredKeys = Keyed(links) BY DEF StoredKeys, Keyed
<1>2. CASE phase = "idle" BY <1>1, <1>2 DEF Graph, Idle, Stands
<1>3. CASE phase # "idle" BY <1>3, BuildReads DEF Graph
<1> QED BY <1>1, <1>2, <1>3

\* A reader that follows a stored link finds links at its other end.
THEOREM EveryLinkLeads == Spec => []LinksLead
<1>1. IInv /\ Graph => LinksLead BY StoredGraph DEF LinksLead
<1> QED BY <1>1, Invariance, GraphInvariance, PTL

\* A reader can go down from any item on any level to the ground.
THEOREM EveryLevelNests == Spec => []LevelsNested
<1>1. IInv /\ Graph => LevelsNested BY StoredGraph DEF LevelsNested, Nested
<1> QED BY <1>1, Invariance, GraphInvariance, PTL

\* An entry point has an entry on the ground.
LEMMA EntryPointsThere ==
    ASSUME IInv, Graph, phase = "idle"
    PROVE  Covers(StoredKeys, eps, top) /\ (eps = {} <=> StoredKeys = {})
<1>1. StoredKeys = Keyed(links) BY DEF StoredKeys, Keyed
<1>2. Covers(StoredKeys, eps, top) /\ (eps = {} => StoredKeys = {})
  BY <1>1 DEF Graph, Idle, Stands
<1>3. 0 \in 0 .. top BY KeyFacts DEF IInv, TypeOK
<1>4. \A e \in eps : <<e, 0>> \in StoredKeys BY <1>2, <1>3 DEF Covers
<1> QED BY <1>2, <1>4

\* A search that starts from the entry points finds links, whatever was built or aborted.
THEOREM EntryPointsAlwaysStand == Spec => []EntryPointsStand
<1>1. IInv /\ Graph => EntryPointsStand BY EntryPointsThere DEF EntryPointsStand
<1> QED BY <1>1, Invariance, GraphInvariance, PTL

\* After a build the graph is one a reader can walk, of exactly the items stored: what
\* HnswSearch takes for granted.
THEOREM BuiltGraphIsWalkable == Spec => []BuiltIsWalkable
<1>1. IInv /\ Graph => BuiltIsWalkable
  <2> SUFFICES ASSUME IInv, Graph, phase = "idle", updated = {}
               PROVE  Walkable(vectors, StoredKeys, links, eps, top)
    BY DEF BuiltIsWalkable
  <2>1. Ids(Keyed(links)) \ updated = vectors \ updated BY DEF Graph, Idle, Marked
  <2>2. Ids(StoredKeys) = vectors BY <2>1, StoredGraph
  <2> QED BY <2>2, StoredGraph, EntryPointsThere DEF Walkable, Nested
<1> QED BY <1>1, Invariance, GraphInvariance, PTL

\* A finished build leaves behind what HannoyIndex takes a build to leave behind.
THEOREM BuildsMeetContract == Spec => BuildMeetsContract
<1> DEFINE written == {k \in LinkKey : layers[k] # Absent}
           Outcome == HnswOutcome(StoredKeys, old.eps, old.top, ToInsert, ToDelete, written,
                                  eps', top')
<1>1. IInv /\ Graph /\ [Next]_vars => [Finish => Outcome]_vars
  <2> SUFFICES ASSUME IInv, Graph, Finish PROVE Outcome OBVIOUS
  <2>1. phase = "patch" /\ unpatched = {} /\ eps' = eps /\ top' = top BY DEF Finish
  <2>2. written = Keyed(layers) BY DEF Keyed
  <2>3. /\ Ids(written) = vectors /\ Covers(written, eps, top)
        /\ eps = {} => vectors = {} /\ top = 0
        /\ \A i \in vectors : <<i, 0>> \in written
        /\ \A k \in StoredKeys : k[1] \notin ToDelete => k \in written
    BY <2>1, <2>2, MapsWhole
  <2>4. /\ ToInsert \subseteq vectors /\ ToDelete \cap vectors = {}
        /\ \A k \in StoredKeys : k[1] \in vectors \/ k[1] \in ToDelete
        /\ \A i \in vectors : i \in ToInsert \/ i \in Ids(StoredKeys)
        /\ old.eps \ ToDelete \subseteq vectors
        /\ StoredKeys \subseteq LinkKey /\ Nested(StoredKeys)
        /\ StoredKeys # {} => old.links = links
        /\ StoredKeys = Keyed(links)
    BY <2>1, BuildReads DEF Graph
  <2>5. Heights BY DEF Graph
  <2>6. top \in Level /\ old.top \in Level BY DEF IInv, TypeOK
  <2> HIDE DEF written
  <2>7. Ids(written) = ToInsert \cup (Ids(StoredKeys) \ ToDelete) \cup (old.eps \ ToDelete)
    <3>1. \A i \in Ids(StoredKeys) : i \in vectors \/ i \in ToDelete BY <2>4 DEF Ids
    <3> QED BY <3>1, <2>3, <2>4
  <2>8. \A i \in ToInsert : <<i, 0>> \in written BY <2>3, <2>4
  <2>9. eps \subseteq Ids(written)
    <3> SUFFICES ASSUME NEW e \in eps PROVE e \in Ids(written) OBVIOUS
    <3>1. 0 \in 0 .. top BY <2>6, KeyFacts
    <3>2. <<e, 0>> \in written /\ <<e, 0>>[1] = e BY <3>1, <2>3 DEF Covers
    <3> QED BY <3>2 DEF Ids
  <2> DEFINE Something == \/ ToInsert # {}
                          \/ old.eps \ ToDelete # {}
                          \/ /\ old.eps \cap ToDelete # {}
                             /\ HasSubstitute(StoredKeys, old.top, ToDelete)
  <2>10. eps # {} <=> Something
    <3>1. ASSUME eps # {} PROVE Something
      <4>1. PICK i \in vectors : TRUE BY <3>1, <2>3, <2>9
      <4>2. CASE i \in ToInsert BY <4>2
      <4>3. CASE i \in Ids(StoredKeys)
        <5>1. PICK k \in StoredKeys : k[1] = i BY <4>3 DEF Ids
        <5>2. 0 \in 0 .. k[2] /\ 0 <= old.top BY <5>1, <2>4, <2>6, KeyFacts
        <5>3. <<i, 0>> \in StoredKeys /\ <<i, 0>>[1] = i /\ <<i, 0>>[2] = 0
          BY <5>1, <5>2, <2>4 DEF Nested
        <5>4. HasSubstitute(StoredKeys, old.top, ToDelete)
          BY <5>2, <5>3, <2>4 DEF HasSubstitute
        <5>5. Keyed(old.links) # {} BY <5>1, <2>4
        <5>6. old.eps # {} BY <5>5, <2>1 DEF Graph, Remembers, Stands
        <5> QED BY <5>4, <5>6
      <4> QED BY <4>2, <4>3, <2>4
    <3>2. ASSUME eps = {} PROVE ~Something
      <4>1. vectors = {} BY <3>2, <2>3
      <4>2. ~HasSubstitute(StoredKeys, old.top, ToDelete)
        BY <4>1, <2>4 DEF HasSubstitute
      <4> QED BY <4>1, <4>2, <2>4
    <3> QED BY <3>1, <3>2
  <2>11. /\ top < old.top => /\ old.eps \cap ToDelete # {}
                             /\ top = 0 \/ \E i \in ToInsert : <<i, top>> \in written
         /\ top > old.top => \E i \in ToInsert : <<i, top>> \in written
    BY <2>1, <2>2, <2>5 DEF Heights
  <2> HIDE DEF Something
  <2> QED BY <2>1, <2>3, <2>7, <2>8, <2>9, <2>10, <2>11 DEF HnswOutcome, Something
<1> QED BY <1>1, Invariance, GraphInvariance, PTL DEF BuildMeetsContract, Spec

-----------------------------------------------------------------------------
(* No step of a build goes back. *)

\* What walk_layer makes of a candidate's neighbours: it has seen more, or has one less to
\* look at.
LEMMA WalkedAdvances ==
    ASSUME NEW s \in ThreadState, NEW c \in s.cand, NEW near \in SUBSET Item,
           NEW s2 \in Walked([s EXCEPT !.cand = @ \ {c}], Unvisited(s, near))
    PROVE  /\ s2.at = s.at
           /\ \/ Shrinks(s2.visited, s.visited)
              \/ s2.visited = s.visited /\ Shrinks(s.cand, s2.cand)
<1> DEFINE less == [s EXCEPT !.cand = @ \ {c}]
           new == Unvisited(s, near)
           nearer == {i \in new : \E r \in less.res : Dist[<<less.item, i>>] < Dist[<<less.item, r>>]}
           found(F) == less.res \cup nearer \cup F
           res2(F) == IF Cardinality(less.res) > Width(less) THEN found(F)
                      ELSE Nearest(less.item, found(F), Width(less))
<1>1. /\ less \in ThreadState /\ less.cand = s.cand \ {c} /\ less.visited = s.visited
      /\ less.at = s.at
  BY DEF ThreadState
<1>2. PICK F \in SUBSET (new \ nearer) :
        s2 = [less EXCEPT !.cand = @ \cup nearer \cup F, !.visited = @ \cup new, !.res = res2(F)]
  BY DEF Walked
<1>3. new \cap s.visited = {} BY DEF Unvisited
<1> HIDE DEF less, new, res2
<1>4. /\ s2.at = s.at /\ s2.visited = s.visited \cup new
      /\ s2.cand = (s.cand \ {c}) \cup nearer \cup F
  BY <1>1, <1>2 DEF ThreadState
<1>5. CASE new = {}
  <2>1. nearer = {} /\ F = {} BY <1>5
  <2> HIDE DEF nearer
  <2>2. s2.visited = s.visited /\ s2.cand = s.cand \ {c} BY <1>4, <1>5, <2>1
  <2> QED BY <1>4, <2>2 DEF Shrinks
<1>6. CASE new # {} BY <1>3, <1>4, <1>6 DEF Shrinks
<1> QED BY <1>5, <1>6

\* A step of a thread takes an insertion or brings the thread on.
LEMMA ThreadAdvances ==
    ASSUME IInv, Graph, NEW t \in Thread, ThreadStep(t)
    PROVE  /\ phase = "insert" /\ phase' = "insert"
           /\ \/ Shrinks(tasks, tasks')
              \/ /\ tasks' = tasks
                 /\ Advances(th[t], th'[t]) /\ \A u \in Thread \ {t} : th'[u] = th[u]
<1> DEFINE s == th[t]
           z == th'[t]
<1>1. th \in [Thread -> ThreadState] /\ s \in ThreadState /\ s.at \in Nat /\ s.at - 1 < s.at
  <2>1. th \in [Thread -> ThreadState] /\ s \in ThreadState BY DEF IInv, TypeOK
  <2>2. s.at \in Nat BY <2>1, KeyFacts DEF ThreadState
  <2> QED BY <2>1, <2>2
<1>2. ASSUME NEW y, th' = [th EXCEPT ![t] = y] PROVE z = y /\ \A u \in Thread \ {t} : th'[u] = th[u]
  BY <1>1, <1>2
<1>3. s.pc # "rest" => phase = "insert" BY DEF Graph, Quiet
<1>4. CASE Take(t)
  <2>1. PICK task \in tasks : tasks' = tasks \ {task} BY <1>4 DEF Take
  <2> QED BY <1>4, <2>1 DEF Take, Shrinks
<1>5. CASE Enter(t)
  <2>1. s.pc = "enter" /\ UNCHANGED <<phase, tasks>> /\ th' = [th EXCEPT ![t] = [s EXCEPT !.pc = "walk"]]
    BY <1>5 DEF Enter
  <2>2. z = [s EXCEPT !.pc = "walk"] /\ \A u \in Thread \ {t} : th'[u] = th[u] BY <1>2, <2>1
  <2>3. z.pc = "walk" /\ z.at = s.at BY <1>1, <2>2 DEF ThreadState
  <2> QED BY <1>3, <2>1, <2>2, <2>3 DEF Advances
<1>6. CASE Expand(t)
  <2>1. s.pc = "walk" /\ UNCHANGED <<phase, tasks>> BY <1>6 DEF Expand
  <2> DEFINE near(c) == StoredLinks(c, s.at) \cup (IF layers[<<c, s.at>>] = Absent THEN {}
                                                 ELSE layers[<<c, s.at>>].links)
             pc2(c) == IF layers[<<c, s.at>>] = Absent THEN "lazy" ELSE "walk"
  <2>2. PICK c \in Closest(s) :
          \E s2 \in Walked([s EXCEPT !.cand = @ \ {c}], Unvisited(s, near(c))) :
             th' = [th EXCEPT ![t] = [s2 EXCEPT !.pc = pc2(c), !.node = c]]
    BY <1>6 DEF Expand
  <2>3. PICK s2 \in Walked([s EXCEPT !.cand = @ \ {c}], Unvisited(s, near(c))) :
             th' = [th EXCEPT ![t] = [s2 EXCEPT !.pc = pc2(c), !.node = c]]
    BY <2>2
  <2>4. c \in s.cand /\ c \in Item BY <1>1 DEF Closest, ThreadState
  <2>5. Unvisited(s, near(c)) = Unvisited(s, near(c) \cap Item)
    <3>1. vectors \in SUBSET Item BY DEF IInv, TypeOK
    <3> QED BY <3>1 DEF Unvisited
  <2>6. /\ s2.at = s.at
        /\ \/ Shrinks(s2.visited, s.visited)
           \/ s2.visited = s.visited /\ Shrinks(s.cand, s2.cand)
    BY <1>1, <2>3, <2>4, <2>5, WalkedAdvances
  <2>7. s2 \in ThreadState
    <3>1. [s EXCEPT !.cand = @ \ {c}] \in ThreadState BY <1>1 DEF ThreadState
    <3>2. Unvisited(s, near(c)) \in SUBSET Item BY DEF IInv, TypeOK, Unvisited
    <3> QED BY <2>3, <3>1, <3>2, WalkedType
  <2> HIDE DEF near
  <2>8. z = [s2 EXCEPT !.pc = pc2(c), !.node = c] /\ \A u \in Thread \ {t} : th'[u] = th[u]
    BY <1>2, <2>3
  <2>9. /\ z.pc \in {"walk", "lazy"} /\ z.at = s2.at /\ z.visited = s2.visited
        /\ z.cand = s2.cand
    BY <2>7, <2>8 DEF ThreadState
  <2> QED BY <1>3, <2>1, <2>6, <2>8, <2>9 DEF Advances
<1>7. CASE LazyInsert(t)
  <2>1. s.pc = "lazy" /\ UNCHANGED <<phase, tasks>> /\ th' = [th EXCEPT ![t] = [s EXCEPT !.pc = "walk"]]
    BY <1>7 DEF LazyInsert
  <2>2. z = [s EXCEPT !.pc = "walk"] /\ \A u \in Thread \ {t} : th'[u] = th[u] BY <1>2, <2>1
  <2>3. z.pc = "walk" /\ z.at = s.at /\ z.visited = s.visited /\ z.cand = s.cand
    BY <1>1, <2>2 DEF ThreadState
  <2> QED BY <1>3, <2>1, <2>2, <2>3 DEF Advances
<1>8. CASE Descend(t)
  <2> DEFINE near == Nearest(s.item, s.res, 1)
             y == [Seeded(s, near) EXCEPT
                     !.at = s.at - 1, !.pc = IF s.at - 1 = s.level THEN "enter" ELSE "walk",
                     !.node = 0]
  <2>1. s.pc = "walk" /\ UNCHANGED <<phase, tasks>> /\ th' = [th EXCEPT ![t] = y]
    BY <1>8 DEF Descend, WalkEnds
  <2>2. y.at = s.at - 1 BY <1>1 DEF Seeded, ThreadState
  <2> HIDE DEF y
  <2>3. z = y /\ \A u \in Thread \ {t} : th'[u] = th[u] BY <1>2, <2>1
  <2> QED BY <1>1, <1>3, <2>1, <2>2, <2>3 DEF Advances
<1>9. CASE Select(t)
  <2> DEFINE y(selected) == [Seeded(s, selected) EXCEPT
                               !.cand = selected \ {s.item}, !.pc = "link", !.node = 0]
  <2>1. s.pc = "walk" /\ UNCHANGED <<phase, tasks>> BY <1>9 DEF Select, WalkEnds
  <2>2. PICK selected : th' = [th EXCEPT ![t] = y(selected)] BY <1>9 DEF Select
  <2>3. y(selected).at = s.at /\ y(selected).pc = "link" BY <1>1 DEF Seeded, ThreadState
  <2> HIDE DEF y
  <2>4. z = y(selected) /\ \A u \in Thread \ {t} : th'[u] = th[u] BY <1>2, <2>2
  <2> QED BY <1>3, <2>1, <2>3, <2>4 DEF Advances
<1>10. CASE LinkForth(t)
  <2>1. s.pc = "link" /\ UNCHANGED <<phase, tasks>> BY <1>10 DEF LinkForth
  <2> DEFINE y(n) == [s EXCEPT !.pc = "back", !.node = n, !.cand = @ \ {n}]
  <2>2. PICK n \in Nearest(s.item, s.cand, 1) : th' = [th EXCEPT ![t] = y(n)]
    BY <1>10 DEF LinkForth
  <2>3. n \in s.cand BY DEF Nearest
  <2>4. y(n).at = s.at /\ y(n).pc = "back" /\ y(n).cand = s.cand \ {n} BY <1>1 DEF ThreadState
  <2> HIDE DEF y
  <2>5. z = y(n) /\ \A u \in Thread \ {t} : th'[u] = th[u] BY <1>2, <2>2
  <2>6. Shrinks(s.cand, z.cand) BY <2>3, <2>4, <2>5 DEF Shrinks
  <2> QED BY <1>3, <2>1, <2>4, <2>5, <2>6 DEF Advances
<1>11. CASE LinkBack(t)
  <2>1. s.pc = "back" /\ UNCHANGED <<phase, tasks>> /\ th' = [th EXCEPT ![t] = [s EXCEPT !.pc = "link"]]
    BY <1>11 DEF LinkBack
  <2>2. z = [s EXCEPT !.pc = "link"] /\ \A u \in Thread \ {t} : th'[u] = th[u] BY <1>2, <2>1
  <2>3. z.pc = "link" /\ z.at = s.at /\ z.cand = s.cand BY <1>1, <2>2 DEF ThreadState
  <2> QED BY <1>3, <2>1, <2>2, <2>3 DEF Advances
<1>12. CASE NextLevel(t)
  <2> DEFINE y == IF s.at = 0 THEN Resting
                  ELSE [Seeded(s, s.res) EXCEPT !.pc = "walk", !.at = s.at - 1, !.node = 0]
  <2>1. s.pc = "link" /\ UNCHANGED <<phase, tasks>> /\ th' = [th EXCEPT ![t] = y]
    BY <1>12 DEF NextLevel
  <2>2. y.pc = "rest" \/ y.at = s.at - 1 BY <1>1 DEF Resting, Seeded, ThreadState
  <2> HIDE DEF y
  <2>3. z = y /\ \A u \in Thread \ {t} : th'[u] = th[u] BY <1>2, <2>1
  <2> QED BY <1>1, <1>3, <2>1, <2>2, <2>3 DEF Advances
<1> QED BY <1>4, <1>5, <1>6, <1>7, <1>8, <1>9, <1>10, <1>11, <1>12 DEF ThreadStep

\* For any number of threads and levels: no thread goes back, whatever the others make of
\* the maps it walks on, and no loop of a build does the same again.
THEOREM BuildsAdvance == Spec => BuildAdvances
<1> DEFINE Forward ==
      \/ phase = "idle" \/ phase' = "idle"
      \/ <<phase, phase'>> \in {<<"scan", "insert">>, <<"insert", "patch">>}
      \/ /\ phase = "scan" /\ phase' = "scan"
         /\ \/ scan'.left < scan.left
            \/ scan'.left = scan.left /\ scan'.layer < scan.layer
      \/ /\ phase = "insert" /\ phase' = "insert"
         /\ \/ Shrinks(tasks, tasks')
            \/ /\ tasks' = tasks
               /\ \E t \in Thread : /\ Advances(th[t], th'[t])
                                   /\ \A u \in Thread \ {t} : th'[u] = th[u]
      \/ phase = "patch" /\ phase' = "patch" /\ Shrinks(unpatched, unpatched')
<1>1. ASSUME IInv, Graph, Next PROVE Forward
  <2>1. CASE \E i \in Item : AddItem(i) \/ DelItem(i) BY <2>1 DEF AddItem, DelItem
  <2>2. CASE StartBuild \/ StartRebuild BY <2>2 DEF StartBuild, StartRebuild, Start
  <2>3. CASE ScanLayer
    <3>1. scan.layer \in Nat /\ scan.left \in Nat BY <1>1, KeyFacts DEF IInv, TypeOK
    <3>2. /\ phase = "scan" /\ phase' = "scan"
          /\ scan'.layer = (IF scan.layer = 0 THEN 0 ELSE scan.layer - 1)
          /\ scan'.left = (IF scan.layer = 0 THEN scan.left - 1 ELSE scan.left)
      BY <2>3 DEF ScanLayer
    <3> QED BY <3>1, <3>2
  <2>4. CASE Resolved BY <2>4 DEF Resolved
  <2>5. CASE \E t \in Thread : ThreadStep(t) BY <2>5, <1>1, ThreadAdvances
  <2>6. CASE Inserted BY <2>6 DEF Inserted
  <2>7. CASE Patch BY <2>7 DEF Patch, Shrinks
  <2>8. CASE Finish \/ Cancel BY <2>8 DEF Finish, Cancel
  <2> QED BY <1>1, <2>1, <2>2, <2>3, <2>4, <2>5, <2>6, <2>7, <2>8 DEF Next
<1>2. IInv /\ Graph /\ [Next]_vars => [Forward]_vars BY <1>1
<1> QED BY <1>2, Invariance, GraphInvariance, PTL DEF Spec, BuildAdvances
=============================================================================
