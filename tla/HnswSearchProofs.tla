-------------------------- MODULE HnswSearchProofs --------------------------
(***************************************************************************)
(* What a query returns, for every graph a build may leave, any items,     *)
(* distances, candidates, count and ef: no link and no vector is missing   *)
(* on the way, no item is found twice, only linear scans return the item a *)
(* query is about, and as many items are returned as asked for; scans are  *)
(* exact and the descent is greedy.                                        *)
(***************************************************************************)
EXTENDS HnswSearch, OrderLemmas

-----------------------------------------------------------------------------
(* The inductive invariant. *)

Standing == Walkable(vectors, Keys, links, eps, top)

\* Before a query starts nothing is found; on the way down nothing is either.
Fresh == /\ pc = "asked" => stage = "down"
         /\ stage # "more" /\ pc \notin {"scan", "done"} => found = {}

\* The graph is walked only when the candidates are not scanned, and nothing is next
\* before the ground was visited.
Walks == /\ pc = "scan" => LinearScan
         /\ pc \in {"visit", "next"} => ~LinearScan
         /\ pc = "next" => stage = "more" /\ visit.level = 0

\* A visit is among items with links on its level, that were seen; above the ground it has
\* a result, on the ground every result is wanted.
Visits ==
    pc = "visit" =>
        /\ \A c \in visit.queue \cup visit.res \cup visit.near : <<c, visit.level>> \in Keys
        /\ visit.res \subseteq path
        /\ IF stage = "down" THEN visit.level # 0 /\ visit.res # {} /\ visit.ef = 1
                             ELSE visit.level = 0 /\ visit.res \subseteq Wanted

\* What is found was seen and wanted, and is not a result of a later visit.
Finds == /\ pc \in {"visit", "next"} => found \subseteq path \cap Wanted
         /\ pc = "visit" => visit.res \cap found = {}

\* What was seen and is wanted is found or a result, unless a visit has as many results as
\* it may have, which are enough.
Misses ==
    /\ pc = "visit" /\ stage # "down" =>
         /\ visit.ef = IF stage = "ground" THEN Larger(query.ef, query.count) ELSE Room
         /\ path \cap Wanted \subseteq found \cup visit.res \/ Cardinality(visit.res) >= visit.ef
    /\ pc = "next" => path \cap Wanted \subseteq found

\* On the way down a result is as near as all that was seen, and as the bound that is stale
\* while links are followed.
Greedy ==
    pc = "visit" /\ stage = "down" =>
        /\ \A j \in path : \E r \in visit.res : D(r) <= D(j)
        /\ \A b \in visit.bar : \E r \in visit.res : D(r) <= b
        /\ visit.near # {} => visit.bar # {}

\* A scan has the nearest of what it has looked at, and count of them when there are more.
\* What it has not looked at has higher ids: the later of equally near ones loses.
Looked == Listed \ left

Scans ==
    pc = "scan" =>
        /\ left \subseteq query.cand /\ found \subseteq Looked
        /\ \A j \in Looked, l \in left : j < l
        /\ Cardinality(found) <= query.count
        /\ \A j \in Looked \ found : /\ Cardinality(found) = query.count
                                     /\ \A i \in found : Before(i, j)

\* Answers are wanted, or listed when they come from a scan; None has no items.
Answered ==
    pc = "done" => /\ answer.ids \subseteq (IF LinearScan THEN Listed ELSE Wanted)
                   /\ Cardinality(answer.ids) <= query.count
                   /\ answer.some \/ answer.ids = {}

IInv == /\ TypeOK /\ Standing /\ Fresh /\ Walks /\ Visits /\ Finds /\ Misses /\ Greedy /\ Scans
        /\ Answered /\ FindsEnough /\ ScanIsExact /\ CancelledForgets

-----------------------------------------------------------------------------
(* The order of (distance, id) pairs. *)

\* Sets of items are finite, and counting them gives a number.
LEMMA ItemSets ==
    ASSUME NEW S \in SUBSET Item
    PROVE  IsFiniteSet(S) /\ Cardinality(S) \in Nat
BY FiniteItems, FS_Subset, FS_CardinalityType

\* Distances are numbers.
LEMMA DType == ASSUME TypeOK, NEW i \in Item PROVE D(i) \in Nat /\ i \in Nat
<1>1. query.point \in Point BY DEF TypeOK, Query
<1> QED BY <1>1, DistAssumption, ItemAssumption DEF D

Sooner == {p \in Item \X Item : Before(p[1], p[2])}
Later  == {p \in Item \X Item : Before(p[2], p[1])}

\* The items are ordered by their distance, then by their id.
LEMMA BeforeOrders ==
    ASSUME TypeOK, NEW S \in SUBSET Item
    PROVE  /\ OrdersAll(Sooner, S) /\ Orders(Later, S)
           /\ \A i, j \in Item : /\ <<i, j>> \in Sooner <=> Before(i, j)
                                 /\ <<i, j>> \in Later <=> Before(j, i)
<1>1. \A i, j \in Item : /\ <<i, j>> \in Sooner <=> Before(i, j)
                         /\ <<i, j>> \in Later <=> Before(j, i)
  BY DEF Sooner, Later
<1>2. \A i, j, k \in Item : /\ ~Before(i, i)
                            /\ i = j \/ Before(i, j) \/ Before(j, i)
                            /\ Before(i, j) /\ Before(j, k) => Before(i, k)
  <2> TAKE i, j, k \in Item
  <2>1. /\ D(i) \in Nat /\ D(j) \in Nat /\ D(k) \in Nat
        /\ i \in Nat /\ j \in Nat /\ k \in Nat
    BY DType
  <2> QED BY <2>1 DEF Before
<1>3. OrdersAll(Sooner, S)
  <2>1. \A i \in S : <<i, i>> \notin Sooner BY <1>1, <1>2
  <2>2. \A i, j, k \in S : <<i, j>> \in Sooner /\ <<j, k>> \in Sooner => <<i, k>> \in Sooner
    BY <1>1, <1>2
  <2>3. \A i, j \in S : i = j \/ <<i, j>> \in Sooner \/ <<j, i>> \in Sooner BY <1>1, <1>2
  <2> QED BY <2>1, <2>2, <2>3 DEF OrdersAll, Orders
<1>4. Orders(Later, S)
  <2>1. \A i \in S : <<i, i>> \notin Later BY <1>1, <1>2
  <2>2. \A i, j, k \in S : <<i, j>> \in Later /\ <<j, k>> \in Later => <<i, k>> \in Later
    BY <1>1, <1>2
  <2> QED BY <2>1, <2>2 DEF Orders
<1> QED BY <1>1, <1>3, <1>4

\* A heap of n takes the n nearest, or all when there are not more.
LEMMA NearestFew ==
    ASSUME TypeOK, NEW S \in SUBSET Item, NEW n \in Nat
    PROVE  /\ Nearest(S, n) \in SUBSET S
           /\ n <= Cardinality(S) => Cardinality(Nearest(S, n)) = n
           /\ Cardinality(S) <= n => Nearest(S, n) = S
<1>1. IsFiniteSet(S) BY ItemSets
<1>2. OrdersAll(Sooner, S) BY BeforeOrders
<1>3. \A i \in S : {j \in S : Before(j, i)} = Preceding(i, Sooner, S)
  <2> TAKE i \in S
  <2>1. \A j \in S : Before(j, i) <=> <<j, i>> \in Sooner BY BeforeOrders
  <2> QED BY <2>1 DEF Preceding
<1>4. Nearest(S, n) = FirstFew(n, Sooner, S) BY <1>3 DEF Nearest, FirstFew
<1>5. Nearest(S, n) \in SUBSET S BY DEF Nearest
<1> QED BY <1>1, <1>2, <1>4, <1>5, FewAreFew

\* There is a nearest one, and nothing is nearer.
LEMMA NearestFirst ==
    ASSUME TypeOK, NEW S \in SUBSET Item, S # {}
    PROVE  /\ Nearest(S, 1) \in SUBSET S /\ Nearest(S, 1) # {}
           /\ \A i \in Nearest(S, 1), j \in S : D(i) <= D(j)
<1>1. IsFiniteSet(S) /\ Cardinality(S) \in Nat /\ Cardinality(S) # 0 BY ItemSets, FS_EmptySet
<1>2. Nearest(S, 1) \in SUBSET S /\ Cardinality(Nearest(S, 1)) = 1 BY <1>1, NearestFew
<1>3. Nearest(S, 1) # {} BY <1>2, FS_EmptySet
<1>4. ASSUME NEW i \in Nearest(S, 1), NEW j \in S PROVE D(i) <= D(j)
  <2> DEFINE nearer == {k \in S : Before(k, i)}
  <2>1. IsFiniteSet(nearer) /\ Cardinality(nearer) \in Nat BY ItemSets
  <2>2. Cardinality(nearer) < 1 BY DEF Nearest
  <2>3. Cardinality(nearer) = 0
    <3> HIDE DEF nearer
    <3> QED BY <2>1, <2>2
  <2>4. nearer = {} BY <2>1, <2>3, FS_EmptySet
  <2>5. ~Before(j, i) BY <2>4
  <2>6. D(i) \in Nat /\ D(j) \in Nat BY <1>2, DType
  <2> QED BY <2>5, <2>6 DEF Before
<1> QED BY <1>2, <1>3, <1>4

\* A heap of at most n that every other item comes after, if it is full, has the n nearest.
LEMMA NearestAre ==
    ASSUME TypeOK, NEW S \in SUBSET Item, NEW n \in Nat, NEW F \in SUBSET S, Cardinality(F) <= n,
           \A j \in S \ F : Cardinality(F) = n /\ \A i \in F : Before(i, j)
    PROVE  F = Nearest(S, n)
<1> DEFINE best == Nearest(S, n)
<1>1. IsFiniteSet(F) /\ Cardinality(F) \in Nat /\ IsFiniteSet(S) /\ Cardinality(S) \in Nat
  BY ItemSets
<1>2. /\ best \in SUBSET S
      /\ n <= Cardinality(S) => Cardinality(best) = n
      /\ Cardinality(S) <= n => best = S
  BY NearestFew
<1>3. CASE S \ F = {} BY <1>2, <1>3
<1>4. CASE S \ F # {}
  <2>1. Cardinality(F) = n /\ Cardinality(F) <= Cardinality(S) BY <1>1, <1>4, FS_Subset
  <2>2. Cardinality(best) = n BY <1>2, <2>1
  <2>3. best \subseteq F
    <3> SUFFICES ASSUME NEW j \in best, j \notin F PROVE FALSE OBVIOUS
    <3> DEFINE before == {k \in S : Before(k, j)}
    <3>1. Cardinality(before) < n BY DEF Nearest
    <3>2. F \subseteq before BY <1>2
    <3>3. IsFiniteSet(before) /\ Cardinality(before) \in Nat BY ItemSets
    <3> HIDE DEF before, best
    <3>4. Cardinality(F) <= Cardinality(before) BY <3>2, <3>3, FS_Subset
    <3> QED BY <3>1, <3>3, <3>4, <2>1
  <2> HIDE DEF best
  <2>4. best = F BY <1>1, <2>1, <2>2, <2>3, FS_Subset
  <2> QED BY <2>4 DEF best
<1> QED BY <1>3, <1>4

\* There is one farthest, and nothing is after it.
LEMMA LastOne ==
    ASSUME TypeOK, NEW S \in SUBSET Item, S # {}
    PROVE  \E f \in S : Last(S) = {f} /\ \A j \in S : j = f \/ Before(j, f)
<1>1. IsFiniteSet(S) /\ Orders(Later, S) BY ItemSets, BeforeOrders
<1>2. PICK f \in S : \A j \in S : <<j, f>> \notin Later BY <1>1, SomethingFirst
<1>3. \A j \in S : ~Before(f, j) BY <1>2, BeforeOrders
<1>4. \A i, j \in S : /\ D(i) \in Nat /\ i \in Nat /\ D(j) \in Nat /\ j \in Nat BY DType
<1>5. \A j \in S : j = f \/ Before(j, f) BY <1>3, <1>4 DEF Before
<1>6. f \in Last(S) BY <1>5 DEF Last
<1>7. \A i \in Last(S) : i = f BY <1>3 DEF Last
<1> QED BY <1>5, <1>6, <1>7

\* A cursor over items that are there finds one.
LEMMA LowestOne ==
    ASSUME NEW S \in SUBSET Item, S # {}
    PROVE  Lowest(S) # {}
<1>1. S \in SUBSET Nat BY ItemAssumption
<1>2. PICK i \in S : \A j \in S : i <= j BY <1>1, LeastNat
<1> QED BY <1>2 DEF Lowest

-----------------------------------------------------------------------------
(* The graph. *)

\* A query changes neither the graph nor what it asks for.
LEMMA Fixed ==
    ASSUME UNCHANGED <<snapshot, query>>
    PROVE  /\ Keys' = Keys /\ Standing' = Standing /\ Listed' = Listed /\ Wanted' = Wanted
           /\ LinearScan' = LinearScan /\ Enough' = Enough
           /\ \A i : D(i)' = D(i)
<1>1. UNCHANGED <<vectors, links, eps, top, query>> BY DEF snapshot
<1> QED BY <1>1 DEF Keys, Standing, Listed, Wanted, LinearScan, Enough, D

\* What has links on a level is an item, with links on every level below; entry points are
\* on the top level, and links lead to items on the same level.
LEMMA GraphLeads ==
    ASSUME TypeOK, Standing
    PROVE  /\ \A c, l : <<c, l>> \in Keys => c \in vectors /\ l \in Level
           /\ \A i \in vectors : <<i, 0>> \in Keys
           /\ \A i \in Item, l \in Level : <<i, l>> \in Keys /\ l # 0 => <<i, l - 1>> \in Keys
           /\ \A i, l : <<i, l>> \in Keys =>
                links[<<i, l>>] \in SUBSET vectors /\ \A j \in links[<<i, l>>] : <<j, l>> \in Keys
           /\ \A e \in eps : <<e, top>> \in Keys
           /\ vectors # {} => eps # {}
<1>1. \A k \in Keys : k \in LinkKey /\ k = <<k[1], k[2]>> /\ k[1] \in Item /\ k[2] \in Level
  BY DEF Keys, LinkKey
<1>2. Ids(Keys) = vectors /\ (eps = {} <=> Keys = {}) BY DEF Standing, Walkable
<1>3. \A c, l : <<c, l>> \in Keys => c \in vectors /\ c \in Item /\ l \in Level
  BY <1>1, <1>2 DEF Ids
<1>4. \A k \in Keys : \A l \in 0 .. k[2] : <<k[1], l>> \in Keys BY DEF Standing, Walkable
<1>5. \A l \in Level : l \in Nat /\ 0 \in 0 .. l /\ (l # 0 => l - 1 \in 0 .. l)
  BY LevelAssumption DEF Level
<1>6. \A i \in vectors : <<i, 0>> \in Keys
  <2> TAKE i \in vectors
  <2>1. PICK k \in Keys : k[1] = i BY <1>2 DEF Ids
  <2> QED BY <2>1, <1>1, <1>4, <1>5
<1>7. \A i \in Item, l \in Level : <<i, l>> \in Keys /\ l # 0 => <<i, l - 1>> \in Keys
  <2> TAKE i \in Item, l \in Level
  <2> HAVE <<i, l>> \in Keys /\ l # 0
  <2> DEFINE k == <<i, l>>
  <2>1. k \in Keys /\ k[1] = i /\ k[2] = l OBVIOUS
  <2> QED BY <2>1, <1>4, <1>5
<1>8. \A i, l : <<i, l>> \in Keys =>
        links[<<i, l>>] \in SUBSET vectors /\ \A j \in links[<<i, l>>] : <<j, l>> \in Keys
  <2> TAKE i, l
  <2> HAVE <<i, l>> \in Keys
  <2>1. \A k \in Keys : \A j \in links[k] : <<j, k[2]>> \in Keys BY DEF Standing, Walkable
  <2>2. \A j \in links[<<i, l>>] : <<j, l>> \in Keys BY <2>1
  <2>3. links[<<i, l>>] \in SUBSET Item BY <1>1 DEF Keys, TypeOK, LinksMap
  <2> QED BY <2>2, <2>3, <1>3
<1>9. \A e \in eps : <<e, top>> \in Keys
  <2>1. top \in 0 .. top BY LevelAssumption DEF TypeOK, Level
  <2> QED BY <2>1 DEF Standing, Walkable, Covers
<1>10. vectors # {} => eps # {} BY <1>2 DEF Ids
<1> QED BY <1>3, <1>6, <1>7, <1>8, <1>9, <1>10

\* The query and what it wants have their types.
LEMMA WantedType ==
    ASSUME TypeOK
    PROVE  /\ Listed \in SUBSET vectors /\ Wanted \in SUBSET Listed
           /\ Listed \in SUBSET Item /\ Wanted \in SUBSET Item
           /\ query.count \in Nat /\ query.ef \in Nat /\ Enough \in Nat
           /\ Larger(query.ef, query.count) \in Nat /\ Larger(query.ef, query.count) >= query.count
           /\ Room \in Nat /\ Room >= Enough - Cardinality(found)
           /\ query.by \in {"item", "vector"}
<1>1. query.count \in Nat /\ query.ef \in Nat /\ query.by \in {"item", "vector"} BY DEF TypeOK, Query
<1>2. Listed \in SUBSET vectors /\ Wanted \in SUBSET Listed BY DEF Listed, Wanted
<1>3. vectors \in SUBSET Item BY DEF TypeOK
<1>4. Enough \in Nat BY <1>1 DEF Enough
<1>5. Cardinality(found) \in Nat BY ItemSets DEF TypeOK
<1>6. Room \in Nat /\ Room >= Enough - Cardinality(found) BY <1>4, <1>5 DEF Room, Larger
<1>7. Larger(query.ef, query.count) \in Nat /\ Larger(query.ef, query.count) >= query.count
  BY <1>1 DEF Larger
<1> QED BY <1>1, <1>2, <1>3, <1>4, <1>6, <1>7

-----------------------------------------------------------------------------
(* Answers. *)

\* What a query that is not cancelled may have found when it answers.
Suffices(ids) == \/ Cardinality(ids) >= query.count
                 \/ ids = IF LinearScan THEN Listed ELSE Wanted
                 \/ query.by = "vector" /\ ~LinearScan /\ Cardinality(ids) >= query.ef

\* An answer of wanted items, enough of them, and the nearest ones of a scan.
LEMMA AnswersKeep ==
    ASSUME IInv, NEW ids \in SUBSET Item, NEW cancelled \in BOOLEAN, Answers(ids, cancelled),
           UNCHANGED <<snapshot, query, visit, path, left>>, found' \in SUBSET Item,
           stage' \in {"down", "ground", "more"},
           ids \subseteq (IF LinearScan THEN Listed ELSE Wanted),
           ~cancelled => Suffices(ids),
           LinearScan => ids = Nearest(Looked, query.count),
           cancelled /\ ~LinearScan => ids \cap found' = {}
    PROVE  IInv'
<1> DEFINE best == Nearest(ids, query.count)
<1>1. pc' = "done" /\ answer' = [some |-> TRUE, ids |-> best, cancelled |-> cancelled]
  BY DEF Answers
<1>2. TypeOK BY DEF IInv
<1>3. query.count \in Nat BY <1>2, WantedType
<1>4. /\ best \in SUBSET ids
      /\ query.count <= Cardinality(ids) => Cardinality(best) = query.count
      /\ Cardinality(ids) <= query.count => best = ids
  BY <1>2, <1>3, NearestFew
<1>5. Cardinality(ids) \in Nat BY ItemSets
<1> HIDE DEF best
<1>6. /\ Keys' = Keys /\ Standing' = Standing /\ Listed' = Listed /\ Wanted' = Wanted
      /\ LinearScan' = LinearScan /\ query' = query
      /\ \A i : D(i)' = D(i)
  BY Fixed
<1>7. TypeOK' BY <1>1, <1>2, <1>4 DEF TypeOK, snapshot
<1>8. Answered' BY <1>1, <1>3, <1>4, <1>5, <1>6 DEF Answered
<1>9. FindsEnough'
  <2> SUFFICES ASSUME ~cancelled
               PROVE  \/ Cardinality(best) = query.count
                      \/ best = IF LinearScan THEN Listed ELSE Wanted
                      \/ /\ query.by = "vector" /\ ~LinearScan
                         /\ Cardinality(best) >= query.ef
    BY <1>1, <1>6 DEF FindsEnough, FoundEnough
  <2> QED BY <1>3, <1>4, <1>5 DEF Suffices
<1>10. ScanIsExact'
  <2> SUFFICES ASSUME LinearScan PROVE best = Nearest(Looked, query.count)'
    BY <1>1, <1>6 DEF ScanIsExact, Looked
  <2>1. ids = Nearest(Looked, query.count) OBVIOUS
  <2>2. Looked \in SUBSET Item BY <1>2, WantedType DEF Looked
  <2>3. Cardinality(Looked) \in Nat BY <2>2, ItemSets
  <2>4. Cardinality(ids) <= query.count BY <1>2, <1>3, <2>1, <2>2, <2>3, NearestFew
  <2>5. Nearest(Looked, query.count)' = Nearest(Looked, query.count)
    BY <1>6 DEF Nearest, Before, D, Looked
  <2> QED BY <1>4, <2>1, <2>4, <2>5
<1>11. CancelledForgets' BY <1>1, <1>4, <1>6 DEF CancelledForgets
<1>12. Fresh' /\ Walks' /\ Visits' /\ Finds' /\ Misses' /\ Greedy' /\ Scans'
  BY <1>1 DEF Fresh, Walks, Visits, Finds, Misses, Greedy, Scans
<1> QED BY <1>6, <1>7, <1>8, <1>9, <1>10, <1>11, <1>12 DEF IInv

\* Without candidates there is nothing to return.
LEMMA NothingKeeps == ASSUME IInv, AnswerNothing PROVE IInv'
<1>1. /\ pc = "asked" /\ Hopeless /\ pc' = "done"
      /\ answer' = [NoAnswer EXCEPT !.some = query.by = "vector"]
      /\ UNCHANGED <<snapshot, query, stage, visit, path, found, left>>
  BY DEF AnswerNothing
<1>2. /\ answer' \in [some : BOOLEAN, ids : SUBSET Item, cancelled : BOOLEAN]
      /\ answer'.ids = {} /\ (answer'.some <=> query.by = "vector")
  BY <1>1 DEF NoAnswer
<1>3. /\ Keys' = Keys /\ Standing' = Standing /\ Listed' = Listed /\ Wanted' = Wanted
      /\ LinearScan' = LinearScan /\ query' = query
  BY <1>1, Fixed
<1>4. TypeOK' BY <1>1, <1>2 DEF IInv, TypeOK, snapshot
<1>5. query.count \in Nat /\ Wanted \in SUBSET Listed BY WantedType DEF IInv
<1>6. Answered' BY <1>2, <1>3, <1>5, FS_EmptySet DEF Answered
<1>7. FindsEnough'
  <2> SUFFICES ASSUME query.by = "vector" PROVE {} = IF LinearScan THEN Listed ELSE Wanted
    BY <1>2, <1>3 DEF FindsEnough, FoundEnough
  <2> QED BY <1>1, <1>5 DEF Hopeless
<1>8. ScanIsExact'
  <2>1. answer'.some => Listed' = {} BY <1>1, <1>2, <1>3, <1>5 DEF Hopeless
  <2>2. Listed' = {} => Nearest(Listed \ left, query.count)' = {} BY DEF Nearest
  <2> QED BY <1>2, <2>1, <2>2 DEF ScanIsExact
<1>9. CancelledForgets' BY <1>2 DEF CancelledForgets
<1>10. Fresh' /\ Walks' /\ Visits' /\ Finds' /\ Misses' /\ Greedy' /\ Scans'
  BY <1>1 DEF Fresh, Walks, Visits, Finds, Misses, Greedy, Scans
<1> QED BY <1>3, <1>4, <1>6, <1>7, <1>8, <1>9, <1>10 DEF IInv

-----------------------------------------------------------------------------
(* The linear scan. *)

\* While a query scans, only what is about scans can go wrong.
LEMMA ScanFrame ==
    ASSUME IInv, pc' = "scan", LinearScan, UNCHANGED <<snapshot, query, visit, path, answer, stage>>,
           found' \in SUBSET Item, left' \in SUBSET Item, Scans'
    PROVE  IInv'
<1>1. Standing' = Standing /\ LinearScan' = LinearScan BY Fixed
<1>2. TypeOK' BY DEF IInv, TypeOK, snapshot
<1>3. Fresh' /\ Walks' /\ Visits' /\ Finds' /\ Misses' /\ Greedy'
  BY <1>1 DEF Fresh, Walks, Visits, Finds, Misses, Greedy
<1>4. Answered' /\ FindsEnough' /\ ScanIsExact' /\ CancelledForgets'
  BY DEF Answered, FindsEnough, ScanIsExact, CancelledForgets
<1> QED BY <1>1, <1>2, <1>3, <1>4 DEF IInv

\* A scan begins with nothing looked at.
LEMMA StartScanKeeps == ASSUME IInv, StartScan PROVE IInv'
<1>1. /\ pc = "asked" /\ LinearScan /\ pc' = "scan" /\ left' = query.cand
      /\ UNCHANGED <<snapshot, query, stage, visit, path, found, answer>>
  BY DEF StartScan
<1>2. found = {} BY <1>1 DEF IInv, Fresh
<1>3. query.cand \in SUBSET Item BY <1>1 DEF IInv, TypeOK, Query, LinearScan
<1>4. Listed' = Listed /\ query' = query BY <1>1, Fixed
<1>5. Listed \subseteq query.cand BY <1>1 DEF Listed, LinearScan
<1>6. Looked' = {} BY <1>1, <1>4, <1>5 DEF Looked
<1>7. query.count \in Nat BY WantedType DEF IInv
<1>8. Scans'
  <2>1. Cardinality(found') <= query'.count BY <1>1, <1>2, <1>7, FS_EmptySet
  <2> QED BY <2>1, <1>1, <1>2, <1>6 DEF Scans
<1> QED BY <1>1, <1>2, <1>3, <1>8, ScanFrame DEF IInv, TypeOK

\* The heap takes a candidate of a higher id and stays a heap of the nearest.
LEMMA KeptNearest ==
    ASSUME IInv, pc = "scan", NEW i \in left, i \in vectors
    PROVE  /\ Kept(i) \in SUBSET (found \cup {i})
           /\ Cardinality(Kept(i)) <= query.count
           /\ \A j \in (Looked \cup {i}) \ Kept(i) :
                Cardinality(Kept(i)) = query.count /\ \A h \in Kept(i) : Before(h, j)
<1>1. /\ TypeOK /\ found \subseteq Looked /\ Cardinality(found) <= query.count
      /\ \A j \in Looked \ found : /\ Cardinality(found) = query.count
                                   /\ \A h \in found : Before(h, j)
      /\ \A j \in Looked : j < i
  BY DEF IInv, Scans
<1>2. query.count \in Nat BY <1>1, WantedType
<1>3. found \in SUBSET Item /\ i \in Item /\ Looked \in SUBSET Item
  BY <1>1, WantedType DEF TypeOK, Looked
<1>4. IsFiniteSet(found) /\ Cardinality(found) \in Nat BY <1>3, ItemSets
<1>5. i \notin found BY <1>1 DEF Looked
<1>6. \A j \in Item : D(j) \in Nat /\ j \in Nat BY <1>1, DType
<1>7. CASE Cardinality(found) < query.count
  <2>1. Kept(i) = found \cup {i} BY <1>7 DEF Kept
  <2>2. Looked \ found = {} BY <1>1, <1>2, <1>4, <1>7
  <2>3. Cardinality(found \cup {i}) = Cardinality(found) + 1 BY <1>4, <1>5, FS_AddElement
  <2> QED BY <2>1, <2>2, <2>3, <1>2, <1>4, <1>7
<1>8. CASE ~(Cardinality(found) < query.count) /\ found = {}
  <2>1. Cardinality(found) = 0 BY <1>8, FS_EmptySet
  <2>2. Last(found) = {} BY <1>8 DEF Last
  <2>3. Kept(i) = found BY <1>8, <2>2 DEF Kept
  <2> QED BY <2>1, <2>3, <1>1, <1>2, <1>8
<1>9. CASE ~(Cardinality(found) < query.count) /\ found # {}
  <2>1. Cardinality(found) = query.count BY <1>1, <1>2, <1>4, <1>9
  <2>2. PICK f \in found : Last(found) = {f} /\ \A h \in found : h = f \/ Before(h, f)
    BY <1>1, <1>3, <1>9, LastOne
  <2>3. f \in Item /\ f < i BY <1>1, <1>3
  <2>4. CASE D(f) > D(i)
    <3>1. Kept(i) = (found \ {f}) \cup {i} BY <1>9, <2>2, <2>4 DEF Kept
    <3>2. Cardinality(found \ {f}) = Cardinality(found) - 1 /\ IsFiniteSet(found \ {f})
      BY <1>4, FS_RemoveElement
    <3>3. Cardinality(Kept(i)) = query.count
      <4> DEFINE others == found \ {f}
      <4>1. i \notin others /\ IsFiniteSet(others) /\ Cardinality(others) = query.count - 1
        BY <3>2, <2>1, <1>5
      <4> HIDE DEF others
      <4>2. Cardinality(others \cup {i}) = Cardinality(others) + 1 BY <4>1, FS_AddElement
      <4>3. Cardinality(others \cup {i}) = query.count BY <4>1, <4>2, <1>2
      <4> QED BY <4>3, <3>1 DEF others
    <3>4. ASSUME NEW j \in (Looked \cup {i}) \ Kept(i), NEW h \in Kept(i) PROVE Before(h, j)
      <4>1. j \in Item /\ h \in Item BY <3>1, <1>3
      <4>2. Before(h, f) BY <3>1, <2>2, <2>3, <2>4, <1>6 DEF Before
      <4>3. j = f \/ j \in Looked \ found BY <3>1
      <4>4. j = f \/ Before(f, j) BY <4>3, <1>1
      <4>5. /\ D(h) \in Nat /\ h \in Nat /\ D(f) \in Nat /\ f \in Nat
            /\ D(j) \in Nat /\ j \in Nat
        BY <4>1, <2>3, <1>6
      <4> QED BY <4>2, <4>4, <4>5 DEF Before
    <3> QED BY <3>1, <3>3, <3>4, <1>2
  <2>5. CASE ~(D(f) > D(i))
    <3>1. Kept(i) = found BY <1>9, <2>2, <2>5 DEF Kept
    <3>2. ASSUME NEW j \in (Looked \cup {i}) \ found, NEW h \in found PROVE Before(h, j)
      <4>1. CASE j = i
        <5>1. h = f \/ Before(h, f) BY <2>2
        <5>2. D(h) \in Nat /\ D(f) \in Nat /\ D(i) \in Nat /\ h \in Nat /\ i \in Nat
          BY <2>3, <1>3, <1>6
        <5>3. h < i /\ D(f) <= D(i) BY <1>1, <2>5, <5>2
        <5> QED BY <4>1, <5>1, <5>2, <5>3 DEF Before
      <4>2. CASE j # i BY <4>2, <1>1
      <4> QED BY <4>1, <4>2
    <3> QED BY <3>1, <3>2, <2>1, <1>2
  <2> QED BY <2>4, <2>5
<1> QED BY <1>7, <1>8, <1>9

\* One more candidate is looked at.
LEMMA ScanOneKeeps == ASSUME IInv, ScanOne PROVE IInv'
<1>1. PICK i \in Lowest(left) : /\ left' = left \ {i}
                               /\ found' = IF i \in vectors THEN Kept(i) ELSE found
  BY DEF ScanOne
<1>2. pc = "scan" /\ UNCHANGED <<snapshot, query, pc, stage, visit, path, answer>> BY DEF ScanOne
<1>3. i \in left /\ left \in SUBSET Item /\ left \in SUBSET Nat /\ \A l \in left : i <= l
  BY ItemAssumption DEF Lowest, IInv, TypeOK
<1>4. /\ LinearScan /\ TypeOK /\ left \subseteq query.cand /\ found \subseteq Looked
      /\ \A j \in Looked, l \in left : j < l
      /\ Cardinality(found) <= query.count
      /\ \A j \in Looked \ found : /\ Cardinality(found) = query.count
                                   /\ \A h \in found : Before(h, j)
  BY <1>2 DEF IInv, Walks, Scans
<1>5. Listed = query.cand \cap vectors BY <1>4 DEF Listed, LinearScan
<1>6. Listed' = Listed /\ query' = query /\ \A j, h : Before(h, j)' = Before(h, j)
  BY <1>2, Fixed DEF Before
<1>7. \A l \in left' : i < l BY <1>1, <1>3
<1>8. CASE i \in vectors
  <2>1. Looked' = Looked \cup {i} BY <1>1, <1>3, <1>4, <1>5, <1>6, <1>8 DEF Looked
  <2>2. found' = Kept(i) BY <1>1, <1>8
  <2>3. /\ Kept(i) \in SUBSET (found \cup {i})
        /\ Cardinality(Kept(i)) <= query.count
        /\ \A j \in (Looked \cup {i}) \ Kept(i) :
             Cardinality(Kept(i)) = query.count /\ \A h \in Kept(i) : Before(h, j)
    BY <1>2, <1>3, <1>8, KeptNearest
  <2>4. \A j \in Looked', l \in left' : j < l BY <2>1, <1>1, <1>4, <1>7
  <2>5. Scans' BY <2>1, <2>2, <2>3, <2>4, <1>1, <1>4, <1>6 DEF Scans
  <2>6. found' \in SUBSET Item BY <2>2, <2>3, <1>3, <1>4 DEF TypeOK
  <2> QED BY <2>5, <2>6, <1>1, <1>2, <1>3, <1>4, ScanFrame
<1>9. CASE i \notin vectors
  <2>1. Looked' = Looked BY <1>1, <1>5, <1>6, <1>9 DEF Looked
  <2>2. found' = found BY <1>1, <1>9
  <2>3. Scans' BY <2>1, <2>2, <1>1, <1>4, <1>6 DEF Scans
  <2>4. found' \in SUBSET Item BY <2>2, <1>4 DEF TypeOK
  <2> QED BY <2>3, <2>4, <1>1, <1>2, <1>3, <1>4, ScanFrame
<1> QED BY <1>8, <1>9

\* The heap of a scan has the nearest of what was looked at.
LEMMA HeapIsNearest ==
    ASSUME IInv, pc = "scan"
    PROVE  found \in SUBSET Item /\ found \subseteq Listed /\ found = Nearest(Looked, query.count)
<1>1. /\ TypeOK /\ found \subseteq Looked /\ Cardinality(found) <= query.count
      /\ \A j \in Looked \ found : /\ Cardinality(found) = query.count
                                   /\ \A i \in found : Before(i, j)
  BY DEF IInv, Scans
<1>2. query.count \in Nat /\ Listed \in SUBSET Item BY <1>1, WantedType
<1>3. Looked \in SUBSET Item /\ found \subseteq Listed BY <1>1, <1>2 DEF Looked
<1> QED BY <1>1, <1>2, <1>3, NearestAre

\* The heap of a scan that has ended is the answer.
LEMMA ScanEndsKeeps == ASSUME IInv, ScanEnds PROVE IInv'
<1>1. /\ pc = "scan" /\ left = {} /\ Answers(found, FALSE)
      /\ UNCHANGED <<snapshot, query, stage, visit, path, found, left>>
  BY DEF ScanEnds
<1>2. /\ TypeOK /\ LinearScan /\ stage \in {"down", "ground", "more"}
  BY <1>1 DEF IInv, Walks, TypeOK
<1>3. found \in SUBSET Item /\ found \subseteq Listed /\ found = Nearest(Looked, query.count)
  BY <1>1, HeapIsNearest
<1>4. Looked = Listed BY <1>1 DEF Looked
<1>5. query.count \in Nat /\ Cardinality(Listed) \in Nat /\ Listed \in SUBSET Item
  BY <1>2, WantedType, ItemSets
<1>6. Suffices(found)
  <2>1. CASE query.count <= Cardinality(Listed)
    <3>1. Cardinality(found) = query.count BY <2>1, <1>2, <1>3, <1>4, <1>5, NearestFew
    <3> QED BY <3>1, <1>5 DEF Suffices
  <2>2. CASE Cardinality(Listed) <= query.count
    <3>1. found = Listed BY <2>2, <1>2, <1>3, <1>4, <1>5, NearestFew
    <3> QED BY <3>1, <1>2 DEF Suffices
  <2> QED BY <2>1, <2>2, <1>5
<1> QED BY <1>1, <1>2, <1>3, <1>6, AnswersKeep

\* A scan that is cancelled has the nearest of what it has looked at.
LEMMA ScanCancelledKeeps == ASSUME IInv, ScanCancelled PROVE IInv'
<1>1. /\ pc = "scan" /\ Answers(found, TRUE)
      /\ UNCHANGED <<snapshot, query, stage, visit, path, found, left>>
  BY DEF ScanCancelled
<1>2. LinearScan /\ stage \in {"down", "ground", "more"} BY <1>1 DEF IInv, Walks, TypeOK
<1>3. found \in SUBSET Item /\ found \subseteq Listed /\ found = Nearest(Looked, query.count)
  BY <1>1, HeapIsNearest
<1> QED BY <1>1, <1>2, <1>3, AnswersKeep

-----------------------------------------------------------------------------
(* Visits. *)

VisitType == [level : Level, ef : Nat, queue : SUBSET Item, res : SUBSET Item,
              near : SUBSET Item, bar : SUBSET Nat]

\* While a query walks, only what is about visits can go wrong.
LEMMA VisitFrame ==
    ASSUME IInv, pc' = "visit", ~LinearScan, UNCHANGED <<snapshot, query, found, left, answer>>,
           stage' \in {"down", "ground", "more"}, stage' # "more" => found = {},
           visit' \in VisitType, path' \in SUBSET Item,
           Visits', Finds', Misses', Greedy'
    PROVE  IInv'
<1>1. Standing' = Standing /\ LinearScan' = LinearScan BY Fixed
<1>2. TypeOK' BY DEF IInv, TypeOK, snapshot, VisitType
<1>3. Fresh' /\ Walks' /\ Scans' BY <1>1 DEF Fresh, Walks, Scans
<1>4. Answered' /\ FindsEnough' /\ ScanIsExact' /\ CancelledForgets'
  BY DEF Answered, FindsEnough, ScanIsExact, CancelledForgets
<1> QED BY <1>1, <1>2, <1>3, <1>4 DEF IInv

\* A visit on the ground starts from points no visit has found, and knows all that is wanted
\* of what was seen.
LEMMA GroundStarts ==
    ASSUME IInv, ~LinearScan, NEW points \in SUBSET vectors, NEW seen \in SUBSET Item,
           NEW ef \in Nat, VisitFrom(points, 0, ef, Wanted), path' = seen \cup points,
           stage' \in {"ground", "more"},
           ef = (IF stage' = "ground" THEN Larger(query.ef, query.count) ELSE Room),
           stage' = "ground" => found = {},
           found \subseteq seen, found \subseteq Wanted, seen \cap Wanted \subseteq found,
           points \cap found = {},
           UNCHANGED <<snapshot, query, found, left, answer>>
    PROVE  IInv'
<1>1. pc' = "visit" /\ visit' = Seeded(points, 0, ef, Wanted) BY DEF VisitFrom
<1>2. TypeOK /\ Standing /\ vectors \in SUBSET Item BY DEF IInv, TypeOK
<1>3. /\ visit' \in VisitType
      /\ visit'.level = 0 /\ visit'.ef = ef /\ visit'.queue = points /\ visit'.near = {}
      /\ visit'.res = points \cap Wanted
  BY <1>1, <1>2, LevelAssumption DEF Seeded, VisitType, Level
<1>4. /\ Keys' = Keys /\ Wanted' = Wanted /\ LinearScan' = LinearScan /\ Enough' = Enough
  BY Fixed
<1>5. Room' = Room /\ query' = query /\ found' = found BY <1>4 DEF Room
<1>6. \A c \in points : <<c, 0>> \in Keys BY <1>2, GraphLeads
<1>7. Visits' BY <1>1, <1>3, <1>4, <1>6 DEF Visits
<1>8. Finds' BY <1>1, <1>3, <1>4, <1>5 DEF Finds
<1>9. Misses' BY <1>1, <1>3, <1>4, <1>5 DEF Misses
<1>10. Greedy' BY DEF Greedy
<1>11. path' \in SUBSET Item BY <1>2
<1> QED BY <1>1, <1>3, <1>7, <1>8, <1>9, <1>10, <1>11, VisitFrame

\* A visit above the ground starts from points as near as all that was seen.
LEMMA HighStarts ==
    ASSUME IInv, ~LinearScan, NEW level \in Level \ {0}, NEW points \in SUBSET Item, points # {},
           \A c \in points : <<c, level>> \in Keys, NEW seen \in SUBSET Item,
           \A j \in seen : \E r \in points : D(r) <= D(j),
           VisitFrom(points, level, 1, vectors), path' = seen \cup points,
           stage' = "down", found = {},
           UNCHANGED <<snapshot, query, found, left, answer>>
    PROVE  IInv'
<1>1. pc' = "visit" /\ visit' = Seeded(points, level, 1, vectors) BY DEF VisitFrom
<1>2. TypeOK /\ Standing /\ vectors \in SUBSET Item BY DEF IInv, TypeOK
<1>3. points \subseteq vectors BY <1>2, GraphLeads
<1>4. /\ visit' \in VisitType
      /\ visit'.level = level /\ visit'.ef = 1 /\ visit'.queue = points /\ visit'.near = {}
      /\ visit'.res = points /\ visit'.bar = {}
  BY <1>1, <1>3 DEF Seeded, VisitType
<1>5. Keys' = Keys /\ \A i : D(i)' = D(i) BY Fixed
<1>6. Visits' BY <1>1, <1>4, <1>5 DEF Visits
<1>7. Finds' /\ Misses' BY <1>1 DEF Finds, Misses
<1>8. \A j \in points : D(j) <= D(j)
  <2> TAKE j \in points
  <2>1. D(j) \in Nat BY <1>2, DType
  <2> QED BY <2>1
<1>9. Greedy' BY <1>1, <1>4, <1>5, <1>8 DEF Greedy
<1>10. path' \in SUBSET Item OBVIOUS
<1> QED BY <1>1, <1>4, <1>6, <1>7, <1>9, <1>10, VisitFrame

\* by_item starts at the item, which is not wanted.
LEMMA StartAtItemKeeps == ASSUME IInv, StartAtItem PROVE IInv'
<1>1. /\ pc = "asked" /\ ~Hopeless /\ ~LinearScan /\ query.by = "item"
      /\ stage' = "ground" /\ path' = {query.point}
      /\ VisitFrom({query.point}, 0, Larger(query.ef, query.count), Wanted)
      /\ UNCHANGED <<snapshot, query, found, left, answer>>
  BY DEF StartAtItem
<1>2. query.point \in vectors BY <1>1 DEF Hopeless
<1>3. found = {} BY <1>1 DEF IInv, Fresh
<1>4. Larger(query.ef, query.count) \in Nat BY WantedType DEF IInv
<1> DEFINE points == {query.point}
           none == {}
<1>5. points \in SUBSET vectors /\ none \in SUBSET Item /\ path' = none \cup points
  BY <1>1, <1>2
<1>6. points \cap found = {} /\ none \cap Wanted \subseteq found /\ found \subseteq none BY <1>3
<1> QED BY <1>1, <1>3, <1>4, <1>5, <1>6, GroundStarts

\* by_vector starts from the entry points: there are some, and they are on the top level.
LEMMA StartAtTopKeeps == ASSUME IInv, StartAtTop PROVE IInv'
<1>1. /\ pc = "asked" /\ ~Hopeless /\ ~LinearScan /\ path' = eps
      /\ UNCHANGED <<snapshot, query, found, left, answer>>
  BY DEF StartAtTop
<1>2. TypeOK /\ Standing /\ found = {} BY <1>1 DEF IInv, Fresh
<1>3. \A e \in eps : <<e, top>> \in Keys /\ e \in vectors BY <1>2, GraphLeads
<1>4. eps # {}
  <2>1. Listed # {} /\ Listed \in SUBSET vectors BY <1>1, <1>2, WantedType DEF Hopeless
  <2> QED BY <2>1, <1>2, GraphLeads
<1> DEFINE none == {}
<1>5. none \in SUBSET Item /\ path' = none \cup eps /\ none \cap Wanted \subseteq found
  BY <1>1
<1>6. CASE top = 0
  <2>1. stage' = "ground" /\ VisitFrom(eps, 0, Larger(query.ef, query.count), Wanted)
    BY <1>6 DEF StartAtTop
  <2>2. Larger(query.ef, query.count) \in Nat /\ eps \in SUBSET vectors
    BY <1>2, <1>3, WantedType
  <2>3. eps \cap found = {} /\ found \subseteq none BY <1>2
  <2> QED BY <2>1, <2>2, <2>3, <1>1, <1>2, <1>5, GroundStarts
<1>7. CASE top # 0
  <2>1. stage' = "down" /\ VisitFrom(eps, top, 1, vectors) BY <1>7 DEF StartAtTop
  <2>2. top \in Level \ {0} /\ eps \in SUBSET Item BY <1>2, <1>7 DEF TypeOK
  <2>3. \A j \in none : \E r \in eps : D(r) <= D(j) OBVIOUS
  <2> HIDE DEF none
  <2> QED BY <2>1, <2>2, <2>3, <1>1, <1>2, <1>3, <1>4, <1>5, HighStarts
<1> QED BY <1>6, <1>7

\* The visit goes on below from the nearest result, which is on the level below too.
LEMMA DescendKeeps == ASSUME IInv, Descend PROVE IInv'
<1> DEFINE closest == Nearest(visit.res, 1)
           none == {}
<1>1. /\ pc = "visit" /\ stage = "down"
      /\ UNCHANGED <<snapshot, query, found, left, answer>>
  BY DEF Descend, VisitEnds
<1>2. /\ TypeOK /\ Standing /\ found = {} /\ ~LinearScan
      /\ visit.level # 0 /\ visit.res # {}
      /\ \A c \in visit.res : <<c, visit.level>> \in Keys
      /\ \A j \in path : \E r \in visit.res : D(r) <= D(j)
  BY <1>1 DEF IInv, Fresh, Walks, Visits, Greedy
<1>3. visit.res \in SUBSET Item /\ visit.level \in Level /\ path \in SUBSET Item
  BY <1>2 DEF TypeOK
<1>4. /\ closest \in SUBSET visit.res /\ closest # {}
      /\ \A i \in closest, j \in visit.res : D(i) <= D(j)
  BY <1>2, <1>3, NearestFirst
<1>5. CASE visit.level = 1
  <2>1. /\ stage' = "ground" /\ path' = closest
        /\ VisitFrom(closest, 0, Larger(query.ef, query.count), Wanted)
    BY <1>5 DEF Descend
  <2> HIDE DEF closest
  <2>2. Larger(query.ef, query.count) \in Nat BY <1>2, WantedType
  <2>3. closest \in SUBSET vectors BY <1>2, <1>4, GraphLeads
  <2>4. /\ none \in SUBSET Item /\ path' = none \cup closest /\ none \cap Wanted \subseteq found
        /\ closest \cap found = {} /\ found \subseteq none
    BY <2>1, <1>2
  <2> QED BY <2>1, <2>2, <2>3, <2>4, <1>1, <1>2, GroundStarts
<1>6. CASE visit.level # 1
  <2>1. /\ stage' = "down" /\ path' = path \cup closest
        /\ VisitFrom(closest, visit.level - 1, 1, vectors)
    BY <1>1, <1>6 DEF Descend
  <2> HIDE DEF closest
  <2>2. visit.level - 1 \in Level \ {0} BY <1>2, <1>3, <1>6, LevelAssumption DEF Level
  <2>3. \A c \in closest : <<c, visit.level - 1>> \in Keys BY <1>2, <1>3, <1>4, GraphLeads
  <2>4. \A j \in path : \E r \in closest : D(r) <= D(j)
    <3> TAKE j \in path
    <3>1. PICK i \in closest : TRUE BY <1>4
    <3>2. PICK r \in visit.res : D(r) <= D(j) BY <1>2
    <3>3. D(i) <= D(r) BY <1>4
    <3>4. D(i) \in Nat /\ D(r) \in Nat /\ D(j) \in Nat BY <1>2, <1>3, <1>4, DType
    <3>5. D(i) <= D(j) BY <3>2, <3>3, <3>4
    <3> QED BY <3>5
  <2>5. closest \in SUBSET Item BY <1>3, <1>4
  <2> QED BY <2>1, <2>2, <2>3, <2>4, <2>5, <1>1, <1>2, <1>3, <1>4, HighStarts
<1> QED BY <1>5, <1>6

\* Another visit starts from an item no visit has seen.
LEMMA SearchMoreKeeps == ASSUME IInv, SearchMore PROVE IInv'
<1>1. PICK id \in Unseen : VisitFrom({id}, 0, Room, Wanted) /\ path' = path \cup {id}
  BY DEF SearchMore
<1>2. pc = "next" /\ UNCHANGED <<snapshot, query, stage, found, left, answer>> BY DEF SearchMore
<1>3. /\ TypeOK /\ stage = "more" /\ ~LinearScan /\ found \subseteq path /\ found \subseteq Wanted
      /\ path \cap Wanted \subseteq found /\ path \in SUBSET Item
  BY <1>2 DEF IInv, Walks, Finds, Misses, TypeOK
<1>4. id \in vectors /\ id \notin path BY DEF Unseen, Lowest
<1>5. Room \in Nat BY <1>3, WantedType
<1> DEFINE points == {id}
<1>6. points \in SUBSET vectors /\ points \cap found = {} /\ path' = path \cup points
  BY <1>1, <1>3, <1>4
<1> QED BY <1>1, <1>2, <1>3, <1>5, <1>6, GroundStarts

\* A candidate is expanded: its links are on the level of the visit.
LEMMA ExpandKeeps == ASSUME IInv, Expand PROVE IInv'
<1> DEFINE bar == {D(r) : r \in Last(visit.res)}
<1>1. PICK c \in FirstOut(visit.queue) :
        visit' = [visit EXCEPT !.queue = @ \ {c}, !.near = links[<<c, visit.level>>], !.bar = bar]
  BY DEF Expand
<1>2. /\ pc = "visit" /\ UNCHANGED <<snapshot, query, pc, stage, path, found, left, answer>>
  BY DEF Expand
<1>3. /\ TypeOK /\ Standing /\ ~LinearScan /\ (stage # "more" => found = {})
      /\ visit \in VisitType /\ path \in SUBSET Item /\ stage \in {"down", "ground", "more"}
      /\ Visits /\ Finds /\ Misses /\ Greedy
  BY <1>2 DEF IInv, Fresh, Walks, TypeOK, VisitType
<1>4. c \in visit.queue /\ <<c, visit.level>> \in Keys BY <1>2, <1>3 DEF FirstOut, Visits
<1> DEFINE near == links[<<c, visit.level>>]
           queue == visit.queue \ {c}
<1>5. near \in SUBSET vectors /\ \A j \in near : <<j, visit.level>> \in Keys
  BY <1>3, <1>4, GraphLeads
<1>6. near \in SUBSET Item /\ queue \in SUBSET Item BY <1>3, <1>5 DEF TypeOK, VisitType
<1>7. bar \in SUBSET Nat
  <2>1. Last(visit.res) \in SUBSET Item BY <1>3 DEF Last, VisitType
  <2> QED BY <2>1, <1>3, DType
<1>8. visit.res # {} => /\ bar # {}
                        /\ \A b \in bar : \E r \in visit.res : D(r) <= b
  <2> SUFFICES ASSUME visit.res # {}
               PROVE  bar # {} /\ \A b \in bar : \E r \in visit.res : D(r) <= b
    OBVIOUS
  <2>1. visit.res \in SUBSET Item BY <1>3 DEF VisitType
  <2>2. PICK f \in visit.res : Last(visit.res) = {f} BY <1>3, <2>1, LastOne
  <2>3. bar = {D(f)} /\ D(f) \in Nat BY <2>1, <2>2, <1>3, DType
  <2>4. D(f) <= D(f) BY <2>3
  <2> QED BY <2>3, <2>4
<1> HIDE DEF bar, near, queue
<1>9. visit' = [visit EXCEPT !.queue = queue, !.near = near, !.bar = bar]
  BY <1>1 DEF queue, near
<1>10. /\ visit' \in VisitType
       /\ visit'.level = visit.level /\ visit'.ef = visit.ef /\ visit'.res = visit.res
       /\ visit'.queue = queue /\ visit'.near = near /\ visit'.bar = bar
  BY <1>3, <1>6, <1>7, <1>9 DEF VisitType
<1>11. /\ Keys' = Keys /\ Wanted' = Wanted /\ Enough' = Enough /\ \A i : D(i)' = D(i)
  BY <1>2, Fixed
<1>12. Room' = Room /\ query' = query BY <1>2, <1>11 DEF Room
<1>13. Visits'
  <2>1. \A k \in queue : k \in visit.queue BY DEF queue
  <2> QED BY <2>1, <1>2, <1>3, <1>5, <1>10, <1>11 DEF Visits
<1>14. Finds' BY <1>2, <1>3, <1>10, <1>11 DEF Finds
<1>15. Misses' BY <1>2, <1>3, <1>10, <1>11, <1>12 DEF Misses
<1>16. Greedy'
  <2>1. CASE stage = "down"
    <3>1. visit.res # {} BY <2>1, <1>2, <1>3 DEF Visits
    <3> QED BY <3>1, <1>2, <1>3, <1>8, <1>10, <1>11 DEF Greedy
  <2>2. CASE stage # "down" BY <2>2, <1>2 DEF Greedy
  <2> QED BY <2>1, <2>2
<1> QED BY <1>2, <1>3, <1>10, <1>13, <1>14, <1>15, <1>16, VisitFrame

\* Dropping the farthest of several loses nothing near.
LEMMA DropLast ==
    ASSUME TypeOK, NEW S \in SUBSET Item, NEW i \in S, NEW j \in S, i # j,
           NEW n \in Nat, NEW r \in S, D(r) <= n
    PROVE  \E h \in S \ Last(S) : D(h) <= n
<1>1. PICK f \in S : Last(S) = {f} /\ \A h \in S : D(h) <= D(f)
  <2>1. PICK f \in S : Last(S) = {f} /\ \A h \in S : h = f \/ Before(h, f) BY LastOne
  <2>2. \A h \in S : D(h) \in Nat BY DType
  <2> QED BY <2>1, <2>2 DEF Before
<1>2. CASE r # f BY <1>1, <1>2
<1>3. CASE r = f
  <2>1. PICK h \in S : h # f OBVIOUS
  <2>2. D(h) <= D(f) /\ D(h) \in Nat /\ D(f) \in Nat BY <1>1, DType
  <2>3. D(h) <= n BY <2>2, <1>3
  <2> QED BY <2>1, <2>3, <1>1
<1> QED BY <1>2, <1>3

\* What a visit makes of a new point, case by case.
LEMMA OfferedCases ==
    ASSUME IInv, pc = "visit", NEW p \in Item, p \notin path
    PROVE  LET all == visit.res \cup {p}
               full == Cardinality(visit.res) >= visit.ef
           IN  /\ Offered(p).queue \in {visit.queue, visit.queue \cup {p}}
               /\ \/ /\ Offered(p).res = visit.res
                     /\ p \notin Results \/ (full /\ \E b \in visit.bar : D(p) >= b)
                  \/ Offered(p).res = all /\ p \in Results
                  \/ /\ Offered(p).res = all \ Last(all) /\ p \in Results
                     /\ Cardinality(visit.res) = visit.ef
<1>1. /\ visit.ef \in Nat /\ visit.bar \in SUBSET Nat /\ visit.res \in SUBSET Item
      /\ D(p) \in Nat
  BY DType DEF IInv, TypeOK
<1>2. Cardinality(visit.res) \in Nat BY <1>1, ItemSets
<1> DEFINE takes == Cardinality(visit.res) < visit.ef \/ \A f_max \in visit.bar : D(p) < f_max
<1>3. ~takes => Cardinality(visit.res) >= visit.ef /\ \E b \in visit.bar : D(p) >= b
  BY <1>1, <1>2
<1>4. CASE takes
  <2>1. /\ Offered(p).queue = visit.queue \cup {p}
        /\ Offered(p).res = LET all == visit.res \cup {p}
                            IN  IF p \notin Results THEN visit.res
                                ELSE IF Cardinality(visit.res) = visit.ef THEN all \ Last(all)
                                     ELSE all
    BY <1>4 DEF Offered
  <2>2. CASE p \notin Results BY <2>1, <2>2
  <2>3. CASE p \in Results /\ Cardinality(visit.res) = visit.ef BY <2>1, <2>3
  <2>4. CASE p \in Results /\ Cardinality(visit.res) # visit.ef BY <2>1, <2>4
  <2> QED BY <2>2, <2>3, <2>4
<1>5. CASE ~takes
  <2>1. Offered(p).queue = visit.queue /\ Offered(p).res = visit.res BY <1>5 DEF Offered
  <2> QED BY <2>1, <1>3, <1>5
<1> QED BY <1>4, <1>5

\* A new point leaves the results of a visit among what was seen, near enough on the way
\* down, and full or complete on the ground.
LEMMA OfferedKeeps ==
    ASSUME IInv, pc = "visit", NEW p \in visit.near, p \notin path
    PROVE  /\ Offered(p).queue \in SUBSET (visit.queue \cup {p})
           /\ Offered(p).res \in SUBSET (visit.res \cup {p})
           /\ Offered(p).res \subseteq visit.res \cup Results
           /\ stage = "down" =>
                /\ Offered(p).res # {}
                /\ \A j \in path \cup {p} : \E r \in Offered(p).res : D(r) <= D(j)
                /\ \A b \in visit.bar : \E r \in Offered(p).res : D(r) <= b
           /\ stage # "down" =>
                \/ (path \cup {p}) \cap Wanted \subseteq found \cup Offered(p).res
                \/ Cardinality(Offered(p).res) >= visit.ef
<1> DEFINE res == Offered(p).res
           all == visit.res \cup {p}
<1>1. /\ TypeOK /\ Standing /\ Visits /\ Misses /\ Greedy BY DEF IInv
<1>2. /\ visit.res \in SUBSET Item /\ p \in Item /\ path \in SUBSET Item
      /\ visit.ef \in Nat /\ visit.bar \in SUBSET Nat
  BY <1>1 DEF TypeOK
<1>3. p \in vectors /\ p \notin visit.res BY <1>1, GraphLeads DEF Visits
<1>4. /\ Offered(p).queue \in {visit.queue, visit.queue \cup {p}}
      /\ \/ /\ res = visit.res
            /\ p \notin Results \/ /\ Cardinality(visit.res) >= visit.ef
                                   /\ \E b \in visit.bar : D(p) >= b
         \/ res = all /\ p \in Results
         \/ res = all \ Last(all) /\ p \in Results /\ Cardinality(visit.res) = visit.ef
  BY <1>2, OfferedCases
<1>5. \A j \in Item : D(j) \in Nat BY <1>1, DType
<1>6. all \in SUBSET Item /\ Cardinality(visit.res) \in Nat /\ IsFiniteSet(visit.res)
  BY <1>2, ItemSets
<1>7. Cardinality(all) = Cardinality(visit.res) + 1 BY <1>3, <1>6, FS_AddElement
<1> HIDE DEF res
<1>8. ASSUME stage = "down"
      PROVE  /\ res # {}
             /\ \A n \in {D(j) : j \in path \cup {p}} \cup visit.bar : \E r \in res : D(r) <= n
  <2>1. /\ visit.res # {} /\ p \in Results
        /\ \A j \in path : \E r \in visit.res : D(r) <= D(j)
        /\ \A b \in visit.bar : \E r \in visit.res : D(r) <= b
    BY <1>1, <1>3, <1>8 DEF Visits, Greedy, Results
  <2>2. PICK i \in visit.res : TRUE BY <2>1
  <2>3. D(p) <= D(p) BY <1>2, <1>5
  <2>4. \A n \in {D(j) : j \in path \cup {p}} \cup visit.bar : n \in Nat BY <1>2, <1>5
  <2>5. \A n \in {D(j) : j \in path \cup {p}} \cup visit.bar : \E r \in all : D(r) <= n
    BY <2>1, <2>3
  <2>6. CASE res = visit.res /\ \E b \in visit.bar : D(p) >= b
    <3>1. PICK b \in visit.bar : D(p) >= b BY <2>6
    <3>2. PICK r \in visit.res : D(r) <= b BY <2>1
    <3>3. D(r) <= D(p) BY <3>1, <3>2, <1>2, <1>5
    <3> QED BY <2>1, <2>6, <3>3
  <2>7. CASE res = all BY <2>5, <2>7
  <2>8. CASE res = all \ Last(all)
    <3>1. i \in all /\ p \in all /\ i # p BY <2>2, <1>3
    <3> HIDE DEF all
    <3>2. \A n \in {D(j) : j \in path \cup {p}} \cup visit.bar : \E r \in res : D(r) <= n
      BY <3>1, <2>4, <2>5, <2>8, <1>1, <1>6, DropLast
    <3> QED BY <3>2
  <2> QED BY <2>1, <2>6, <2>7, <2>8, <1>4
<1>9. ASSUME stage # "down"
      PROVE  \/ (path \cup {p}) \cap Wanted \subseteq found \cup res
             \/ Cardinality(res) >= visit.ef
  <2>1. Results = Wanted BY <1>9 DEF Results
  <2>2. path \cap Wanted \subseteq found \cup visit.res \/ Cardinality(visit.res) >= visit.ef
    BY <1>1, <1>9 DEF Misses
  <2>3. CASE res = visit.res
    <3>1. p \notin Wanted \/ Cardinality(visit.res) >= visit.ef BY <2>1, <2>3, <1>2, <1>3, <1>4, <1>6
    <3> QED BY <3>1, <2>2, <2>3
  <2>4. CASE res = all BY <2>2, <2>4, <1>2, <1>6, <1>7
  <2>5. CASE res = all \ Last(all) /\ Cardinality(visit.res) = visit.ef
    <3>1. PICK f \in all : Last(all) = {f} BY <1>1, <1>6, LastOne
    <3>2. IsFiniteSet(all) BY <1>6, ItemSets
    <3> HIDE DEF all
    <3>3. Cardinality(all \ {f}) = Cardinality(all) - 1 BY <3>1, <3>2, FS_RemoveElement
    <3> QED BY <3>1, <3>3, <2>5, <1>2, <1>6, <1>7
  <2> QED BY <2>3, <2>4, <2>5, <1>4
<1>10. res \in SUBSET all /\ res \subseteq visit.res \cup Results BY <1>4
<1>11. Offered(p).queue \in SUBSET (visit.queue \cup {p}) BY <1>4
<1> QED BY <1>8, <1>9, <1>10, <1>11 DEF res

\* A link is followed.
LEMMA FollowKeeps == ASSUME IInv, Follow PROVE IInv'
<1>1. PICK p \in Lowest(visit.near) :
        LET offer == IF p \in path THEN [queue |-> visit.queue, res |-> visit.res]
                                   ELSE Offered(p)
        IN  /\ path' = path \cup {p}
            /\ visit' = [visit EXCEPT !.near = @ \ {p}, !.queue = offer.queue, !.res = offer.res]
  BY DEF Follow
<1>2. pc = "visit" /\ UNCHANGED <<snapshot, query, pc, stage, found, left, answer>> BY DEF Follow
<1>3. /\ TypeOK /\ Standing /\ ~LinearScan /\ (stage # "more" => found = {})
      /\ visit \in VisitType /\ path \in SUBSET Item /\ stage \in {"down", "ground", "more"}
      /\ Visits /\ Finds /\ Misses /\ Greedy
  BY <1>2 DEF IInv, Fresh, Walks, TypeOK, VisitType
<1> DEFINE queue == IF p \in path THEN visit.queue ELSE Offered(p).queue
           res == IF p \in path THEN visit.res ELSE Offered(p).res
           near == visit.near \ {p}
<1>4. p \in visit.near /\ p \in Item BY <1>3 DEF Lowest, VisitType
<1>5. /\ queue \in SUBSET (visit.queue \cup {p}) /\ res \in SUBSET (visit.res \cup {p})
      /\ res \subseteq visit.res \cup Results /\ (p \in path => res = visit.res)
      /\ stage = "down" => /\ res # {}
                           /\ \A j \in path \cup {p} : \E r \in res : D(r) <= D(j)
                           /\ \A b \in visit.bar : \E r \in res : D(r) <= b
      /\ stage # "down" => \/ (path \cup {p}) \cap Wanted \subseteq found \cup res
                           \/ Cardinality(res) >= visit.ef
  <2>1. CASE p \in path
    <3>1. queue = visit.queue /\ res = visit.res /\ path \cup {p} = path BY <2>1
    <3> HIDE DEF queue, res
    <3> QED BY <3>1, <1>2, <1>3 DEF Visits, Misses, Greedy
  <2>2. CASE p \notin path
    <3>1. queue = Offered(p).queue /\ res = Offered(p).res BY <2>2
    <3> HIDE DEF queue, res
    <3> QED BY <3>1, <2>2, <1>2, <1>4, OfferedKeeps
  <2> QED BY <2>1, <2>2
<1>6. visit' = [visit EXCEPT !.near = near, !.queue = queue, !.res = res] /\ path' = path \cup {p}
  BY <1>1
<1>7. queue \in SUBSET Item /\ res \in SUBSET Item /\ near \in SUBSET Item
  BY <1>3, <1>4, <1>5 DEF VisitType
<1>8. near \subseteq visit.near OBVIOUS
<1> HIDE DEF queue, res, near
<1>9. /\ visit' \in VisitType
      /\ visit'.level = visit.level /\ visit'.ef = visit.ef /\ visit'.bar = visit.bar
      /\ visit'.res = res /\ visit'.queue = queue /\ visit'.near = near
  BY <1>3, <1>6, <1>7 DEF VisitType
<1>10. /\ Keys' = Keys /\ Wanted' = Wanted /\ Enough' = Enough /\ \A i : D(i)' = D(i)
  BY <1>2, Fixed
<1>11. Room' = Room /\ query' = query /\ found' = found BY <1>2, <1>10 DEF Room
<1>12. Visits'
  <2>1. \A c \in queue \cup res \cup near : <<c, visit.level>> \in Keys
    BY <1>2, <1>3, <1>4, <1>5, <1>8 DEF Visits
  <2>2. res \subseteq path' BY <1>2, <1>3, <1>5, <1>6 DEF Visits
  <2>3. stage = "down" => visit.level # 0 /\ res # {} /\ visit.ef = 1
    BY <1>2, <1>3, <1>5 DEF Visits
  <2>4. stage # "down" => visit.level = 0 /\ res \subseteq Wanted
    BY <1>2, <1>3, <1>5 DEF Visits, Results
  <2> QED BY <2>1, <2>2, <2>3, <2>4, <1>2, <1>9, <1>10 DEF Visits
<1>13. Finds'
  <2>1. found \subseteq path \cap Wanted /\ visit.res \cap found = {} BY <1>2, <1>3 DEF Finds
  <2>2. res \cap found = {} BY <2>1, <1>5
  <2> QED BY <2>1, <2>2, <1>2, <1>6, <1>9, <1>10, <1>11 DEF Finds
<1>14. Misses'
  BY <1>2, <1>3, <1>5, <1>6, <1>9, <1>10, <1>11 DEF Misses
<1>15. Greedy'
  <2>1. CASE stage = "down"
    <3>1. near # {} => visit.bar # {} BY <2>1, <1>2, <1>3, <1>8 DEF Greedy
    <3> QED BY <3>1, <2>1, <1>2, <1>5, <1>6, <1>9, <1>10 DEF Greedy
  <2>2. CASE stage # "down" BY <2>2, <1>2 DEF Greedy
  <2> QED BY <2>1, <2>2
<1>16. path' \in SUBSET Item BY <1>3, <1>4, <1>6
<1> QED BY <1>2, <1>3, <1>9, <1>12, <1>13, <1>14, <1>15, <1>16, VisitFrame

-----------------------------------------------------------------------------
(* The ends of a walk. *)

\* The ground was visited: a visit that was full has found enough, one that was not has
\* found all that is wanted of what it has seen.
LEMMA GroundDoneKeeps == ASSUME IInv, GroundDone PROVE IInv'
<1> DEFINE all == found \cup visit.res
           bound == IF stage = "ground" THEN query.count ELSE Enough
<1>1. /\ pc = "visit" /\ stage \in {"ground", "more"} /\ found' = all /\ stage' = "more"
      /\ IF Cardinality(all) >= bound THEN Answers(all, FALSE)
                                      ELSE pc' = "next" /\ UNCHANGED answer
      /\ UNCHANGED <<snapshot, query, visit, path, left>>
  BY DEF GroundDone, VisitEnds
<1>2. /\ TypeOK /\ Standing /\ ~LinearScan /\ (stage = "ground" => found = {})
      /\ visit.res \subseteq path /\ visit.res \subseteq Wanted
      /\ found \subseteq path /\ found \subseteq Wanted /\ visit.res \cap found = {}
      /\ visit.ef = IF stage = "ground" THEN Larger(query.ef, query.count) ELSE Room
      /\ path \cap Wanted \subseteq all \/ Cardinality(visit.res) >= visit.ef
      /\ visit.level = 0
  BY <1>1 DEF IInv, Fresh, Walks, Visits, Finds, Misses
<1>3. visit.res \in SUBSET Item /\ found \in SUBSET Item /\ all \in SUBSET Item
  BY <1>2 DEF TypeOK
<1>4. /\ IsFiniteSet(visit.res) /\ IsFiniteSet(found)
      /\ Cardinality(visit.res) \in Nat /\ Cardinality(found) \in Nat
      /\ Cardinality(all) \in Nat
  BY <1>3, ItemSets
<1>5. Cardinality(all) = Cardinality(found) + Cardinality(visit.res)
  <2>1. Cardinality(all) = Cardinality(found) + Cardinality(visit.res)
                             - Cardinality(found \cap visit.res)
    BY <1>4, FS_Union
  <2>2. found \cap visit.res = {} BY <1>2
  <2>3. Cardinality(found \cap visit.res) = 0 BY <2>2, FS_EmptySet
  <2> QED BY <2>1, <2>3, <1>4
<1>6. /\ query.count \in Nat /\ query.ef \in Nat /\ Enough \in Nat /\ Room \in Nat
      /\ Larger(query.ef, query.count) \in Nat /\ Larger(query.ef, query.count) >= query.count
      /\ Room >= Enough - Cardinality(found) /\ query.by \in {"item", "vector"}
  BY <1>2, WantedType
<1>7. Cardinality(visit.res) >= visit.ef => Cardinality(all) >= bound
  <2>1. CASE stage = "ground"
    <3>1. found = {} /\ Cardinality(found) = 0 BY <2>1, <1>2, FS_EmptySet
    <3> HIDE DEF all
    <3> QED BY <3>1, <2>1, <1>2, <1>4, <1>5, <1>6
  <2>2. CASE stage = "more"
    <3> HIDE DEF all
    <3> QED BY <2>2, <1>2, <1>4, <1>5, <1>6
  <2> QED BY <2>1, <2>2, <1>1
<1>8. all \subseteq Wanted /\ all \subseteq path BY <1>2
<1>9. CASE Cardinality(all) >= bound
  <2>1. Answers(all, FALSE) BY <1>1, <1>9
  <2> HIDE DEF all
  <2>2. Suffices(all)
    <3>1. bound = query.count \/ (query.by = "vector" /\ bound = query.ef)
      BY <1>6 DEF Enough
    <3> QED BY <3>1, <1>2, <1>9 DEF Suffices
  <2> QED BY <2>1, <2>2, <1>1, <1>2, <1>3, <1>8, AnswersKeep
<1>10. CASE ~(Cardinality(all) >= bound)
  <2>1. pc' = "next" /\ UNCHANGED answer BY <1>1, <1>10
  <2>2. path \cap Wanted \subseteq all BY <1>2, <1>7, <1>10
  <2> HIDE DEF all
  <2>3. Standing' = Standing /\ Wanted' = Wanted /\ LinearScan' = LinearScan BY <1>1, Fixed
  <2>4. TypeOK' BY <2>1, <1>1, <1>2, <1>3 DEF TypeOK, snapshot
  <2>5. Fresh' /\ Walks' BY <2>1, <2>3, <1>1, <1>2 DEF Fresh, Walks
  <2>6. Visits' /\ Greedy' /\ Scans' BY <2>1 DEF Visits, Greedy, Scans
  <2>7. Finds' BY <2>1, <2>3, <1>1, <1>8 DEF Finds
  <2>8. Misses' BY <2>1, <2>2, <2>3, <1>1 DEF Misses
  <2>9. Answered' /\ FindsEnough' /\ ScanIsExact' /\ CancelledForgets'
    BY <2>1 DEF Answered, FindsEnough, ScanIsExact, CancelledForgets
  <2> QED BY <2>3, <2>4, <2>5, <2>6, <2>7, <2>8, <2>9, <1>2 DEF IInv
<1> QED BY <1>9, <1>10

\* Every item was seen, so everything wanted is found.
LEMMA NoneUnseenKeeps == ASSUME IInv, NoneUnseen PROVE IInv'
<1>1. /\ pc = "next" /\ Unseen = {} /\ Answers(found, FALSE)
      /\ UNCHANGED <<snapshot, query, stage, visit, path, found, left>>
  BY DEF NoneUnseen
<1>2. /\ TypeOK /\ ~LinearScan /\ found \subseteq Wanted /\ path \cap Wanted \subseteq found
      /\ found \in SUBSET Item /\ stage \in {"down", "ground", "more"}
      /\ vectors \in SUBSET Item
  BY <1>1 DEF IInv, Walks, Finds, Misses, TypeOK
<1>3. vectors \ path = {}
  <2>1. vectors \ path \in SUBSET Item BY <1>2
  <2> QED BY <2>1, <1>1, LowestOne DEF Unseen
<1>4. Wanted \subseteq vectors BY <1>2, WantedType
<1>5. found = Wanted BY <1>2, <1>3, <1>4
<1>6. Suffices(found) BY <1>2, <1>5 DEF Suffices
<1> QED BY <1>1, <1>2, <1>6, AnswersKeep

\* A visit on the ground that is cancelled has wanted results.
LEMMA VisitCancelledKeeps == ASSUME IInv, VisitCancelled PROVE IInv'
<1>1. /\ pc = "visit" /\ stage # "down" /\ Answers(visit.res, TRUE)
      /\ UNCHANGED <<snapshot, query, stage, visit, path, found, left>>
  BY DEF VisitCancelled
<1>2. /\ ~LinearScan /\ visit.res \subseteq Wanted /\ visit.res \cap found' = {}
      /\ visit.res \in SUBSET Item /\ found \in SUBSET Item /\ stage \in {"down", "ground", "more"}
  BY <1>1 DEF IInv, Walks, Visits, Finds, TypeOK
<1> QED BY <1>1, <1>2, AnswersKeep

-----------------------------------------------------------------------------
(* The theorems. *)

\* A query starts on a graph that stands.
LEMMA InitIInv == Init => IInv
<1> SUFFICES ASSUME Init PROVE IInv OBVIOUS
<1>1. /\ links \in LinksMap /\ vectors = Ids(Keys) /\ top \in Level /\ eps \in SUBSET vectors
      /\ Standing /\ query \in Queries
      /\ pc = "asked" /\ stage = "down" /\ visit = NoVisit
      /\ path = {} /\ found = {} /\ left = {} /\ answer = NoAnswer
  BY DEF Init, Standing
<1>2. vectors \in SUBSET Item
  <2>1. Keys \in SUBSET (Item \X Level) BY DEF Keys, LinkKey
  <2>2. \A k \in Item \X Level : k[1] \in Item OBVIOUS
  <2> HIDE DEF Keys
  <2> QED BY <2>1, <2>2, <1>1 DEF Ids
<1>3. query \in Query BY <1>1, QueriesAssumption
<1>4. visit \in VisitType BY <1>1, LevelAssumption DEF NoVisit, VisitType, Level
<1>5. answer \in [some : BOOLEAN, ids : SUBSET Item, cancelled : BOOLEAN]
  BY <1>1 DEF NoAnswer
<1>6. TypeOK BY <1>1, <1>2, <1>3, <1>4, <1>5 DEF TypeOK, VisitType
<1>7. Fresh /\ Walks /\ Visits /\ Finds /\ Misses /\ Greedy /\ Scans
  BY <1>1 DEF Fresh, Walks, Visits, Finds, Misses, Greedy, Scans
<1>8. Answered /\ FindsEnough /\ ScanIsExact /\ CancelledForgets
  BY <1>1 DEF Answered, FindsEnough, ScanIsExact, CancelledForgets
<1> QED BY <1>1, <1>6, <1>7, <1>8 DEF IInv

\* When nothing happens nothing goes wrong.
LEMMA StutterKeeps == ASSUME IInv, UNCHANGED vars PROVE IInv'
<1>1. UNCHANGED <<vectors, links, eps, top, query, pc, stage, visit, path, found, left, answer>>
  BY DEF vars, snapshot
<1>2. /\ Keys' = Keys /\ Standing' = Standing /\ Listed' = Listed /\ Wanted' = Wanted
      /\ LinearScan' = LinearScan /\ Enough' = Enough
      /\ \A i : D(i)' = D(i)
  BY <1>1, Fixed DEF snapshot
<1>3. TypeOK' BY <1>1 DEF IInv, TypeOK
<1>4. Fresh' /\ Walks' /\ Visits' /\ Finds' BY <1>1, <1>2 DEF IInv, Fresh, Walks, Visits, Finds
<1>5. Misses' BY <1>1, <1>2 DEF IInv, Misses, Room
<1>6. Greedy' BY <1>1, <1>2 DEF IInv, Greedy
<1>7. Scans' BY <1>1, <1>2 DEF IInv, Scans, Looked, Before
<1>8. Answered' BY <1>1, <1>2 DEF IInv, Answered
<1>9. FindsEnough' BY <1>1, <1>2 DEF IInv, FindsEnough, FoundEnough
<1>10. ScanIsExact' BY <1>1, <1>2 DEF IInv, ScanIsExact, Nearest, Before, D
<1>11. CancelledForgets' BY <1>1, <1>2 DEF IInv, CancelledForgets
<1> QED BY <1>2, <1>3, <1>4, <1>5, <1>6, <1>7, <1>8, <1>9, <1>10, <1>11 DEF IInv

\* Every step keeps the inductive invariant.
LEMMA NextIInv == IInv /\ [Next]_vars => IInv'
<1> SUFFICES ASSUME IInv, [Next]_vars PROVE IInv' OBVIOUS
<1>1. CASE AnswerNothing BY <1>1, NothingKeeps
<1>2. CASE StartScan \/ ScanOne \/ ScanEnds \/ ScanCancelled
  BY <1>2, StartScanKeeps, ScanOneKeeps, ScanEndsKeeps, ScanCancelledKeeps
<1>3. CASE StartAtItem \/ StartAtTop BY <1>3, StartAtItemKeeps, StartAtTopKeeps
<1>4. CASE Expand \/ Follow BY <1>4, ExpandKeeps, FollowKeeps
<1>5. CASE Descend \/ SearchMore BY <1>5, DescendKeeps, SearchMoreKeeps
<1>6. CASE GroundDone \/ NoneUnseen \/ VisitCancelled
  BY <1>6, GroundDoneKeeps, NoneUnseenKeeps, VisitCancelledKeeps
<1>7. CASE UNCHANGED vars BY <1>7, StutterKeeps
<1> QED BY <1>1, <1>2, <1>3, <1>4, <1>5, <1>6, <1>7 DEF Next

\* The inductive invariant holds throughout.
LEMMA Invariance == Spec => []IInv
BY InitIInv, NextIInv, PTL DEF Spec

\* Every local of a search keeps its type.
THEOREM TypeCorrect == Spec => []TypeOK
<1>1. IInv => TypeOK BY DEF IInv
<1> QED BY <1>1, Invariance, PTL

\* No query panics, on any graph a build may leave: what is queued has links on the level
\* of the visit, what is followed has a vector, and every descent has a result to go on from.
THEOREM NothingIsMissing == Spec => []NothingMissing
<1>1. IInv => NothingMissing
  <2> SUFFICES ASSUME IInv, pc = "visit" PROVE NothingMissing BY DEF NothingMissing
  <2>1. Visits BY DEF IInv
  <2>2. \A c \in visit.queue : <<c, visit.level>> \in Keys BY <2>1 DEF Visits
  <2>3. visit.near \subseteq vectors
    <3> SUFFICES ASSUME NEW c \in visit.near PROVE c \in vectors OBVIOUS
    <3>1. <<c, visit.level>> \in Keys BY <2>1 DEF Visits
    <3> QED BY <3>1, GraphLeads DEF IInv
  <2>4. stage = "down" => visit.res # {} BY <2>1 DEF Visits
  <2> QED BY <2>2, <2>3, <2>4 DEF NothingMissing
<1> QED BY <1>1, Invariance, PTL

\* The searches from unseen items never return what was found before.
THEOREM NothingFoundTwice == Spec => []FoundOnce
<1>1. IInv => FoundOnce BY DEF IInv, Finds, FoundOnce
<1> QED BY <1>1, Invariance, PTL

\* Only candidates are returned, never more than asked for, and by_item returns the item itself
\* from a linear scan alone, then if and only if it is among the nearest that were scanned.
THEOREM ItselfFromScans == Spec => []ItselfOnlyByScan
<1>1. IInv => ItselfOnlyByScan
  <2> SUFFICES ASSUME IInv, pc = "done" PROVE ItselfOnlyByScan BY DEF ItselfOnlyByScan
  <2>1. /\ TypeOK /\ answer.ids \subseteq (IF LinearScan THEN Listed ELSE Wanted)
        /\ Cardinality(answer.ids) <= query.count /\ (answer.some \/ answer.ids = {})
        /\ LinearScan /\ answer.some => answer.ids = Nearest(Listed \ left, query.count)
    BY DEF IInv, Answered, ScanIsExact
  <2>2. Wanted \subseteq Listed /\ (query.by = "item" => query.point \notin Wanted) BY DEF Wanted
  <2> QED BY <2>1, <2>2 DEF ItselfOnlyByScan
<1> QED BY <1>1, Invariance, PTL

\* A walk that is cancelled returns nothing that its earlier visits found.
THEOREM CancelledForgetsFound == Spec => []CancelledForgets
<1>1. IInv => CancelledForgets BY DEF IInv
<1> QED BY <1>1, Invariance, PTL

\* A query that is not cancelled returns count items, or all candidates, or, by a walk for
\* a vector, at least ef of them: a graph that falls into parts loses nothing.
THEOREM EnoughIsFound == Spec => []FindsEnough
<1>1. IInv => FindsEnough BY DEF IInv
<1> QED BY <1>1, Invariance, PTL

\* A linear scan returns the nearest of the candidates it looked at, ties and cancellation
\* included.
THEOREM ScansAreExact == Spec => []ScanIsExact
<1>1. IInv => ScanIsExact BY DEF IInv
<1> QED BY <1>1, Invariance, PTL

\* The walk down goes on from a point as near as all that was seen, though the bound it
\* compares with is stale while links are followed.
THEOREM DescentsAreGreedy == Spec => []DescentIsGreedy
<1>1. IInv => DescentIsGreedy
  <2> SUFFICES ASSUME IInv, VisitEnds, stage = "down",
                      NEW i \in Nearest(visit.res, 1), NEW j \in path
               PROVE  D(i) <= D(j)
    BY DEF DescentIsGreedy
  <2>1. /\ TypeOK /\ visit.res \in SUBSET Item /\ path \in SUBSET Item /\ visit.res # {}
        /\ \E r \in visit.res : D(r) <= D(j)
    BY DEF IInv, TypeOK, VisitEnds, Visits, Greedy
  <2>2. PICK r \in visit.res : D(r) <= D(j) BY <2>1
  <2>3. D(i) <= D(r) /\ i \in visit.res BY <2>1, NearestFirst
  <2>4. D(i) \in Nat /\ D(r) \in Nat /\ D(j) \in Nat BY <2>1, <2>3, DType
  <2> QED BY <2>2, <2>3, <2>4
<1> QED BY <1>1, Invariance, PTL

\* No step of a query goes back, so a finite graph cannot keep it busy for ever: what runs
\* in circles is neither the visit among its links nor the search for more.
THEOREM QueriesAdvance == Spec => QueryAdvances
<1> DEFINE Forward ==
      \/ pc = "asked" /\ pc' # "asked"
      \/ pc # "done" /\ pc' = "done"
      \/ pc = "scan" /\ pc' = "scan" /\ Shrinks(left, left')
      \/ /\ {pc, pc'} \subseteq {"visit", "next"}
         /\ \/ <<stage, stage'>> \in {<<"down", "ground">>, <<"ground", "more">>}
            \/ stage' = stage /\ visit'.level < visit.level
            \/ stage' = stage /\ visit'.level = visit.level /\ VisitAdvances
<1>1. ASSUME IInv, Next PROVE Forward
  <2>1. TypeOK /\ visit \in VisitType /\ visit.level \in Nat
    BY <1>1, LevelAssumption DEF IInv, TypeOK, VisitType, Level
  <2>2. CASE AnswerNothing \/ StartScan BY <2>2 DEF AnswerNothing, StartScan
  <2>3. CASE ScanOne
    <3>1. PICK i \in Lowest(left) : left' = left \ {i} BY <2>3 DEF ScanOne
    <3>2. i \in left BY <3>1 DEF Lowest
    <3> QED BY <2>3, <3>1, <3>2 DEF ScanOne, Shrinks
  <2>4. CASE ScanEnds \/ ScanCancelled BY <2>4 DEF ScanEnds, ScanCancelled, Answers
  <2>5. CASE StartAtItem \/ StartAtTop
    <3>1. pc = "asked" /\ pc' = "visit" BY <2>5 DEF StartAtItem, StartAtTop, VisitFrom
    <3> QED BY <3>1
  <2>6. CASE Expand
    <3>1. PICK c \in FirstOut(visit.queue) :
            visit' = [visit EXCEPT !.queue = @ \ {c}, !.near = links[<<c, visit.level>>],
                                   !.bar = {D(r) : r \in Last(visit.res)}]
      BY <2>6 DEF Expand
    <3>2. visit'.queue = visit.queue \ {c} /\ visit'.level = visit.level
      BY <2>1, <3>1 DEF VisitType
    <3>3. c \in visit.queue BY DEF FirstOut
    <3>4. Shrinks(visit.queue, visit'.queue) BY <3>2, <3>3 DEF Shrinks
    <3> QED BY <2>6, <3>2, <3>4 DEF Expand, VisitAdvances
  <2>7. CASE Follow
    <3>1. PICK p \in Lowest(visit.near) :
            LET offer == IF p \in path THEN [queue |-> visit.queue, res |-> visit.res]
                                       ELSE Offered(p)
            IN  /\ path' = path \cup {p}
                /\ visit' = [visit EXCEPT !.near = @ \ {p}, !.queue = offer.queue,
                                          !.res = offer.res]
      BY <2>7 DEF Follow
    <3>2. p \in visit.near BY DEF Lowest
    <3>3. CASE p \in path
      <4>1. /\ path' = path /\ visit'.queue = visit.queue /\ visit'.near = visit.near \ {p}
            /\ visit'.level = visit.level
        BY <2>1, <3>1, <3>3 DEF VisitType
      <4>2. Shrinks(visit.near, visit'.near) BY <3>2, <4>1 DEF Shrinks
      <4> QED BY <2>7, <4>1, <4>2 DEF Follow, VisitAdvances
    <3>4. CASE p \notin path
      <4>1. path' = path \cup {p} /\ visit'.level = visit.level
        BY <2>1, <3>1, <3>4 DEF VisitType
      <4>2. Shrinks(path', path) BY <3>4, <4>1 DEF Shrinks
      <4> QED BY <2>7, <4>1, <4>2 DEF Follow, VisitAdvances
    <3> QED BY <3>3, <3>4
  <2>8. CASE Descend
    <3>1. pc = "visit" /\ pc' = "visit" /\ stage = "down"
      BY <2>8 DEF Descend, VisitEnds, VisitFrom
    <3>2. CASE visit.level = 1
      <4>1. stage' = "ground" BY <2>8, <3>2 DEF Descend
      <4> QED BY <3>1, <4>1
    <3>3. CASE visit.level # 1
      <4>1. stage' = stage /\ visit'.level = visit.level - 1
        BY <2>8, <3>3 DEF Descend, VisitFrom, Seeded
      <4> QED BY <2>1, <3>1, <4>1
    <3> QED BY <3>2, <3>3
  <2>9. CASE GroundDone
    <3>1. /\ pc = "visit" /\ pc' \in {"next", "done"} /\ stage \in {"ground", "more"}
          /\ stage' = "more" /\ UNCHANGED <<visit, path>>
      BY <2>9 DEF GroundDone, VisitEnds, Answers
    <3>2. stage = "ground" \/ (stage' = stage /\ path' = path /\ visit' = visit) BY <3>1
    <3> QED BY <3>1, <3>2 DEF VisitAdvances
  <2>10. CASE SearchMore
    <3>1. PICK id \in Unseen : VisitFrom({id}, 0, Room, Wanted) /\ path' = path \cup {id}
      BY <2>10 DEF SearchMore
    <3>2. pc = "next" /\ stage' = stage /\ visit.level = 0
      BY <2>10, <1>1 DEF SearchMore, IInv, Walks
    <3>3. pc' = "visit" /\ visit'.level = 0 BY <3>1 DEF VisitFrom, Seeded
    <3>4. id \notin path BY DEF Unseen, Lowest
    <3>5. Shrinks(path', path) BY <3>1, <3>4 DEF Shrinks
    <3> QED BY <3>2, <3>3, <3>5 DEF VisitAdvances
  <2>11. CASE NoneUnseen \/ VisitCancelled BY <2>11 DEF NoneUnseen, VisitCancelled, Answers
  <2> QED BY <1>1, <2>2, <2>3, <2>4, <2>5, <2>6, <2>7, <2>8, <2>9, <2>10, <2>11 DEF Next
<1>2. IInv /\ [Next]_vars => [Forward]_vars BY <1>1
<1> QED BY <1>2, Invariance, PTL DEF Spec, QueryAdvances
=============================================================================
