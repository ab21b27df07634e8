------------------------------ MODULE HnswSearch ------------------------------
(***************************************************************************)
(* A query against an opened index (src/reader.rs): by_vector and by_item, *)
(* with candidates and cancellation.  The read transaction gives a fixed   *)
(* graph, any one that a build may leave (Walkable).  A query is answered  *)
(*   - by a scan of the candidates when there are few of them, or          *)
(*   - by walking down the levels (by_vector), a beam search on the ground *)
(*     and, if that found too little, more beam searches from items that   *)
(*     were not seen yet.                                                  *)
(* Visitor::visit, the beam search, takes a step per candidate it expands  *)
(* and per link it follows.                                                *)
(***************************************************************************)
EXTENDS HnswContract

CONSTANTS Point,       \* where a query may be: the places of the items and others
          Dist,        \* Dist[<<p, i>>]: the distance of item i from p
          M,           \* most links of an item on a level above the ground
          M0,          \* most links of an item on the ground
          Absent,      \* no links entry
          NoFilter,    \* a query without candidates
          DefaultEf,   \* DEFAULT_EF_SEARCH, scaled down
          Queries      \* the queries asked

ASSUME PointAssumption == Item \subseteq Point
ASSUME DistAssumption == Dist \in [Point \X Item -> Nat]
ASSUME DegreeAssumption == M \in Nat \ {0} /\ M0 \in Nat \ {0}
ASSUME FilterAssumption == \A s \in SUBSET Item : s # NoFilter /\ s # Absent
ASSUME EfAssumption == DefaultEf \in Nat
\* Item ids are 32 bits wide.
ASSUME FiniteItems == IsFiniteSet(Item)

\* QueryBuilder: nns(count) takes the default ef, ef_search at least count.
Query == {q \in [by : {"vector", "item"}, point : Point, cand : {NoFilter} \cup SUBSET Item,
                 count : Nat, ef : Nat, below : Nat] :
            /\ q.by = "item" => q.point \in Item
            /\ q.ef = DefaultEf \/ q.ef >= q.count}

ASSUME QueriesAssumption == Queries \subseteq Query

VARIABLES
    vectors,  \* the items of the index
    links,    \* their links, per level
    eps,      \* the reader's entry points
    top,      \* and height
    query,    \* the QueryBuilder
    pc,       \* where the query is
    stage,    \* which visit is under way: down, ground or more
    visit,    \* Visitor and the locals of Visitor::visit
    path,     \* the items seen, shared by several visits
    found,    \* neighbours
    left,     \* candidates a linear scan has not looked at
    answer    \* the items returned, and did_cancel

snapshot == <<vectors, links, eps, top>>
vars == <<snapshot, query, pc, stage, visit, path, found, left, answer>>

-----------------------------------------------------------------------------
D(i) == Dist[<<query.point, i>>]

\* The order of (distance, id) pairs.
Before(i, j) == D(i) < D(j) \/ (D(i) = D(j) /\ i < j)

Last(S)       == {i \in S : \A j \in S : i = j \/ Before(j, i)}
Nearest(S, n) == {i \in S : Cardinality({j \in S : Before(j, i)}) < n}
Lowest(S)     == {i \in S : \A j \in S : i <= j}

LinksMap == [LinkKey -> {Absent} \cup SUBSET Item]
Keys     == {k \in LinkKey : links[k] # Absent}

\* The arrays the builder had for links.
WithinDegree == \A k \in Keys : Cardinality(links[k]) <= IF k[2] = 0 THEN M0 ELSE M

\* The candidates that are items of the index.
Listed == IF query.cand = NoFilter THEN vectors ELSE query.cand \cap vectors

\* should_linear_scan, with the default linear_below_ratio of 1.
LinearScan == query.cand # NoFilter /\ Cardinality(Listed) < query.below

\* Mutant: by_item leaves the item among the candidates.
Wanted_all == Listed

\* What a visit on the ground may return: by_item takes the item itself off the candidates.
Wanted == IF query.by = "item" THEN Listed \ {query.point} ELSE Listed

NoVisit == [level |-> 0, ef |-> 0, queue |-> {}, res |-> {}, near |-> {}, bar |-> {}]
NoAnswer == [some |-> FALSE, ids |-> {}, cancelled |-> FALSE]

Init == /\ links \in LinksMap /\ WithinDegree
        /\ vectors = Ids(Keys)
        /\ top \in Level /\ eps \in SUBSET vectors
        /\ Walkable(vectors, Keys, links, eps, top)
        /\ query \in Queries
        /\ pc = "asked" /\ stage = "down" /\ visit = NoVisit
        /\ path = {} /\ found = {} /\ left = {} /\ answer = NoAnswer

-----------------------------------------------------------------------------
(* The ways a query ends. *)

\* The count nearest of what was found, in order.
Answers(ids, cancelled) ==
    /\ pc' = "done"
    /\ answer' = [some |-> TRUE, ids |-> Nearest(ids, query.count), cancelled |-> cancelled]

\* No candidate is an item, or the item asked about is none: by_vector finds nothing,
\* by_item returns None.
Hopeless == Listed = {} \/ (query.by = "item" /\ query.point \notin vectors)

AnswerNothing ==
    /\ pc = "asked" /\ Hopeless
    /\ pc' = "done"
    /\ answer' = [NoAnswer EXCEPT !.some = query.by = "vector"]
    /\ UNCHANGED <<snapshot, query, stage, visit, path, found, left>>

-----------------------------------------------------------------------------
(* brute_force_search: found is the heap of the nearest so far. *)

StartScan == /\ pc = "asked" /\ ~Hopeless /\ LinearScan
             /\ pc' = "scan"
             /\ left' = query.cand
             /\ UNCHANGED <<snapshot, query, stage, visit, path, found, answer>>

\* Mutant: the comparison is turned round.
Kept_farther(i) ==
    IF Cardinality(found) < query.count THEN found \cup {i}
    ELSE LET last == Last(found)
         IN  IF \E f \in last : D(f) < D(i) THEN (found \ last) \cup {i} ELSE found

\* The heap takes the candidate while it has room, then only instead of a farther one.
Kept(i) ==
    IF Cardinality(found) < query.count THEN found \cup {i}
    ELSE LET last == Last(found)
         IN  IF \E f \in last : D(f) > D(i) THEN (found \ last) \cup {i} ELSE found

\* One candidate, in the order of ids; one without a vector is passed over.
ScanOne == /\ pc = "scan"
           /\ \E i \in Lowest(left) :
                /\ left' = left \ {i}
                /\ found' = IF i \in vectors THEN Kept(i) ELSE found
           /\ UNCHANGED <<snapshot, query, pc, stage, visit, path, answer>>

ScanEnds == /\ pc = "scan" /\ left = {}
            /\ Answers(found, FALSE)
            /\ UNCHANGED <<snapshot, query, stage, visit, path, found, left>>

ScanCancelled == /\ pc = "scan" /\ left # {}
                 /\ Answers(found, TRUE)
                 /\ UNCHANGED <<snapshot, query, stage, visit, path, found, left>>

-----------------------------------------------------------------------------
(* Visitor::visit *)

\* Entry points are queued; those the visit may return are results, however many they are.
Seeded(points, level, ef, wanted) ==
    [level |-> level, ef |-> ef, queue |-> points, res |-> points \cap wanted,
     near |-> {}, bar |-> {}]

\* On the levels above the ground every item may be a result.
Results == IF stage = "down" THEN vectors ELSE Wanted

\* The queue gives the nearest first, of equally near ones the highest id.
FirstOut(queue) == {c \in queue : \A o \in queue : D(c) < D(o) \/ (D(c) = D(o) /\ o <= c)}

Beyond(c) == visit.res # {} /\ \A r \in visit.res : D(c) > D(r)

\* A candidate is expanded.  f_max, the distance of the farthest result, is read here and
\* not again until the next candidate; without a result there is none.
Expand ==
    /\ pc = "visit" /\ visit.near = {}
    /\ \E c \in FirstOut(visit.queue) :
         /\ ~Beyond(c)
         /\ visit' = [visit EXCEPT !.queue = @ \ {c},
                                   !.near = links[<<c, visit.level>>],
                                   !.bar = {D(r) : r \in Last(visit.res)}]
    /\ UNCHANGED <<snapshot, query, pc, stage, path, found, left, answer>>

\* Mutant: full results stay as they are.
Offered_full(p) ==
    IF Cardinality(visit.res) < visit.ef
    THEN [queue |-> visit.queue \cup {p},
          res   |-> IF p \in Results THEN visit.res \cup {p} ELSE visit.res]
    ELSE [queue |-> visit.queue, res |-> visit.res]

\* What a visit makes of a new point: it is queued when there is room for results or it is
\* nearer than f_max, and then is a result too if it may be one.
Offered(p) ==
    IF Cardinality(visit.res) < visit.ef \/ \A f_max \in visit.bar : D(p) < f_max
    THEN [queue |-> visit.queue \cup {p},
          res   |-> LET all == visit.res \cup {p}
                    IN  IF p \notin Results THEN visit.res
                        ELSE IF Cardinality(visit.res) = visit.ef THEN all \ Last(all) ELSE all]
    ELSE [queue |-> visit.queue, res |-> visit.res]

\* One link of the candidate, in the order of ids; points seen before are passed over.
Follow ==
    /\ pc = "visit"
    /\ \E p \in Lowest(visit.near) :
         LET offer == IF p \in path THEN [queue |-> visit.queue, res |-> visit.res]
                                    ELSE Offered(p)
         IN  /\ path' = path \cup {p}
             /\ visit' = [visit EXCEPT !.near = @ \ {p}, !.queue = offer.queue,
                                       !.res = offer.res]
    /\ UNCHANGED <<snapshot, query, pc, stage, found, left, answer>>

\* Nothing is queued, or the nearest queued point is farther than every result.
VisitEnds == pc = "visit" /\ visit.near = {} /\ \A c \in FirstOut(visit.queue) : Beyond(c)

-----------------------------------------------------------------------------
(* hnsw_search and nns_by_item. *)

VisitFrom(points, level, ef, wanted) ==
    /\ pc' = "visit"
    /\ visit' = Seeded(points, level, ef, wanted)

Larger(a, b) == IF a > b THEN a ELSE b

\* by_item starts on the ground from the item.
StartAtItem ==
    /\ pc = "asked" /\ ~Hopeless /\ ~LinearScan /\ query.by = "item"
    /\ stage' = "ground"
    /\ VisitFrom({query.point}, 0, Larger(query.ef, query.count), Wanted)
    /\ path' = {query.point}
    /\ UNCHANGED <<snapshot, query, found, left, answer>>

\* Mutant: the candidates are applied above the ground too.
StartAtTop_filtered ==
    /\ pc = "asked" /\ ~Hopeless /\ ~LinearScan /\ query.by = "vector"
    /\ IF top = 0 THEN /\ stage' = "ground"
                       /\ VisitFrom(eps, 0, Larger(query.ef, query.count), Wanted)
                  ELSE /\ stage' = "down"
                       /\ VisitFrom(eps, top, 1, Wanted)
    /\ path' = eps
    /\ UNCHANGED <<snapshot, query, found, left, answer>>

\* by_vector starts on the highest level from the entry points.
StartAtTop ==
    /\ pc = "asked" /\ ~Hopeless /\ ~LinearScan /\ query.by = "vector"
    /\ IF top = 0 THEN /\ stage' = "ground"
                       /\ VisitFrom(eps, 0, Larger(query.ef, query.count), Wanted)
                  ELSE /\ stage' = "down"
                       /\ VisitFrom(eps, top, 1, vectors)
    /\ path' = eps
    /\ UNCHANGED <<snapshot, query, found, left, answer>>

\* Mutant: what was seen on the levels above is not forgotten on the ground.
Descend_seen ==
    /\ VisitEnds /\ stage = "down"
    /\ LET closest == Nearest(visit.res, 1)
       IN  IF visit.level = 1
           THEN /\ stage' = "ground"
                /\ VisitFrom(closest, 0, Larger(query.ef, query.count), Wanted)
                /\ path' = path \cup closest
           ELSE /\ VisitFrom(closest, visit.level - 1, 1, vectors)
                /\ path' = path \cup closest
                /\ UNCHANGED stage
    /\ UNCHANGED <<snapshot, query, found, left, answer>>

\* The visit goes on a level below, from the closest point.  What was seen is remembered
\* from one upper level to the next, and forgotten on the ground.
Descend ==
    /\ VisitEnds /\ stage = "down"
    /\ LET closest == Nearest(visit.res, 1)
       IN  IF visit.level = 1
           THEN /\ stage' = "ground"
                /\ VisitFrom(closest, 0, Larger(query.ef, query.count), Wanted)
                /\ path' = closest
           ELSE /\ VisitFrom(closest, visit.level - 1, 1, vectors)
                /\ path' = path \cup closest
                /\ UNCHANGED stage
    /\ UNCHANGED <<snapshot, query, found, left, answer>>

\* How many neighbours end the search for more.
Enough == IF query.by = "item" THEN query.count ELSE query.ef

\* A visit on the ground has ended.  The first one is enough with count results.
GroundDone ==
    /\ VisitEnds /\ stage \in {"ground", "more"}
    /\ LET all == found \cup visit.res
       IN  /\ found' = all
           /\ IF Cardinality(all) >= (IF stage = "ground" THEN query.count ELSE Enough)
              THEN Answers(all, FALSE)
              ELSE pc' = "next" /\ UNCHANGED answer
    /\ stage' = "more"
    /\ UNCHANGED <<snapshot, query, visit, path, left>>

\* Mutant: items not found, rather than items not seen.
Unseen_found == Lowest(vectors \ found)

\* The cursor over the items stops at the first one no visit has seen.
Unseen == Lowest(vectors \ path)

\* Mutant: the subtraction does not saturate.
Room_wraps == Enough - Cardinality(found)

\* by_vector's ef may be less than what was found already.
Room == Larger(Enough - Cardinality(found), 0)

\* Mutant: what was seen is forgotten.
SearchMore_fresh ==
    /\ pc = "next"
    /\ \E id \in Unseen :
         /\ VisitFrom({id}, 0, Room, Wanted)
         /\ path' = {id}
    /\ UNCHANGED <<snapshot, query, stage, found, left, answer>>

SearchMore ==
    /\ pc = "next"
    /\ \E id \in Unseen :
         /\ VisitFrom({id}, 0, Room, Wanted)
         /\ path' = path \cup {id}
    /\ UNCHANGED <<snapshot, query, stage, found, left, answer>>

NoneUnseen ==
    /\ pc = "next" /\ Unseen = {}
    /\ Answers(found, FALSE)
    /\ UNCHANGED <<snapshot, query, stage, visit, path, found, left>>

\* The cancel closure is asked before a candidate is expanded, on the ground only.  The
\* results of the visit that is cancelled are returned.
VisitCancelled ==
    /\ pc = "visit" /\ stage # "down" /\ visit.near = {} /\ visit.queue # {}
    /\ Answers(visit.res, TRUE)
    /\ UNCHANGED <<snapshot, query, stage, visit, path, found, left>>

-----------------------------------------------------------------------------
Next == \/ AnswerNothing
        \/ StartScan \/ ScanOne \/ ScanEnds \/ ScanCancelled
        \/ StartAtItem \/ StartAtTop \/ Expand \/ Follow
        \/ Descend \/ GroundDone \/ SearchMore \/ NoneUnseen \/ VisitCancelled

Spec == Init /\ [][Next]_vars

\* A call runs until it returns.
FairSpec == Spec /\ WF_vars(Next)

-----------------------------------------------------------------------------
(* Properties. *)

\* Every variable keeps its type (Visitor, and the locals of the searches).
TypeOK ==
    /\ vectors \in SUBSET Item /\ links \in LinksMap
    /\ eps \in SUBSET Item /\ top \in Level
    /\ query \in Query
    /\ pc \in {"asked", "scan", "visit", "next", "done"}
    /\ stage \in {"down", "ground", "more"}
    /\ visit \in [level : Level, ef : Nat, queue : SUBSET Item, res : SUBSET Item,
                  near : SUBSET Item, bar : SUBSET Nat]
    /\ path \in SUBSET Item /\ found \in SUBSET Item /\ left \in SUBSET Item
    /\ answer \in [some : BOOLEAN, ids : SUBSET Item, cancelled : BOOLEAN]

\* No query panics: what is queued has links on the level of the visit (expect "Links must
\* exist"), what is followed has a vector (the unwrap of get_item), and a visit above the
\* ground finds something to go down from (expect "No neighbor was found").
NothingMissing ==
    pc = "visit" => /\ \A c \in visit.queue : <<c, visit.level>> \in Keys
                    /\ visit.near \subseteq vectors
                    /\ stage = "down" => visit.res # {}

\* The searches from unseen items return nothing that was found before: no neighbour is
\* returned twice.
FoundOnce == pc = "visit" /\ stage = "more" => visit.res \cap found = {}

\* "Returns the nearest points to the item id, not including the point itself"
\* (reader.rs:802).  Walks keep to that, whatever links and restarts lead back to the item.
\* A linear scan does not: it returns the item when it is among the count nearest of the
\* candidates scanned.  Nothing but candidates is returned, and never more than count.
ItselfOnlyByScan ==
    pc = "done" =>
        /\ answer.ids \subseteq Listed /\ Cardinality(answer.ids) <= query.count
        /\ query.by = "item" =>
             (query.point \in answer.ids <=>
                /\ LinearScan /\ answer.some
                /\ query.point \in Nearest(Listed \ left, query.count))

\* A walk that is cancelled "returns partial results so far" (reader.rs:720), but only those
\* of the visit under way: of what earlier visits found nothing is returned.
CancelledForgets ==
    pc = "done" /\ answer.cancelled /\ ~LinearScan => answer.ids \cap found = {}

\* A query that is not cancelled returns count items, or all candidates when there are
\* fewer, even when the graph falls into parts.  Only a walk for a vector may return less:
\* it stops with ef items when ef is less than count.
FoundEnough == \/ Cardinality(answer.ids) = query.count
               \/ answer.ids = IF LinearScan THEN Listed ELSE Wanted

FindsEnough ==
    pc = "done" /\ answer.some /\ ~answer.cancelled =>
        \/ FoundEnough
        \/ /\ query.by = "vector" /\ ~LinearScan
           /\ Cardinality(answer.ids) >= query.ef

\* "Search may become trapped in a local sub-graph with fewer elements than opt.count - to
\* account for this we run an expensive exhaustive search at the end" (reader.rs:717): the
\* same for any count, the default ef included.
FindsCount == pc = "done" /\ answer.some /\ ~answer.cancelled => FoundEnough

\* A linear scan is exact: it returns the count nearest of the candidates it looked at, of
\* equally near ones the lowest ids.  Those are all candidates unless it was cancelled.
ScanIsExact ==
    pc = "done" /\ LinearScan /\ answer.some => answer.ids = Nearest(Listed \ left, query.count)

\* Every query is answered.
QueryEnds == pc = "asked" ~> pc = "done"

\* Something is taken out of a set, and nothing put in.
Shrinks(S, T) == T \subseteq S /\ T # S

VisitAdvances ==
    \/ Shrinks(path', path)
    \/ path' = path /\ pc = "visit" /\ pc' = "next"
    \/ /\ path' = path /\ pc = "visit" /\ pc' = "visit"
       /\ \/ Shrinks(visit.queue, visit'.queue)
          \/ visit'.queue = visit.queue /\ Shrinks(visit.near, visit'.near)

\* A query never goes back, on any graph and with any ties: it comes to a later stage or
\* down a level, sees an item it had not seen, or has fewer to expand, follow or scan.
QueryAdvances ==
    [][\/ pc = "asked" /\ pc' # "asked"
       \/ pc # "done" /\ pc' = "done"
       \/ pc = "scan" /\ pc' = "scan" /\ Shrinks(left, left')
       \/ /\ {pc, pc'} \subseteq {"visit", "next"}
          /\ \/ <<stage, stage'>> \in {<<"down", "ground">>, <<"ground", "more">>}
             \/ stage' = stage /\ visit'.level < visit.level
             \/ stage' = stage /\ visit'.level = visit.level /\ VisitAdvances]_vars

\* The bound f_max is stale while links are followed, but with an ef of 1 that loses
\* nothing: a visit above the ground comes down from the nearest point seen on the way.
DescentIsGreedy ==
    VisitEnds /\ stage = "down" =>
        \A i \in Nearest(visit.res, 1), j \in path : D(i) <= D(j)
=============================================================================
