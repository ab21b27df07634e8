---------------------------- MODULE MCHnswSearch ----------------------------
(* HnswSearch on a few items. *)
EXTENDS HnswSearch

\* Item i is at 2 * i on a line; a query is at an item, or at 3, as far from 1 as from 2.
MCPoint == Item \cup {0}
Place(p) == IF p = 0 THEN 3 ELSE 2 * p
MCDist == [p \in MCPoint \X Item |->
             IF Place(p[1]) < Place(p[2]) THEN Place(p[2]) - Place(p[1])
                                          ELSE Place(p[1]) - Place(p[2])]

\* Asked of every graph of one level.  A scan does not look at ef.
MCQueries == {q \in [by : {"vector", "item"}, point : {0, 2},
                     cand : {NoFilter} \cup SUBSET Item,
                     count : 0 .. 3, ef : 1 .. 3, below : {0, 3}] :
                /\ q.by = "item" <=> q.point \in Item
                /\ q.ef = DefaultEf \/ (q.count > 0 /\ q.ef \in q.count .. q.count + 1)
                /\ q.below = 3 => q.cand # NoFilter /\ q.ef = DefaultEf}

\* Asked of every graph of two levels: an entry point may be no candidate.
MCFewQueries == {[by |-> "vector", point |-> 0, cand |-> {2, 3}, count |-> 2, ef |-> 2,
                  below |-> 0]}

Within(m) == {Absent} \cup {s \in SUBSET Item : Cardinality(s) <= m}
WithoutLoops(ls) == \A i \in Item : ls[i] = Absent \/ i \notin ls[i]

\* Graphs by the links on the ground and those on the level above it.
Graph(ground, above) == [k \in LinkKey |-> IF k[2] = 0 THEN ground[k[1]] ELSE above[k[1]]]

OneLevel == /\ top = 0 /\ query \in MCQueries
            /\ links \in {Graph(g, [i \in Item |-> Absent]) : g \in [Item -> Within(M0)]}

TwoLevels == /\ top = 1 /\ query \in MCFewQueries
             /\ links \in {Graph(g, a) : g \in {h \in [Item -> Within(M0)] : WithoutLoops(h)},
                                         a \in {h \in [Item -> Within(M)] : WithoutLoops(h)}}
             /\ eps \in {{i} : i \in Item}

MCInit == (OneLevel \/ TwoLevels) /\ Init

MCSpec == MCInit /\ [][Next]_vars /\ WF_vars(Next)
=============================================================================
