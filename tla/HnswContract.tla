---------------------------- MODULE HnswContract ----------------------------
(***************************************************************************)
(* What HnswBuilder::build (src/hnsw.rs) leaves behind, seen from          *)
(* Writer::build (src/writer.rs): which link keys it has written, which    *)
(* entry points and which height it found.  The links themselves are       *)
(* abstracted away here.  HnswBuild models the algorithm step by step and  *)
(* is checked against this module; HannoyIndex builds on it.               *)
(***************************************************************************)
EXTENDS Integers, FiniteSets

CONSTANTS Item,       \* item ids, u32 in the code
          MaxLevel    \* the highest level get_random_level can draw

ASSUME ItemAssumption == Item \subseteq Nat
\* A level is stored as one byte of the key and of the metadata.
ASSUME LevelAssumption == MaxLevel \in 0 .. 255

Level == 0 .. MaxLevel

\* Key::links(index, item, level): one entry per item and level it lives on.
LinkKey == Item \X Level

Ids(keys) == {k[1] : k \in keys}

\* Every entry point has a links entry on every level from the top to the ground.
Covers(keys, eps, top) == \A e \in eps : \A l \in 0 .. top : <<e, l>> \in keys

\* A graph a reader can walk from entry points eps down from level top: its items are
\* those of the index, every link leads to an item on the same level, an item on a level is
\* on every level below, and there is an entry point when there is anything.
Walkable(items, keys, links, eps, top) ==
    /\ Ids(keys) = items
    /\ \A k \in keys : \A j \in links[k] : <<j, k[2]>> \in keys
    /\ \A k \in keys : \A l \in 0 .. k[2] : <<k[1], l>> \in keys
    /\ Covers(keys, eps, top)
    /\ eps = {} <=> keys = {}

\* An item that could stand in for a deleted entry point.
HasSubstitute(keys, top, del) == \E k \in keys : k[1] \notin del /\ k[2] <= top

\* The link keys of a build that inserts ins and drops del, when keys, eps and top
\* are what the previous build left: `written' is what self.layers holds when it
\* is written, eps2 and top2 are the fields entry_points and max_level.
HnswOutcome(keys, eps, top, ins, del, written, eps2, top2) ==
    /\ Ids(written) = ins \cup (Ids(keys) \ del) \cup (eps \ del)
    /\ \A k \in keys : k[1] \notin del => k \in written
    /\ \A i \in ins : <<i, 0>> \in written
    /\ eps2 \subseteq Ids(written)
    /\ Covers(written, eps2, top2)
    /\ eps2 # {} <=> \/ ins # {}
                     \/ eps \ del # {}
                     \/ eps \cap del # {} /\ HasSubstitute(keys, top, del)
    /\ top2 < top => eps \cap del # {} /\ (top2 = 0 \/ \E i \in ins : <<i, top2>> \in written)
    /\ top2 > top => \E i \in ins : <<i, top2>> \in written
=============================================================================
