---------------------------- MODULE IndexPromise ----------------------------
(***************************************************************************)
(* What an index promises its readers, without marks, graphs or metadata:  *)
(* a reader is refused or is served exactly what is committed.  An edit    *)
(* takes the index away from readers, a build gives it back, and readers   *)
(* learn of either only when the transaction is published.                 *)
(***************************************************************************)
CONSTANTS Item,
          Content,     \* what an item can be stored as
          Absent,      \* the item is not stored
          Closed       \* a reader is refused

VARIABLES stored,      \* what is committed
          served,      \* what a reader is served
          draft,       \* what the write transaction would commit
          ready        \* what a reader would then be served

vars == <<stored, served, draft, ready>>

Init == /\ stored = [i \in Item |-> Absent] /\ draft = stored
        /\ served = Closed /\ ready = Closed

Edit == /\ draft' \in [Item -> Content \cup {Absent}]
        /\ ready' = Closed
        /\ UNCHANGED <<stored, served>>

Build == /\ ready' = draft
         /\ UNCHANGED <<stored, served, draft>>

Publish == /\ stored' = draft /\ served' = ready
           /\ UNCHANGED <<draft, ready>>

Discard == /\ draft' = stored /\ ready' = served
           /\ UNCHANGED <<stored, served>>

Next == Edit \/ Build \/ Publish \/ Discard

Spec == Init /\ [][Next]_vars
=============================================================================
