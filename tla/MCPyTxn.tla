------------------------------ MODULE MCPyTxn ------------------------------
(* PyTxn with a writer for each of two indexes, and one that cannot build. *)
EXTENDS PyTxn

MCIndexOf == [w \in Writer |-> IF w = "writer of 1" THEN 1 ELSE 2]
=============================================================================
