--------------------------- MODULE MCHannoyIndex ---------------------------
(* HannoyIndex on a few items, with a distance and its binary quantized form. *)
EXTENDS HannoyIndex

MCDistance == {"cosine", "bq cosine"}
MCRawOf == [nd \in MCDistance |-> IF nd = "bq cosine" THEN "cosine" ELSE "none"]

\* The second vector has the signs of the first, so quantizing maps both to the first.
MCVector == {"(1, -1)", "(2, -3)"}
MCRecode == [p \in MCVector \X MCDistance |->
               IF p[2] = "bq cosine" THEN "(1, -1)" ELSE p[1]]
=============================================================================
