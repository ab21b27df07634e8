----------------------------- MODULE MCHnswBuild -----------------------------
(* HnswBuild on a few items and two interchangeable threads. *)
EXTENDS HnswBuild, TLC

ThreadSymmetry == Permutations(Thread)

\* Items lie on a line, at the square of their number.
MCDist == [p \in Item \X Item |->
             IF p[1] < p[2] THEN p[2] * p[2] - p[1] * p[1] ELSE p[1] * p[1] - p[2] * p[2]]
=============================================================================
