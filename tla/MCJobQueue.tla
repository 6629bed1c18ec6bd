----------------------------- MODULE MCJobQueue -----------------------------
(* JobQueue for TLC: jobs and workers are interchangeable model values. *)
EXTENDS JobQueue

Symmetry == Permutations(Jobs) \cup Permutations(Workers)
=============================================================================
