----------------------------- MODULE MCHomeExec -----------------------------
(* HomeExec for TLC: homes, runs and hosts are interchangeable model values. *)
EXTENDS HomeExec

Symmetry == Permutations(Homes) \cup Permutations(Runs)
=============================================================================
