---------------------------- MODULE MCAdminPanel ----------------------------
(* AdminPanel on small instances; calls of fetch_many are interchangeable. *)
EXTENDS AdminPanel

Symmetry == Permutations(Pages)
=============================================================================
