----------------------------- MODULE MCDispatch -----------------------------
(* Dispatch on small instances: two homes in configuration order.          *)
EXTENDS Dispatch

MCOrder == <<"h1", "h2">>
Symmetry == Permutations(Jobs)
=============================================================================
