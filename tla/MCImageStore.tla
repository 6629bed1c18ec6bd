---------------------------- MODULE MCImageStore ----------------------------
(* ImageStore for TLC: one request makes two images, the others one each. *)
EXTENDS ImageStore

CONSTANT Twice

Counts == [r \in Requests |-> IF r = Twice THEN 2 ELSE 1]

Symmetry == Permutations(Pictures) \cup Permutations(Sweeps)
=============================================================================
