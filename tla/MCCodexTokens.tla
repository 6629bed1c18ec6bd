---------------------------- MODULE MCCodexTokens ----------------------------
(* CodexTokens for TLC: every home has a user of its own, and what is alike *)
(* is interchangeable.                                                      *)
EXTENDS CodexTokens

OwnUser == [h \in Homes |-> h]

Symmetry == Permutations(Homes) \cup Permutations(Runs \ Inspections)
=============================================================================
