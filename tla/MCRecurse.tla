------------------------------- MODULE MCRecurse -------------------------------
(* Instances of Recurse for TLC.                                            *)
EXTENDS Recurse, TLC

CONSTANTS q1, q2

Symmetry == Permutations(Calls)

================================================================================
