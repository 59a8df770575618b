-------------------------------- MODULE MCCodecs --------------------------------
(* Instances of Codecs for TLC.                                             *)
EXTENDS Codecs, TLC

CONSTANTS a1, a2

Symmetry == Permutations(Agents)

================================================================================
