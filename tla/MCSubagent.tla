------------------------------- MODULE MCSubagent -------------------------------
(* Instances of Subagent for TLC.                                           *)
EXTENDS Subagent

CONSTANTS i1, i2, c1, c2

================================================================================
