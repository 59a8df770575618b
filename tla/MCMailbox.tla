------------------------------- MODULE MCMailbox -------------------------------
(* Instances of Mailbox for TLC.                                            *)
EXTENDS Mailbox, TLC

CONSTANTS s1, s2, s3, c1, c2, k1

(* Two runs of one report share its key; the third sender has none.         *)
SharedKey == [s \in Senders |-> IF s = s3 THEN NoKey ELSE k1]

(* One keyed sender beside one without a key.                               *)
OneKeyed == [s \in Senders |-> IF s = s1 THEN k1 ELSE NoKey]

ClaimSymmetry == Permutations(Claims)

================================================================================
