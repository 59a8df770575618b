------------------------------ MODULE MCToolBatch ------------------------------
(* Instances of ToolBatch for TLC. *)
EXTENDS ToolBatch

call(seq, retries) == [tool |-> "t", sequential |-> seq, max_retries |-> retries]

MCTools == {"t"}

(* Every way of cutting a batch into segments: up to three calls with no    *)
(* retry budget, at least one of three being sequential.                    *)
ShapeBatches ==
    {b \in UNION {[1..n -> {call(TRUE, 0), call(FALSE, 0)}] : n \in 0..3} :
        Len(b) = 3 => \E i \in 1..3 : b[i].sequential}

(* Two calls, side by side or one after the other, with every mix of small  *)
(* budgets.                                                                 *)
PairBatches == [1..2 -> {call(s, r) : s \in BOOLEAN, r \in 0..1}]

MCBatches == ShapeBatches \union PairBatches

(* A timeout of zero, one that is not a multiple of the interval, and one   *)
(* that is; and a wait without a timeout.                                   *)
timed(p, t) == [poll |-> p, timed |-> TRUE, timeout |-> t]

MCWaits == {timed(1, 0), timed(2, 3), timed(1, 2), NoWait}
================================================================================
