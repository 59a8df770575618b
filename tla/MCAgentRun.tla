------------------------------ MODULE MCAgentRun ------------------------------
(* Instances of AgentRun for TLC. *)
EXTENDS AgentRun

MCTools == {"search", "fetch"}

(* A parallel tool that may be asked again once, and a sequential one that  *)
(* may not.                                                                 *)
search == [tool |-> "search", sequential |-> FALSE, max_retries |-> 1]
fetch  == [tool |-> "fetch",  sequential |-> TRUE,  max_retries |-> 0]

(* A final answer, two parallel calls of one tool, and a call before a      *)
(* barrier.                                                                 *)
MCBatches == {<<>>, <<search, search>>, <<search, fetch>>}

MCWaits == {[poll |-> 1, timed |-> TRUE, timeout |-> 0]}
================================================================================
