------------------------------ MODULE PlainBatch ------------------------------
(****************************************************************************)
(* What a batch of tool calls promises the agent, with no workers, actions, *)
(* retries or follow-ups in sight: calls open and are answered in any order *)
(* the barriers allow, each at most once, and a batch that returns hands    *)
(* over exactly one answer per call, in call order.  This is how a plain    *)
(* Pydantic AI run sees its tools, and what workflow.py 203-301 promises to *)
(* keep true when every tool is a durable action.  ToolBatch implements it. *)
(****************************************************************************)
EXTENDS Integers, Sequences

CONSTANTS
    Batches,  \* sequences of calls
    Answers,  \* what a call may be answered
    None      \* no answer yet

VARIABLES
    calls,    \* the batch
    loop,     \* "running", "returned" or "raised"
    status,   \* per call: "waiting", "open", "answered" or "failed"
    answer,   \* per call: its answer
    handed    \* the answers the batch returned

vars == <<calls, loop, status, answer, handed>>

(* A barrier lies between two calls if one of them, or a call between them, *)
(* is sequential.                                                           *)
Separated(i, j) == i < j /\ \E k \in i..j : calls[k].sequential

Init ==
    /\ calls \in Batches
    /\ loop = "running"
    /\ status = [i \in DOMAIN calls |-> "waiting"]
    /\ answer = [i \in DOMAIN calls |-> None]
    /\ handed = <<>>

(* Some calls open together; everything before their barriers is answered.  *)
Open ==
    /\ loop = "running"
    /\ \E S \in SUBSET DOMAIN calls :
          /\ \A i \in S : status[i] = "waiting"
          /\ \A i \in S, j \in DOMAIN calls : Separated(j, i) => status[j] = "answered"
          /\ status' = [i \in DOMAIN calls |-> IF i \in S THEN "open" ELSE status[i]]
    /\ UNCHANGED <<calls, loop, answer, handed>>

Answer(i) ==
    /\ status[i] = "open"
    /\ status' = [status EXCEPT ![i] = "answered"]
    /\ \E a \in Answers : answer' = [answer EXCEPT ![i] = a]
    /\ UNCHANGED <<calls, loop, handed>>

Fail(i) ==
    /\ status[i] = "open"
    /\ status' = [status EXCEPT ![i] = "failed"]
    /\ UNCHANGED <<calls, loop, answer, handed>>

Return ==
    /\ loop = "running"
    /\ \A i \in DOMAIN calls : status[i] = "answered"
    /\ loop' = "returned"
    /\ handed' = answer
    /\ UNCHANGED <<calls, status, answer>>

(* The first failure fails the batch, whatever became of the other calls.   *)
Raise ==
    /\ loop = "running"
    /\ \E i \in DOMAIN calls : status[i] = "failed"
    /\ loop' = "raised"
    /\ UNCHANGED <<calls, status, answer, handed>>

Next ==
    \/ Open \/ Return \/ Raise
    \/ \E i \in DOMAIN calls : Answer(i) \/ Fail(i)

Spec == Init /\ [][Next]_vars
================================================================================
