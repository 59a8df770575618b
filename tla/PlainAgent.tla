------------------------------ MODULE PlainAgent ------------------------------
(****************************************************************************)
(* The conversation of a plain Pydantic AI run, as the agent's author sees  *)
(* it: a prompt, then model responses and tool results in turn until a      *)
(* response is accepted as the output.  There are no workers, so nothing is *)
(* lost, retried by Waymark or done twice.  The README and the docstrings   *)
(* of workflow.py promise that a durable run looks like this; AgentRun is   *)
(* shown to implement it.                                                   *)
(****************************************************************************)
EXTENDS Integers, Sequences

CONSTANTS
    Tools,    \* names of tools
    Batches,  \* what a response may ask for; <<>> is a final answer
    Answers   \* kinds of results the agent may be given for a call

VARIABLES
    node,     \* the next graph node
    history,  \* the messages exchanged so far
    retries,  \* per tool: retry prompts it has answered since it last succeeded
    outcome   \* "running", "done" or "failed"

vars == <<node, history, retries, outcome>>

Message(role, body) == [role |-> role, body |-> body]
Node(kind, message) == [kind |-> kind, message |-> message]
Prompt == Message("prompt", <<>>)

(* The retry counts of the next run step: one more for a tool that failed,  *)
(* none for one that only succeeded.                                        *)
Advance(counts, failed, succeeded) ==
    [t \in Tools |-> IF t \in failed THEN counts[t] + 1
                     ELSE IF t \in succeeded THEN 0 ELSE counts[t]]

ToolsWith(calls, kinds, wanted) ==
    {calls[i].tool : i \in {j \in DOMAIN calls : kinds[j] \in wanted}}

Init ==
    /\ node = Node("user_prompt", Prompt)
    /\ history \in {<<>>, <<Message("prior", <<>>)>>}
    /\ retries = [t \in Tools |-> 0]
    /\ outcome = "running"

BuildRequest ==
    /\ node.kind = "user_prompt"
    /\ node' = Node("model_request", node.message)
    /\ UNCHANGED <<history, retries, outcome>>

(* One model request: the request and its response join the history         *)
(* together.                                                                *)
Ask ==
    /\ node.kind = "model_request"
    /\ \E b \in Batches :
          /\ history' = history \o <<node.message, Message("response", b)>>
          /\ node' = Node("call_tools", Message("response", b))
    /\ UNCHANGED <<retries, outcome>>

(* Every call of the response is answered, in order, and the answers are    *)
(* the next request.  A tool may only ask for a retry within its budget.    *)
CallTools ==
    /\ node.kind = "call_tools"
    /\ LET calls == node.message.body
       IN  /\ calls # <<>>
           /\ \E kinds \in [DOMAIN calls -> Answers] :
                 /\ \A i \in DOMAIN calls :
                       kinds[i] = "retry_prompt" => retries[calls[i].tool] < calls[i].max_retries
                 /\ node' = Node("model_request", Message("returns", kinds))
                 /\ retries' = Advance(retries,
                                  ToolsWith(calls, kinds, {"retry_prompt", "model_retry"}),
                                  ToolsWith(calls, kinds, {"return"}))
    /\ UNCHANGED <<history, outcome>>

(* A final answer is returned, or sent back to the model as unusable.       *)
RejectOutput ==
    /\ node.kind = "call_tools"
    /\ node.message.body = <<>>
    /\ node' = Node("model_request", Message("retry", <<>>))
    /\ UNCHANGED <<history, retries, outcome>>

Finish ==
    /\ node.kind = "call_tools"
    /\ node.message.body = <<>>
    /\ outcome' = "done"
    /\ UNCHANGED <<node, history, retries>>

Fail ==
    /\ outcome' = "failed"
    /\ UNCHANGED <<node, history, retries>>

Next ==
    /\ outcome = "running"
    /\ BuildRequest \/ Ask \/ CallTools \/ RejectOutput \/ Finish \/ Fail

Spec == Init /\ [][Next]_vars
================================================================================
