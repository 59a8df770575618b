------------------------------- MODULE AgentRun -------------------------------
(****************************************************************************)
(* One agent request: PydanticAIWorkflow.run_agent and                      *)
(* _next_agent_transition (workflow.py 44-201) driving the run_agent_node   *)
(* action (actions.py 105-259), composed with ToolBatch for the tool calls. *)
(*                                                                          *)
(* The workflow keeps a checkpoint: the next graph node, the message        *)
(* history as it has grown, and the tool manager's bookkeeping.  Each turn  *)
(* runs one node in an action that gets the checkpoint and the results of   *)
(* the last batch and returns a transition; an action that is lost, never   *)
(* starts or reports a transient model error is run again from the same     *)
(* checkpoint.                                                              *)
(****************************************************************************)
EXTENDS Integers, Sequences, FiniteSets

CONSTANTS
    Tools, Batches, Kinds, Waits, Attempts,  \* as in ToolBatch
    MaxResponses  \* bound: the model answers in the end, on this response

ASSUME MaxResponsesAssumption == MaxResponses \in Nat \ {0}
ASSUME AttemptsAssumption == Attempts \in Nat \ {0}
(* A response need not call a tool.                                         *)
ASSUME NoCallsAssumption == <<>> \in Batches

VARIABLES
    pc,            \* what run_agent awaits
    node_act,      \* run_agent_node: "none", "queued" or "running"
    attempt,       \* model_attempt
    checkpoint,    \* AgentCheckpoint
    transition,    \* what is left to do of the transition last returned
    tool_results,  \* the results handed to the next node
    node_runs,     \* history: executions of the node since its checkpoint,
                   \* counted no further than Attempts + 1
    answers        \* history: what each call answered, at the turn it was made in

(* The variables of the batch under way, see ToolBatch.                     *)
VARIABLES calls, loop, cursor, last, results, stage, act, tries, wait, waited, out,
          bodies, instances

Batch == INSTANCE ToolBatch

ASSUME BatchesAssumption == Batches \subseteq Seq(Batch!Call)
ASSUME KindsAssumption == Kinds \subseteq Batch!AnswerKinds
ASSUME WaitsAssumption == Waits \subseteq Batch!Wait

batchVars == <<calls, loop, cursor, last, results, stage, act, tries, wait, waited,
               out, bodies, instances>>
agentVars == <<pc, node_act, attempt, checkpoint, transition, tool_results,
               node_runs>>
turnVars == <<checkpoint, transition, tool_results, answers, batchVars>>
vars == <<agentVars, answers, batchVars>>

Message(role, body) == [role |-> role, body |-> body]
Node(kind, message) == [kind |-> kind, message |-> message]
Prompt   == Message("prompt", <<>>)
NoCalls  == [calls |-> <<>>, approvals |-> FALSE, text |-> FALSE]

FreshCheckpoint(history) ==
    [node |-> Node("user_prompt", Prompt), history |-> history,
     tool_retries |-> [t \in Tools |-> 0], failed_tools |-> {}, succeeded_tools |-> {}]

Pcs == {"starting", "node", "backoff", "messages", "batch", "ending", "done", "failed"}

(* The batch of a transition, before its loop has run.                      *)
StartBatch(b) ==
    /\ calls' = b
    /\ loop' = "running"
    /\ cursor' = 1
    /\ last' = 0
    /\ results' = <<>>
    /\ stage' = [i \in DOMAIN b |-> "idle"]
    /\ act' = [i \in DOMAIN b |-> "none"]
    /\ tries' = [i \in DOMAIN b |-> 0]
    /\ wait' = [i \in DOMAIN b |-> Batch!NoWait]
    /\ waited' = [i \in DOMAIN b |-> 0]
    /\ out' = [i \in DOMAIN b |-> "none"]
    /\ bodies' = [i \in DOMAIN b |-> 0]
    /\ instances' = [i \in DOMAIN b |-> 0]

Init ==
    /\ pc = "starting"
    /\ node_act = "none"
    /\ attempt = 0
    /\ \E history \in {<<>>, <<Message("prior", <<>>)>>} : checkpoint = FreshCheckpoint(history)
    /\ transition = NoCalls
    /\ tool_results = <<>>
    /\ node_runs = 0
    /\ answers = {}
    /\ Batch!Start(<<>>)

----------------------------------------------------------------------------
(* Dispatching run_agent_node, and the retry loop around it.                *)

(* A fresh _next_agent_transition call: the first attempt is dispatched.    *)
NextTransition ==
    /\ pc' = "node"
    /\ node_act' = "queued"
    /\ attempt' = 1
    /\ node_runs' = 0

Fails ==
    /\ pc' = "failed"
    /\ node_act' = "none"

(* on_agent_start returned.                                                 *)
AgentStarts ==
    /\ pc = "starting"
    /\ NextTransition
    /\ UNCHANGED turnVars

NodeStarts ==
    /\ node_act = "queued"
    /\ node_act' = "running"
    /\ node_runs' = IF node_runs > Attempts THEN node_runs ELSE node_runs + 1
    /\ UNCHANGED <<pc, attempt, turnVars>>

(* RetryableAgentError from the body, or Waymark's verdict on the action:   *)
(* lost at any time, never started before it did.                           *)
NodeComesToNothing == node_act \in {"queued", "running"}

(* Fault: attempts counted from zero.                                       *)
OneMoreAttempt == attempt <= Attempts

MayTryAgain == attempt < Attempts

NodeBacksOff ==
    /\ NodeComesToNothing
    /\ MayTryAgain
    /\ pc' = "backoff"
    /\ node_act' = "none"
    /\ UNCHANGED <<attempt, node_runs, turnVars>>

(* Fault: model_attempt is set to 0 inside the loop.                        *)
FirstAttemptAgain == 1

AttemptAfterBackoff == attempt + 1

BackoffEnds ==
    /\ pc = "backoff"
    /\ pc' = "node"
    /\ node_act' = "queued"
    /\ attempt' = AttemptAfterBackoff
    /\ UNCHANGED <<node_runs, turnVars>>

(* raise_model_attempts_exhausted.                                          *)
NodeGivenUp ==
    /\ NodeComesToNothing
    /\ ~MayTryAgain
    /\ Fails
    /\ UNCHANGED <<attempt, node_runs, turnVars>>

(* Any other exception in the body, such as a refused model request.        *)
NodeRaises ==
    /\ node_act = "running"
    /\ Fails
    /\ UNCHANGED <<attempt, node_runs, turnVars>>

----------------------------------------------------------------------------
(* The body of run_agent_node.  Each case answers with the next checkpoint  *)
(* and what run_agent still has to do about it.                             *)

(* The tool manager's retry counts for the next run step.                   *)
Advance(counts, failed, succeeded) ==
    [t \in Tools |-> IF t \in failed THEN counts[t] + 1
                     ELSE IF t \in succeeded THEN 0 ELSE counts[t]]

Transition(next_checkpoint, left) ==
    /\ node_act = "running"
    /\ checkpoint' = next_checkpoint
    /\ transition' = left
    /\ pc' = "messages"
    /\ node_act' = "none"
    /\ UNCHANGED <<attempt, tool_results, node_runs, answers, batchVars>>

(* UserPromptNode: nothing joins the history yet.                           *)
BuildRequest ==
    /\ checkpoint.node.kind = "user_prompt"
    /\ Transition([checkpoint EXCEPT !.node = Node("model_request", @.message)], NoCalls)

Responses ==
    Cardinality({k \in DOMAIN checkpoint.history : checkpoint.history[k].role = "response"})

Replies == IF Responses + 1 < MaxResponses THEN Batches ELSE {<<>>}

(* Fault: the delta is cut from a stale history_size and repeats a message. *)
RepeatedDelta(request, response) ==
    IF checkpoint.history = <<>> THEN <<request, response>>
    ELSE <<checkpoint.history[Len(checkpoint.history)], request, response>>

(* Fault: the delta is cut before the response is in.                       *)
DeltaWithoutResponse(request, response) == <<request>>

(* history_delta = message_history[history_size:]                           *)
HistoryDelta(request, response) == <<request, response>>

(* Fault: retry counts are restored with the step's failures left out.      *)
ForgetfulCounts == checkpoint.tool_retries

StepCounts ==
    Advance(checkpoint.tool_retries, checkpoint.failed_tools, checkpoint.succeeded_tools)

(* ModelRequestNode: tool results cannot resume it.  A new run step begins, *)
(* and the request joins the history with the response.                     *)
AskModel ==
    /\ checkpoint.node.kind = "model_request"
    /\ tool_results = <<>>
    /\ \E b \in Replies, text \in BOOLEAN :
          LET response == Message("response", b)
          IN  Transition(
                [node |-> Node("call_tools", response),
                 history |-> checkpoint.history
                             \o HistoryDelta(checkpoint.node.message, response),
                 tool_retries |-> StepCounts, failed_tools |-> {}, succeeded_tools |-> {}],
                [NoCalls EXCEPT !.text = text])

Pending == checkpoint.node.message.body

(* CallToolsNode with calls to make: the boundary stops it, and the same    *)
(* node is stored for when the results are in.                              *)
HandOverCalls ==
    /\ checkpoint.node.kind = "call_tools"
    /\ tool_results = <<>>
    /\ Pending # <<>>
    /\ \E approvals \in BOOLEAN :
          Transition(checkpoint, [calls |-> Pending, approvals |-> approvals, text |-> FALSE])

CallsAnswered(kinds) ==
    {Pending[tool_results[k].call].tool : k \in {j \in DOMAIN tool_results :
                                                    tool_results[j].kind \in kinds}}

(* The last of the results that are given for something.                    *)
LastOf(given) == CHOOSE k \in given : \A j \in given : j <= k

(* Fault: results are keyed by the tool, not by the id of the call.         *)
ResultsByTool ==
    [i \in DOMAIN Pending |->
        tool_results[LastOf({k \in DOMAIN tool_results :
            Pending[tool_results[k].call].tool = Pending[i].tool})].kind]

(* deferred_results: a dict from the id of a call to its result.            *)
ResultsById ==
    [id \in {tool_results[k].call : k \in DOMAIN tool_results} |->
        tool_results[LastOf({k \in DOMAIN tool_results : tool_results[k].call = id})].kind]

(* Pydantic AI refuses results that are not those of the node's calls.      *)
ResultsFit ==
    /\ \A k \in DOMAIN tool_results : tool_results[k].kind # "deferred"
    /\ DOMAIN ResultsById = DOMAIN Pending

(* CallToolsNode with the results of its calls: they are the next request.  *)
ResumeCalls ==
    /\ checkpoint.node.kind = "call_tools"
    /\ tool_results # <<>>
    /\ ResultsFit
    /\ Transition(
          [checkpoint EXCEPT
              !.node = Node("model_request", Message("returns", ResultsById)),
              !.failed_tools = @ \union CallsAnswered({"retry_prompt", "model_retry"}),
              !.succeeded_tools = @ \union CallsAnswered({"return"})],
          NoCalls)

(* A result that is still deferred, or results for a node that did not make *)
(* the calls: RuntimeError, or Pydantic AI's UserError.                     *)
ResultsRefused ==
    /\ node_act = "running"
    /\ tool_results # <<>>
    /\ checkpoint.node.kind = "call_tools" => ~ResultsFit
    /\ Fails
    /\ UNCHANGED <<attempt, node_runs, turnVars>>

(* CallToolsNode with a final answer the output validators send back.       *)
RejectOutput ==
    /\ checkpoint.node.kind = "call_tools"
    /\ Pending = <<>>
    /\ Responses < MaxResponses
    /\ Transition([checkpoint EXCEPT !.node = Node("model_request", Message("retry", <<>>))],
                  NoCalls)

(* CallToolsNode with the output: End.  run_agent drops the checkpoint,     *)
(* which nothing reads any more, and runs on_agent_end.                     *)
Done ==
    /\ node_act = "running"
    /\ checkpoint.node.kind = "call_tools"
    /\ Pending = <<>>
    /\ pc' = "ending"
    /\ node_act' = "none"
    /\ UNCHANGED <<attempt, node_runs, turnVars>>

NodeAnswers ==
    BuildRequest \/ AskModel \/ HandOverCalls \/ ResumeCalls \/ RejectOutput \/ Done

----------------------------------------------------------------------------
(* run_agent between two nodes.                                             *)

(* on_agent_start, on_message or on_agent_end raises.                       *)
HookRaises ==
    /\ \/ pc \in {"starting", "ending"}
       \/ pc = "messages" /\ transition.text
    /\ Fails
    /\ UNCHANGED <<attempt, node_runs, turnVars>>

(* on_message ran for the text of the response, if it had any; approvals    *)
(* are refused; the calls are handed to _handle_agent_tools.                *)
RefuseApprovals ==
    /\ pc = "messages"
    /\ transition.approvals
    /\ Fails
    /\ UNCHANGED <<attempt, node_runs, turnVars>>

HandleTools ==
    /\ pc = "messages"
    /\ ~transition.approvals
    /\ pc' = "batch"
    /\ transition' = NoCalls
    /\ StartBatch(transition.calls)
    /\ UNCHANGED <<node_act, attempt, checkpoint, tool_results, node_runs, answers>>

LoopMoves ==
    /\ pc = "batch"
    /\ Batch!LoopStep
    /\ UNCHANGED <<agentVars, answers>>

(* The message of the conversation that made the calls under way.           *)
Turn == Len(checkpoint.history)

(* A mailbox wait answers a plain return, with its messages or its timeout  *)
(* value.                                                                   *)
Seen(kind) == IF kind \in {"messages", "timeout"} THEN "return" ELSE kind

AnswerOf(i, kind) == [turn |-> Turn, call |-> i, tool |-> calls[i].tool, kind |-> Seen(kind)]

(* Pydantic AI lets a tool answer with a retry prompt only within its       *)
(* budget, by the count the checkpoint restored; past it the call raises.   *)
CallMoves(i) ==
    /\ pc = "batch"
    /\ Batch!CallStep(i)
    /\ out'[i] = "retry_prompt" =>
          checkpoint.tool_retries[calls[i].tool] < calls[i].max_retries
    /\ answers' = IF out'[i] = out[i] THEN answers
                  ELSE answers \union {AnswerOf(i, out'[i])}
    /\ UNCHANGED agentVars

BatchStep == LoopMoves \/ \E i \in DOMAIN calls : CallMoves(i)

Collected ==
    [k \in DOMAIN results |-> [call |-> results[k].call, kind |-> Seen(results[k].kind)]]

(* Fault: an empty batch leaves the previous results in place.              *)
StaleResults == IF results = <<>> THEN tool_results ELSE Collected

NextResults == Collected

BatchReturns ==
    /\ pc = "batch"
    /\ loop = "returned"
    /\ tool_results' = NextResults
    /\ NextTransition
    /\ StartBatch(<<>>)
    /\ UNCHANGED <<checkpoint, transition, answers>>

BatchFails ==
    /\ pc = "batch"
    /\ loop = "raised"
    /\ Fails
    /\ UNCHANGED <<attempt, node_runs, turnVars>>

AgentEnds ==
    /\ pc = "ending"
    /\ pc' = "done"
    /\ UNCHANGED <<node_act, attempt, node_runs, turnVars>>

Terminated == pc \in {"done", "failed"} /\ UNCHANGED vars

AgentStep ==
    \/ AgentStarts \/ NodeStarts \/ NodeBacksOff \/ BackoffEnds \/ NodeGivenUp \/ NodeRaises
    \/ NodeAnswers \/ ResultsRefused \/ HookRaises \/ RefuseApprovals \/ HandleTools
    \/ BatchReturns \/ BatchFails \/ AgentEnds

Next == AgentStep \/ BatchStep \/ Terminated

(* Waymark takes queued actions or gives a verdict on them, and the         *)
(* workflow's own code runs on.                                             *)
Fairness ==
    /\ WF_vars(AgentStep)
    /\ WF_vars(LoopMoves)
    /\ \A i \in Batch!Index : WF_vars(i \in DOMAIN calls /\ CallMoves(i))

Spec == Init /\ [][Next]_vars
FairSpec == Spec /\ Fairness

----------------------------------------------------------------------------
NodeKinds == {"user_prompt", "model_request", "call_tools"}

TypeOK ==
    /\ pc \in Pcs
    /\ node_act \in {"none", "queued", "running"}
    /\ node_act # "none" => pc = "node"
    /\ attempt \in Nat
    /\ checkpoint.node.kind \in NodeKinds
    /\ checkpoint.tool_retries \in [Tools -> Nat]
    /\ checkpoint.failed_tools \subseteq Tools
    /\ checkpoint.succeeded_tools \subseteq Tools
    /\ transition.calls \in Batches \union {<<>>}
    /\ answers \subseteq [turn : Nat, call : Nat, tool : Tools, kind : Batch!FinalKinds]
    /\ Batch!TypeOK

(* The RuntimeErrors "tool results can only resume a call-tools node" and   *)
(* the assertion in run_agent_tool never happen: a node that is dispatched  *)
(* with results is the call-tools node that made exactly those calls, and a *)
(* batch only runs under the node that asked for it.                        *)
ResultsMatchNode ==
    /\ pc = "node" /\ tool_results # <<>> =>
          /\ checkpoint.node.kind = "call_tools"
          /\ Len(tool_results) = Len(Pending)
          /\ \A k \in DOMAIN tool_results : tool_results[k].call = k
    /\ pc = "batch" /\ calls # <<>> =>
          /\ checkpoint.node.kind = "call_tools"
          /\ calls = Pending

(* bind_node_to_history: a stored call-tools node is found in the stored    *)
(* history, which ends with its response.                                   *)
NodeInHistory ==
    checkpoint.node.kind = "call_tools" =>
        /\ checkpoint.history # <<>>
        /\ checkpoint.history[Len(checkpoint.history)] = checkpoint.node.message

(* BackoffConfig.attempts bounds the executions of one node, so the model   *)
(* is asked at most that often for one response, however attempts end.      *)
NodeBudget == node_runs <= Attempts

(* The turns in which a tool answered so, by the log of what was answered.  *)
TurnsOf(t, kinds) == {a.turn : a \in {b \in answers : b.tool = t /\ b.kind \in kinds}}

Prompting(t) == TurnsOf(t, {"retry_prompt", "model_retry"})
Clearing(t)  == TurnsOf(t, {"return"}) \ Prompting(t)

(* The turns before this one in which a tool asked for a retry, since it    *)
(* last returned and asked for none.                                        *)
Streak(t, turn) ==
    {n \in Prompting(t) : n < turn /\ \A m \in Clearing(t) : m < n \/ m >= turn}

(* A tool that answers with a retry prompt has done so, or answered         *)
(* ModelRetry, in fewer than max_retries turns since it last returned,      *)
(* although every turn runs in another process and counts only by what the  *)
(* checkpoint carries (serialization.py 292-323).  A turn counts once,      *)
(* however many parallel calls of the tool ask in it, as in Pydantic AI.    *)
RetryBudget ==
    \A i \in DOMAIN calls :
        out[i] = "retry_prompt" => Cardinality(Streak(calls[i].tool, Turn)) < calls[i].max_retries

(* The messages the model has been shown or is about to be shown.           *)
Conversation ==
    IF checkpoint.node.kind = "model_request"
    THEN Append(checkpoint.history, checkpoint.node.message) ELSE checkpoint.history

(* What the model is shown for the calls of a response is what their own    *)
(* coroutines answered, each call exactly once and none for another's,      *)
(* whichever order they ended in and whatever was lost: through the         *)
(* segments, the stored results and their way by id into the next request   *)
(* (_handle_agent_tools, run_agent, deferred_results).                      *)
AnswersReachModel ==
    \A k \in DOMAIN Conversation :
        Conversation[k].role = "returns" =>
            /\ k > 1 /\ Conversation[k - 1].role = "response"
            /\ {a \in answers : a.turn = k - 1} =
                  {[turn |-> k - 1, call |-> i, tool |-> Conversation[k - 1].body[i].tool,
                    kind |-> Conversation[k].body[i]] : i \in DOMAIN Conversation[k - 1].body}

Plain == INSTANCE PlainAgent WITH
    Answers <- Batch!FinalKinds \ {"deferred"},
    node <- checkpoint.node,
    history <- checkpoint.history,
    retries <- StepCounts,
    outcome <- IF pc \in {"done", "failed"} THEN pc ELSE "running"

(* A durable run is a plain Pydantic AI run: lost, repeated and retried     *)
(* actions leave no trace in the conversation (docstrings of                *)
(* _next_agent_transition and _run_agent_tool_action).                      *)
IsPlainAgent == Plain!Spec

(* A request ends, with a result or an error, whatever Waymark loses.       *)
RunSettles == <>(pc \in {"done", "failed"})
================================================================================
