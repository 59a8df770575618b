-------------------------------- MODULE Recurse --------------------------------
(****************************************************************************)
(* A tree of nested runs: a tool call that delegates and waits is answered  *)
(* by run_agent itself (workflow.py 339-358), here for the recursive agent  *)
(* of examples/recurse_agent.py, whose delegate_subquestion hands a part of *)
(* the question to a copy of the agent one level deeper.                    *)
(*                                                                          *)
(* A run is named by the calls that lead to it from the top.  All runs are  *)
(* coroutines of one workflow.  The calls of one turn are gathered: the     *)
(* first failure is raised at once, and the turn's other calls, with the    *)
(* runs below them, are left to go on.  Losses, backoffs and barriers are   *)
(* in AgentRun and ToolBatch; a turn here is one parallel segment.          *)
(****************************************************************************)
EXTENDS Integers, Sequences, FiniteSets

CONSTANTS
    Calls,      \* tool call ids of a run, over all its turns
    MaxDepth,   \* deps.max_depth of the request
    Retries,    \* the retry budget of delegate_subquestion
    MaxRuns     \* bound: runs of one tree

ASSUME MaxDepthAssumption == MaxDepth \in Nat
ASSUME RetriesAssumption == Retries \in Nat

(* Every run that could exist, with one level to spare.                     *)
Runs == UNION {[1..d -> Calls] : d \in 0..(MaxDepth + 1)}
Top  == <<>>

VARIABLES
    stage,      \* per run: what run_agent does
    depth,      \* per run: its deps.depth
    call,       \* per run and call: how it stands
    turn,       \* per run: the calls of its current turn
    retries     \* per run: the retry count of delegate_subquestion

vars == <<stage, depth, call, turn, retries>>

Stages    == {"absent", "node", "tools", "answered", "failed"}
CallState == {"unasked", "asked", "delegated", "answered", "retried", "raised"}

Child(r, c) == Append(r, c)

Present == {r \in Runs : stage[r] # "absent"}

Init ==
    /\ stage = [r \in Runs |-> IF r = Top THEN "node" ELSE "absent"]
    /\ depth = [r \in Runs |-> 0]
    /\ call = [r \in Runs |-> [c \in Calls |-> "unasked"]]
    /\ turn = [r \in Runs |-> {}]
    /\ retries = [r \in Runs |-> 0]

----------------------------------------------------------------------------
(* The turns of a run.                                                      *)

(* The model calls delegate_subquestion, once per part.                     *)
Asks(r) ==
    /\ stage[r] = "node"
    /\ \E asked \in SUBSET {c \in Calls : call[r][c] = "unasked"} :
          /\ asked # {}
          /\ turn' = [turn EXCEPT ![r] = asked]
          /\ call' = [call EXCEPT ![r] =
                          [c \in Calls |-> IF c \in asked THEN "asked" ELSE call[r][c]]]
    /\ stage' = [stage EXCEPT ![r] = "tools"]
    /\ UNCHANGED <<depth, retries>>

(* The model answers, and run_agent returns; or the node action gives up,   *)
(* and run_agent raises.                                                    *)
NodeEnds(r) ==
    /\ stage[r] = "node"
    /\ \E end \in {"answered", "failed"} : stage' = [stage EXCEPT ![r] = end]
    /\ UNCHANGED <<depth, call, turn, retries>>

(* Fault: the turn goes on with the answers it has.                         *)
SomeAnswered(r) == \E c \in turn[r] : call[r][c] \in {"answered", "retried"}

AllAnswered(r) == \A c \in turn[r] : call[r][c] \in {"answered", "retried"}

(* The tool's retry count after a turn (AgentRun!Advance).                  *)
Counted(r) ==
    IF \E c \in turn[r] : call[r][c] = "retried" THEN retries[r] + 1
    ELSE IF \E c \in turn[r] : call[r][c] = "answered" THEN 0 ELSE retries[r]

(* The results are handed to the next node.                                 *)
TurnEnds(r) ==
    /\ stage[r] = "tools"
    /\ AllAnswered(r)
    /\ stage' = [stage EXCEPT ![r] = "node"]
    /\ retries' = [retries EXCEPT ![r] = Counted(r)]
    /\ turn' = [turn EXCEPT ![r] = {}]
    /\ UNCHANGED <<depth, call>>

(* gather raises the first failure, through run_agent.                      *)
TurnFails(r) ==
    /\ stage[r] = "tools"
    /\ \E c \in turn[r] : call[r][c] = "raised"
    /\ stage' = [stage EXCEPT ![r] = "failed"]
    /\ UNCHANGED <<depth, call, turn, retries>>

----------------------------------------------------------------------------
(* One call of a turn.                                                      *)

Becomes(r, c, state) == call' = [call EXCEPT ![r][c] = state]

(* Fault: the limit is passed by one level.                                 *)
OneTooDeep(r) == depth[r] > MaxDepth

AtLimit(r) == depth[r] >= MaxDepth

(* Fault: the copy is handed the same deps.                                 *)
SameDeps(r) == depth[r]

DeeperDeps(r) == depth[r] + 1

(* The tool raises DelegateAgent; _run_subagent enters run_agent.           *)
Delegates(r, c) ==
    /\ call[r][c] = "asked"
    /\ ~AtLimit(r)
    /\ Cardinality(Present) < MaxRuns
    /\ Becomes(r, c, "delegated")
    /\ stage' = [stage EXCEPT ![Child(r, c)] = "node"]
    /\ depth' = [depth EXCEPT ![Child(r, c)] = DeeperDeps(r)]
    /\ UNCHANGED <<turn, retries>>

(* ModelRetry, at the limit or for a question that restates the prompt.     *)
(* Past the tool's budget Pydantic AI raises instead.                       *)
Refuses(r, c) ==
    /\ call[r][c] = "asked"
    /\ Becomes(r, c, IF retries[r] < Retries THEN "retried" ELSE "raised")
    /\ UNCHANGED <<stage, depth, turn, retries>>

(* The subagent's result, translated.                                       *)
CallAnswers(r, c) ==
    /\ call[r][c] = "delegated"
    /\ stage[Child(r, c)] = "answered"
    /\ Becomes(r, c, "answered")
    /\ UNCHANGED <<stage, depth, turn, retries>>

(* Fault: a subagent that fails is a retry prompt to the delegating model.  *)
RetryPrompt(r) == "retried"

SubagentError(r) == "raised"

(* The nested run_agent raises; nothing on the way catches.                 *)
CallRaises(r, c) ==
    /\ call[r][c] = "delegated"
    /\ stage[Child(r, c)] = "failed"
    /\ Becomes(r, c, SubagentError(r))
    /\ UNCHANGED <<stage, depth, turn, retries>>

(* The action that runs the tool or translates the result is lost too often. *)
CallLost(r, c) ==
    /\ \/ call[r][c] = "asked"
       \/ call[r][c] = "delegated" /\ stage[Child(r, c)] = "answered"
    /\ Becomes(r, c, "raised")
    /\ UNCHANGED <<stage, depth, turn, retries>>

CallStep(r, c) ==
    Delegates(r, c) \/ Refuses(r, c) \/ CallAnswers(r, c) \/ CallRaises(r, c) \/ CallLost(r, c)

----------------------------------------------------------------------------
RunStep(r) ==
    \/ Asks(r) \/ NodeEnds(r) \/ TurnEnds(r) \/ TurnFails(r)
    \/ \E c \in Calls : CallStep(r, c)

Terminated == stage[Top] \in {"answered", "failed"} /\ UNCHANGED vars

Next == (\E r \in Runs : RunStep(r)) \/ Terminated

(* A run whose caller has failed is awaited by nobody.                      *)
Awaited(r) == \A d \in 0..(Len(r) - 1) : stage[SubSeq(r, 1, d)] # "failed"

(* Runs that somebody awaits go on: their actions end, or are given up.     *)
Fairness == \A r \in Runs : WF_vars(Awaited(r) /\ RunStep(r))

Spec == Init /\ [][Next]_vars
FairSpec == Spec /\ Fairness

----------------------------------------------------------------------------
(* Properties.                                                              *)

(* Every variable has its type, and a run's deps.depth is its level.        *)
TypeOK ==
    /\ stage \in [Runs -> Stages]
    /\ depth \in [Runs -> Nat]
    /\ \A r \in Runs : stage[r] # "absent" => depth[r] = Len(r)
    /\ call \in [Runs -> [Calls -> CallState]]
    /\ turn \in [Runs -> SUBSET Calls]
    /\ retries \in [Runs -> 0..Retries]

(* However the runs of the tree interleave, fail or are refused, none is    *)
(* deeper than the request allows (recurse_agent.py 137-144).               *)
DepthBounded == \A r \in Runs : stage[r] # "absent" => Len(r) <= MaxDepth

(* s is r or below it.                                                      *)
Below(s, r) == Len(r) <= Len(s) /\ \A k \in 1..Len(r) : s[k] = r[k]

(* When a run has answered, every run below it has: no answer leaves work   *)
(* behind, and none passes over a failure, at whatever level (workflow.py   *)
(* 339-358).                                                                *)
AnswerComplete ==
    \A r, s \in Runs : stage[r] = "answered" /\ Below(s, r) =>
        stage[s] \in {"answered", "absent"}

(* A failure anywhere in the tree fails the whole run in the end.  (A       *)
(* failed run stays failed, so the quantifier may stand inside.)            *)
FailureClimbs == (\E r \in Runs : stage[r] = "failed") ~> stage[Top] = "failed"

================================================================================
