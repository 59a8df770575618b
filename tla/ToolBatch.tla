------------------------------- MODULE ToolBatch -------------------------------
(****************************************************************************)
(* One batch of tool calls: PydanticAIWorkflow._handle_agent_tools and      *)
(* everything it awaits (workflow.py 203-448), together with the actions    *)
(* those awaits run (actions.py).                                           *)
(*                                                                          *)
(* The workflow code is one coroutine per tool call plus the loop that cuts *)
(* the batch into segments.  A call that is not marked sequential runs in   *)
(* parallel with its neighbours (asyncio.gather); a sequential call runs    *)
(* alone.  Every action a coroutine awaits is executed by some worker, and  *)
(* Waymark may report that it was lost (the worker died: the body may have  *)
(* run, wholly or in part) or never started (the body provably did not      *)
(* run).  Hooks, sleeps and nested subagents are awaited without a retry.   *)
(****************************************************************************)
EXTENDS Integers, Sequences

CONSTANTS
    Tools,     \* names of tools
    Batches,   \* the batches a call-tools node may hand over
    Kinds,     \* what a tool's action may answer (a subset of AnswerKinds)
    Waits,     \* the mailbox waits a tool may ask for
    Attempts   \* request.model_retry.attempts

(* ToolCall: the tool, whether it is a barrier, and the retry budget that   *)
(* Pydantic AI resolved for it.                                             *)
Call == [tool : Tools, sequential : BOOLEAN, max_retries : Nat]

(* The waiting part of WaitForMessagesResult; timed is timeout_seconds not  *)
(* being None.  WaitForMessages refuses an interval that is not positive.   *)
Wait == [poll : Nat \ {0}, timed : BOOLEAN, timeout : Nat]

FinalKinds  == {"return", "retry_prompt", "model_retry", "tool_failed", "deferred"}
FollowUps   == {"sleep", "delegate", "detach", "wait_messages"}
AnswerKinds == FinalKinds \union FollowUps

ASSUME BatchesAssumption  == Batches \subseteq Seq(Call)
ASSUME KindsAssumption    == Kinds \subseteq AnswerKinds
ASSUME WaitsAssumption    == Waits \subseteq Wait
ASSUME AttemptsAssumption == Attempts \in Nat \ {0}

VARIABLES
    calls,      \* the batch, in the order the model asked for it
    loop,       \* the loop over the batch: "running", "returned" or "raised"
    cursor,     \* the first call whose result the loop has not collected
    last,       \* the last call of the segment it awaits; cursor - 1 if none
    results,    \* the results collected so far
    stage,      \* per call: what its coroutine awaits
    act,        \* per call: the awaited action, "none" when it awaits none
    tries,      \* per call: dispatches of the awaited action
    wait,       \* per call: the mailbox wait it asked for
    waited,     \* per call: waited_seconds
    out,        \* per call: the kind of its result
    bodies,     \* history: per call, executions of the tool's own body
    instances   \* history: per call, detached workflow instances queued

loopVars == <<loop, cursor, last, results>>
callVars == <<stage, act, tries, wait, waited, out, bodies, instances>>
vars     == <<calls, loopVars, callVars>>

Size  == Len(calls)
Index == UNION {DOMAIN b : b \in Batches}

ActionStages == {"tool", "translate", "detach", "poll"}
Stages == ActionStages \union
          {"idle", "starting", "sleep", "subagent", "pause", "ending", "ended", "raised"}
Acts == {"none", "queued", "running", "acted"}
Outs == FinalKinds \union {"none", "messages", "timeout"}

NoWait == [poll |-> 1, timed |-> FALSE, timeout |-> 0]

TypeOK ==
    /\ calls \in Batches
    /\ loop \in {"running", "returned", "raised"}
    /\ cursor \in 1..(Size + 1)
    /\ last \in (cursor - 1)..Size
    /\ results \in Seq([call : DOMAIN calls, kind : Outs])
    /\ stage \in [DOMAIN calls -> Stages]
    /\ act \in [DOMAIN calls -> Acts]
    /\ tries \in [DOMAIN calls -> Nat]
    /\ wait \in [DOMAIN calls -> Waits \union {NoWait}]
    /\ waited \in [DOMAIN calls -> Nat]
    /\ out \in [DOMAIN calls -> Outs]
    /\ bodies \in [DOMAIN calls -> Nat]
    /\ instances \in [DOMAIN calls -> Nat]

(* A batch handed over by run_agent, before the loop has looked at it.      *)
Start(b) ==
    /\ calls = b
    /\ loop = "running"
    /\ cursor = 1
    /\ last = 0
    /\ results = <<>>
    /\ stage = [i \in DOMAIN b |-> "idle"]
    /\ act = [i \in DOMAIN b |-> "none"]
    /\ tries = [i \in DOMAIN b |-> 0]
    /\ wait = [i \in DOMAIN b |-> NoWait]
    /\ waited = [i \in DOMAIN b |-> 0]
    /\ out = [i \in DOMAIN b |-> "none"]
    /\ bodies = [i \in DOMAIN b |-> 0]
    /\ instances = [i \in DOMAIN b |-> 0]

Init == \E b \in Batches : Start(b)

----------------------------------------------------------------------------
(* The loop of _handle_agent_tools: cut off the next segment, start its     *)
(* coroutines, collect its results.                                         *)

(* Fault: the calls gathered so far are not flushed before a sequential one.*)
UnflushedSegment(k, e) == e = Size

(* calls[k..e] is what the loop awaits next: one sequential call, or every  *)
(* call up to the next sequential one or the end of the batch.              *)
IsSegment(k, e) ==
    \/ /\ calls[k].sequential
       /\ e = k
    \/ /\ \A i \in k..e : ~calls[i].sequential
       /\ e < Size => calls[e + 1].sequential

StartSegment ==
    /\ loop = "running"
    /\ last = cursor - 1
    /\ \E e \in cursor..Size :
          /\ IsSegment(cursor, e)
          /\ last' = e
          /\ stage' = [i \in DOMAIN calls |->
                          IF i \in cursor..e THEN "starting" ELSE stage[i]]
    /\ UNCHANGED <<calls, loop, cursor, results, act, tries, wait, waited, out,
                   bodies, instances>>

Result(i) == [call |-> i, kind |-> out[i]]

(* asyncio.gather returns the results of a segment in call order, whatever  *)
(* order they arrived in.                                                   *)
SegmentResults == [k \in 1..(last - cursor + 1) |-> Result(cursor + k - 1)]

(* Fault: gather(return_exceptions=True), and nobody looks.                 *)
SettledAnyhow(i) == stage[i] \in {"ended", "raised"}

Settled(i) == stage[i] = "ended"

(* Fault: the cursor also skips the barrier behind the segment.             *)
CursorPastBarrier == last + 2

CursorAfterSegment == last + 1

EndSegment ==
    /\ loop = "running"
    /\ last >= cursor
    /\ \A i \in cursor..last : Settled(i)
    /\ results' = results \o SegmentResults
    /\ cursor' = CursorAfterSegment
    /\ UNCHANGED <<calls, loop, last, callVars>>

ReturnResults ==
    /\ loop = "running"
    /\ cursor = Size + 1
    /\ loop' = "returned"
    /\ UNCHANGED <<calls, cursor, last, results, callVars>>

(* gather raises the first failure of a segment; its siblings may go on.    *)
BatchRaises ==
    /\ loop = "running"
    /\ \E i \in cursor..last : stage[i] = "raised"
    /\ loop' = "raised"
    /\ UNCHANGED <<calls, cursor, last, results, callVars>>

----------------------------------------------------------------------------
(* The coroutine of one call: _run_agent_tool_call and what it awaits.      *)

(* Awaiting something new; an action is dispatched at once.                 *)
Enter(i, s) ==
    /\ stage' = [stage EXCEPT ![i] = s]
    /\ act' = [act EXCEPT ![i] = IF s \in ActionStages THEN "queued" ELSE "none"]
    /\ tries' = [tries EXCEPT ![i] = IF s \in ActionStages THEN 1 ELSE 0]

(* Fault: the coroutines of a segment share one result variable.            *)
FinishShared(i, kind) ==
    /\ out' = [j \in DOMAIN out |-> kind]
    /\ Enter(i, "ending")

Finish(i, kind) ==
    /\ out' = [out EXCEPT ![i] = kind]
    /\ Enter(i, "ending")

(* on_tool_start returned; the tool's action is dispatched.                 *)
StartHookReturns(i) ==
    /\ stage[i] = "starting"
    /\ Enter(i, "tool")
    /\ UNCHANGED <<calls, loopVars, wait, waited, out, bodies, instances>>

EndHookReturns(i) ==
    /\ stage[i] = "ending"
    /\ Enter(i, "ended")
    /\ UNCHANGED <<calls, loopVars, wait, waited, out, bodies, instances>>

HookRaises(i) ==
    /\ stage[i] \in {"starting", "ending"}
    /\ Enter(i, "raised")
    /\ UNCHANGED <<calls, loopVars, wait, waited, out, bodies, instances>>

(* A worker takes the action.  For a tool that is one execution of its body.*)
ActionStarts(i) ==
    /\ act[i] = "queued"
    /\ act' = [act EXCEPT ![i] = "running"]
    /\ bodies' = [bodies EXCEPT ![i] = IF stage[i] = "tool" THEN @ + 1 ELSE @]
    /\ UNCHANGED <<calls, loopVars, stage, tries, wait, waited, out, instances>>

(* The action's own code raises: nothing in the workflow retries that.      *)
ActionRaises(i) ==
    /\ act[i] \in {"running", "acted"}
    /\ Enter(i, "raised")
    /\ UNCHANGED <<calls, loopVars, wait, waited, out, bodies, instances>>

(* Fault: lost_attempts compared with >= where the code has >.              *)
BudgetPlusOne(i) == IF stage[i] = "tool" THEN calls[i].max_retries + 2 ELSE Attempts

(* How often the action the call awaits may be dispatched: once and then    *)
(* max_retries times for the tool, model_retry.attempts times for the       *)
(* actions the follow-ups run.                                              *)
Budget(i) == IF stage[i] = "tool" THEN calls[i].max_retries + 1 ELSE Attempts

(* Fault: the detached start is retried like everything else.               *)
CatchesAll(s, verdict) == TRUE

(* Which verdicts each retry loop catches: all do, except that the one      *)
(* around start_detached_subagent lets a lost action propagate.             *)
Catches(s, verdict) == s = "detach" => verdict = "not_started"

(* Waymark's two verdicts on an action with no result.  "not_started" is    *)
(* only given for a body that never ran; "lost" at any time.                *)
Verdict(i, verdict) ==
    \/ verdict = "lost" /\ act[i] # "none"
    \/ verdict = "not_started" /\ act[i] = "queued"

CanRetry(i, verdict) == Catches(stage[i], verdict) /\ tries[i] < Budget(i)

ActionReruns(i) ==
    /\ \E verdict \in {"lost", "not_started"} :
          Verdict(i, verdict) /\ CanRetry(i, verdict)
    /\ act' = [act EXCEPT ![i] = "queued"]
    /\ tries' = [tries EXCEPT ![i] = @ + 1]
    /\ UNCHANGED <<calls, loopVars, stage, wait, waited, out, bodies, instances>>

(* raise_tool_retries_exhausted, raise_model_attempts_exhausted, or the     *)
(* verdict itself, uncaught.                                                *)
ActionGivenUp(i) ==
    /\ \E verdict \in {"lost", "not_started"} :
          Verdict(i, verdict) /\ ~CanRetry(i, verdict)
    /\ Enter(i, "raised")
    /\ UNCHANGED <<calls, loopVars, wait, waited, out, bodies, instances>>

(* run_agent_tool answered, and the call's follow-up begins.                *)
ToolAnswers(i) ==
    /\ stage[i] = "tool"
    /\ act[i] = "running"

ToolReturns(i, kind) ==
    /\ ToolAnswers(i)
    /\ kind \in Kinds \intersect FinalKinds
    /\ Finish(i, kind)
    /\ UNCHANGED <<calls, loopVars, wait, waited, bodies, instances>>

(* DurableSleep, DelegateAgent(wait=True) and DelegateAgent(wait=False).    *)
ToolHandsOver(i) ==
    /\ ToolAnswers(i)
    /\ \/ "sleep" \in Kinds /\ Enter(i, "sleep")
       \/ "delegate" \in Kinds /\ Enter(i, "subagent")
       \/ "detach" \in Kinds /\ Enter(i, "detach")
    /\ UNCHANGED <<calls, loopVars, wait, waited, out, bodies, instances>>

ToolWaits(i) ==
    /\ ToolAnswers(i)
    /\ "wait_messages" \in Kinds
    /\ \E w \in Waits : wait' = [wait EXCEPT ![i] = w]
    /\ waited' = [waited EXCEPT ![i] = 0]
    /\ Enter(i, "poll")
    /\ UNCHANGED <<calls, loopVars, out, bodies, instances>>

SleepEnds(i) ==
    /\ stage[i] = "sleep"
    /\ Finish(i, "return")
    /\ UNCHANGED <<calls, loopVars, wait, waited, bodies, instances>>

(* The nested run_agent of a waiting delegation.                            *)
SubagentReturns(i) ==
    /\ stage[i] = "subagent"
    /\ Enter(i, "translate")
    /\ UNCHANGED <<calls, loopVars, wait, waited, out, bodies, instances>>

SubagentRaises(i) ==
    /\ stage[i] = "subagent"
    /\ Enter(i, "raised")
    /\ UNCHANGED <<calls, loopVars, wait, waited, out, bodies, instances>>

(* delegate_tool_result answered.                                           *)
Translated(i) ==
    /\ stage[i] = "translate"
    /\ act[i] = "running"
    /\ Finish(i, "return")
    /\ UNCHANGED <<calls, loopVars, wait, waited, bodies, instances>>

(* start_detached_subagent: the instance is queued before its answer is.    *)
DetachQueues(i) ==
    /\ stage[i] = "detach"
    /\ act[i] = "running"
    /\ act' = [act EXCEPT ![i] = "acted"]
    /\ instances' = [instances EXCEPT ![i] = @ + 1]
    /\ UNCHANGED <<calls, loopVars, stage, tries, wait, waited, out, bodies>>

Detached(i) ==
    /\ stage[i] = "detach"
    /\ act[i] = "acted"
    /\ Finish(i, "return")
    /\ UNCHANGED <<calls, loopVars, wait, waited, bodies, instances>>

(* Fault: the deadline itself does not count as passed.                     *)
ExpiredLate(i) == wait[i].timed /\ waited[i] > wait[i].timeout

(* _wait_for_agent_messages.  One poll answered; a poll that found nothing  *)
(* at or past the timeout is the last one.                                  *)
Expired(i) == wait[i].timed /\ waited[i] >= wait[i].timeout

PollFinds(i) ==
    /\ stage[i] = "poll"
    /\ act[i] = "running"
    /\ Finish(i, "messages")
    /\ UNCHANGED <<calls, loopVars, wait, waited, bodies, instances>>

PollTimesOut(i) ==
    /\ stage[i] = "poll"
    /\ act[i] = "running"
    /\ Expired(i)
    /\ Finish(i, "timeout")
    /\ UNCHANGED <<calls, loopVars, wait, waited, bodies, instances>>

PollIsEmpty(i) ==
    /\ stage[i] = "poll"
    /\ act[i] = "running"
    /\ ~Expired(i)
    /\ Enter(i, "pause")
    /\ UNCHANGED <<calls, loopVars, wait, waited, out, bodies, instances>>

(* Fault: waited_seconds is set back to 0.0 inside the loop.                *)
ClockRestarted(i) == 0

ClockAdvanced(i) == waited[i] + wait[i].poll

(* Nothing reads the clock of a wait without a timeout, so it stands still. *)
PauseEnds(i) ==
    /\ stage[i] = "pause"
    /\ waited' = [waited EXCEPT ![i] = IF wait[i].timed THEN ClockAdvanced(i) ELSE @]
    /\ Enter(i, "poll")
    /\ UNCHANGED <<calls, loopVars, wait, out, bodies, instances>>

----------------------------------------------------------------------------
LoopStep == StartSegment \/ EndSegment \/ ReturnResults \/ BatchRaises

ActionStep(i) ==
    \/ ActionStarts(i) \/ ActionRaises(i) \/ ActionReruns(i) \/ ActionGivenUp(i)

HookStep(i) == StartHookReturns(i) \/ EndHookReturns(i) \/ HookRaises(i)

FollowUpStep(i) ==
    \/ SleepEnds(i) \/ SubagentReturns(i) \/ SubagentRaises(i) \/ Translated(i)
    \/ DetachQueues(i) \/ Detached(i)
    \/ PollFinds(i) \/ PollTimesOut(i) \/ PollIsEmpty(i) \/ PauseEnds(i)

ToolStep(i) == ToolHandsOver(i) \/ ToolWaits(i) \/ \E kind \in Kinds : ToolReturns(i, kind)

CallStep(i) == HookStep(i) \/ ActionStep(i) \/ ToolStep(i) \/ FollowUpStep(i)

(* The loop has left; whatever a sibling still runs can no longer be seen.  *)
Terminated == loop # "running" /\ UNCHANGED vars

Next == LoopStep \/ (\E i \in DOMAIN calls : CallStep(i)) \/ Terminated

(* The workflow engine resumes what can go on: an action is taken or given  *)
(* a verdict, a started body answers, raises or is lost, a timer fires, and *)
(* a nested run ends.  Nothing is promised to the siblings of a failed call.*)
Fairness ==
    /\ WF_vars(LoopStep)
    /\ \A i \in Index : WF_vars(i \in DOMAIN calls /\ loop = "running" /\ CallStep(i))

Spec == Init /\ [][Next]_vars
FairSpec == Spec /\ Fairness

----------------------------------------------------------------------------
(* A call and a later one that a barrier keeps apart: one of the calls from *)
(* the first to the second runs alone.                                      *)
Separated(i, j) == i < j /\ \E k \in i..j : calls[k].sequential

Begun(i) == stage[i] # "idle"

(* README "Sequential tools" (245) and _handle_agent_tools: a               *)
(* sequential call runs alone.  A call does not even reach on_tool_start    *)
(* before every call a barrier separates it from has passed on_tool_end,    *)
(* and a failed call keeps everything behind the barrier from starting.     *)
BarrierOrder ==
    \A i, j \in DOMAIN calls : Separated(i, j) /\ Begun(j) => stage[i] = "ended"

(* _run_agent_tool_action: Waymark's losses never make a tool's body run    *)
(* more often than its own retries= allows on top of the first execution;   *)
(* with retries=0 it runs at most once.                                     *)
LossBudget == \A i \in DOMAIN calls : bodies[i] <= calls[i].max_retries + 1

(* _start_detached_subagent: however its action is lost or rerun, a tool    *)
(* call queues at most one detached subagent, although Waymark does not     *)
(* deduplicate workflow instances.                                          *)
AtMostOneInstance == \A i \in DOMAIN calls : instances[i] <= 1

(* WaitForMessages: a timeout is answered only after a poll made when the   *)
(* timeout had passed, and the wait never outlasts it by a poll interval.   *)
WaitBounded ==
    \A i \in DOMAIN calls :
        /\ wait[i].timed => waited[i] < wait[i].timeout + wait[i].poll
        /\ out[i] = "timeout" => wait[i].timed /\ waited[i] >= wait[i].timeout

(* A result is final: once a call has one, no rerun, late answer or sibling *)
(* failure replaces it.                                                     *)
ResultIsFinal == [][\A i \in DOMAIN calls : out[i] # "none" => out'[i] = out[i]]_vars

(* A call on which a wait without a timeout is under way.                   *)
WaitsForEver(i) == stage[i] \in {"poll", "pause"} /\ ~wait[i].timed

(* However many actions Waymark loses, the batch returns or raises: every   *)
(* retry loop is bounded and a timed wait runs out.  Only a call that waits *)
(* without a timeout may keep it.                                           *)
BatchSettles == <>(loop # "running" \/ \E i \in DOMAIN calls : WaitsForEver(i))

----------------------------------------------------------------------------
(* The batch as the agent sees it: a call is open from on_tool_start to     *)
(* on_tool_end, and answers what its coroutine returned.                    *)
Status(i) ==
    CASE stage[i] = "idle"   -> "waiting"
      [] stage[i] = "ended"  -> "answered"
      [] stage[i] = "raised" -> "failed"
      [] OTHER               -> "open"

Plain == INSTANCE PlainBatch WITH
    Answers <- Outs \ {"none"},
    None <- "none",
    status <- [i \in DOMAIN calls |-> Status(i)],
    answer <- [i \in DOMAIN calls |-> IF stage[i] = "ended" THEN out[i] ELSE "none"],
    handed <- IF loop = "returned" THEN [k \in DOMAIN results |-> results[k].kind] ELSE <<>>

(* _handle_agent_tools with all its actions, reruns and follow-ups looks to *)
(* the agent like a plain batch: the docstring of _run_agent_tool_action    *)
(* promises that a lost or never-started attempt is never seen.             *)
IsPlainBatch == Plain!Spec
================================================================================
