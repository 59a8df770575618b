---------------------------- MODULE ToolBatchProofs ----------------------------
(* Theorems about ToolBatch, for every batch, budget, wait and answer.        *)
EXTENDS ToolBatch, SequenceTheorems, TLAPS

(* The loop and its coroutines agree: what lies before the cursor is ended    *)
(* and collected, what lies behind the awaited segment has not begun, and a   *)
(* segment of several calls has no barrier in it.                             *)
LoopInv ==
    /\ \A i \in DOMAIN calls : i < cursor => stage[i] = "ended"
    /\ \A i \in DOMAIN calls : i > last => stage[i] = "idle"
    /\ cursor < last => \A i \in cursor..last : ~calls[i].sequential
    /\ Len(results) = cursor - 1
    /\ \A k \in 1..(cursor - 1) : results[k] = Result(k)
    /\ loop = "returned" => cursor = Size + 1

(* An action is awaited in the action stages only, and a call has a result    *)
(* only when it is done awaiting.                                             *)
AwaitInv(i) ==
    /\ act[i] # "none" => stage[i] \in ActionStages
    /\ act[i] = "acted" => stage[i] = "detach"
    /\ out[i] # "none" => stage[i] \in {"ending", "ended", "raised"}
    /\ stage[i] \in {"ending", "ended"} => out[i] # "none"

(* While the tool's action is awaited its body has run at most once per       *)
(* dispatch, and not yet in the dispatch that is queued.                      *)
LossInv(i) ==
    /\ bodies[i] <= calls[i].max_retries + 1
    /\ stage[i] \in {"idle", "starting"} => bodies[i] = 0
    /\ stage[i] = "tool" =>
          /\ tries[i] <= calls[i].max_retries + 1
          /\ bodies[i] <= tries[i]
          /\ act[i] = "queued" => bodies[i] < tries[i]

(* Only a detached start that has answered or is about to has queued.         *)
DetachInv(i) ==
    /\ instances[i] <= 1
    /\ stage[i] \in {"idle", "starting", "tool"} => instances[i] = 0
    /\ stage[i] = "detach" /\ act[i] # "acted" => instances[i] = 0

(* A wait that sleeps had time left at its last poll.                         *)
WaitInv(i) ==
    /\ wait[i].timed => waited[i] < wait[i].timeout + wait[i].poll
    /\ stage[i] = "pause" /\ wait[i].timed => waited[i] < wait[i].timeout
    /\ out[i] = "timeout" => wait[i].timed /\ waited[i] >= wait[i].timeout

IInv ==
    /\ TypeOK
    /\ LoopInv
    /\ \A i \in DOMAIN calls : AwaitInv(i) /\ LossInv(i) /\ DetachInv(i) /\ WaitInv(i)

(* A batch is a sequence of calls: its positions are 1..Size.                 *)
LEMMA Positions ==
    ASSUME calls \in Batches
    PROVE  /\ calls \in Seq(Call)
           /\ Size \in Nat
           /\ DOMAIN calls = 1..Size
           /\ \A i \in DOMAIN calls : calls[i] \in Call
<1>1. calls \in Seq(Call)
  BY BatchesAssumption
<1> QED
  BY <1>1, LenProperties, ElementOfSeq DEF Size

(* Awaiting something else keeps the three functions it touches well typed.   *)
LEMMA EnterType ==
    ASSUME NEW i \in DOMAIN calls, NEW s \in Stages, TypeOK, Enter(i, s)
    PROVE  /\ stage' \in [DOMAIN calls -> Stages]
           /\ act' \in [DOMAIN calls -> Acts]
           /\ tries' \in [DOMAIN calls -> Nat]
BY DEF TypeOK, Enter, Acts

(* A call that finishes with one of Outs stays well typed.                    *)
LEMMA FinishType ==
    ASSUME NEW i \in DOMAIN calls, NEW kind \in Outs, TypeOK, Finish(i, kind)
    PROVE  /\ stage' \in [DOMAIN calls -> Stages]
           /\ act' \in [DOMAIN calls -> Acts]
           /\ tries' \in [DOMAIN calls -> Nat]
           /\ out' \in [DOMAIN calls -> Outs]
<1>1. "ending" \in Stages
  BY DEF Stages
<1>2. Enter(i, "ending")
  BY DEF Finish
<1> QED
  BY <1>1, <1>2, EnterType DEF Finish, TypeOK

(* A function on 1..m is a sequence of length m.                              *)
LEMMA FunctionIsSeq ==
    ASSUME NEW S, NEW m \in Nat, NEW f \in [1..m -> S]
    PROVE  f \in Seq(S) /\ Len(f) = m
<1>1. f \in Seq(S)
  BY SeqDef
<1> QED
  BY <1>1, LenProperties

(* Collecting a segment appends one well-typed result per call of it.         *)
LEMMA CollectType ==
    ASSUME TypeOK, cursor <= last
    PROVE  /\ SegmentResults \in Seq([call : DOMAIN calls, kind : Outs])
           /\ Len(SegmentResults) = last - cursor + 1
           /\ \A k \in 1..(last - cursor + 1) : SegmentResults[k] = Result(cursor + k - 1)
<1> DEFINE n == last - cursor + 1
<1>1. DOMAIN calls = 1..Size /\ Size \in Nat
  BY Positions DEF TypeOK
<1>2. n \in Nat /\ cursor \in Nat /\ last \in Nat
  BY <1>1 DEF TypeOK
<1>3. ASSUME NEW k \in 1..n
      PROVE  Result(cursor + k - 1) \in [call : DOMAIN calls, kind : Outs]
  <2>1. cursor + k - 1 \in DOMAIN calls
    BY <1>1, <1>2 DEF TypeOK
  <2>2. out[cursor + k - 1] \in Outs
    BY <2>1 DEF TypeOK
  <2> QED
    BY <2>1, <2>2 DEF Result
<1>4. SegmentResults \in [1..n -> [call : DOMAIN calls, kind : Outs]]
  BY <1>3 DEF SegmentResults
<1> HIDE DEF n
<1>5. SegmentResults \in Seq([call : DOMAIN calls, kind : Outs]) /\ Len(SegmentResults) = n
  BY <1>2, <1>4, FunctionIsSeq
<1> QED
  BY <1>5 DEF SegmentResults, n

(****************************************************************************)
(* Type correctness.                                                          *)

(* What a step of a call's coroutine leaves alone.                            *)
LEMMA CallFrame ==
    ASSUME NEW i \in DOMAIN calls, CallStep(i)
    PROVE  UNCHANGED <<calls, loop, cursor, last, results>>
BY DEF CallStep, HookStep, ActionStep, ToolStep, FollowUpStep,
       StartHookReturns, EndHookReturns, HookRaises, ActionStarts, ActionRaises,
       ActionReruns, ActionGivenUp, ToolReturns, ToolHandsOver, ToolWaits,
       SleepEnds, SubagentReturns, SubagentRaises, Translated, DetachQueues,
       Detached, PollFinds, PollTimesOut, PollIsEmpty, PauseEnds, loopVars

(* Every step of a coroutine keeps the types.                                 *)
LEMMA TypeOfCallStep ==
    ASSUME TypeOK, NEW i \in DOMAIN calls, CallStep(i)
    PROVE  TypeOK'
<1> USE DEF TypeOK, Size
<1>1. UNCHANGED <<calls, loop, cursor, last, results>>
  BY CallFrame
<1>2. CASE HookStep(i)
  <2>1. {"tool", "ended", "raised"} \subseteq Stages
    BY DEF Stages, ActionStages
  <2> QED
    BY <1>1, <1>2, <2>1, EnterType
    DEF HookStep, StartHookReturns, EndHookReturns, HookRaises
<1>3. CASE ActionStep(i)
  <2>1. "raised" \in Stages /\ {"queued", "running"} \subseteq Acts
    BY DEF Stages, Acts
  <2>2. CASE ActionStarts(i)
    <3>1. bodies' \in [DOMAIN calls -> Nat] /\ act' \in [DOMAIN calls -> Acts]
      BY <2>1, <2>2 DEF ActionStarts
    <3> QED
      BY <1>1, <2>2, <3>1 DEF ActionStarts
  <2>3. CASE ActionReruns(i)
    <3>1. tries' \in [DOMAIN calls -> Nat] /\ act' \in [DOMAIN calls -> Acts]
      BY <2>1, <2>3 DEF ActionReruns
    <3> QED
      BY <1>1, <2>3, <3>1 DEF ActionReruns
  <2>4. CASE ActionRaises(i) \/ ActionGivenUp(i)
    BY <1>1, <2>1, <2>4, EnterType DEF ActionRaises, ActionGivenUp
  <2> QED
    BY <1>3, <2>2, <2>3, <2>4 DEF ActionStep
<1>4. CASE ToolStep(i)
  <2>1. {"sleep", "subagent", "detach", "poll"} \subseteq Stages /\ FinalKinds \subseteq Outs
    BY DEF Stages, ActionStages, Outs
  <2>2. CASE ToolHandsOver(i)
    BY <1>1, <2>1, <2>2, EnterType DEF ToolHandsOver
  <2>3. CASE ToolWaits(i)
    BY <1>1, <2>1, <2>3, EnterType DEF ToolWaits
  <2>4. CASE \E kind \in Kinds : ToolReturns(i, kind)
    BY <1>1, <2>1, <2>4, FinishType DEF ToolReturns
  <2> QED
    BY <1>4, <2>2, <2>3, <2>4 DEF ToolStep
<1>5. CASE FollowUpStep(i)
  <2>1. /\ {"translate", "raised", "poll", "pause"} \subseteq Stages
        /\ {"return", "messages", "timeout"} \subseteq Outs
        /\ "acted" \in Acts
    BY DEF Stages, ActionStages, Outs, FinalKinds, Acts
  <2>2. CASE SleepEnds(i) \/ Translated(i) \/ Detached(i)
    BY <1>1, <2>1, <2>2, FinishType DEF SleepEnds, Translated, Detached
  <2>3. CASE PollFinds(i) \/ PollTimesOut(i)
    BY <1>1, <2>1, <2>3, FinishType DEF PollFinds, PollTimesOut
  <2>4. CASE SubagentReturns(i) \/ SubagentRaises(i) \/ PollIsEmpty(i)
    BY <1>1, <2>1, <2>4, EnterType DEF SubagentReturns, SubagentRaises, PollIsEmpty
  <2>5. CASE DetachQueues(i)
    BY <1>1, <2>1, <2>5 DEF DetachQueues
  <2>6. CASE PauseEnds(i)
    <3>1. wait[i].poll \in Nat
      BY WaitsAssumption DEF Wait, NoWait
    <3>2. waited' \in [DOMAIN calls -> Nat]
      BY <2>6, <3>1 DEF PauseEnds, ClockAdvanced
    <3> QED
      BY <1>1, <2>1, <2>6, <3>2, EnterType DEF PauseEnds, ClockAdvanced
  <2> QED
    BY <1>5, <2>2, <2>3, <2>4, <2>5, <2>6 DEF FollowUpStep
<1> QED
  BY <1>2, <1>3, <1>4, <1>5 DEF CallStep

(* Every step of the loop over the batch keeps the types.                     *)
LEMMA TypeOfLoopStep ==
    ASSUME TypeOK, LoopStep
    PROVE  TypeOK'
<1>1. DOMAIN calls = 1..Size /\ Size \in Nat
  BY Positions DEF TypeOK
<1>2. cursor \in 1..(Size + 1) /\ last \in (cursor - 1)..Size
  BY DEF TypeOK
<1>3. CASE StartSegment
  <2>1. "starting" \in Stages
    BY DEF Stages
  <2>2. PICK e \in cursor..Size :
            /\ last' = e
            /\ stage' = [i \in DOMAIN calls |-> IF i \in cursor..e THEN "starting" ELSE stage[i]]
    BY <1>3 DEF StartSegment
  <2>3. stage' \in [DOMAIN calls -> Stages]
    BY <2>1, <2>2 DEF TypeOK
  <2>4. last' \in (cursor - 1)..Size
    BY <1>1, <1>2, <2>2
  <2> QED
    BY <1>3, <2>3, <2>4 DEF StartSegment, TypeOK, Size
<1>4. CASE EndSegment
  <2>1. /\ cursor' \in 1..(Size + 1)
        /\ last' \in (cursor' - 1)..Size
    BY <1>1, <1>2, <1>4 DEF EndSegment, CursorAfterSegment
  <2>2. SegmentResults \in Seq([call : DOMAIN calls, kind : Outs])
    BY <1>1, <1>2, <1>4, CollectType DEF EndSegment
  <2>3. results' \in Seq([call : DOMAIN calls, kind : Outs])
    BY <1>4, <2>2, ConcatProperties DEF EndSegment, TypeOK
  <2> QED
    BY <1>4, <2>1, <2>3 DEF EndSegment, TypeOK, Size, callVars
<1>5. CASE ReturnResults
  BY <1>5 DEF ReturnResults, TypeOK, Size, callVars
<1>6. CASE BatchRaises
  BY <1>6 DEF BatchRaises, TypeOK, Size, callVars
<1> QED
  BY <1>3, <1>4, <1>5, <1>6 DEF LoopStep

(* The batch as run_agent hands it over is well typed.                        *)
LEMMA TypeInit == Init => TypeOK
<1> SUFFICES ASSUME NEW b \in Batches, Start(b)
             PROVE  TypeOK
  BY DEF Init
<1>1. calls = b
  BY DEF Start
<1>2. DOMAIN calls = 1..Size /\ Size \in Nat
  BY <1>1, Positions
<1>3. results \in Seq([call : DOMAIN calls, kind : Outs])
  BY EmptySeq DEF Start
<1> QED
  BY <1>1, <1>2, <1>3 DEF Start, TypeOK, Stages, Acts, Outs

(* Every step keeps the types, those that change nothing included.            *)
LEMMA TypeStep ==
    ASSUME TypeOK, [Next]_vars
    PROVE  TypeOK'
<1>1. CASE LoopStep
  BY <1>1, TypeOfLoopStep
<1>2. CASE \E i \in DOMAIN calls : CallStep(i)
  BY <1>2, TypeOfCallStep
<1>3. CASE UNCHANGED vars
  BY <1>3 DEF vars, loopVars, callVars, TypeOK, Size
<1> QED
  BY <1>1, <1>2, <1>3 DEF Next, Terminated

(* Every state the batch reaches is well typed.                               *)
THEOREM TypeCorrect == Spec => []TypeOK
<1> QED
  BY TypeInit, TypeStep, PTL DEF Spec

(****************************************************************************)
(* The inductive invariant: steps of one coroutine.                           *)

(* What awaiting something new does to each call's stage, action and tries.   *)
LEMMA EnterEffect ==
    ASSUME TypeOK, NEW i \in DOMAIN calls, NEW s, Enter(i, s)
    PROVE  /\ stage'[i] = s
           /\ act'[i] = IF s \in ActionStages THEN "queued" ELSE "none"
           /\ tries'[i] = IF s \in ActionStages THEN 1 ELSE 0
BY DEF TypeOK, Enter

(* A coroutine changes its own state only.                                    *)
LEMMA OthersUntouched ==
    ASSUME TypeOK, NEW i \in DOMAIN calls, CallStep(i),
           NEW j \in DOMAIN calls, j # i
    PROVE  /\ stage'[j] = stage[j] /\ act'[j] = act[j] /\ tries'[j] = tries[j]
           /\ wait'[j] = wait[j] /\ waited'[j] = waited[j] /\ out'[j] = out[j]
           /\ bodies'[j] = bodies[j] /\ instances'[j] = instances[j]
<1> USE DEF TypeOK, Enter, Finish
<1>1. CASE HookStep(i)
  BY <1>1 DEF HookStep, StartHookReturns, EndHookReturns, HookRaises
<1>2. CASE ActionStep(i)
  BY <1>2 DEF ActionStep, ActionStarts, ActionRaises, ActionReruns, ActionGivenUp
<1>3. CASE ToolStep(i)
  BY <1>3 DEF ToolStep, ToolReturns, ToolHandsOver, ToolWaits
<1>4. CASE FollowUpStep(i)
  BY <1>4 DEF FollowUpStep, SleepEnds, SubagentReturns, SubagentRaises, Translated,
     DetachQueues, Detached, PollFinds, PollTimesOut, PollIsEmpty, PauseEnds
<1> QED
  BY <1>1, <1>2, <1>3, <1>4 DEF CallStep

(* A coroutine steps only between on_tool_start and its result.               *)
LEMMA OnlyOpenCallsStep ==
    ASSUME TypeOK, NEW i \in DOMAIN calls, AwaitInv(i), CallStep(i)
    PROVE  stage[i] \notin {"idle", "ended", "raised"} /\ stage'[i] # "idle"
<1> USE DEF AwaitInv, ActionStages
<1>1. CASE HookStep(i)
  BY <1>1, EnterEffect DEF HookStep, StartHookReturns, EndHookReturns, HookRaises
<1>2. CASE ActionStep(i)
  BY <1>2, EnterEffect
  DEF ActionStep, ActionStarts, ActionRaises, ActionReruns, ActionGivenUp, Verdict
<1>3. CASE ToolStep(i)
  BY <1>3, EnterEffect DEF ToolStep, ToolReturns, ToolHandsOver, ToolWaits, ToolAnswers, Finish
<1>4. CASE FollowUpStep(i)
  BY <1>4, EnterEffect
  DEF FollowUpStep, SleepEnds, SubagentReturns, SubagentRaises, Translated, DetachQueues,
      Detached, PollFinds, PollTimesOut, PollIsEmpty, PauseEnds, Finish
<1> QED
  BY <1>1, <1>2, <1>3, <1>4 DEF CallStep

(* Finishing sets the result of one call and moves it to on_tool_end.         *)
LEMMA FinishEffect ==
    ASSUME TypeOK, NEW i \in DOMAIN calls, NEW kind, Finish(i, kind)
    PROVE  stage'[i] = "ending" /\ act'[i] = "none" /\ out'[i] = kind
BY EnterEffect DEF Finish, ActionStages, TypeOK

(* After every step, actions and results only where a coroutine has them.     *)
LEMMA AwaitInvStep ==
    ASSUME TypeOK, NEW i \in DOMAIN calls, AwaitInv(i), CallStep(i)
    PROVE  AwaitInv(i)'
<1> USE DEF AwaitInv, ActionStages
<1>1. CASE HookStep(i)
  BY <1>1, EnterEffect DEF HookStep, StartHookReturns, EndHookReturns, HookRaises
<1>2. CASE ActionStep(i)
  BY <1>2, EnterEffect
  DEF ActionStep, ActionStarts, ActionRaises, ActionReruns, ActionGivenUp, Verdict, TypeOK
<1>3. CASE ToolStep(i)
  <2>1. CASE ToolHandsOver(i) \/ ToolWaits(i)
    BY <2>1, EnterEffect DEF ToolHandsOver, ToolWaits, ToolAnswers
  <2>2. CASE \E kind \in Kinds : ToolReturns(i, kind)
    BY <2>2, FinishEffect DEF ToolReturns, FinalKinds
  <2> QED
    BY <1>3, <2>1, <2>2 DEF ToolStep
<1>4. CASE FollowUpStep(i)
  <2>1. CASE SleepEnds(i) \/ Translated(i) \/ Detached(i) \/ PollFinds(i) \/ PollTimesOut(i)
    BY <2>1, FinishEffect DEF SleepEnds, Translated, Detached, PollFinds, PollTimesOut
  <2>2. CASE SubagentReturns(i) \/ SubagentRaises(i) \/ PollIsEmpty(i) \/ PauseEnds(i)
    BY <2>2, EnterEffect DEF SubagentReturns, SubagentRaises, PollIsEmpty, PauseEnds
  <2>3. CASE DetachQueues(i)
    BY <2>3 DEF DetachQueues, TypeOK
  <2> QED
    BY <1>4, <2>1, <2>2, <2>3 DEF FollowUpStep
<1> QED
  BY <1>1, <1>2, <1>3, <1>4 DEF CallStep

(* The tool's body runs at most once per dispatch, so never beyond the budget.*)
LEMMA LossInvStep ==
    ASSUME TypeOK, NEW i \in DOMAIN calls, AwaitInv(i), LossInv(i), CallStep(i)
    PROVE  LossInv(i)'
<1>1. calls[i].max_retries \in Nat /\ bodies[i] \in Nat /\ tries[i] \in Nat
  BY Positions DEF TypeOK, Call
<1>2. calls' = calls
  BY CallFrame
<1> USE DEF LossInv, ActionStages
<1>3. CASE HookStep(i)
  BY <1>1, <1>2, <1>3, EnterEffect
  DEF HookStep, StartHookReturns, EndHookReturns, HookRaises
<1>4. CASE ActionStep(i)
  <2>1. CASE ActionStarts(i)
    BY <1>1, <1>2, <2>1 DEF ActionStarts, AwaitInv, TypeOK
  <2>2. CASE ActionReruns(i)
    BY <1>1, <1>2, <2>2 DEF ActionReruns, CanRetry, Budget, Verdict, AwaitInv, TypeOK
  <2>3. CASE ActionRaises(i) \/ ActionGivenUp(i)
    BY <1>1, <1>2, <2>3, EnterEffect DEF ActionRaises, ActionGivenUp
  <2> QED
    BY <1>4, <2>1, <2>2, <2>3 DEF ActionStep
<1>5. CASE ToolStep(i)
  BY <1>1, <1>2, <1>5, EnterEffect
  DEF ToolStep, ToolReturns, ToolHandsOver, ToolWaits, ToolAnswers, Finish
<1>6. CASE FollowUpStep(i)
  BY <1>1, <1>2, <1>6, EnterEffect
  DEF FollowUpStep, SleepEnds, SubagentReturns, SubagentRaises, Translated, DetachQueues,
      Detached, PollFinds, PollTimesOut, PollIsEmpty, PauseEnds, Finish
<1> QED
  BY <1>3, <1>4, <1>5, <1>6 DEF CallStep

(* A detached start is dispatched again only if it has queued nothing.        *)
LEMMA DetachInvStep ==
    ASSUME TypeOK, NEW i \in DOMAIN calls, AwaitInv(i), DetachInv(i), CallStep(i)
    PROVE  DetachInv(i)'
<1>1. instances[i] \in Nat
  BY DEF TypeOK
<1> USE DEF DetachInv, ActionStages
<1>2. CASE HookStep(i)
  BY <1>1, <1>2, EnterEffect DEF HookStep, StartHookReturns, EndHookReturns, HookRaises
<1>3. CASE ActionStep(i)
  <2>1. CASE ActionStarts(i)
    BY <1>1, <2>1 DEF ActionStarts, TypeOK
  <2>2. CASE ActionReruns(i)
    BY <1>1, <2>2 DEF ActionReruns, CanRetry, Catches, Verdict, TypeOK
  <2>3. CASE ActionRaises(i) \/ ActionGivenUp(i)
    BY <1>1, <2>3, EnterEffect DEF ActionRaises, ActionGivenUp
  <2> QED
    BY <1>3, <2>1, <2>2, <2>3 DEF ActionStep
<1>4. CASE ToolStep(i)
  BY <1>1, <1>4, EnterEffect
  DEF ToolStep, ToolReturns, ToolHandsOver, ToolWaits, ToolAnswers, Finish
<1>5. CASE FollowUpStep(i)
  <2>1. CASE DetachQueues(i)
    BY <1>1, <2>1 DEF DetachQueues, TypeOK
  <2>2. CASE ~DetachQueues(i)
    BY <1>1, <1>5, <2>2, EnterEffect
    DEF FollowUpStep, SleepEnds, SubagentReturns, SubagentRaises, Translated, DetachQueues,
      Detached, PollFinds, PollTimesOut, PollIsEmpty, PauseEnds, Finish
  <2> QED
    BY <2>1, <2>2
<1> QED
  BY <1>2, <1>3, <1>4, <1>5 DEF CallStep

(* A poll is only paused before the deadline, so the clock stays below it.    *)
LEMMA WaitInvStep ==
    ASSUME TypeOK, NEW i \in DOMAIN calls, AwaitInv(i), WaitInv(i), CallStep(i)
    PROVE  WaitInv(i)'
<1>1. /\ wait[i] \in Wait
      /\ waited[i] \in Nat
      /\ Waits \subseteq Wait
  <2>1. NoWait \in Wait
    BY DEF NoWait, Wait
  <2>2. wait[i] \in Waits \union {NoWait}
    BY DEF TypeOK
  <2> QED
    BY <2>1, <2>2, WaitsAssumption DEF TypeOK
<1> USE DEF WaitInv
<1>2. CASE HookStep(i)
  BY <1>1, <1>2, EnterEffect DEF HookStep, StartHookReturns, EndHookReturns, HookRaises
<1>3. CASE ActionStep(i)
  <2>1. CASE ActionStarts(i) \/ ActionReruns(i)
    BY <1>1, <2>1 DEF ActionStarts, ActionReruns
  <2>2. CASE ActionRaises(i) \/ ActionGivenUp(i)
    BY <1>1, <2>2, EnterEffect DEF ActionRaises, ActionGivenUp
  <2> QED
    BY <1>3, <2>1, <2>2 DEF ActionStep
<1>4. CASE ToolStep(i)
  <2>1. CASE ToolHandsOver(i)
    BY <1>1, <2>1, EnterEffect DEF ToolHandsOver
  <2>2. CASE ToolWaits(i)
    <3>1. out'[i] = "none" /\ stage'[i] = "poll"
      BY <2>2, EnterEffect DEF ToolWaits, ToolAnswers, AwaitInv
    <3>2. wait'[i] \in Waits /\ waited'[i] = 0
      BY <2>2 DEF ToolWaits, TypeOK
    <3> QED
      BY <1>1, <3>1, <3>2 DEF Wait
  <2>3. CASE \E kind \in Kinds : ToolReturns(i, kind)
    BY <1>1, <2>3, EnterEffect DEF ToolReturns, Finish, FinalKinds, TypeOK
  <2> QED
    BY <1>4, <2>1, <2>2, <2>3 DEF ToolStep
<1>5. CASE FollowUpStep(i)
  <2>1. CASE PauseEnds(i)
    <3>1. stage'[i] = "poll" /\ out'[i] = "none"
      BY <2>1, EnterEffect DEF PauseEnds, AwaitInv
    <3>2. wait'[i] = wait[i] /\ (wait[i].timed => waited'[i] = waited[i] + wait[i].poll)
      BY <2>1 DEF PauseEnds, ClockAdvanced, TypeOK
    <3> QED
      BY <1>1, <2>1, <3>1, <3>2 DEF PauseEnds, Wait
  <2>2. CASE PollTimesOut(i)
    BY <1>1, <2>2, EnterEffect DEF PollTimesOut, Expired, Finish, TypeOK
  <2>3. CASE PollIsEmpty(i)
    BY <1>1, <2>3, EnterEffect DEF PollIsEmpty, Expired, Wait
  <2>4. CASE SleepEnds(i) \/ Translated(i) \/ Detached(i) \/ PollFinds(i)
    BY <1>1, <2>4, EnterEffect DEF SleepEnds, Translated, Detached, PollFinds, Finish, TypeOK
  <2>5. CASE SubagentReturns(i) \/ SubagentRaises(i)
    BY <1>1, <2>5, EnterEffect DEF SubagentReturns, SubagentRaises
  <2>6. CASE DetachQueues(i)
    BY <1>1, <2>6 DEF DetachQueues
  <2> QED
    BY <1>5, <2>1, <2>2, <2>3, <2>4, <2>5, <2>6 DEF FollowUpStep
<1> QED
  BY <1>2, <1>3, <1>4, <1>5 DEF CallStep

(****************************************************************************)
(* The inductive invariant: steps of the loop.                                *)

(* No step of a coroutine disturbs what the loop has collected or not begun.  *)
LEMMA LoopInvOfCallStep ==
    ASSUME TypeOK, LoopInv, NEW i \in DOMAIN calls, AwaitInv(i), CallStep(i)
    PROVE  LoopInv'
<1>1. UNCHANGED <<calls, loop, cursor, last, results>>
  BY CallFrame
<1>2. /\ stage[i] \notin {"idle", "ended", "raised"}
      /\ stage'[i] # "idle"
  BY OnlyOpenCallsStep
<1>3. ~(i < cursor) /\ ~(i > last)
  BY <1>2 DEF LoopInv
<1>4. /\ DOMAIN calls = 1..Size /\ Size \in Nat
      /\ cursor \in 1..(Size + 1)
  BY Positions DEF TypeOK
<1>5. \A k \in 1..(cursor - 1) : k \in DOMAIN calls /\ k # i
  BY <1>3, <1>4
<1>6. \A k \in 1..(cursor - 1) : Result(k)' = Result(k)
  BY <1>5, OthersUntouched DEF Result
<1>7. \A j \in DOMAIN calls : j # i => stage'[j] = stage[j]
  BY OthersUntouched
<1> QED
  BY <1>1, <1>3, <1>6, <1>7 DEF LoopInv, Size

(* The loop starts the next segment only when the last one is collected.      *)
LEMMA LoopInvOfLoopStep ==
    ASSUME TypeOK, LoopInv, LoopStep
    PROVE  LoopInv'
<1>1. /\ DOMAIN calls = 1..Size /\ Size \in Nat
      /\ cursor \in 1..(Size + 1)
      /\ last \in (cursor - 1)..Size
  BY Positions DEF TypeOK
<1>2. CASE StartSegment
  <2>1. PICK e \in cursor..Size :
            /\ IsSegment(cursor, e)
            /\ last' = e
            /\ stage' = [i \in DOMAIN calls |-> IF i \in cursor..e THEN "starting" ELSE stage[i]]
    BY <1>2 DEF StartSegment
  <2>2. UNCHANGED <<calls, loop, cursor, results, out>> /\ last = cursor - 1
    BY <1>2 DEF StartSegment
  <2>3. \A i \in DOMAIN calls : i < cursor => stage'[i] = "ended"
    BY <1>1, <2>1 DEF LoopInv
  <2>4. \A i \in DOMAIN calls : i > last' => stage'[i] = "idle"
    BY <1>1, <2>1, <2>2 DEF LoopInv
  <2>5. cursor < last' => \A i \in cursor..last' : ~calls[i].sequential
    BY <1>1, <2>1 DEF IsSegment
  <2> QED
    BY <2>2, <2>3, <2>4, <2>5 DEF LoopInv, Result, Size
<1>3. CASE EndSegment
  <2>1. /\ UNCHANGED <<calls, loop, last, stage, out>>
        /\ cursor <= last
        /\ \A i \in cursor..last : stage[i] = "ended"
        /\ cursor' = last + 1
        /\ results' = results \o SegmentResults
        /\ loop = "running"
    BY <1>1, <1>3 DEF EndSegment, CursorAfterSegment, Settled, callVars
  <2>2. /\ SegmentResults \in Seq([call : DOMAIN calls, kind : Outs])
        /\ Len(SegmentResults) = last - cursor + 1
        /\ \A k \in 1..(last - cursor + 1) : SegmentResults[k] = Result(cursor + k - 1)
    BY <2>1, CollectType
  <2>3. /\ results \in Seq([call : DOMAIN calls, kind : Outs])
        /\ Len(results) = cursor - 1
        /\ \A k \in 1..(cursor - 1) : results[k] = Result(k)
    BY DEF TypeOK, LoopInv
  <2>4. /\ Len(results') = last
        /\ \A k \in 1..last : results'[k] = IF k <= cursor - 1
                                             THEN results[k]
                                             ELSE SegmentResults[k - (cursor - 1)]
    <3>1. /\ Len(results') = Len(results) + Len(SegmentResults)
          /\ \A k \in 1..(Len(results) + Len(SegmentResults)) :
                results'[k] = IF k <= Len(results) THEN results[k]
                              ELSE SegmentResults[k - Len(results)]
      BY <2>1, <2>2, <2>3, ConcatProperties
    <3>2. Len(results) + Len(SegmentResults) = last
      BY <1>1, <2>2, <2>3
    <3> QED
      BY <2>3, <3>1, <3>2
  <2>5. \A k \in 1..last : results'[k] = Result(k)
    <3> TAKE k \in 1..last
    <3>1. CASE k <= cursor - 1
      BY <1>1, <2>3, <2>4, <3>1
    <3>2. CASE k > cursor - 1
      <4>1. k - (cursor - 1) \in 1..(last - cursor + 1) /\ cursor + (k - (cursor - 1)) - 1 = k
        BY <1>1, <3>2
      <4>2. results'[k] = SegmentResults[k - (cursor - 1)]
        BY <1>1, <2>4, <3>2
      <4> QED
        BY <2>2, <4>1, <4>2
    <3> QED
      BY <1>1, <3>1, <3>2
  <2>6. \A i \in DOMAIN calls : i < last + 1 => stage[i] = "ended"
    BY <1>1, <2>1 DEF LoopInv
  <2>7. \A k \in 1..(cursor' - 1) : results'[k] = Result(k)'
    <3>1. \A k : Result(k)' = Result(k)
      BY <2>1 DEF Result
    <3>2. cursor' - 1 = last
      BY <1>1, <2>1
    <3> QED
      BY <2>5, <3>1, <3>2
  <2>8. Len(results') = cursor' - 1 /\ ~(cursor' < last')
    BY <1>1, <2>1, <2>4
  <2> QED
    BY <2>1, <2>6, <2>7, <2>8 DEF LoopInv
<1>4. CASE ReturnResults
  BY <1>4 DEF ReturnResults, LoopInv, Result, Size, callVars
<1>5. CASE BatchRaises
  BY <1>5 DEF BatchRaises, LoopInv, Result, Size, callVars
<1> QED
  BY <1>2, <1>3, <1>4, <1>5 DEF LoopStep

CallInv(i) == AwaitInv(i) /\ LossInv(i) /\ DetachInv(i) /\ WaitInv(i)

(* The loop touches a coroutine only to start it.                             *)
LEMMA CallInvOfLoopStep ==
    ASSUME TypeOK, LoopInv, LoopStep, NEW i \in DOMAIN calls, CallInv(i)
    PROVE  CallInv(i)'
<1> USE DEF CallInv, AwaitInv, LossInv, DetachInv, WaitInv, ActionStages
<1>1. /\ UNCHANGED <<calls, act, tries, wait, waited, out, bodies, instances>>
      /\ StartSegment \/ UNCHANGED stage
  BY DEF LoopStep, StartSegment, EndSegment, ReturnResults, BatchRaises, callVars
<1>2. CASE UNCHANGED stage
  BY <1>1, <1>2
<1>3. CASE StartSegment
  <2>1. last = cursor - 1 /\ cursor \in Nat
    BY <1>3, Positions DEF StartSegment, TypeOK
  <2>2. stage'[i] = stage[i] \/ (stage[i] = "idle" /\ stage'[i] = "starting")
    <3>1. DOMAIN calls = 1..Size /\ Size \in Nat
      BY Positions DEF TypeOK
    <3>2. PICK e \in cursor..Size :
              stage' = [j \in DOMAIN calls |-> IF j \in cursor..e THEN "starting" ELSE stage[j]]
      BY <1>3 DEF StartSegment
    <3>3. i \in cursor..e => stage[i] = "idle"
      BY <2>1, <3>1 DEF LoopInv
    <3> QED
      BY <3>2, <3>3
  <2> QED
    BY <1>1, <2>2
<1> QED
  BY <1>1, <1>2, <1>3

(****************************************************************************)
(* The invariant and what follows from it.                                    *)

(* A batch that has not begun satisfies the inductive invariant.              *)
LEMMA InvInit == Init => IInv
<1> SUFFICES ASSUME NEW b \in Batches, Start(b)
             PROVE  IInv
  BY DEF Init
<1>1. TypeOK
  BY TypeInit DEF Init
<1>2. DOMAIN calls = 1..Size /\ Size \in Nat
  BY <1>1, Positions DEF TypeOK
<1>3. Len(results) = 0
  BY EmptySeq DEF Start
<1>4. LoopInv
  BY <1>2, <1>3 DEF Start, LoopInv
<1>5. ASSUME NEW i \in DOMAIN calls
      PROVE  CallInv(i)
  <2>1. calls[i].max_retries \in Nat
    BY <1>1, Positions DEF TypeOK, Call
  <2> QED
    BY <2>1 DEF Start, CallInv, AwaitInv, LossInv, DetachInv, WaitInv, NoWait, ActionStages
<1> QED
  BY <1>1, <1>4, <1>5 DEF IInv, CallInv

(* Every step of the batch keeps the inductive invariant.                     *)
LEMMA InvStep ==
    ASSUME IInv, [Next]_vars
    PROVE  IInv'
<1>1. TypeOK /\ LoopInv /\ \A i \in DOMAIN calls : CallInv(i)
  BY DEF IInv, CallInv
<1>2. TypeOK'
  BY <1>1, TypeStep
<1>3. CASE LoopStep
  <2>1. calls' = calls
    BY <1>3 DEF LoopStep, StartSegment, EndSegment, ReturnResults, BatchRaises
  <2>2. \A i \in DOMAIN calls : CallInv(i)'
    BY <1>1, <1>3, CallInvOfLoopStep
  <2>3. LoopInv'
    BY <1>1, <1>3, LoopInvOfLoopStep
  <2> QED
    BY <1>2, <2>1, <2>2, <2>3 DEF IInv, CallInv
<1>4. CASE \E i \in DOMAIN calls : CallStep(i)
  <2> PICK i \in DOMAIN calls : CallStep(i)
    BY <1>4
  <2>1. calls' = calls
    BY CallFrame
  <2>2. LoopInv'
    BY <1>1, LoopInvOfCallStep DEF CallInv
  <2>3. CallInv(i)'
    BY <1>1, AwaitInvStep, LossInvStep, DetachInvStep, WaitInvStep DEF CallInv
  <2>4. ASSUME NEW j \in DOMAIN calls, j # i
        PROVE  CallInv(j)'
    BY <1>1, <2>1, <2>4, OthersUntouched
    DEF CallInv, AwaitInv, LossInv, DetachInv, WaitInv
  <2> QED
    BY <1>2, <2>1, <2>2, <2>3, <2>4 DEF IInv, CallInv
<1>5. CASE UNCHANGED vars
  BY <1>1, <1>2, <1>5
  DEF IInv, LoopInv, AwaitInv, LossInv, DetachInv, WaitInv, CallInv, Result, Size,
      vars, loopVars, callVars
<1> QED
  BY <1>3, <1>4, <1>5 DEF Next, Terminated

(* The inductive invariant holds in every reachable state.                    *)
THEOREM Invariance == Spec => []IInv
<1> QED
  BY InvInit, InvStep, PTL DEF Spec

(* Calls before the cursor have ended and those after last have not begun.    *)
LEMMA BarrierFollows == IInv => BarrierOrder
<1> SUFFICES ASSUME IInv, NEW i \in DOMAIN calls, NEW j \in DOMAIN calls,
                    i < j, NEW k \in i..j, calls[k].sequential, Begun(j)
             PROVE  stage[i] = "ended"
  BY DEF BarrierOrder, Separated
<1>1. /\ DOMAIN calls = 1..Size /\ Size \in Nat
      /\ cursor \in 1..(Size + 1)
      /\ last \in (cursor - 1)..Size
  BY Positions DEF IInv, TypeOK
<1>2. j <= last
  BY <1>1 DEF IInv, LoopInv, Begun
<1>3. CASE i < cursor
  BY <1>3 DEF IInv, LoopInv
<1>4. CASE cursor <= i
  <2>1. cursor < last /\ k \in cursor..last
    BY <1>1, <1>2, <1>4
  <2> QED
    BY <2>1 DEF IInv, LoopInv
<1> QED
  BY <1>1, <1>3, <1>4

(* Whatever the batch and however its actions fail, no call begins before     *)
(* every call a barrier separates it from is done.                            *)
THEOREM BarriersHold == Spec => []BarrierOrder
<1> QED
  BY Invariance, BarrierFollows, PTL

(* What the loop has collected is the result of each call before the cursor,  *)
(* and of every call once it returns.                                         *)
ResultsInOrder ==
    /\ \A k \in 1..Len(results) :
          /\ results[k].call = k
          /\ results[k].kind = out[k]
          /\ stage[k] = "ended"
    /\ loop = "returned" => Len(results) = Size

(* It follows from how far the loop has come.                                 *)
LEMMA OrderFollows == IInv => ResultsInOrder
<1> SUFFICES ASSUME IInv
             PROVE  ResultsInOrder
  OBVIOUS
<1>1. /\ DOMAIN calls = 1..Size /\ Size \in Nat
      /\ cursor \in 1..(Size + 1)
  BY Positions DEF IInv, TypeOK
<1>2. Len(results) = cursor - 1 /\ \A k \in 1..(cursor - 1) : results[k] = Result(k)
  BY DEF IInv, LoopInv
<1>3. \A k \in 1..(cursor - 1) : stage[k] = "ended"
  BY <1>1 DEF IInv, LoopInv
<1>4. loop = "returned" => Len(results) = Size
  BY <1>1, <1>2 DEF IInv, LoopInv
<1> QED
  BY <1>2, <1>3, <1>4 DEF ResultsInOrder, Result

(* Losing a tool's action costs its retry budget and nothing more: the body   *)
(* never runs more than max_retries + 1 times.                                *)
THEOREM LossesBounded == Spec => []LossBudget
<1>1. IInv => LossBudget
  BY DEF IInv, LossInv, LossBudget
<1> QED
  BY <1>1, Invariance, PTL

(* A tool call queues at most one detached subagent.                          *)
THEOREM OneInstance == Spec => []AtMostOneInstance
<1>1. IInv => AtMostOneInstance
  BY DEF IInv, DetachInv, AtMostOneInstance
<1> QED
  BY <1>1, Invariance, PTL

(* A mailbox wait overshoots its timeout by less than one poll interval, and  *)
(* never gives up before it.                                                  *)
THEOREM WaitsBounded == Spec => []WaitBounded
<1>1. IInv => WaitBounded
  BY DEF IInv, WaitInv, WaitBounded
<1> QED
  BY <1>1, Invariance, PTL

(* A call that still awaits something has no result yet, so the step that     *)
(* gives it one is its first.                                                 *)
LEMMA ResultStandsInCallStep ==
    ASSUME TypeOK, NEW i \in DOMAIN calls, AwaitInv(i), CallStep(i),
           NEW j \in DOMAIN calls, out[j] # "none"
    PROVE  out'[j] = out[j]
<1> USE DEF AwaitInv, ActionStages
<1>1. CASE i # j
  BY <1>1, OthersUntouched
<1>2. CASE i = j /\ HookStep(i)
  BY <1>2 DEF HookStep, StartHookReturns, EndHookReturns, HookRaises
<1>3. CASE i = j /\ ActionStep(i)
  BY <1>3 DEF ActionStep, ActionStarts, ActionRaises, ActionReruns, ActionGivenUp
<1>4. CASE i = j /\ ToolStep(i)
  BY <1>4 DEF ToolStep, ToolReturns, ToolHandsOver, ToolWaits, ToolAnswers
<1>5. CASE i = j /\ FollowUpStep(i)
  BY <1>5 DEF FollowUpStep, SleepEnds, SubagentReturns, SubagentRaises, Translated,
              DetachQueues, Detached, PollFinds, PollTimesOut, PollIsEmpty, PauseEnds
<1> QED
  BY <1>1, <1>2, <1>3, <1>4, <1>5 DEF CallStep

(* A call's first result is its last: no rerun, late answer or failing        *)
(* sibling replaces it, in any batch (_run_agent_tool_call).                  *)
THEOREM ResultsFinal == Spec => ResultIsFinal
<1>1. IInv /\ [Next]_vars =>
      [\A i \in DOMAIN calls : out[i] # "none" => out'[i] = out[i]]_vars
  <2> SUFFICES ASSUME IInv, [Next]_vars, NEW j \in DOMAIN calls, out[j] # "none"
               PROVE  out'[j] = out[j]
    OBVIOUS
  <2>1. CASE UNCHANGED vars
    BY <2>1 DEF vars, callVars
  <2>2. CASE LoopStep
    BY <2>2 DEF LoopStep, StartSegment, EndSegment, ReturnResults, BatchRaises, callVars
  <2>3. CASE \E i \in DOMAIN calls : CallStep(i)
    BY <2>3, ResultStandsInCallStep DEF IInv
  <2>4. CASE Terminated
    BY <2>4 DEF Terminated, vars, callVars
  <2> QED
    BY <2>1, <2>2, <2>3, <2>4, Positions DEF Next, IInv, TypeOK
<1> QED
  BY <1>1, Invariance, PTL DEF Spec, ResultIsFinal

----------------------------------------------------------------------------
(* ToolBatch implements PlainBatch: every step of the loop and of a coroutine *)
(* is a step of the plain batch, or nothing the agent can see.                *)

(* What the plain batch sees of a state.                                      *)
status == [i \in DOMAIN calls |-> Status(i)]
answer == [i \in DOMAIN calls |-> IF stage[i] = "ended" THEN out[i] ELSE "none"]
handed == IF loop = "returned" THEN [k \in DOMAIN results |-> results[k].kind] ELSE <<>>

(* A coroutine's step opens nothing; it may answer or fail its own call.      *)
LEMMA StatusOfCallStep ==
    ASSUME TypeOK, NEW i \in DOMAIN calls, AwaitInv(i), CallStep(i)
    PROVE  /\ status' = [status EXCEPT ![i] = Status(i)']
           /\ status[i] = "open"
           /\ Status(i)' \in {"open", "answered", "failed"}
<1>1. calls' = calls
  BY CallFrame
<1>2. \A j \in DOMAIN calls : j # i => Status(j)' = Status(j)
  BY OthersUntouched DEF Status
<1>3. stage[i] \notin {"idle", "ended", "raised"} /\ stage'[i] # "idle"
  BY OnlyOpenCallsStep
<1>4. Status(i) = "open" /\ Status(i)' \in {"open", "answered", "failed"}
  BY <1>3 DEF Status
<1>5. status' = [status EXCEPT ![i] = Status(i)']
  BY <1>1, <1>2 DEF status
<1> QED
  BY <1>4, <1>5 DEF status

(* What the plain batch sees of a coroutine's step.                           *)
LEMMA CallStepIsPlain ==
    ASSUME TypeOK, NEW i \in DOMAIN calls, AwaitInv(i), AwaitInv(i)', TypeOK', CallStep(i)
    PROVE  [Plain!Next]_(Plain!vars)
<1>1. UNCHANGED <<calls, loop, results>>
  BY CallFrame
<1>2. /\ status' = [status EXCEPT ![i] = Status(i)']
      /\ status[i] = "open"
      /\ Status(i)' \in {"open", "answered", "failed"}
  BY StatusOfCallStep
<1>3. handed' = handed
  BY <1>1 DEF handed
<1>4. \A j \in DOMAIN calls : j # i => stage'[j] = stage[j] /\ out'[j] = out[j]
  BY OthersUntouched
<1>5. stage[i] # "ended"
  BY OnlyOpenCallsStep
<1>6. CASE Status(i)' = "answered"
  <2>1. stage'[i] = "ended"
    BY <1>6 DEF Status
  <2>2. out'[i] \in Outs \ {"none"}
    BY <1>1, <2>1 DEF AwaitInv, TypeOK
  <2>3. answer' = [answer EXCEPT ![i] = out'[i]]
    BY <1>1, <1>4, <2>1 DEF answer
  <2>4. Plain!Answer(i)
    BY <1>1, <1>2, <1>3, <1>6, <2>2, <2>3 DEF Plain!Answer, status, answer, handed
  <2> QED
    BY <2>4 DEF Plain!Next
<1>7. CASE Status(i)' # "answered"
  <2>1. stage'[i] # "ended"
    BY <1>7 DEF Status
  <2>2. answer' = answer
    BY <1>1, <1>4, <1>5, <2>1 DEF answer
  <2>3. CASE Status(i)' = "failed"
    <3>1. Plain!Fail(i)
      BY <1>1, <1>2, <1>3, <2>2, <2>3 DEF Plain!Fail, status, answer, handed
    <3> QED
      BY <3>1 DEF Plain!Next
  <2>4. CASE Status(i)' = "open"
    <3>1. status' = status
      BY <1>2, <2>4 DEF status
    <3> QED
      BY <1>1, <1>3, <2>2, <3>1 DEF Plain!vars, status, answer, handed
  <2> QED
    BY <1>2, <1>7, <2>3, <2>4
<1> QED
  BY <1>6, <1>7

(* Starting a segment opens its calls: nothing a barrier keeps apart from     *)
(* them is still unanswered.                                                  *)
LEMMA StartIsPlain ==
    ASSUME IInv, BarrierOrder', StartSegment
    PROVE  [Plain!Next]_(Plain!vars)
<1>1. /\ DOMAIN calls = 1..Size /\ Size \in Nat
      /\ cursor \in 1..(Size + 1)
      /\ last = cursor - 1
  BY Positions DEF IInv, TypeOK, StartSegment
<1>2. PICK e \in cursor..Size :
          stage' = [i \in DOMAIN calls |-> IF i \in cursor..e THEN "starting" ELSE stage[i]]
  BY DEF StartSegment
<1> DEFINE S == cursor..e
<1>3. UNCHANGED <<calls, loop, results, out>> /\ loop = "running"
  BY DEF StartSegment
<1>4. S \subseteq DOMAIN calls /\ \A i \in S : stage[i] = "idle"
  BY <1>1, <1>2 DEF IInv, LoopInv
<1>5. \A i \in S : status[i] = "waiting"
  BY <1>4 DEF status, Status
<1>6. ASSUME NEW i \in S, NEW j \in DOMAIN calls, Plain!Separated(j, i)
      PROVE  status[j] = "answered"
  <2>1. Separated(j, i)'
    BY <1>3, <1>6 DEF Plain!Separated, Separated
  <2>2. Begun(i)'
    BY <1>2, <1>4 DEF Begun
  <2>3. stage'[j] = "ended"
    BY <1>3, <1>4, <2>1, <2>2 DEF BarrierOrder
  <2> QED
    BY <1>2, <2>3 DEF status, Status
<1>7. status' = [i \in DOMAIN calls |-> IF i \in S THEN "open" ELSE status[i]]
  BY <1>2, <1>3 DEF status, Status
<1>8. answer' = answer /\ handed' = handed
  BY <1>2, <1>3, <1>4 DEF answer, handed
<1>9. Plain!Open
  BY <1>3, <1>4, <1>5, <1>6, <1>7, <1>8 DEF Plain!Open, status, answer, handed
<1> QED
  BY <1>9 DEF Plain!Next

(* What the plain batch sees of a step of the loop.                           *)
LEMMA LoopStepIsPlain ==
    ASSUME IInv, BarrierOrder', LoopStep
    PROVE  [Plain!Next]_(Plain!vars)
<1>1. CASE StartSegment
  BY <1>1, StartIsPlain
<1>2. CASE EndSegment
  <2>1. UNCHANGED <<calls, loop, stage, out>> /\ loop = "running"
    BY <1>2 DEF EndSegment, callVars
  <2> QED
    BY <2>1 DEF Plain!vars, Status
<1>3. CASE ReturnResults
  <2>1. /\ UNCHANGED <<calls, stage, out, results>>
        /\ loop = "running" /\ loop' = "returned"
        /\ cursor = Size + 1
    BY <1>3 DEF ReturnResults, callVars
  <2>2. DOMAIN calls = 1..Size /\ Size \in Nat
    BY Positions DEF IInv, TypeOK
  <2>3. /\ \A i \in DOMAIN calls : stage[i] = "ended"
        /\ Len(results) = Size
        /\ \A k \in DOMAIN calls : results[k] = Result(k)
    BY <2>1, <2>2 DEF IInv, LoopInv
  <2>4. DOMAIN results = DOMAIN calls
    <3>1. results \in Seq([call : DOMAIN calls, kind : Outs])
      BY DEF IInv, TypeOK
    <3> QED
      BY <2>2, <2>3, <3>1, LenProperties
  <2>5. handed' = answer
    <3>1. handed' = [k \in DOMAIN calls |-> results[k].kind]
      <4>1. loop' = "returned" /\ results' = results
        BY <2>1
      <4>2. handed' = [k \in DOMAIN results |-> results[k].kind]
        BY <4>1 DEF handed
      <4> QED
        BY <2>4, <4>2
    <3>2. \A k \in DOMAIN calls : results[k].kind = out[k]
      <4> TAKE k \in DOMAIN calls
      <4>1. results[k] = Result(k)
        BY <2>3
      <4>2. Result(k).kind = out[k]
        BY DEF Result
      <4> QED
        BY <4>1, <4>2
    <3>3. answer = [k \in DOMAIN calls |-> out[k]]
      BY <2>3 DEF answer
    <3> QED
      BY <3>1, <3>2, <3>3
  <2>6. status' = status /\ answer' = answer /\ \A i \in DOMAIN calls : status[i] = "answered"
    BY <2>1, <2>3 DEF status, answer, Status
  <2>7. Plain!Return
    BY <2>1, <2>5, <2>6 DEF Plain!Return, status, answer, handed
  <2> QED
    BY <2>7 DEF Plain!Next
<1>4. CASE BatchRaises
  <2>1. /\ UNCHANGED <<calls, stage, out, results>>
        /\ loop = "running" /\ loop' = "raised"
        /\ \E i \in cursor..last : stage[i] = "raised"
    BY <1>4 DEF BatchRaises, callVars
  <2>2. cursor..last \subseteq DOMAIN calls
    BY Positions DEF IInv, TypeOK
  <2>3. status' = status /\ answer' = answer /\ handed' = handed
    BY <2>1 DEF status, answer, handed, Status
  <2>4. \E i \in DOMAIN calls : status[i] = "failed"
    BY <2>1, <2>2 DEF status, Status
  <2>5. Plain!Raise
    BY <2>1, <2>3, <2>4 DEF Plain!Raise, status, answer, handed
  <2> QED
    BY <2>5 DEF Plain!Next
<1> QED
  BY <1>1, <1>2, <1>3, <1>4 DEF LoopStep

(* ToolBatch implements PlainBatch: to the agent a batch of durable actions,  *)
(* with their losses, reruns and follow-ups, is a plain batch of tool calls.  *)
THEOREM Implements == Spec => IsPlainBatch
<1>1. Init => Plain!Init
  BY DEF Init, Start, Plain!Init, Status
<1>2. ASSUME IInv, IInv', BarrierOrder', [Next]_vars
      PROVE  [Plain!Next]_(Plain!vars)
  <2>1. CASE LoopStep
    BY <1>2, <2>1, LoopStepIsPlain
  <2>2. CASE \E i \in DOMAIN calls : CallStep(i)
    <3>1. PICK i \in DOMAIN calls : CallStep(i)
      BY <2>2
    <3>2. calls' = calls
      BY <3>1, CallFrame
    <3> QED
      BY <1>2, <3>1, <3>2, CallStepIsPlain DEF IInv
  <2>3. CASE UNCHANGED vars
    BY <2>3 DEF vars, loopVars, callVars, Plain!vars, Status
  <2> QED
    BY <1>2, <2>1, <2>2, <2>3 DEF Next, Terminated
<1> QED
  BY <1>1, <1>2, Invariance, BarriersHold, PTL DEF Spec, IsPlainBatch, Plain!Spec

================================================================================
