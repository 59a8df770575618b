----------------------------- MODULE AgentRunProofs -----------------------------
(****************************************************************************)
(* Theorems about AgentRun, for every agent, batch, budget and number of    *)
(* turns: its invariants, and that a durable run is a plain one.            *)
(*                                                                          *)
(* The argument: the batch of a turn is ToolBatch, so what ToolBatchProofs  *)
(* shows of a batch holds of it (Tool!IInv), and its results are those of   *)
(* the calls the stored node made (MatchInv).  The log of what was answered *)
(* agrees with the results that are on their way (LogInv), so what reaches  *)
(* the model is what was answered; and a checkpoint counts, of each tool,   *)
(* the turns of the log in which it has asked for a retry since it last     *)
(* returned (CountInv): that is what makes the budget hold over turns that  *)
(* run in different processes.                                              *)
(****************************************************************************)
EXTENDS AgentRun, SequenceTheorems, FiniteSetTheorems, TLAPS

Tool == INSTANCE ToolBatchProofs

(* The constants of the batch are as ToolBatch assumes them.                *)
LEMMA ToolAssumptions ==
    /\ Batches \subseteq Seq(Tool!Call)
    /\ Kinds \subseteq Tool!AnswerKinds
    /\ Waits \subseteq Tool!Wait
    /\ Attempts \in Nat \ {0}
  BY BatchesAssumption, KindsAssumption, WaitsAssumption, AttemptsAssumption
  DEF Batch!Call, Tool!Call, Batch!AnswerKinds, Tool!AnswerKinds, Batch!FinalKinds, Tool!FinalKinds, Batch!FollowUps, Tool!FollowUps, Batch!Wait, Tool!Wait

(* The batch of a run moves as ToolBatch does.                              *)
LEMMA SameCallSteps == ASSUME NEW i, Batch!CallStep(i) PROVE Tool!CallStep(i)
<1>1. Batch!HookStep(i) => Tool!HookStep(i)
  BY DEF Batch!HookStep, Tool!HookStep, Batch!StartHookReturns,
      Tool!StartHookReturns, Batch!EndHookReturns, Tool!EndHookReturns,
      Batch!HookRaises, Tool!HookRaises, Batch!Enter, Tool!Enter,
      Batch!ActionStages, Tool!ActionStages, Batch!loopVars, Tool!loopVars
<1>2. Batch!ActionStep(i) => Tool!ActionStep(i)
  BY DEF Batch!ActionStep, Tool!ActionStep, Batch!ActionStarts,
      Tool!ActionStarts, Batch!ActionRaises, Tool!ActionRaises,
      Batch!ActionReruns, Tool!ActionReruns, Batch!ActionGivenUp,
      Tool!ActionGivenUp, Batch!Enter, Tool!Enter, Batch!ActionStages,
      Tool!ActionStages, Batch!Verdict, Tool!Verdict, Batch!CanRetry,
      Tool!CanRetry, Batch!Catches, Tool!Catches, Batch!Budget, Tool!Budget,
      Batch!loopVars, Tool!loopVars
<1>3. Batch!ToolStep(i) => Tool!ToolStep(i)
  BY DEF Batch!ToolStep, Tool!ToolStep, Batch!ToolReturns, Tool!ToolReturns,
      Batch!ToolHandsOver, Tool!ToolHandsOver, Batch!ToolWaits, Tool!ToolWaits,
      Batch!ToolAnswers, Tool!ToolAnswers, Batch!Finish, Tool!Finish,
      Batch!Enter, Tool!Enter, Batch!ActionStages, Tool!ActionStages,
      Batch!FinalKinds, Tool!FinalKinds, Batch!loopVars, Tool!loopVars
<1>4. Batch!FollowUpStep(i) => Tool!FollowUpStep(i)
  BY DEF Batch!FollowUpStep, Tool!FollowUpStep, Batch!SleepEnds, Tool!SleepEnds,
      Batch!SubagentReturns, Tool!SubagentReturns, Batch!SubagentRaises,
      Tool!SubagentRaises, Batch!Translated, Tool!Translated,
      Batch!DetachQueues, Tool!DetachQueues, Batch!Detached, Tool!Detached,
      Batch!PollFinds, Tool!PollFinds, Batch!PollTimesOut, Tool!PollTimesOut,
      Batch!PollIsEmpty, Tool!PollIsEmpty, Batch!PauseEnds, Tool!PauseEnds,
      Batch!Finish, Tool!Finish, Batch!Enter, Tool!Enter, Batch!ActionStages,
      Tool!ActionStages, Batch!Expired, Tool!Expired, Batch!ClockAdvanced,
      Tool!ClockAdvanced, Batch!loopVars, Tool!loopVars
<1> QED BY <1>1, <1>2, <1>3, <1>4 DEF Batch!CallStep, Tool!CallStep

(* The loop of the batch moves as ToolBatch's does.                        *)
LEMMA SameLoopSteps == ASSUME Batch!LoopStep PROVE Tool!LoopStep
  BY DEF Batch!LoopStep, Tool!LoopStep, Batch!StartSegment, Tool!StartSegment,
      Batch!IsSegment, Tool!IsSegment, Batch!EndSegment, Tool!EndSegment,
      Batch!Settled, Tool!Settled, Batch!SegmentResults, Tool!SegmentResults,
      Batch!Result, Tool!Result, Batch!CursorAfterSegment,
      Tool!CursorAfterSegment, Batch!ReturnResults, Tool!ReturnResults,
      Batch!BatchRaises, Tool!BatchRaises, Batch!Size, Tool!Size,
      Batch!callVars, Tool!callVars

(* The types of ToolBatch are those TypeOK asks of the batch.              *)
LEMMA SameTypes == Tool!TypeOK => Batch!TypeOK
  BY DEF Batch!TypeOK, Tool!TypeOK, Batch!Size, Tool!Size, Batch!Outs,
      Tool!Outs, Batch!FinalKinds, Tool!FinalKinds, Batch!Stages, Tool!Stages,
      Batch!ActionStages, Tool!ActionStages, Batch!Acts, Tool!Acts,
      Batch!NoWait, Tool!NoWait

(* run_agent hands a batch over as ToolBatch begins with it.               *)
LEMMA StartIsInit == ASSUME NEW b \in Batches, StartBatch(b) PROVE Tool!Init'
  BY DEF StartBatch, Tool!Init, Tool!Start, Batch!NoWait, Tool!NoWait

(* A batch that begins satisfies the invariant of ToolBatchProofs.         *)
LEMMA ToolInit == Tool!Init => Tool!IInv
  BY Tool!InvInit, ToolAssumptions

(* So does one that a step begins.                                         *)
LEMMA ToolInitNext == Tool!Init' => Tool!IInv'
  BY ToolInit, PTL

(* A step of the batch keeps that invariant.                               *)
LEMMA ToolStep == Tool!IInv /\ [Tool!Next]_(Tool!vars) => Tool!IInv'
  BY Tool!InvStep, ToolAssumptions
----------------------------------------------------------------------------
(* The inductive invariant.                                                 *)

Roles == {"prompt", "prior", "response", "returns", "retry"}

Messages == [role : Roles, body : Batches \union Seq(Tool!FinalKinds)]

Checkpoints ==
    [node : [kind : NodeKinds, message : Messages], history : Seq(Messages),
     tool_retries : [Tools -> Nat], failed_tools : SUBSET Tools, succeeded_tools : SUBSET Tools]

ControlTypes ==
    /\ pc \in Pcs
    /\ node_act \in {"none", "queued", "running"}
    /\ node_act # "none" => pc = "node"
    /\ attempt \in Nat
    /\ node_runs \in Nat

DataTypes ==
    /\ checkpoint \in Checkpoints
    /\ checkpoint.node.kind = "call_tools" =>
          Pending \in Batches /\ checkpoint.node.message.role = "response"
    /\ checkpoint.node.kind = "user_prompt" => checkpoint.node.message.role = "prompt"
    /\ transition \in [calls : Batches, approvals : BOOLEAN, text : BOOLEAN]
    /\ tool_results \in Seq([call : Nat, kind : Tool!FinalKinds])

(* The node has run at most once per attempt, and not yet in the one that   *)
(* is queued.                                                               *)
BudgetInv ==
    /\ node_runs <= attempt
    /\ node_act = "queued" => node_runs < attempt
    /\ attempt <= Attempts
    /\ pc = "backoff" => attempt < Attempts

(* Calls and results belong to the stored node, on their way to the batch   *)
(* and on their way back; between two batches there are none.               *)
MatchInv ==
    /\ pc \in {"starting", "node", "backoff", "messages"} => calls = <<>>
    /\ pc = "starting" => tool_results = <<>>
    /\ pc \in {"node", "backoff"} /\ tool_results # <<>> =>
          /\ checkpoint.node.kind = "call_tools"
          /\ Len(tool_results) = Len(Pending)
          /\ \A k \in DOMAIN tool_results : tool_results[k].call = k
    /\ pc = "messages" /\ transition.calls # <<>> =>
          /\ checkpoint.node.kind = "call_tools"
          /\ transition.calls = Pending
    /\ pc = "batch" /\ calls # <<>> =>
          /\ checkpoint.node.kind = "call_tools"
          /\ calls = Pending
    /\ pc = "ending" => checkpoint.node.kind = "call_tools" /\ Pending = <<>>

Failures  == {"retry_prompt", "model_retry"}
Successes == {"return"}

(* What is logged of the turn under way.                                    *)
Logged == {a \in answers : a.turn = Turn}

(* The log is of turns so far; of the turn under way it holds what the      *)
(* calls have answered, then the results on their way to the node, and      *)
(* nothing before the calls are handed over.                                *)
LogInv ==
    /\ answers \subseteq [turn : Nat, call : Nat, tool : Tools, kind : Tool!FinalKinds]
    /\ \A a \in answers : a.turn <= Turn
    /\ pc = "batch" /\ calls # <<>> =>
          Logged = {AnswerOf(i, out[i]) : i \in {j \in DOMAIN calls : out[j] # "none"}}
    /\ pc \in {"node", "backoff"} /\ tool_results # <<>> =>
          Logged = {[turn |-> Turn, call |-> k, tool |-> Pending[k].tool,
                     kind |-> tool_results[k].kind] : k \in DOMAIN tool_results}
    /\ /\ checkpoint.node.kind = "call_tools"
       /\ \/ pc \in {"starting", "messages"}
          \/ pc \in {"node", "backoff"} /\ tool_results = <<>>
          \/ pc = "batch" /\ calls = <<>>
       => Logged = {}

(* Streak, of any log.                                                      *)
LogTurns(log, t, kinds) == {a.turn : a \in {b \in log : b.tool = t /\ b.kind \in kinds}}

LogStreak(log, t, turn) ==
    {n \in LogTurns(log, t, Failures) :
        /\ n < turn
        /\ \A m \in LogTurns(log, t, Successes) \ LogTurns(log, t, Failures) : m < n \/ m >= turn}

CountsOf(log, turn) == [t \in Tools |-> Cardinality(LogStreak(log, t, turn))]

(* A stored call-tools node carries the counts of the turns before its own; *)
(* any other carries those of the turn that is over as well.                *)
CountInv ==
    /\ checkpoint.node.kind = "call_tools" =>
          /\ checkpoint.failed_tools = {} /\ checkpoint.succeeded_tools = {}
          /\ CountsOf(answers, Turn) = checkpoint.tool_retries
    /\ checkpoint.node.kind # "call_tools" => CountsOf(answers, Turn + 1) = StepCounts
    /\ pc \in {"node", "backoff"} /\ tool_results # <<>> =>
          \A k \in DOMAIN tool_results : tool_results[k].kind = "retry_prompt" =>
              checkpoint.tool_retries[Pending[k].tool] < Pending[k].max_retries

AgentInv ==
    /\ ControlTypes /\ DataTypes /\ BudgetInv /\ MatchInv /\ LogInv /\ CountInv
    /\ NodeInHistory /\ AnswersReachModel

(* RetryBudget, by the counts of the tools there are.                       *)
BudgetKept ==
    \A i \in DOMAIN calls :
        out[i] = "retry_prompt" => CountsOf(answers, Turn)[calls[i].tool] < calls[i].max_retries

IInv == AgentInv /\ BudgetKept /\ Tool!IInv

----------------------------------------------------------------------------
(* The counts and the log.                                                  *)

(* Streak is LogStreak of the log.                                          *)
LEMMA SameStreak == \A t, n : Streak(t, n) = LogStreak(answers, t, n)
  BY DEF Streak, LogStreak, Prompting, Clearing, TurnsOf, LogTurns, Failures, Successes

(* A streak depends on the turns before it only.                            *)
LEMMA StreakOfPast ==
    ASSUME NEW log, NEW new, NEW t, NEW turn \in Nat,
           \A a \in log \union new : a.turn \in Nat,
           \A a : a.turn < turn => (a \in log <=> a \in new)
    PROVE  LogStreak(new, t, turn) = LogStreak(log, t, turn)
<1>1. \A kinds, n : n < turn => (n \in LogTurns(new, t, kinds) <=> n \in LogTurns(log, t, kinds))
  BY DEF LogTurns
<1>2. \A kinds : \A n \in LogTurns(new, t, kinds) \union LogTurns(log, t, kinds) : n \in Nat
  BY DEF LogTurns
<1> DEFINE P == LogTurns(log, t, Failures)  C == LogTurns(log, t, Successes) \ P
           Q == LogTurns(new, t, Failures)  D == LogTurns(new, t, Successes) \ Q
<1>3. \A n : n < turn => (n \in P <=> n \in Q) /\ (n \in C <=> n \in D)
  BY <1>1
<1>4. \A n \in P \union Q \union C \union D : n \in Nat
  BY <1>2
<1>5. /\ LogStreak(log, t, turn) = {n \in P : n < turn /\ \A m \in C : m < n \/ m >= turn}
      /\ LogStreak(new, t, turn) = {n \in Q : n < turn /\ \A m \in D : m < n \/ m >= turn}
  BY DEF LogStreak
<1> HIDE DEF P, C, Q, D
<1>6. \A m \in C \union D : m >= turn \/ m < turn
  BY <1>4
<1>7. \A n : n < turn => ((\A m \in C : m < n \/ m >= turn) <=> (\A m \in D : m < n \/ m >= turn))
  BY <1>3, <1>6
<1> QED BY <1>3, <1>5, <1>7

(* Every turn of a log that ends with turn k is before k + 1.               *)
LEMMA StreakAfterLast ==
    ASSUME NEW log, NEW t, NEW k \in Nat, NEW n \in Nat, k < n,
           \A a \in log : a.turn \in Nat /\ a.turn <= k
    PROVE  LogStreak(log, t, n) = LogStreak(log, t, k + 1)
<1>1. \A kinds : \A m \in LogTurns(log, t, kinds) : m \in Nat /\ m <= k
  BY DEF LogTurns
<1> QED BY <1>1 DEF LogStreak

(* A streak is finite, and without a log there is none.                     *)
LEMMA StreakIsFinite ==
    ASSUME NEW log, NEW t, NEW n \in Nat, \A a \in log : a.turn \in Nat
    PROVE  IsFiniteSet(LogStreak(log, t, n))
<1>1. LogStreak(log, t, n) \in SUBSET (0..n)
  BY DEF LogStreak, LogTurns
<1>2. IsFiniteSet(0..n)
  BY FS_Interval
<1> QED BY <1>1, <1>2, FS_Subset

(* What the last turn of a log does to a streak.                            *)
LEMMA StreakOfLast ==
    ASSUME NEW log, NEW t, NEW k \in Nat, \A a \in log : a.turn \in Nat /\ a.turn <= k
    PROVE  LogStreak(log, t, k + 1) =
              IF k \in LogTurns(log, t, Failures) THEN LogStreak(log, t, k) \union {k}
              ELSE IF k \in LogTurns(log, t, Successes) THEN {} ELSE LogStreak(log, t, k)
<1> DEFINE P == LogTurns(log, t, Failures)
           C == LogTurns(log, t, Successes) \ LogTurns(log, t, Failures)
<1>1. \A kinds : \A m \in LogTurns(log, t, kinds) : m \in Nat /\ m <= k
  BY DEF LogTurns
<1>2. (\A m \in P : m \in Nat /\ m <= k) /\ (\A m \in C : m \in Nat /\ m <= k /\ m \notin P)
  BY <1>1
<1>3. \A n : LogStreak(log, t, n) = {x \in P : x < n /\ \A m \in C : m < x \/ m >= n}
  BY DEF LogStreak
<1>4. k \in C <=> k \in LogTurns(log, t, Successes) /\ k \notin P
  OBVIOUS
<1> HIDE DEF P, C
<1>5. CASE k \in P
  <2>1. {x \in P : x < k + 1 /\ \A m \in C : m < x \/ m >= k + 1}
            = {x \in P : x < k /\ \A m \in C : m < x \/ m >= k} \union {k}
    <3>1. \A x \in P : x < k => ((\A m \in C : m < x \/ m >= k + 1)
                                  <=> (\A m \in C : m < x \/ m >= k))
      BY <1>2, <1>5
    <3>2. \A m \in C : m < k
      BY <1>2, <1>5
    <3>3. \A x \in P : x < k + 1 <=> x < k \/ x = k
      BY <1>2
    <3> QED BY <1>5, <3>1, <3>2, <3>3
  <2> QED BY <1>3, <1>5, <2>1 DEF P
<1>6. CASE k \notin P /\ k \in C
  <2>1. {x \in P : x < k + 1 /\ \A m \in C : m < x \/ m >= k + 1} = {}
    BY <1>2, <1>6
  <2> QED BY <1>3, <1>4, <1>6, <2>1 DEF P
<1>7. CASE k \notin P /\ k \notin C
  <2>1. {x \in P : x < k + 1 /\ \A m \in C : m < x \/ m >= k + 1}
            = {x \in P : x < k /\ \A m \in C : m < x \/ m >= k}
    BY <1>2, <1>7
  <2> QED BY <1>3, <1>4, <1>7, <2>1 DEF P
<1> QED BY <1>5, <1>6, <1>7

(* Taking a turn up advances the counts as the tool manager does.           *)
LEMMA CountsAdvance ==
    ASSUME NEW log, NEW k \in Nat, \A a \in log : a.turn \in Nat /\ a.turn <= k,
           NEW failed, NEW succeeded,
           \A t \in Tools : t \in failed <=> k \in LogTurns(log, t, Failures),
           \A t \in Tools : t \in succeeded <=> k \in LogTurns(log, t, Successes)
    PROVE  CountsOf(log, k + 1) = Advance(CountsOf(log, k), failed, succeeded)
<1> SUFFICES ASSUME NEW t \in Tools
             PROVE  Cardinality(LogStreak(log, t, k + 1))
                      = IF t \in failed THEN Cardinality(LogStreak(log, t, k)) + 1
                        ELSE IF t \in succeeded THEN 0 ELSE Cardinality(LogStreak(log, t, k))
  BY DEF CountsOf, Advance
<1> DEFINE S == LogStreak(log, t, k)
<1>1. IsFiniteSet(S) /\ k \notin S
  BY StreakIsFinite DEF LogStreak
<1>2. Cardinality(S \union {k}) = Cardinality(S) + 1 /\ Cardinality({}) = 0
  BY <1>1, FS_AddElement, FS_EmptySet
<1> QED BY <1>2, StreakOfLast

(* The counts of a turn stand while only later turns are added to the log.  *)
LEMMA CountsOfPast ==
    ASSUME NEW log, NEW new, NEW turn \in Nat,
           \A a \in log \union new : a.turn \in Nat,
           \A a : a.turn < turn => (a \in log <=> a \in new)
    PROVE  CountsOf(new, turn) = CountsOf(log, turn)
  BY StreakOfPast DEF CountsOf

(* They are those of any turn the log has not reached.                      *)
LEMMA CountsAfterLast ==
    ASSUME NEW log, NEW k \in Nat, NEW n \in Nat, k < n,
           \A a \in log : a.turn \in Nat /\ a.turn <= k
    PROVE  CountsOf(log, n) = CountsOf(log, k + 1)
  BY StreakAfterLast DEF CountsOf

----------------------------------------------------------------------------
(* Messages that a run makes.                                               *)
LEMMA MessageTypes ==
    /\ Message("prompt", <<>>) \in Messages /\ Message("prior", <<>>) \in Messages
    /\ Message("retry", <<>>) \in Messages
    /\ \A b \in Batches : Message("response", b) \in Messages
    /\ \A s \in Seq(Tool!FinalKinds) : Message("returns", s) \in Messages
  BY NoCallsAssumption DEF Message, Messages, Roles

(* Retry counts are counts.                                                 *)
LEMMA AdvanceTypes ==
    ASSUME NEW counts \in [Tools -> Nat], NEW failed, NEW succeeded
    PROVE  Advance(counts, failed, succeeded) \in [Tools -> Nat]
  BY DEF Advance

(* Counts that nothing is added to stand.                                   *)
LEMMA AdvanceByNone ==
    ASSUME NEW counts \in [Tools -> Nat]
    PROVE  Advance(counts, {}, {}) = counts
  BY DEF Advance

(* A position of a batch has a call of one of the tools.                    *)
LEMMA BatchCalls ==
    ASSUME NEW b \in Batches
    PROVE  /\ Len(b) \in Nat /\ DOMAIN b = 1..Len(b)
           /\ b # <<>> => Len(b) > 0
           /\ \A k \in DOMAIN b : b[k].tool \in Tools /\ b[k].max_retries \in Nat
<1>1. b \in Seq(Tool!Call)
  BY ToolAssumptions
<1>2. Len(b) \in Nat /\ DOMAIN b = 1..Len(b)
  BY <1>1, LenProperties
<1>3. b # <<>> => Len(b) > 0
  BY <1>1, EmptySeq
<1>4. \A k \in DOMAIN b : b[k] \in Tool!Call
  BY <1>1, <1>2, ElementOfSeq
<1> QED BY <1>2, <1>3, <1>4 DEF Tool!Call

(* A run begins with no results, no counts and an empty batch.             *)
LEMMA InvInit == Init => IInv
<1> SUFFICES ASSUME Init PROVE IInv OBVIOUS
<1>1. PICK history \in {<<>>, <<Message("prior", <<>>)>>} : checkpoint = FreshCheckpoint(history)
  BY DEF Init
<1>2. history \in Seq(Messages)
  <2>1. \A m \in Messages : <<m>> \in Seq(Messages)
    OBVIOUS
  <2> QED BY <2>1, MessageTypes, EmptySeq
<1>3. /\ checkpoint \in Checkpoints /\ checkpoint.node.kind = "user_prompt"
      /\ checkpoint.node.message.role = "prompt"
  BY <1>1, <1>2, MessageTypes DEF FreshCheckpoint, Node, Prompt, Message, Checkpoints, NodeKinds
<1>4. tool_results \in Seq([call : Nat, kind : Tool!FinalKinds])
  BY EmptySeq DEF Init
<1>5. ControlTypes /\ DataTypes
  BY <1>3, <1>4, NoCallsAssumption DEF Init, ControlTypes, DataTypes, Pcs, NoCalls
<1>6. BudgetInv
  BY AttemptsAssumption DEF Init, BudgetInv
<1>7. MatchInv /\ NodeInHistory
  BY <1>3 DEF Init, Batch!Start, MatchInv, NodeInHistory
<1>8. CountsOf({}, Turn + 1) = StepCounts
  <2>1. Cardinality({}) = 0 /\ \A t, n : LogStreak({}, t, n) = {}
    BY FS_EmptySet DEF LogStreak, LogTurns
  <2> QED BY <1>1, <2>1 DEF CountsOf, StepCounts, Advance, FreshCheckpoint
<1>9. LogInv /\ CountInv
  BY <1>3, <1>8, NoCallsAssumption DEF Init, Batch!Start, LogInv, CountInv
<1>10. AnswersReachModel
  BY <1>1, <1>3 DEF AnswersReachModel, Conversation, FreshCheckpoint, Message
<1>11. Tool!Init
  BY NoCallsAssumption DEF Init, Tool!Init, Tool!Start, Batch!Start, Tool!NoWait, Batch!NoWait
<1>12. BudgetKept
  BY DEF Init, Batch!Start, BudgetKept
<1> QED BY <1>5, <1>6, <1>7, <1>9, <1>10, <1>11, <1>12, ToolInit DEF IInv, AgentInv

----------------------------------------------------------------------------
(* Steps that dispatch the node, await it or give it up: the checkpoint,    *)
(* the results and the batch stand.                                         *)

(* What follows from the turn's own state holds as long as it stands.      *)
LEMMA TurnStands ==
    ASSUME IInv, UNCHANGED turnVars
    PROVE  /\ DataTypes' /\ NodeInHistory' /\ AnswersReachModel' /\ BudgetKept' /\ Tool!IInv'
           /\ Pending' = Pending /\ StepCounts' = StepCounts /\ Turn' = Turn /\ Logged' = Logged
           /\ \A S : CallsAnswered(S)' = CallsAnswered(S)
<1> USE DEF turnVars, batchVars, IInv, AgentInv
<1>1. Pending' = Pending
  BY DEF Pending
<1>2. StepCounts' = StepCounts
  BY DEF StepCounts, Advance
<1>3. \A S : CallsAnswered(S)' = CallsAnswered(S)
  BY DEF CallsAnswered, Pending
<1>4. DataTypes'
  BY <1>1 DEF DataTypes
<1>5. Turn' = Turn /\ Logged' = Logged
  BY DEF Turn, Logged
<1>7. NodeInHistory' /\ AnswersReachModel'
  BY DEF NodeInHistory, AnswersReachModel, Conversation
<1>8. BudgetKept'
  BY <1>5 DEF BudgetKept
<1>6. Tool!IInv'
  BY ToolStep DEF Tool!vars, Tool!loopVars, Tool!callVars
<1> QED BY <1>1, <1>2, <1>3, <1>4, <1>5, <1>6, <1>7, <1>8

(* The run fails or ends, from wherever it was.                             *)
LEMMA StopKeeps ==
    ASSUME IInv, pc' \in {"failed", "ending", "done"}, node_act' = "none",
           pc' = "ending" => checkpoint.node.kind = "call_tools" /\ Pending = <<>>,
           UNCHANGED <<attempt, node_runs, turnVars>>
    PROVE  IInv'
<1>1. ControlTypes' /\ BudgetInv' /\ MatchInv'
  BY TurnStands DEF IInv, AgentInv, ControlTypes, BudgetInv, MatchInv, Pcs, turnVars
<1>2. CountInv' /\ LogInv'
  BY TurnStands DEF IInv, AgentInv, CountInv, LogInv, turnVars
<1> QED BY <1>1, <1>2, TurnStands DEF IInv, AgentInv

Stops ==
    \/ NodeGivenUp \/ NodeRaises \/ ResultsRefused \/ HookRaises \/ RefuseApprovals
    \/ BatchFails \/ AgentEnds \/ Done

(* Every way to stop keeps the invariant.                                  *)
LEMMA StopsKeep == ASSUME IInv, Stops PROVE IInv'
<1>1. /\ pc' \in {"failed", "ending", "done"}
      /\ pc' = "ending" => checkpoint.node.kind = "call_tools" /\ Pending = <<>>
      /\ UNCHANGED <<attempt, node_runs, turnVars>>
  BY DEF Stops, NodeGivenUp, NodeRaises, ResultsRefused, HookRaises, RefuseApprovals,
         BatchFails, AgentEnds, Done, Fails
<1>2. node_act' = "none"
  BY DEF Stops, NodeGivenUp, NodeRaises, ResultsRefused, HookRaises, RefuseApprovals,
         BatchFails, AgentEnds, Done, Fails, IInv, AgentInv, ControlTypes
<1> QED BY <1>1, <1>2, StopKeeps

(* A node is dispatched for the first time, or again after a backoff.       *)
LEMMA DispatchKeeps ==
    ASSUME IInv, AgentStarts \/ NodeStarts \/ NodeBacksOff \/ BackoffEnds
    PROVE  IInv'
<1> USE DEF IInv, AgentInv
<1>1. UNCHANGED turnVars
  BY DEF AgentStarts, NodeStarts, NodeBacksOff, BackoffEnds
<1>2. CASE AgentStarts
  <2>1. ControlTypes' /\ BudgetInv'
    BY <1>2, AttemptsAssumption DEF AgentStarts, NextTransition, ControlTypes, BudgetInv, Pcs
  <2>2. MatchInv' /\ LogInv' /\ CountInv'
    BY <1>1, <1>2, TurnStands
    DEF AgentStarts, NextTransition, MatchInv, LogInv, CountInv, turnVars, batchVars
  <2> QED BY <1>1, <2>1, <2>2, TurnStands
<1>3. CASE NodeStarts
  <2>1. ControlTypes' /\ BudgetInv'
    BY <1>3, AttemptsAssumption DEF NodeStarts, ControlTypes, BudgetInv
  <2>2. MatchInv' /\ LogInv' /\ CountInv'
    BY <1>1, <1>3, TurnStands DEF NodeStarts, MatchInv, LogInv, CountInv, ControlTypes, turnVars, batchVars
  <2> QED BY <1>1, <2>1, <2>2, TurnStands
<1>4. CASE NodeBacksOff
  <2>1. ControlTypes' /\ BudgetInv'
    BY <1>4 DEF NodeBacksOff, NodeComesToNothing, MayTryAgain, ControlTypes, BudgetInv, Pcs
  <2>2. pc = "node" /\ pc' = "backoff"
    BY <1>4 DEF NodeBacksOff, NodeComesToNothing, ControlTypes
  <2>3. MatchInv' /\ LogInv' /\ CountInv'
    BY <1>1, <2>2, TurnStands DEF MatchInv, LogInv, CountInv, turnVars, batchVars
  <2> QED BY <1>1, <2>1, <2>3, TurnStands
<1>5. CASE BackoffEnds
  <2>1. ControlTypes' /\ BudgetInv'
    BY <1>5, AttemptsAssumption
    DEF BackoffEnds, AttemptAfterBackoff, ControlTypes, BudgetInv, Pcs
  <2>2. MatchInv' /\ LogInv' /\ CountInv'
    BY <1>1, <1>5, TurnStands DEF BackoffEnds, MatchInv, LogInv, CountInv, turnVars, batchVars
  <2> QED BY <1>1, <2>1, <2>2, TurnStands
<1> QED BY <1>2, <1>3, <1>4, <1>5

----------------------------------------------------------------------------
(* Steps of the node's body: a new checkpoint, and what is left to do.      *)

(* The batch does not move while the body of the node runs.                *)
LEMMA BatchStands ==
    ASSUME IInv, UNCHANGED batchVars
    PROVE  Tool!IInv'
  BY ToolStep DEF IInv, batchVars, Tool!vars, Tool!loopVars, Tool!callVars

(* Where the node runs: results only come back to a call-tools node, and    *)
(* its turn is the last of the log.                                         *)
LEMMA AtNode ==
    ASSUME IInv, node_act = "running"
    PROVE  /\ pc = "node"
           /\ tool_results # <<>> => checkpoint.node.kind = "call_tools"
           /\ checkpoint \in Checkpoints /\ checkpoint.history \in Seq(Messages)
           /\ Turn = Len(checkpoint.history) /\ Turn \in Nat
           /\ \A a \in answers : a.turn \in Nat /\ a.turn <= Turn
<1>1. checkpoint \in Checkpoints /\ checkpoint.history \in Seq(Messages)
  BY DEF IInv, AgentInv, DataTypes, Checkpoints
<1>2. Turn = Len(checkpoint.history) /\ Turn \in Nat
  BY <1>1, LenProperties DEF Turn
<1> QED BY <1>1, <1>2 DEF IInv, AgentInv, ControlTypes, MatchInv, LogInv

(* What a transition must be like to keep the invariant.                    *)
LEMMA TransitionKeeps ==
    ASSUME IInv,
           NEW next \in Checkpoints, NEW left \in [calls : Batches, approvals : BOOLEAN, text : BOOLEAN],
           Transition(next, left),
           next.node.kind = "call_tools" =>
              /\ next.node.message.body \in Batches /\ next.node.message.role = "response"
              /\ next.history # <<>>
              /\ next.history[Len(next.history)] = next.node.message
              /\ next.failed_tools = {} /\ next.succeeded_tools = {}
              /\ CountsOf(answers, Len(next.history)) = next.tool_retries
              /\ \A a \in answers : a.turn # Len(next.history),
           next.node.kind # "call_tools" =>
              /\ next.node.kind = "model_request"
              /\ CountsOf(answers, Len(next.history) + 1)
                    = Advance(next.tool_retries, next.failed_tools, next.succeeded_tools),
           left.calls # <<>> =>
              next.node.kind = "call_tools" /\ left.calls = next.node.message.body,
           Len(checkpoint.history) <= Len(next.history),
           AnswersReachModel'
    PROVE  IInv'
<1> USE DEF IInv, AgentInv, Transition
<1>1. /\ checkpoint' = next /\ transition' = left /\ pc' = "messages" /\ answers' = answers
      /\ UNCHANGED batchVars
  OBVIOUS
<1>2. ControlTypes' /\ BudgetInv'
  BY DEF ControlTypes, BudgetInv, Pcs
<1>3. DataTypes'
  BY DEF DataTypes, Pending
<1>4. NodeInHistory'
  BY DEF NodeInHistory
<1>5. MatchInv'
  <2>1. calls = <<>> /\ calls' = calls
    BY <1>1, AtNode DEF batchVars, MatchInv
  <2> QED BY <1>1, <2>1 DEF MatchInv, Pending
<1>6. Turn' = Len(next.history) /\ Turn = Len(checkpoint.history) /\ Turn \in Nat /\ Turn' \in Nat
  <2>1. checkpoint.history \in Seq(Messages) /\ next.history \in Seq(Messages)
    BY DEF DataTypes, Checkpoints
  <2> QED BY <1>1, <2>1, LenProperties DEF Turn
<1>7. StepCounts' = Advance(next.tool_retries, next.failed_tools, next.succeeded_tools)
  BY <1>1 DEF StepCounts, Advance
<1>8. CountInv'
  BY <1>1, <1>6, <1>7 DEF CountInv
<1>9. LogInv'
  <2>1. \A a \in answers : a.turn \in Nat /\ a.turn <= Turn'
    BY <1>6 DEF LogInv
  <2>2. next.node.kind = "call_tools" => Logged' = {}
    BY <1>1, <1>6 DEF Logged
  <2> QED BY <1>1, <2>1, <2>2 DEF LogInv
<1>10. BudgetKept'
  BY <1>1 DEF BudgetKept, MatchInv, ControlTypes, batchVars
<1> QED BY <1>1, <1>2, <1>3, <1>4, <1>5, <1>8, <1>9, <1>10, BatchStands

(* A sequence one message is appended to.                                   *)
LEMMA OneMore ==
    ASSUME NEW S, NEW h \in Seq(S), NEW x
    PROVE  /\ DOMAIN h = 1..Len(h) /\ Len(h) \in Nat
           /\ DOMAIN Append(h, x) = 1..(Len(h) + 1)
           /\ Append(h, x)[Len(h) + 1] = x
           /\ \A k \in DOMAIN h : Append(h, x)[k] = h[k]
<1>1. DOMAIN h = 1..Len(h) /\ Len(h) \in Nat
  BY LenProperties
<1>2. h \in Seq(S \union {x})
  BY <1>1, SeqDef
<1> QED BY <1>1, <1>2, AppendProperties, LenProperties

(* The next request: one of results is of what the log has of the turn.     *)
LEMMA NewRequest ==
    ASSUME IInv, checkpoint.node.kind # "model_request",
           checkpoint'.node.kind = "model_request",
           checkpoint'.history = checkpoint.history, answers' = answers,
           checkpoint'.node.message.role = "returns" =>
              /\ Turn >= 1 /\ checkpoint.history[Turn].role = "response"
              /\ Logged = {[turn |-> Turn, call |-> i, tool |-> checkpoint.history[Turn].body[i].tool,
                            kind |-> checkpoint'.node.message.body[i]] :
                              i \in DOMAIN checkpoint.history[Turn].body}
    PROVE  AnswersReachModel'
<1> DEFINE h == checkpoint.history  m == checkpoint'.node.message
           Reached(c, k) == {[turn |-> k - 1, call |-> i, tool |-> c[k - 1].body[i].tool,
                              kind |-> c[k].body[i]] : i \in DOMAIN c[k - 1].body}
<1>1. h \in Seq(Messages)
  BY DEF IInv, AgentInv, DataTypes, Checkpoints
<1>2. Conversation = h /\ Conversation' = Append(h, m) /\ Turn = Len(h)
  BY DEF Conversation, Turn
<1>3. /\ DOMAIN h = 1..Len(h) /\ Len(h) \in Nat /\ DOMAIN Append(h, m) = 1..(Len(h) + 1)
      /\ Append(h, m)[Len(h) + 1] = m /\ \A k \in DOMAIN h : Append(h, m)[k] = h[k]
  BY <1>1, OneMore
<1>4. AnswersReachModel
  BY DEF IInv, AgentInv
<1> SUFFICES ASSUME NEW k \in DOMAIN Conversation', Conversation'[k].role = "returns"
             PROVE  /\ k > 1 /\ Conversation'[k - 1].role = "response"
                    /\ {a \in answers : a.turn = k - 1} = Reached(Conversation', k)
  BY DEF AnswersReachModel
<1>5. CASE k \in DOMAIN h
  <2>1. Conversation'[k] = h[k]
    BY <1>2, <1>3, <1>5
  <2>2. k > 1 /\ h[k - 1].role = "response" /\ {a \in answers : a.turn = k - 1} = Reached(h, k)
    BY <1>2, <1>4, <1>5, <2>1 DEF AnswersReachModel
  <2>3. k - 1 \in DOMAIN h /\ Conversation'[k - 1] = h[k - 1]
    BY <1>2, <1>3, <1>5, <2>2
  <2> QED BY <2>1, <2>2, <2>3
<1>6. CASE k = Len(h) + 1
  <2>1. Conversation'[k] = m /\ m.role = "returns" /\ k - 1 = Turn
    BY <1>2, <1>3, <1>6
  <2>2. Turn >= 1 /\ h[Turn].role = "response"
    BY <2>1
  <2>3. Conversation'[Turn] = h[Turn]
    BY <1>2, <1>3, <2>2
  <2>4. {a \in answers : a.turn = k - 1} = Logged
    BY <2>1 DEF Logged
  <2> QED BY <1>3, <1>6, <2>1, <2>2, <2>3, <2>4
<1> QED BY <1>2, <1>3, <1>5, <1>6

(* UserPromptNode: the request is built, nothing is counted.               *)
LEMMA BuildRequestKeeps == ASSUME IInv, BuildRequest PROVE IInv'
<1> DEFINE next == [checkpoint EXCEPT !.node = Node("model_request", @.message)]
<1>1. /\ Transition(next, NoCalls) /\ node_act = "running" /\ answers' = answers
      /\ checkpoint.node.kind = "user_prompt" /\ checkpoint.node.message.role = "prompt"
  BY DEF BuildRequest, Transition, IInv, AgentInv, DataTypes
<1>2. checkpoint \in Checkpoints /\ Len(checkpoint.history) = Turn /\ Turn \in Nat
  BY <1>1, AtNode
<1>3. /\ next \in Checkpoints /\ next.node.kind = "model_request"
      /\ next.tool_retries = checkpoint.tool_retries
      /\ next.failed_tools = checkpoint.failed_tools
      /\ next.succeeded_tools = checkpoint.succeeded_tools
      /\ next.history = checkpoint.history
      /\ next.node.message = checkpoint.node.message
  BY <1>2 DEF Checkpoints, Node, NodeKinds
<1>4. CountsOf(answers, Turn + 1) = StepCounts
  BY <1>1 DEF IInv, AgentInv, CountInv
<1>5. NoCalls \in [calls : Batches, approvals : BOOLEAN, text : BOOLEAN] /\ NoCalls.calls = <<>>
  BY NoCallsAssumption DEF NoCalls
<1>6. CountsOf(answers, Turn + 1)
          = Advance(next.tool_retries, next.failed_tools, next.succeeded_tools)
  BY <1>3, <1>4 DEF StepCounts
<1> HIDE DEF next
<1>7. AnswersReachModel'
  BY <1>1, <1>3, NewRequest DEF Transition
<1> QED BY <1>1, <1>2, <1>3, <1>5, <1>6, <1>7, TransitionKeeps

(* A sequence that two messages join ends with the second.                  *)
LEMMA LastOfTwo ==
    ASSUME NEW S, NEW h \in Seq(S), NEW x \in S, NEW y \in S
    PROVE  /\ h \o <<x, y>> \in Seq(S)
           /\ h \o <<x, y>> # <<>>
           /\ (h \o <<x, y>>)[Len(h \o <<x, y>>)] = y
           /\ Len(h \o <<x, y>>) = Len(h) + 2 /\ Len(h) \in Nat
           /\ \A k \in 1..Len(h) + 1 : (h \o <<x, y>>)[k] = Append(h, x)[k]
<1> DEFINE d == <<x, y>>
<1>1. d \in Seq(S) /\ Len(d) = 2 /\ d[1] = x /\ d[2] = y
  OBVIOUS
<1> HIDE DEF d
<1>2. /\ h \o d \in Seq(S) /\ Len(h) \in Nat /\ Len(h \o d) = Len(h) + 2
      /\ (h \o d)[Len(h) + 2] = d[2]
  <2>1. Len(h) \in Nat
    BY LenProperties
  <2>2. /\ h \o d \in Seq(S) /\ Len(h \o d) = Len(h) + Len(d)
        /\ \A i \in 1..Len(h) + Len(d) :
              (h \o d)[i] = IF i <= Len(h) THEN h[i] ELSE d[i - Len(h)]
    BY <1>1, ConcatProperties
  <2>3. /\ Len(h) + 2 \in 1..Len(h) + 2 /\ ~(Len(h) + 2 <= Len(h))
        /\ (Len(h) + 2) - Len(h) = 2
    BY <2>1
  <2> HIDE DEF d
  <2> QED BY <1>1, <2>1, <2>2, <2>3
<1>3. h \o d # <<>>
  BY <1>2, EmptySeq
<1>4. \A k \in 1..Len(h) + 1 : (h \o d)[k] = Append(h, x)[k]
  <2>1. \A k \in 1..Len(h) + 2 : (h \o d)[k] = IF k <= Len(h) THEN h[k] ELSE d[k - Len(h)]
    BY <1>1, <1>2, ConcatProperties
  <2>2. \A k \in 1..Len(h) + 1 : (h \o d)[k] = IF k <= Len(h) THEN h[k] ELSE x
    BY <1>1, <1>2, <2>1
  <2>3. \A k \in 1..Len(h) + 1 : Append(h, x)[k] = IF k <= Len(h) THEN h[k] ELSE x
    BY <1>2, OneMore
  <2> QED BY <2>2, <2>3
<1> QED BY <1>1, <1>2, <1>3, <1>4 DEF d

(* ModelRequestNode: a new run step takes up the counts.                   *)
LEMMA AskModelKeeps == ASSUME IInv, AskModel PROVE IInv'
<1>1. PICK b \in Replies, text \in BOOLEAN :
        Transition(
            [node |-> Node("call_tools", Message("response", b)),
             history |-> checkpoint.history
                         \o HistoryDelta(checkpoint.node.message, Message("response", b)),
             tool_retries |-> StepCounts, failed_tools |-> {}, succeeded_tools |-> {}],
            [NoCalls EXCEPT !.text = text])
  BY DEF AskModel
<1> DEFINE response == Message("response", b)
           next == [node |-> Node("call_tools", response),
                    history |-> checkpoint.history \o HistoryDelta(checkpoint.node.message, response),
                    tool_retries |-> StepCounts, failed_tools |-> {}, succeeded_tools |-> {}]
           left == [NoCalls EXCEPT !.text = text]
<1>2. /\ checkpoint \in Checkpoints /\ node_act = "running" /\ answers' = answers
      /\ checkpoint.node.kind = "model_request" /\ checkpoint.history \in Seq(Messages)
      /\ Turn = Len(checkpoint.history) /\ Turn \in Nat
      /\ \A a \in answers : a.turn \in Nat /\ a.turn <= Turn
  BY <1>1, AtNode DEF AskModel, Transition
<1>3. b \in Batches
  BY NoCallsAssumption DEF Replies
<1>4. /\ response \in Messages /\ checkpoint.node.message \in Messages
      /\ response.body = b /\ response.role = "response"
  BY <1>2, <1>3, MessageTypes DEF Checkpoints, Message
<1> HIDE DEF response
<1>5. /\ next.history \in Seq(Messages) /\ next.history # <<>>
      /\ next.history[Len(next.history)] = response
      /\ Len(next.history) = Turn + 2
      /\ \A k \in 1..Turn + 1 : next.history[k] = Append(checkpoint.history, checkpoint.node.message)[k]
  BY <1>2, <1>4, LastOfTwo DEF HistoryDelta
<1>6. StepCounts \in [Tools -> Nat]
  BY <1>2, AdvanceTypes DEF StepCounts, Checkpoints
<1>7. next \in Checkpoints
  BY <1>4, <1>5, <1>6 DEF Checkpoints, Node, NodeKinds
<1>8. left \in [calls : Batches, approvals : BOOLEAN, text : BOOLEAN] /\ left.calls = <<>>
  BY NoCallsAssumption DEF NoCalls
<1>9. CountsOf(answers, Len(next.history)) = next.tool_retries
  <2>1. CountsOf(answers, Turn + 1) = StepCounts
    BY <1>2 DEF IInv, AgentInv, CountInv
  <2>2. CountsOf(answers, Turn + 2) = CountsOf(answers, Turn + 1)
    <3>1. Turn + 2 \in Nat /\ Turn < Turn + 2
      BY <1>2
    <3> QED BY <1>2, <3>1, CountsAfterLast
  <2> QED BY <1>5, <2>1, <2>2
<1>10. next.node.message = response /\ next.failed_tools = {} /\ next.succeeded_tools = {}
  BY DEF Node
<1>11. Transition(next, left)
  BY <1>1 DEF response
<1>12. next.node.kind = "call_tools"
  BY DEF Node
<1> HIDE DEF next, left
<1>13. \A a \in answers : a.turn # Len(next.history)
  <2>1. Len(next.history) = Turn + 2
    BY <1>5
  <2> QED BY <1>2, <2>1
<1>14. AnswersReachModel'
  <2> DEFINE h == checkpoint.history  m == checkpoint.node.message
  <2>1. Conversation = Append(h, m) /\ Conversation' = next.history
    BY <1>2, <1>11, <1>12 DEF Conversation, Transition
  <2>2. DOMAIN Conversation = 1..(Turn + 1) /\ DOMAIN Conversation' = 1..(Turn + 2)
    BY <1>2, <1>5, <2>1, OneMore, LenProperties
  <2>3. AnswersReachModel
    BY DEF IInv, AgentInv
  <2> SUFFICES ASSUME NEW k \in DOMAIN Conversation', Conversation'[k].role = "returns"
               PROVE  /\ k > 1 /\ Conversation'[k - 1].role = "response"
                      /\ {a \in answers : a.turn = k - 1} =
                            {[turn |-> k - 1, call |-> i, tool |-> Conversation'[k - 1].body[i].tool,
                              kind |-> Conversation'[k].body[i]] : i \in DOMAIN Conversation'[k - 1].body}
    BY <1>2 DEF AnswersReachModel
  <2>4. k \in 1..(Turn + 1) /\ Conversation'[k] = Conversation[k]
    BY <1>2, <1>4, <1>5, <2>1, <2>2
  <2>5. k > 1 /\ Conversation[k - 1].role = "response"
    BY <2>2, <2>3, <2>4 DEF AnswersReachModel
  <2>6. Conversation'[k - 1] = Conversation[k - 1]
    BY <1>2, <1>5, <2>1, <2>4, <2>5
  <2> QED BY <2>2, <2>3, <2>4, <2>5, <2>6 DEF AnswersReachModel
<1> QED BY <1>2, <1>3, <1>4, <1>5, <1>7, <1>8, <1>9, <1>10, <1>11, <1>13, <1>12, <1>14, TransitionKeeps

(* CallToolsNode: its calls go to the batch.                               *)
LEMMA HandOverKeeps == ASSUME IInv, HandOverCalls PROVE IInv'
<1>1. PICK approvals \in BOOLEAN :
        Transition(checkpoint, [calls |-> Pending, approvals |-> approvals, text |-> FALSE])
  BY DEF HandOverCalls
<1>2. /\ checkpoint.node.kind = "call_tools" /\ Pending \in Batches
      /\ tool_results = <<>> /\ node_act = "running" /\ checkpoint.node.message.role = "response"
      /\ checkpoint' = checkpoint /\ answers' = answers
  BY <1>1 DEF HandOverCalls, Transition, IInv, AgentInv, DataTypes
<1>3. checkpoint \in Checkpoints /\ Len(checkpoint.history) = Turn /\ Turn \in Nat
  BY <1>2, AtNode
<1>4. /\ checkpoint.failed_tools = {} /\ checkpoint.succeeded_tools = {}
      /\ CountsOf(answers, Turn) = checkpoint.tool_retries
  BY <1>2 DEF IInv, AgentInv, CountInv
<1>5. \A a \in answers : a.turn # Turn
  BY <1>2, AtNode DEF IInv, AgentInv, LogInv, Logged
<1>6. AnswersReachModel'
  BY <1>2 DEF IInv, AgentInv, AnswersReachModel, Conversation
<1>7. /\ checkpoint.history # <<>>
      /\ checkpoint.history[Len(checkpoint.history)] = checkpoint.node.message
      /\ checkpoint.node.message.body = Pending
  BY <1>2 DEF IInv, AgentInv, NodeInHistory, Pending
<1> DEFINE left == [calls |-> Pending, approvals |-> approvals, text |-> FALSE]
<1>8. /\ left \in [calls : Batches, approvals : BOOLEAN, text : BOOLEAN]
      /\ left.calls = checkpoint.node.message.body /\ Transition(checkpoint, left)
  BY <1>1, <1>2, <1>7
<1> HIDE DEF left
<1> QED BY <1>2, <1>3, <1>4, <1>5, <1>6, <1>7, <1>8, TransitionKeeps

(* Where the results are those of the calls, keying them by id changes      *)
(* nothing.                                                                 *)
LEMMA ByIdInOrder ==
    ASSUME tool_results \in Seq([call : Nat, kind : Tool!FinalKinds]),
           \A k \in DOMAIN tool_results : tool_results[k].call = k
    PROVE  ResultsById = [k \in DOMAIN tool_results |-> tool_results[k].kind]
<1> DEFINE D == DOMAIN tool_results
<1>1. D \subseteq Nat
  BY LenProperties
<1>2. {tool_results[k].call : k \in D} = D
  OBVIOUS
<1>3. \A id \in D : {k \in D : tool_results[k].call = id} = {id}
  OBVIOUS
<1>4. \A id \in D : LastOf({id}) = id
  BY <1>1 DEF LastOf
<1> QED BY <1>2, <1>3, <1>4 DEF ResultsById

(* The results a node is resumed with: those of its calls, as logged.       *)
LEMMA Resumed ==
    ASSUME IInv, ResumeCalls
    PROVE  /\ checkpoint \in Checkpoints /\ checkpoint.node.kind = "call_tools" /\ Pending \in Batches
           /\ tool_results # <<>> /\ tool_results \in Seq([call : Nat, kind : Tool!FinalKinds])
           /\ DOMAIN tool_results = 1..Len(tool_results) /\ Len(tool_results) \in Nat
           /\ DOMAIN tool_results = DOMAIN Pending /\ Len(tool_results) = Len(Pending)
           /\ \A k \in DOMAIN tool_results : tool_results[k].call = k
           /\ Logged = {[turn |-> Turn, call |-> k, tool |-> Pending[k].tool,
                         kind |-> tool_results[k].kind] : k \in DOMAIN tool_results}
           /\ ResultsById = [k \in DOMAIN tool_results |-> tool_results[k].kind]
           /\ pc = "node" /\ node_act = "running" /\ answers' = answers
<1>1. /\ checkpoint \in Checkpoints /\ checkpoint.node.kind = "call_tools" /\ Pending \in Batches
      /\ tool_results # <<>> /\ tool_results \in Seq([call : Nat, kind : Tool!FinalKinds])
      /\ node_act = "running" /\ answers' = answers
  BY DEF ResumeCalls, Transition, IInv, AgentInv, DataTypes
<1>2. DOMAIN tool_results = 1..Len(tool_results) /\ Len(tool_results) \in Nat
  BY <1>1, LenProperties
<1>3. pc = "node"
  BY <1>1, AtNode
<1>4. /\ Len(tool_results) = Len(Pending)
      /\ \A k \in DOMAIN tool_results : tool_results[k].call = k
  BY <1>1, <1>3 DEF IInv, AgentInv, MatchInv
<1>5. DOMAIN tool_results = DOMAIN Pending
  BY <1>1, <1>2, <1>4, BatchCalls
<1>6. Logged = {[turn |-> Turn, call |-> k, tool |-> Pending[k].tool,
                 kind |-> tool_results[k].kind] : k \in DOMAIN tool_results}
  BY <1>1, <1>3 DEF IInv, AgentInv, LogInv
<1> QED BY <1>1, <1>2, <1>3, <1>4, <1>5, <1>6, ByIdInOrder

(* CallToolsNode: the results of its calls are counted and become the      *)
(* next request.                                                           *)
LEMMA ResumeKeeps == ASSUME IInv, ResumeCalls PROVE IInv'
<1> DEFINE kinds == [k \in DOMAIN tool_results |-> tool_results[k].kind]
           next == [checkpoint EXCEPT
                      !.node = Node("model_request", Message("returns", kinds)),
                      !.failed_tools = @ \union CallsAnswered(Failures),
                      !.succeeded_tools = @ \union CallsAnswered(Successes)]
<1>1. Transition(next, NoCalls)
  BY Resumed DEF ResumeCalls, Failures, Successes
<1>2. kinds \in Seq(Tool!FinalKinds)
  <2>1. \A k \in 1..Len(tool_results) : tool_results[k] \in [call : Nat, kind : Tool!FinalKinds]
    BY Resumed, ElementOfSeq
  <2>2. \A k \in 1..Len(tool_results) : tool_results[k].kind \in Tool!FinalKinds
    BY <2>1
  <2>3. kinds \in [1..Len(tool_results) -> Tool!FinalKinds]
    BY <2>2, Resumed
  <2> QED BY <2>3, Resumed, SeqDef
<1>3. \A k \in DOMAIN tool_results : kinds[k] = tool_results[k].kind
  OBVIOUS
<1> HIDE DEF kinds
<1>4. Message("returns", kinds) \in Messages
  BY <1>2, MessageTypes
<1>5. /\ checkpoint.failed_tools = {} /\ checkpoint.succeeded_tools = {}
      /\ CountsOf(answers, Turn) = checkpoint.tool_retries
  BY Resumed DEF IInv, AgentInv, CountInv
<1>6. \A S : CallsAnswered(S) = {Pending[k].tool : k \in {j \in DOMAIN tool_results :
                                                            tool_results[j].kind \in S}}
  BY Resumed DEF CallsAnswered
<1>7. \A S : CallsAnswered(S) \subseteq Tools
  BY <1>6, Resumed, BatchCalls
<1>8. /\ next.node.kind = "model_request" /\ next.tool_retries = checkpoint.tool_retries
      /\ next.failed_tools = CallsAnswered(Failures)
      /\ next.succeeded_tools = CallsAnswered(Successes)
      /\ next.history = checkpoint.history /\ next.node.message = Message("returns", kinds)
  BY <1>5, Resumed DEF Checkpoints, Node
<1>9. next \in Checkpoints
  BY <1>4, <1>7, Resumed DEF Checkpoints, Node, NodeKinds
<1>10. NoCalls \in [calls : Batches, approvals : BOOLEAN, text : BOOLEAN] /\ NoCalls.calls = <<>>
  BY NoCallsAssumption DEF NoCalls
<1>11. Len(checkpoint.history) = Turn /\ Turn \in Nat
  BY Resumed, AtNode
<1>12. \A t, S : t \in CallsAnswered(S) <=> Turn \in LogTurns(answers, t, S)
  <2>1. ASSUME NEW t, NEW S, t \in CallsAnswered(S) PROVE Turn \in LogTurns(answers, t, S)
    <3>1. PICK k \in DOMAIN tool_results : Pending[k].tool = t /\ tool_results[k].kind \in S
      BY <1>6, <2>1
    <3> DEFINE a == [turn |-> Turn, call |-> k, tool |-> Pending[k].tool, kind |-> tool_results[k].kind]
    <3>2. a \in Logged
      BY Resumed
    <3>3. a \in answers /\ a.turn = Turn /\ a.tool = t /\ a.kind \in S
      BY <3>1, <3>2 DEF Logged
    <3> QED BY <3>3 DEF LogTurns
  <2>2. ASSUME NEW t, NEW S, Turn \in LogTurns(answers, t, S) PROVE t \in CallsAnswered(S)
    <3>1. PICK a \in Logged : a.tool = t /\ a.kind \in S
      BY <2>2 DEF LogTurns, Logged
    <3>2. PICK k \in DOMAIN tool_results : a = [turn |-> Turn, call |-> k, tool |-> Pending[k].tool,
                                                kind |-> tool_results[k].kind]
      BY Resumed
    <3> QED BY <1>6, <3>1, <3>2
  <2> QED BY <2>1, <2>2
<1>13. CountsOf(answers, Turn + 1)
          = Advance(next.tool_retries, next.failed_tools, next.succeeded_tools)
  BY <1>5, <1>8, <1>12, CountsAdvance, AtNode, Resumed
<1>14. Turn >= 1 /\ checkpoint.history[Turn] = checkpoint.node.message
       /\ checkpoint.node.message.role = "response" /\ checkpoint.node.message.body = Pending
  <2>1. /\ checkpoint.history # <<>> /\ checkpoint.history \in Seq(Messages)
        /\ checkpoint.history[Turn] = checkpoint.node.message
    BY <1>11, Resumed, AtNode DEF IInv, AgentInv, NodeInHistory
  <2>2. Turn # 0
    BY <1>11, <2>1, EmptySeq
  <2> QED BY <1>11, <2>1, <2>2, Resumed DEF IInv, AgentInv, DataTypes, Pending
<1>15. next.node.message.body = kinds
  BY <1>8 DEF Message
<1> HIDE DEF next
<1>16. AnswersReachModel'
  BY <1>1, <1>3, <1>8, <1>14, <1>15, Resumed, NewRequest DEF Transition
<1> QED BY <1>1, <1>8, <1>9, <1>10, <1>11, <1>13, <1>16, TransitionKeeps

(* CallToolsNode: a refused output is asked for again.                     *)
LEMMA RejectKeeps == ASSUME IInv, RejectOutput PROVE IInv'
<1> DEFINE next == [checkpoint EXCEPT !.node = Node("model_request", Message("retry", <<>>))]
<1>1. Transition(next, NoCalls) /\ node_act = "running" /\ answers' = answers
  BY DEF RejectOutput, Transition
<1>2. checkpoint \in Checkpoints /\ checkpoint.node.kind = "call_tools" /\ Pending = <<>>
  BY DEF RejectOutput, IInv, AgentInv, DataTypes
<1>3. Message("retry", <<>>) \in Messages /\ Message("retry", <<>>).role # "returns"
  BY MessageTypes DEF Message
<1>4. /\ next \in Checkpoints /\ next.node.kind = "model_request"
      /\ next.tool_retries = checkpoint.tool_retries
      /\ next.failed_tools = {} /\ next.succeeded_tools = {}
      /\ next.history = checkpoint.history /\ next.node.message.role # "returns"
  BY <1>2, <1>3 DEF Checkpoints, Node, NodeKinds, IInv, AgentInv, CountInv
<1>5. tool_results = <<>>
  <2>1. tool_results # <<>> => Len(tool_results) = 0
    BY <1>1, <1>2, AtNode DEF IInv, AgentInv, MatchInv
  <2> QED BY <2>1, EmptySeq DEF IInv, AgentInv, DataTypes
<1>6. Len(checkpoint.history) = Turn /\ Turn \in Nat
  BY <1>1, AtNode
<1>7. CountsOf(answers, Turn + 1)
          = Advance(next.tool_retries, next.failed_tools, next.succeeded_tools)
  <2>1. CountsOf(answers, Turn) = checkpoint.tool_retries
    BY <1>2 DEF IInv, AgentInv, CountInv
  <2>2. Logged = {}
    BY <1>1, <1>2, <1>5, AtNode DEF IInv, AgentInv, LogInv
  <2>3. \A t, S : Turn \notin LogTurns(answers, t, S)
    BY <2>2 DEF Logged, LogTurns
  <2>4. /\ \A t \in Tools : t \in {} <=> Turn \in LogTurns(answers, t, Failures)
        /\ \A t \in Tools : t \in {} <=> Turn \in LogTurns(answers, t, Successes)
    BY <2>3
  <2> QED BY <1>1, <1>4, <2>1, <2>4, CountsAdvance, AtNode
<1>8. NoCalls \in [calls : Batches, approvals : BOOLEAN, text : BOOLEAN] /\ NoCalls.calls = <<>>
  BY NoCallsAssumption DEF NoCalls
<1> HIDE DEF next
<1>9. AnswersReachModel'
  BY <1>1, <1>2, <1>4, NewRequest DEF Transition
<1>10. Len(checkpoint.history) <= Len(next.history)
  BY <1>4, <1>6
<1>11. /\ next.node.kind # "call_tools"
       /\ CountsOf(answers, Len(next.history) + 1)
            = Advance(next.tool_retries, next.failed_tools, next.succeeded_tools)
  BY <1>4, <1>6, <1>7
<1> QED BY <1>1, <1>4, <1>8, <1>9, <1>10, <1>11, TransitionKeeps

----------------------------------------------------------------------------
(* Steps of the batch, from its calls to its results.                       *)

(* The calls of the transition become the batch.                           *)
LEMMA HandleToolsKeeps == ASSUME IInv, HandleTools PROVE IInv'
<1> USE DEF IInv, AgentInv, HandleTools
<1>1. transition.calls \in Batches
  BY DEF DataTypes
<1>2. ControlTypes' /\ BudgetInv'
  BY DEF ControlTypes, BudgetInv, Pcs
<1>3. DataTypes'
  BY NoCallsAssumption DEF DataTypes, Pending, NoCalls
<1>4. NodeInHistory' /\ AnswersReachModel'
  BY DEF NodeInHistory, AnswersReachModel, Conversation
<1>5. MatchInv'
  BY DEF MatchInv, StartBatch, Pending
<1>6. Turn' = Turn /\ Logged' = Logged /\ StepCounts' = StepCounts
  BY DEF Turn, Logged, StepCounts, Advance
<1>7. CountInv'
  BY <1>6 DEF CountInv
<1>8. LogInv'
  <2>1. /\ pc = "messages" /\ pc' = "batch" /\ calls' = transition.calls
        /\ out' = [k \in DOMAIN calls' |-> "none"] /\ UNCHANGED <<checkpoint, answers, tool_results>>
    BY DEF StartBatch
  <2>2. checkpoint.node.kind = "call_tools" => Logged = {}
    BY <2>1 DEF LogInv
  <2>3. calls' # <<>> => checkpoint.node.kind = "call_tools"
    BY <2>1 DEF MatchInv
  <2>4. {AnswerOf(k, out[k]) : k \in {n \in DOMAIN calls : out[n] # "none"}}' = {}
    BY <2>1
  <2> QED BY <1>6, <2>1, <2>2, <2>3, <2>4 DEF LogInv
<1>9. BudgetKept'
  BY DEF StartBatch, BudgetKept
<1>10. Tool!IInv'
  BY <1>1, StartIsInit, ToolInitNext
<1> QED BY <1>2, <1>3, <1>4, <1>5, <1>7, <1>8, <1>9, <1>10

(* What a step under the batch leaves alone.                                *)
LEMMA AgentStands ==
    ASSUME IInv, UNCHANGED agentVars, calls' = calls
    PROVE  /\ ControlTypes' /\ DataTypes' /\ BudgetInv' /\ MatchInv' /\ NodeInHistory'
           /\ Turn' = Turn /\ StepCounts' = StepCounts
<1> USE DEF IInv, AgentInv, agentVars
<1>1. ControlTypes' /\ BudgetInv'
  BY DEF ControlTypes, BudgetInv
<1>2. DataTypes' /\ NodeInHistory'
  BY DEF DataTypes, NodeInHistory, Pending
<1>3. MatchInv'
  BY DEF MatchInv, Pending
<1>4. Turn' = Turn /\ StepCounts' = StepCounts
  BY DEF Turn, StepCounts, Advance
<1> QED BY <1>1, <1>2, <1>3, <1>4

(* And one that answers no call leaves the log alone.                       *)
LEMMA LogStands ==
    ASSUME IInv, UNCHANGED <<agentVars, answers, calls, out>>
    PROVE  AgentInv' /\ BudgetKept'
<1> USE DEF IInv, AgentInv, agentVars
<1>1. ControlTypes' /\ DataTypes' /\ BudgetInv' /\ MatchInv' /\ NodeInHistory'
      /\ Turn' = Turn /\ StepCounts' = StepCounts
  BY AgentStands
<1>2. Logged' = Logged
  BY <1>1 DEF Logged
<1>3. LogInv'
  BY <1>1, <1>2 DEF LogInv, AnswerOf, Pending
<1>4. CountInv' /\ BudgetKept'
  BY <1>1 DEF CountInv, BudgetKept, Pending
<1>5. AnswersReachModel'
  BY DEF AnswersReachModel, Conversation
<1> QED BY <1>1, <1>3, <1>4, <1>5

(* The loop over the batch answers no call.                                *)
LEMMA LoopKeeps == ASSUME IInv, LoopMoves PROVE IInv'
<1>1. Tool!LoopStep /\ UNCHANGED <<agentVars, answers>>
  BY SameLoopSteps DEF LoopMoves
<1>2. calls' = calls /\ out' = out
  BY <1>1 DEF Tool!LoopStep, Tool!StartSegment, Tool!EndSegment, Tool!ReturnResults,
              Tool!BatchRaises, Tool!callVars
<1>3. Tool!IInv'
  BY <1>1, ToolStep DEF IInv, Tool!Next
<1> QED BY <1>1, <1>2, <1>3, LogStands DEF IInv

(* Under a batch of calls the counts are those the checkpoint restored.     *)
LEMMA CountsInBatch ==
    ASSUME IInv, pc = "batch", calls # <<>>
    PROVE  /\ checkpoint.node.kind = "call_tools" /\ calls = Pending
           /\ CountsOf(answers, Turn) = checkpoint.tool_retries
  BY DEF IInv, AgentInv, MatchInv, CountInv

(* A call answers once, and a retry prompt only within the budget the       *)
(* checkpoint restored; the log has the answer, and no earlier turn's count *)
(* is changed.                                                              *)
LEMMA CallKeeps == ASSUME IInv, NEW i \in DOMAIN calls, CallMoves(i) PROVE IInv'
<1> USE DEF IInv, AgentInv
<1>1. Tool!CallStep(i) /\ UNCHANGED agentVars /\ pc = "batch"
  BY SameCallSteps DEF CallMoves
<1>2. calls' = calls /\ calls # <<>> /\ calls \in Batches
  BY <1>1, Tool!CallFrame, ToolAssumptions DEF Tool!IInv, Tool!TypeOK
<1>3. Tool!IInv'
  BY <1>1, ToolStep DEF Tool!Next
<1>4. \A j \in DOMAIN calls : j # i => out'[j] = out[j]
  BY <1>1, Tool!OthersUntouched, ToolAssumptions DEF Tool!IInv
<1>5. /\ ControlTypes' /\ DataTypes' /\ BudgetInv' /\ MatchInv' /\ NodeInHistory'
      /\ Turn' = Turn /\ StepCounts' = StepCounts
  BY <1>1, <1>2, AgentStands
<1>6. out[i] # "none" => out'[i] = out[i]
  BY <1>1, Tool!ResultStandsInCallStep, ToolAssumptions DEF Tool!IInv
<1>7. out[i] \in Tool!Outs /\ out'[i] \in Tool!Outs
  BY <1>2, <1>3 DEF Tool!IInv, Tool!TypeOK
<1> DEFINE new == AnswerOf(i, out'[i])
<1>8. answers' = IF out'[i] = out[i] THEN answers ELSE answers \union {new}
  BY DEF CallMoves
<1>9. i \in Nat /\ calls[i].tool \in Tools /\ Turn \in Nat
  <2>1. checkpoint.history \in Seq(Messages)
    BY DEF DataTypes, Checkpoints
  <2> QED BY <1>2, <2>1, BatchCalls, LenProperties DEF Turn
<1>10. new.turn = Turn
  BY DEF AnswerOf
<1>11. out'[i] # out[i] => new \in [turn : Nat, call : Nat, tool : Tools, kind : Tool!FinalKinds]
  BY <1>6, <1>7, <1>9 DEF AnswerOf, Seen, Tool!Outs, Tool!FinalKinds
<1>12. \A a : a.turn < Turn => (a \in answers <=> a \in answers')
  BY <1>8, <1>9, <1>10
<1>13. CountsOf(answers', Turn) = CountsOf(answers, Turn)
  <2>1. \A a \in answers \union answers' : a.turn \in Nat
    BY <1>8, <1>9, <1>10 DEF LogInv
  <2> QED BY <1>9, <1>12, <2>1, CountsOfPast
<1>14. checkpoint.node.kind = "call_tools" /\ CountsOf(answers, Turn) = checkpoint.tool_retries
  BY <1>1, <1>2, CountsInBatch
<1>15. CountInv'
  BY <1>1, <1>5, <1>13, <1>14 DEF CountInv, agentVars
<1>16. LogInv'
  <2>1. Logged = {AnswerOf(k, out[k]) : k \in {n \in DOMAIN calls : out[n] # "none"}}
    BY <1>1, <1>2 DEF LogInv
  <2>2. Logged' = IF out'[i] = out[i] THEN Logged ELSE Logged \union {new}
    BY <1>5, <1>8, <1>10 DEF Logged
  <2>3. CASE out'[i] = out[i]
    <3>1. \A k \in DOMAIN calls : out'[k] = out[k]
      BY <1>4, <2>3
    <3>2. {AnswerOf(k, out[k]) : k \in {n \in DOMAIN calls : out[n] # "none"}}'
            = {AnswerOf(k, out[k]) : k \in {n \in DOMAIN calls : out[n] # "none"}}
      BY <1>2, <1>5, <3>1 DEF AnswerOf
    <3> QED BY <1>1, <1>2, <1>5, <1>8, <2>1, <2>2, <2>3, <3>2 DEF LogInv, agentVars
  <2>4. CASE out'[i] # out[i]
    <3>1. out[i] = "none" /\ out'[i] # "none"
      BY <1>6, <2>4
    <3>2. {n \in DOMAIN calls : out'[n] # "none"} = {n \in DOMAIN calls : out[n] # "none"} \union {i}
      BY <1>4, <3>1
    <3>3. {AnswerOf(k, out'[k]) : k \in {n \in DOMAIN calls : out'[n] # "none"}}
            = {AnswerOf(k, out[k]) : k \in {n \in DOMAIN calls : out[n] # "none"}} \union {new}
      BY <1>4, <3>1, <3>2
    <3>4. {AnswerOf(k, out[k]) : k \in {n \in DOMAIN calls : out[n] # "none"}}'
            = {AnswerOf(k, out'[k]) : k \in {n \in DOMAIN calls : out'[n] # "none"}}
      BY <1>2, <1>5 DEF AnswerOf
    <3>5. \A a \in answers' : a \in [turn : Nat, call : Nat, tool : Tools, kind : Tool!FinalKinds]
                              /\ a.turn <= Turn
      BY <1>8, <1>9, <1>10, <1>11, <2>4 DEF LogInv
    <3> QED BY <1>1, <1>2, <1>5, <2>1, <2>2, <2>4, <3>3, <3>4, <3>5 DEF LogInv, agentVars
  <2> QED BY <2>3, <2>4
<1>17. BudgetKept'
  <2>1. out'[i] = "retry_prompt" => checkpoint.tool_retries[calls[i].tool] < calls[i].max_retries
    BY DEF CallMoves
  <2> QED BY <1>2, <1>4, <1>5, <1>13, <1>14, <2>1 DEF BudgetKept
<1>18. AnswersReachModel'
  <2>1. Conversation = checkpoint.history /\ Conversation' = Conversation
    BY <1>1, <1>14 DEF Conversation, agentVars
  <2>2. \A k \in DOMAIN Conversation : k \in Nat /\ k <= Turn
    <3>1. checkpoint.history \in Seq(Messages)
      BY DEF DataTypes, Checkpoints
    <3> QED BY <2>1, <3>1, LenProperties DEF Turn
  <2>3. \A k \in DOMAIN Conversation : {a \in answers' : a.turn = k - 1} = {a \in answers : a.turn = k - 1}
    BY <1>8, <1>9, <1>10, <2>2
  <2> QED BY <2>1, <2>3 DEF AnswersReachModel
<1> QED BY <1>3, <1>5, <1>15, <1>16, <1>17, <1>18

(* The results of a returned batch are those of its calls, in their order.  *)
LEMMA CollectedResults ==
    ASSUME IInv, BatchReturns
    PROVE  /\ Collected \in Seq([call : Nat, kind : Tool!FinalKinds])
           /\ Len(Collected) = Len(calls)
           /\ DOMAIN Collected = DOMAIN calls
           /\ \A k \in DOMAIN Collected :
                 Collected[k].call = k /\ Collected[k].kind = Seen(out[k]) /\ out[k] # "none"
<1>1. /\ calls \in Batches
      /\ results \in Seq([call : DOMAIN calls, kind : Tool!Outs])
  BY DEF IInv, Tool!IInv, Tool!TypeOK
<1>2. Len(calls) \in Nat /\ DOMAIN calls = 1..Len(calls)
  BY <1>1, BatchCalls
<1>3. /\ Len(results) = Len(calls)
      /\ \A k \in 1..Len(results) :
            results[k].call = k /\ results[k].kind = out[k] /\ results[k].kind # "none"
  <2>1. Tool!ResultsInOrder
    BY Tool!OrderFollows, ToolAssumptions DEF IInv
  <2>2. \A k \in DOMAIN calls : stage[k] = "ended" => out[k] # "none"
    BY DEF IInv, Tool!IInv, Tool!AwaitInv
  <2> QED BY <1>2, <2>1, <2>2 DEF BatchReturns, Tool!ResultsInOrder, Tool!Size
<1>4. DOMAIN results = 1..Len(calls)
  BY <1>1, <1>3, LenProperties
<1>5. \A k \in 1..Len(calls) : results[k] \in [call : DOMAIN calls, kind : Tool!Outs]
  BY <1>1, <1>3, ElementOfSeq
<1>6. \A k \in 1..Len(calls) :
          /\ Collected[k] \in [call : Nat, kind : Tool!FinalKinds]
          /\ Collected[k].call = k
          /\ Collected[k].kind = Seen(out[k]) /\ out[k] # "none"
  BY <1>3, <1>4, <1>5 DEF Collected, Seen, Tool!Outs, Tool!FinalKinds
<1>7. Collected \in [1..Len(calls) -> [call : Nat, kind : Tool!FinalKinds]]
  BY <1>4, <1>6 DEF Collected
<1>8. Collected \in Seq([call : Nat, kind : Tool!FinalKinds]) /\ Len(Collected) = Len(calls)
  BY <1>2, <1>7, Tool!FunctionIsSeq, ToolAssumptions
<1> QED BY <1>2, <1>6, <1>7, <1>8

(* The results go to the node that asked for them, and what they add to    *)
(* the counts is still to be taken up.                                     *)
LEMMA ReturnsKeep == ASSUME IInv, BatchReturns PROVE IInv'
<1> USE DEF IInv, AgentInv
<1>1. /\ pc = "batch" /\ pc' = "node" /\ node_act' = "queued" /\ attempt' = 1 /\ node_runs' = 0
      /\ checkpoint' = checkpoint /\ transition' = transition /\ tool_results' = Collected
      /\ answers' = answers /\ calls' = <<>>
  BY DEF BatchReturns, NextTransition, NextResults, StartBatch
<1>2. calls \in Batches
  BY DEF Tool!IInv, Tool!TypeOK
<1>3. ControlTypes' /\ BudgetInv'
  BY <1>1, AttemptsAssumption DEF ControlTypes, BudgetInv, Pcs
<1>4. DataTypes'
  BY <1>1, CollectedResults DEF DataTypes, Pending
<1>5. NodeInHistory' /\ AnswersReachModel'
  BY <1>1 DEF NodeInHistory, AnswersReachModel, Conversation
<1>6. Collected # <<>> <=> calls # <<>>
  BY <1>2, CollectedResults, BatchCalls, EmptySeq
<1>7. MatchInv'
  BY <1>1, <1>6, CollectedResults, CountsInBatch DEF MatchInv, Pending
<1>8. Turn' = Turn /\ Logged' = Logged /\ StepCounts' = StepCounts /\ Pending' = Pending
  BY <1>1 DEF Turn, Logged, StepCounts, Advance, Pending
<1>9. CountInv'
  <2>1. ASSUME NEW k \in DOMAIN Collected, Collected # <<>>, Collected[k].kind = "retry_prompt"
        PROVE  checkpoint.tool_retries[Pending[k].tool] < Pending[k].max_retries
    <3>1. out[k] = "retry_prompt" /\ k \in DOMAIN calls
      BY <2>1, CollectedResults DEF Seen
    <3> QED BY <1>1, <1>6, <2>1, <3>1, CountsInBatch DEF BudgetKept
  <2> QED BY <1>1, <1>8, <2>1 DEF CountInv
<1>10. LogInv'
  <2>1. CASE Collected # <<>>
    <3>1. Logged = {AnswerOf(k, out[k]) : k \in {n \in DOMAIN calls : out[n] # "none"}}
      BY <1>1, <1>6, <2>1 DEF LogInv
    <3>2. {n \in DOMAIN calls : out[n] # "none"} = DOMAIN Collected
      BY CollectedResults
    <3>3. \A k \in DOMAIN Collected :
              AnswerOf(k, out[k]) = [turn |-> Turn, call |-> k, tool |-> Pending[k].tool,
                                     kind |-> Collected[k].kind]
      BY <1>1, <1>6, <2>1, CollectedResults, CountsInBatch DEF AnswerOf
    <3>4. Logged = {[turn |-> Turn, call |-> k, tool |-> Pending[k].tool,
                     kind |-> Collected[k].kind] : k \in DOMAIN Collected}
      BY <3>1, <3>2, <3>3
    <3> QED BY <1>1, <1>8, <2>1, <3>4 DEF LogInv
  <2>2. CASE Collected = <<>>
    BY <1>1, <1>6, <1>8, <2>2 DEF LogInv
  <2> QED BY <2>1, <2>2
<1>11. BudgetKept'
  BY DEF BatchReturns, StartBatch, BudgetKept
<1>12. Tool!IInv'
  BY NoCallsAssumption, StartIsInit, ToolInitNext DEF BatchReturns
<1> QED BY <1>3, <1>4, <1>5, <1>7, <1>9, <1>10, <1>11, <1>12

----------------------------------------------------------------------------
(* Every step keeps the invariant.                                         *)
LEMMA InvStep == IInv /\ [Next]_vars => IInv'
<1> SUFFICES ASSUME IInv, [Next]_vars PROVE IInv' OBVIOUS
<1>1. CASE AgentStep
  BY <1>1, StopsKeep, DispatchKeeps, BuildRequestKeeps, AskModelKeeps, HandOverKeeps,
     ResumeKeeps, RejectKeeps, HandleToolsKeeps, ReturnsKeep
  DEF AgentStep, NodeAnswers, Stops
<1>2. CASE BatchStep
  BY <1>2, LoopKeeps, CallKeeps DEF BatchStep
<1>3. CASE UNCHANGED vars
  <2>1. AgentInv' /\ BudgetKept'
    BY <1>3, LogStands DEF vars, batchVars
  <2>2. Tool!IInv'
    BY <1>3, BatchStands DEF vars
  <2> QED BY <2>1, <2>2 DEF IInv
<1> QED BY <1>1, <1>2, <1>3 DEF Next, Terminated

(* The inductive invariant holds in every reachable state.                  *)
THEOREM Invariance == Spec => []IInv
  BY InvInit, InvStep, PTL DEF Spec

(* Every state a run reaches is well typed.                                 *)
THEOREM TypeCorrect == Spec => []TypeOK
<1>1. IInv => TypeOK
  <2>1. Batch!FinalKinds = Tool!FinalKinds
    BY DEF Batch!FinalKinds, Tool!FinalKinds
  <2> QED BY <2>1, SameTypes
          DEF IInv, AgentInv, ControlTypes, DataTypes, LogInv, Checkpoints, TypeOK, Tool!IInv
<1> QED BY <1>1, Invariance, PTL

(* model_attempt bounds the executions of a node (_next_agent_transition).  *)
THEOREM NodesBudgeted == Spec => []NodeBudget
<1>1. IInv => NodeBudget
  BY AttemptsAssumption DEF IInv, AgentInv, ControlTypes, BudgetInv, NodeBudget
<1> QED BY <1>1, Invariance, PTL

(* The RuntimeErrors about results that do not fit their node are never     *)
(* raised (run_agent_node, run_agent).                                      *)
THEOREM ResultsMatch == Spec => []ResultsMatchNode
<1>1. IInv => ResultsMatchNode
  BY DEF IInv, AgentInv, MatchInv, ResultsMatchNode
<1> QED BY <1>1, Invariance, PTL

(* bind_node_to_history finds the stored node.                              *)
THEOREM NodesInHistory == Spec => []NodeInHistory
<1>1. IInv => NodeInHistory
  BY DEF IInv, AgentInv
<1> QED BY <1>1, Invariance, PTL

(* A tool asks for a retry in at most max_retries turns on end, by the log  *)
(* of what was answered, for every number of turns and however their        *)
(* actions are lost (dump_deps_state, restore_deps_state).                  *)
THEOREM RetriesBudgeted == Spec => []RetryBudget
<1>1. IInv => RetryBudget
  <2> SUFFICES ASSUME IInv, NEW i \in DOMAIN calls, out[i] = "retry_prompt"
               PROVE  Cardinality(Streak(calls[i].tool, Turn)) < calls[i].max_retries
    BY DEF RetryBudget
  <2>1. calls[i].tool \in Tools
    BY BatchCalls DEF IInv, Tool!IInv, Tool!TypeOK
  <2>2. CountsOf(answers, Turn)[calls[i].tool] < calls[i].max_retries
    BY DEF IInv, BudgetKept
  <2> QED BY <2>1, <2>2, SameStreak DEF CountsOf
<1> QED BY <1>1, Invariance, PTL

(* What the model is shown for its calls is what they answered, in every    *)
(* conversation and whatever is lost (run_agent, deferred_results).         *)
THEOREM AnswersArrive == Spec => []AnswersReachModel
<1>1. IInv => AnswersReachModel
  BY DEF IInv, AgentInv
<1> QED BY <1>1, Invariance, PTL

----------------------------------------------------------------------------
(* Every step is a step of the plain run, or none.                          *)

(* What a plain run sees of a state.                                        *)
Outcome == IF pc \in {"done", "failed"} THEN pc ELSE "running"

PlainStands ==
    UNCHANGED <<checkpoint.node, checkpoint.history, StepCounts, Outcome>>

(* A durable run begins as a plain one.                                    *)
LEMMA PlainInit == Init => Plain!Init
<1> SUFFICES ASSUME Init PROVE Plain!Init OBVIOUS
<1>1. PICK history \in {<<>>, <<Message("prior", <<>>)>>} : checkpoint = FreshCheckpoint(history)
  BY DEF Init
<1>2. StepCounts = [t \in Tools |-> 0]
  BY <1>1 DEF StepCounts, Advance, FreshCheckpoint
<1> QED BY <1>1, <1>2
        DEF Init, FreshCheckpoint, Node, Message, Prompt,
            Plain!Init, Plain!Node, Plain!Message, Plain!Prompt

(* The node's body: a plain step, made of the results at once.              *)
LEMMA BodyIsPlain ==
    ASSUME IInv, BuildRequest \/ AskModel \/ RejectOutput
    PROVE  Plain!Next
<1> USE DEF Transition
<1>1. Outcome = "running" /\ Outcome' = "running"
  BY AtNode DEF BuildRequest, AskModel, RejectOutput, Outcome
<1>2. CASE BuildRequest
  BY <1>1, <1>2 DEF BuildRequest, IInv, AgentInv, DataTypes, Checkpoints, StepCounts, Outcome,
     Node, Plain!Next, Plain!BuildRequest, Plain!Node
<1>3. CASE RejectOutput
  BY <1>1, <1>3 DEF RejectOutput, IInv, AgentInv, DataTypes, Checkpoints, StepCounts, Outcome,
     Node, Message, Pending, Plain!Next, Plain!RejectOutput, Plain!Node, Plain!Message
<1>4. CASE AskModel
  <2>1. PICK b \in Replies :
          /\ checkpoint'.node = Node("call_tools", Message("response", b))
          /\ checkpoint'.history = checkpoint.history
                                  \o <<checkpoint.node.message, Message("response", b)>>
          /\ checkpoint'.tool_retries = StepCounts
          /\ checkpoint'.failed_tools = {} /\ checkpoint'.succeeded_tools = {}
    <3>1. PICK b \in Replies, text \in BOOLEAN :
            Transition(
                [node |-> Node("call_tools", Message("response", b)),
                 history |-> checkpoint.history
                             \o HistoryDelta(checkpoint.node.message, Message("response", b)),
                 tool_retries |-> StepCounts, failed_tools |-> {}, succeeded_tools |-> {}],
                [NoCalls EXCEPT !.text = text])
      BY <1>4 DEF AskModel
    <3> QED BY <3>1 DEF HistoryDelta
  <2>2. b \in Batches
    BY NoCallsAssumption DEF Replies
  <2>3. StepCounts \in [Tools -> Nat]
    BY AdvanceTypes DEF IInv, AgentInv, DataTypes, Checkpoints, StepCounts
  <2>4. StepCounts' = StepCounts
    <3>1. StepCounts' = Advance(checkpoint'.tool_retries, checkpoint'.failed_tools,
                                checkpoint'.succeeded_tools)
      BY DEF StepCounts, Advance
    <3> QED BY <2>1, <2>3, <3>1, AdvanceByNone
  <2> QED BY <1>1, <1>4, <2>1, <2>2, <2>4
          DEF AskModel, Outcome, Node, Message, Plain!Next, Plain!Ask, Plain!Node, Plain!Message
<1> QED BY <1>2, <1>3, <1>4

(* All the calls of a response are answered in one plain step, when their  *)
(* results join the conversation.                                          *)
LEMMA ResumeIsPlain == ASSUME IInv, ResumeCalls PROVE Plain!Next
<1> DEFINE kinds == [k \in DOMAIN tool_results |-> tool_results[k].kind]
<1>1. /\ Outcome = "running" /\ Outcome' = "running" /\ pc = "node"
      /\ checkpoint.node.kind = "call_tools" /\ tool_results # <<>> /\ Pending \in Batches
      /\ tool_results \in Seq([call : Nat, kind : Tool!FinalKinds])
      /\ checkpoint \in Checkpoints
  BY Resumed DEF ResumeCalls, Transition, Outcome
<1>2. /\ Len(tool_results) = Len(Pending)
      /\ \A k \in DOMAIN tool_results : tool_results[k].call = k
      /\ checkpoint.failed_tools = {} /\ checkpoint.succeeded_tools = {}
      /\ \A k \in DOMAIN tool_results : tool_results[k].kind = "retry_prompt" =>
            checkpoint.tool_retries[Pending[k].tool] < Pending[k].max_retries
  BY <1>1 DEF IInv, AgentInv, MatchInv, CountInv
<1>3. /\ DOMAIN tool_results = 1..Len(tool_results) /\ DOMAIN tool_results = DOMAIN Pending
      /\ Pending # <<>> /\ ResultsById = kinds
  <2>1. /\ Len(tool_results) \in Nat \ {0} /\ DOMAIN tool_results = 1..Len(tool_results)
    BY <1>1, LenProperties, EmptySeq
  <2> QED BY <1>1, <1>2, <2>1, Resumed, BatchCalls
<1>4. kinds \in [DOMAIN Pending -> Batch!FinalKinds \ {"deferred"}]
  <2>1. \A k \in DOMAIN tool_results : tool_results[k] \in [call : Nat, kind : Tool!FinalKinds]
    BY <1>1, <1>3, ElementOfSeq
  <2>2. \A k \in DOMAIN tool_results : tool_results[k].kind # "deferred"
    BY DEF ResumeCalls, ResultsFit
  <2> QED BY <1>3, <2>1, <2>2 DEF Batch!FinalKinds, Tool!FinalKinds
<1>5. StepCounts = checkpoint.tool_retries
  BY <1>1, <1>2, AdvanceByNone DEF StepCounts, Checkpoints
<1>6. \A wanted : CallsAnswered(wanted) = Plain!ToolsWith(Pending, kinds, wanted)
  <2> SUFFICES ASSUME NEW wanted
               PROVE  CallsAnswered(wanted) = Plain!ToolsWith(Pending, kinds, wanted)
    OBVIOUS
  <2>1. \A j \in DOMAIN tool_results : kinds[j] = tool_results[j].kind
    OBVIOUS
  <2> HIDE DEF kinds
  <2>2. {j \in DOMAIN tool_results : tool_results[j].kind \in wanted}
            = {j \in DOMAIN Pending : kinds[j] \in wanted}
    BY <1>3, <2>1
  <2> QED BY <1>2, <2>2 DEF CallsAnswered, Plain!ToolsWith
<1>7. /\ checkpoint'.node = Node("model_request", Message("returns", kinds))
      /\ checkpoint'.history = checkpoint.history
      /\ checkpoint'.tool_retries = checkpoint.tool_retries
      /\ checkpoint'.failed_tools = CallsAnswered({"retry_prompt", "model_retry"})
      /\ checkpoint'.succeeded_tools = CallsAnswered({"return"})
  BY <1>1, <1>2, <1>3 DEF ResumeCalls, Transition, Checkpoints
<1>8. StepCounts' = Plain!Advance(StepCounts,
                       Plain!ToolsWith(Pending, kinds, {"retry_prompt", "model_retry"}),
                       Plain!ToolsWith(Pending, kinds, {"return"}))
  BY <1>5, <1>6, <1>7 DEF StepCounts, Advance, Plain!Advance
<1>9. \A i \in DOMAIN Pending :
          kinds[i] = "retry_prompt" => StepCounts[Pending[i].tool] < Pending[i].max_retries
  BY <1>2, <1>3, <1>5
<1>10. Plain!CallTools
  <2> HIDE DEF kinds
  <2> QED BY <1>1, <1>3, <1>4, <1>7, <1>8, <1>9
          DEF Pending, Node, Message, Outcome, Plain!CallTools, Plain!Node, Plain!Message
<1> QED BY <1>1, <1>10 DEF Outcome, Plain!Next

(* A run that stops is a plain run that fails or finishes; one whose hook   *)
(* for the end is still to run has not stopped.                             *)
LEMMA StopIsPlain == ASSUME IInv, Stops PROVE Plain!Next \/ PlainStands
<1>1. UNCHANGED turnVars
  BY DEF Stops, NodeGivenUp, NodeRaises, ResultsRefused, HookRaises, RefuseApprovals,
         BatchFails, AgentEnds, Done
<1>2. UNCHANGED <<checkpoint.node, checkpoint.history, StepCounts>>
  BY <1>1, TurnStands DEF turnVars
<1>3. pc \notin {"done", "failed"}
  BY DEF Stops, NodeGivenUp, NodeRaises, ResultsRefused, HookRaises, RefuseApprovals,
         BatchFails, AgentEnds, Done, NodeComesToNothing, IInv, AgentInv, ControlTypes
<1>4. CASE Done
  BY <1>2, <1>3, <1>4 DEF Done, PlainStands, Outcome
<1>5. CASE AgentEnds
  <2>1. checkpoint.node.kind = "call_tools" /\ Pending = <<>>
    BY <1>5 DEF AgentEnds, IInv, AgentInv, MatchInv
  <2> QED BY <1>2, <1>3, <1>5, <2>1 DEF AgentEnds, Pending, Outcome, Plain!Next, Plain!Finish
<1>6. CASE Fails
  BY <1>2, <1>3, <1>6 DEF Fails, Outcome, Plain!Next, Plain!Fail
<1> QED BY <1>4, <1>5, <1>6
        DEF Stops, NodeGivenUp, NodeRaises, ResultsRefused, HookRaises, RefuseApprovals, BatchFails

(* Whatever Waymark loses and repeats, and the batch as it goes on, is      *)
(* not seen.                                                                *)
LEMMA RestIsUnseen ==
    ASSUME IInv,
           \/ AgentStarts \/ NodeStarts \/ NodeBacksOff \/ BackoffEnds
           \/ HandOverCalls \/ HandleTools \/ BatchReturns \/ BatchStep \/ UNCHANGED vars
    PROVE  PlainStands
<1>1. checkpoint' = checkpoint
  BY DEF AgentStarts, NodeStarts, NodeBacksOff, BackoffEnds, HandOverCalls, Transition,
         HandleTools, BatchReturns, BatchStep, LoopMoves, CallMoves, turnVars, agentVars, vars
<1>2. Outcome' = Outcome
  BY DEF AgentStarts, NodeStarts, NodeBacksOff, BackoffEnds, HandOverCalls, Transition,
         HandleTools, BatchReturns, BatchStep, LoopMoves, CallMoves, NextTransition,
         NodeComesToNothing, agentVars, vars, Outcome, IInv, AgentInv, ControlTypes
<1>3. StepCounts' = StepCounts
  BY <1>1 DEF StepCounts, Advance
<1> QED BY <1>1, <1>2, <1>3 DEF PlainStands

(* A durable run is a plain run, for every agent, every number of turns and *)
(* however often its actions are lost, repeated or retried.                 *)
THEOREM Implements == Spec => IsPlainAgent
<1>1. IInv /\ [Next]_vars => [Plain!Next]_(Plain!vars)
  <2> SUFFICES ASSUME IInv, [Next]_vars PROVE Plain!Next \/ PlainStands
    BY DEF PlainStands, Outcome, Plain!vars
  <2> QED BY BodyIsPlain, ResumeIsPlain, StopIsPlain, RestIsUnseen
          DEF Next, AgentStep, NodeAnswers, Stops, Terminated
<1> QED BY <1>1, PlainInit, Invariance, PTL DEF Spec, IsPlainAgent, Plain!Spec

================================================================================
