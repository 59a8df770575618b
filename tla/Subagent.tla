-------------------------------- MODULE Subagent --------------------------------
(****************************************************************************)
(* A detached subagent, from its queued instances to the parent's calls     *)
(* that wait for its report: SubagentWorkflow.run (subagents.py) and the    *)
(* actions it awaits (actions.py 476-539), over an instance of Mailbox.     *)
(*                                                                          *)
(* The subagent has one id, and normally one workflow instance; Waymark     *)
(* does not deduplicate instances, so there may be two (actions.py 433).    *)
(* Each instance has two actions that may send: the report of a result and  *)
(* the report of a failure.  Neither is inside the try, and no loss of an   *)
(* action is caught.                                                        *)
(****************************************************************************)
EXTENDS Integers, FiniteSets

CONSTANTS
    Instances,  \* workflow instances queued for the subagent
    SubagentId, \* its id, the dedupe key of its report
    NoKey,      \* no dedupe key (Mailbox)
    Claims,     \* claim keys of the parent's calls that wait on the mailbox
    Nobody,     \* claimed_by and sender of a row that has none (Mailbox)
    BatchSize,  \* batch_size of the reader
    Attempts,   \* model_retry.attempts of the parent, for its polls
    Orphans     \* phases in which a lost poll's transaction may go on (Mailbox)

ASSUME KeyAssumption == NoKey \notin {SubagentId} \union Instances
ASSUME NobodyAssumption ==
    Nobody \notin Claims \union (Instances \X {"completed", "failed"})
ASSUME BatchSizeAssumption == BatchSize \in Nat \ {0}
ASSUME AttemptsAssumption == Attempts \in Nat \ {0}
ASSUME OrphansAssumption == Orphans \subseteq {"begun", "checked", "locked"}

VARIABLES
    rows, next_id, send, tx, current, poll, attempt, delivered,
    stage,      \* per instance: what SubagentWorkflow.run awaits, or its end
    lost,       \* reports given up as lost whose worker may still be at them
    ran         \* history, per instance: how its run_agent ended

boxVars == <<rows, next_id, send, tx, current, poll, attempt, delivered>>
vars == <<boxVars, stage, lost, ran>>

Statuses == {"completed", "failed"}

(* The report actions, each a sender of the mailbox.                        *)
Reports == Instances \X Statuses

(* Fault: a report is keyed by the instance that sends it.                  *)
KeyPerInstance == [r \in Reports |-> r[1]]

ReportKey == [r \in Reports |-> SubagentId]

Box == INSTANCE Mailbox WITH
    Senders <- Reports, Keys <- {SubagentId} \union Instances, DedupeKey <- ReportKey,
    MaxSends <- 1

Reporting == {"reporting_result", "reporting_failure"}
Over      == {"returned", "raised", "died"}

Init ==
    /\ Box!Init
    /\ stage = [i \in Instances |-> "loading"]
    /\ lost = {}
    /\ ran = [i \in Instances |-> "nothing"]

To(i, s) == stage' = [stage EXCEPT ![i] = s]

(* load_subagent_request answers; the run begins.                           *)
Loads(i) ==
    /\ stage[i] = "loading"
    /\ To(i, "running")
    /\ UNCHANGED <<boxVars, lost, ran>>

(* The load is lost, or the request type or its data is refused: nothing    *)
(* around it catches, and the workflow fails without a report.              *)
LoadFails(i) ==
    /\ stage[i] = "loading"
    /\ To(i, "died")
    /\ UNCHANGED <<boxVars, lost, ran>>

RunReturns(i) ==
    /\ stage[i] = "running"
    /\ ran' = [ran EXCEPT ![i] = "completed"]
    /\ To(i, "reporting_result")
    /\ UNCHANGED <<boxVars, lost>>

(* except Exception around run_agent.                                       *)
RunRaises(i) ==
    /\ stage[i] = "running"
    /\ ran' = [ran EXCEPT ![i] = "failed"]
    /\ To(i, "reporting_failure")
    /\ UNCHANGED <<boxVars, lost>>

----------------------------------------------------------------------------
(* The report.                                                              *)

Report(i) == <<i, IF stage[i] = "reporting_result" THEN "completed" ELSE "failed">>

(* Fault: the report of the result is inside the try.                       *)
CaughtAsFailure(i) == IF stage[i] = "reporting_result" THEN "reporting_failure" ELSE "died"

(* Where an error of a report action leaves the workflow.                   *)
AfterLostReport(i) == "died"

(* The action is never started, or it raises before the writer is called:   *)
(* the output cannot be decoded, or the parent's agent has no writer.       *)
ReportRefused(i) ==
    /\ stage[i] \in Reporting
    /\ send[Report(i)].state = "idle"
    /\ To(i, AfterLostReport(i))
    /\ UNCHANGED <<boxVars, lost, ran>>

(* The writer stores the message, or finds it stored under the dedupe key;  *)
(* the worker may die at any of its statements.                             *)
ReportRuns(i) ==
    /\ stage[i] \in Reporting
    /\ Box!SendStep(Report(i))
    /\ UNCHANGED <<stage, lost, ran>>

(* Waymark declares the action lost, at any time: its worker has died, or   *)
(* hangs and may go on.  Nothing in the workflow reruns it.                 *)
ReportLost(i) ==
    /\ stage[i] \in Reporting
    /\ lost' = lost \union {Report(i)}
    /\ To(i, AfterLostReport(i))
    /\ UNCHANGED <<boxVars, ran>>

(* The worker of a lost report goes on behind the workflow's back.          *)
LateReport(r) ==
    /\ r \in lost
    /\ Box!SendStep(r)
    /\ UNCHANGED <<stage, lost, ran>>

(* Fault: the failure is raised before it is sent.                          *)
RaisedFirst(i) == stage[i] = "reporting_failure" \/ send[Report(i)].state = "done"

(* The writer has returned.                                                 *)
Sent(i) == send[Report(i)].state = "done"

(* A result's report ends the workflow; a failure's raises, and fails it.   *)
ReportEnds(i) ==
    /\ stage[i] \in Reporting
    /\ Sent(i)
    /\ To(i, IF stage[i] = "reporting_result" THEN "returned" ELSE "raised")
    /\ UNCHANGED <<boxVars, lost, ran>>

----------------------------------------------------------------------------
InstanceStep(i) ==
    \/ Loads(i) \/ LoadFails(i) \/ RunReturns(i) \/ RunRaises(i)
    \/ ReportRefused(i) \/ ReportRuns(i) \/ ReportLost(i) \/ ReportEnds(i)

(* A call of the parent that waits for the report.                          *)
ParentStep(c) == Box!ClaimStep(c) /\ UNCHANGED <<stage, lost, ran>>

Terminated ==
    /\ \A i \in Instances : stage[i] \in Over
    /\ \A c \in Claims : ~Box!Waiting(c)
    /\ UNCHANGED vars

Next ==
    \/ \E i \in Instances : InstanceStep(i)
    \/ \E r \in Reports : LateReport(r)
    \/ \E c \in Claims : ParentStep(c)
    \/ Terminated

(* A run_agent ends (AgentRun!RunSettles), Waymark runs an action or gives  *)
(* a verdict on it, and the mailbox is as fair as in Mailbox.  A lost       *)
(* report need not go on, but PostgreSQL ends the transaction it has begun. *)
Fairness ==
    /\ \A i \in Instances : WF_vars(InstanceStep(i))
    /\ \A r \in Reports : WF_vars(send[r].state \in {"open", "touching"} /\ LateReport(r))
    /\ \A c \in Claims : WF_vars(ParentStep(c))
    /\ \A c \in Claims :
          SF_vars((\E n \in Box!Slots : Box!CommitClaim(c, n)) /\ UNCHANGED <<stage, lost, ran>>)

Spec == Init /\ [][Next]_vars
FairSpec == Spec /\ Fairness

----------------------------------------------------------------------------
(* Properties.                                                              *)

(* Every variable has its type, and a report at work is awaited by its      *)
(* instance or has been given up as lost.                                   *)
TypeOK ==
    /\ Box!TypeOK
    /\ stage \in [Instances -> {"loading", "running"} \union Reporting \union Over]
    /\ lost \subseteq Reports
    /\ ran \in [Instances -> Statuses \union {"nothing"}]
    /\ \A r \in Reports : send[r].state \in {"open", "touching", "stored"} =>
          stage[r[1]] \in Reporting \/ r \in lost

(* The parent hears of the end once: however many instances run, report and *)
(* lose their reports, and however its calls poll, one report is given, and *)
(* to one call (actions.py 434-435, README 368-370).                        *)
HeardOnce ==
    \A c, d \in Claims : \A x \in delivered[c], y \in delivered[d] : c = d /\ x = y

(* A report says how the run of the instance that sent it ended: a result   *)
(* whose report was lost is never reported as a failure (subagents.py       *)
(* 38-59).                                                                  *)
ReportTrue ==
    \A id \in Box!Table : rows[id].state \in {"open", "committed"} =>
        ran[rows[id].sender[1]] = rows[id].sender[2]

Heard == \E c \in Claims : delivered[c] # {}


(* What the docstring of DelegateAgent promises: "When the subagent         *)
(* finishes, it sends its output (or failure) to ``mailbox``"               *)
(* (deferred_calls/subagent.py 20-21): when the run has ended and the       *)
(* instance is over, the report is stored.                                  *)
FinishIsSent ==
    \A i \in Instances :
        stage[i] \in Over /\ ran[i] # "nothing" => \E id \in Box!Table : id \in Box!Committed

================================================================================
