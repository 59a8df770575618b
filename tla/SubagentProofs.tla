----------------------------- MODULE SubagentProofs -----------------------------
(****************************************************************************)
(* HeardOnce, ReportTrue and TypeOK of Subagent for every number of         *)
(* instances, waiting calls and executions, from what Mailbox promises.     *)
(*                                                                          *)
(* The argument: the reports and the parent's calls use the mailbox as      *)
(* senders and claims do, so every behaviour is one of Mailbox.  All        *)
(* reports have one dedupe key, so one is stored (StoresOnce), and what is  *)
(* stored is given to one call (ClaimsExclusive).  A lost report may go on  *)
(* behind its instance's back, so what is at work is awaited or given up as *)
(* lost (Awaited).                                                          *)
(****************************************************************************)
EXTENDS Subagent, FiniteSetTheorems, TLAPS

Mail == INSTANCE MailboxProofs WITH
    Senders <- Reports, Keys <- {SubagentId} \union Instances, DedupeKey <- ReportKey,
    MaxSends <- 1

(* The constants of the mailbox are as Mailbox assumes them.                *)
LEMMA MailAssumptions ==
    /\ ReportKey \in [Reports -> {SubagentId} \union Instances \union {NoKey}]
    /\ NoKey \notin {SubagentId} \union Instances
    /\ Nobody \notin Claims \union Reports
  BY KeyAssumption, NobodyAssumption DEF ReportKey, Reports, Statuses

(* What a statement of the box sees is what it sees of the mailbox.         *)
LEMMA SameView ==
    /\ Box!Slots = Mail!Slots
    /\ Box!Table = Mail!Table
    /\ Box!Locked = Mail!Locked
    /\ Box!Available = Mail!Available
    /\ \A c \in Claims : Box!ClaimedBy(c) = Mail!ClaimedBy(c)
    /\ \A s \in Reports : Box!Holding(s) = Mail!Holding(s)
    /\ \A S \in SUBSET Mail!Available :
          Box!IsOldest(S, Box!Available) <=> Mail!IsOldest(S, Mail!Available)
<1>1. Box!Slots = Mail!Slots
  BY DEF Box!Slots, Mail!Slots
<1>2. Box!Table = Mail!Table
  BY DEF Box!Table, Mail!Table, Box!MaxId, Mail!MaxId, Box!Cardinality, Mail!Cardinality
<1>3. Box!Committed = Mail!Committed
  BY <1>2 DEF Box!Committed, Mail!Committed
<1>4. Box!Locked = Mail!Locked
  BY <1>1 DEF Box!Locked, Mail!Locked, Box!SendLocks, Mail!SendLocks, Box!LockedBySends, Mail!LockedBySends
<1>5. Box!Available = Mail!Available
  BY <1>3, <1>4 DEF Box!Available, Mail!Available
<1>6. \A c \in Claims : Box!ClaimedBy(c) = Mail!ClaimedBy(c)
  BY <1>3 DEF Box!ClaimedBy, Mail!ClaimedBy
<1>7. \A s \in Reports : Box!Holding(s) = Mail!Holding(s)
  BY <1>2 DEF Box!Holding, Mail!Holding
<1>8. \A S : Box!Cardinality(S) = Mail!Cardinality(S)
  BY DEF Box!Cardinality, Mail!Cardinality
<1>9. \A S \in SUBSET Mail!Available :
          Box!IsOldest(S, Box!Available) <=> Mail!IsOldest(S, Mail!Available)
  BY <1>5, <1>8 DEF Box!IsOldest, Mail!IsOldest
<1> QED BY <1>1, <1>2, <1>4, <1>5, <1>6, <1>7, <1>9

(* The reports do to the mailbox what senders do.                           *)
LEMMA SameSends == ASSUME NEW s \in Reports, Box!SendStep(s) PROVE Mail!SendStep(s)
<1>1. Box!SendInserts(s) => Mail!SendInserts(s)
  BY SameView DEF Box!SendInserts, Mail!SendInserts, Box!NoConflict, Mail!NoConflict
<1>2. Box!SendTouches(s) => Mail!SendTouches(s)
  BY SameView DEF Box!SendTouches, Mail!SendTouches
<1>3. Box!SendCommits(s) => Mail!SendCommits(s)
  BY SameView DEF Box!SendCommits, Mail!SendCommits, Box!Touched, Mail!Touched
<1>4. Box!SendAnswers(s) => Mail!SendAnswers(s)
  BY SameView DEF Box!SendAnswers, Mail!SendAnswers
<1>5. Box!SendDies(s) => Mail!SendDies(s)
  BY SameView DEF Box!SendDies, Mail!SendDies
<1> QED BY <1>1, <1>2, <1>3, <1>4, <1>5 DEF Box!SendStep, Mail!SendStep

(* The transactions of the parent's polls are those of claims.              *)
LEMMA SameTransactions ==
    ASSUME NEW c \in Claims, NEW n \in Mail!Slots
    PROVE  (Box!TxStep(c, n) => Mail!TxStep(c, n)) /\ (Box!OrphanEnds(c, n) => Mail!OrphanEnds(c, n))
<1>1. Box!FindClaimed(c, n) => Mail!FindClaimed(c, n)
  BY SameView DEF Box!FindClaimed, Mail!FindClaimed, Box!SetTx, Mail!SetTx
<1>2. Box!LockPending(c, n) => Mail!LockPending(c, n)
  <2>1. \A S \in SUBSET Box!Available :
            Box!IsOldest(S, Box!Available) => S \in SUBSET Mail!Available /\ Mail!IsOldest(S, Mail!Available)
    BY SameView
  <2>2. ASSUME NEW S, NEW phase PROVE Box!SetTx(c, n, phase, S) = Mail!SetTx(c, n, phase, S)
    BY DEF Box!SetTx, Mail!SetTx
  <2> QED BY <2>1, <2>2 DEF Box!LockPending, Mail!LockPending
<1>3. Box!CommitClaim(c, n) => Mail!CommitClaim(c, n)
  BY SameView DEF Box!CommitClaim, Mail!CommitClaim, Box!SetTx, Mail!SetTx
<1>4. Box!OrphanEnds(c, n) => Mail!OrphanEnds(c, n)
  BY SameView DEF Box!OrphanEnds, Mail!OrphanEnds, Box!SetTx, Mail!SetTx
<1> QED BY <1>1, <1>2, <1>3, <1>4 DEF Box!TxStep, Mail!TxStep

(* The calls of the parent poll as claims do.                               *)
LEMMA SamePolls == ASSUME NEW c \in Claims, Box!PollStep(c) PROVE Mail!PollStep(c)
<1>1. Box!PollStarts(c) => Mail!PollStarts(c)
  BY SameView DEF Box!PollStarts, Mail!PollStarts, Box!CurrentTx, Mail!CurrentTx, Box!SetTx, Mail!SetTx
<1>2. Box!PollDelivers(c) => Mail!PollDelivers(c)
  BY SameView DEF Box!PollDelivers, Mail!PollDelivers, Box!Answered, Mail!Answered, Box!CurrentTx, Mail!CurrentTx, Box!SetTx, Mail!SetTx
<1>3. Box!PollIsEmpty(c) => Mail!PollIsEmpty(c)
  BY SameView DEF Box!PollIsEmpty, Mail!PollIsEmpty, Box!Answered, Mail!Answered, Box!CurrentTx, Mail!CurrentTx, Box!SetTx, Mail!SetTx
<1>4. Box!PauseEnds(c) => Mail!PauseEnds(c)
  BY SameView DEF Box!PauseEnds, Mail!PauseEnds
<1>5. Box!PollReruns(c) => Mail!PollReruns(c)
  BY SameView DEF Box!PollReruns, Mail!PollReruns, Box!GoesOn, Mail!GoesOn, Box!Dies, Mail!Dies, Box!CurrentTx, Mail!CurrentTx, Box!SetTx, Mail!SetTx
<1>6. Box!PollFails(c) => Mail!PollFails(c)
  BY SameView DEF Box!PollFails, Mail!PollFails, Box!GoesOn, Mail!GoesOn, Box!Dies, Mail!Dies, Box!CurrentTx, Mail!CurrentTx, Box!SetTx, Mail!SetTx
<1> QED BY <1>1, <1>2, <1>3, <1>4, <1>5, <1>6 DEF Box!PollStep, Mail!PollStep

(* The parent's calls do to the mailbox what claims do.                    *)
LEMMA SameClaims == ASSUME NEW c \in Claims, Box!ClaimStep(c) PROVE Mail!ClaimStep(c)
  BY SamePolls, SameTransactions, SameView DEF Box!ClaimStep, Mail!ClaimStep

(* Every behaviour is one of the mailbox.                                   *)
THEOREM IsMail == Spec => Mail!Spec
<1>1. Init => Mail!Init
  BY DEF Init, Box!Init, Mail!Init, Box!Cardinality, Mail!Cardinality, Box!Table, Mail!Table, Box!Absent, Mail!Absent, Box!Idle, Mail!Idle, Box!MaxId, Mail!MaxId, Box!Slots, Mail!Slots
<1>2. [Next]_vars => [Mail!Next]_(Mail!vars)
  <2> SUFFICES ASSUME [Next]_vars PROVE [Mail!Next]_(Mail!vars)
    OBVIOUS
  <2>1. ASSUME NEW c \in Claims, ParentStep(c) PROVE Mail!Next
    BY <2>1, SameClaims DEF ParentStep, Mail!Next
  <2>2. ASSUME NEW i \in Instances, ReportRuns(i) PROVE Mail!Next
    <3>1. Report(i) \in Reports
      BY DEF Report, Reports, Statuses
    <3> QED BY <2>2, <3>1, SameSends DEF ReportRuns, Mail!Next
  <2>5. ASSUME NEW r \in Reports, LateReport(r) PROVE Mail!Next
    BY <2>5, SameSends DEF LateReport, Mail!Next
  <2>3. ASSUME NEW i \in Instances, InstanceStep(i), ~ReportRuns(i)
        PROVE UNCHANGED boxVars
    BY <2>3 DEF InstanceStep, Loads, LoadFails, RunReturns, RunRaises,
            ReportRefused, ReportLost, ReportEnds
  <2>4. CASE Terminated \/ UNCHANGED vars
    BY <2>4 DEF Terminated, vars, boxVars, Mail!vars
  <2> QED BY <2>1, <2>2, <2>3, <2>4, <2>5 DEF Next, boxVars, Mail!vars
<1> QED BY <1>1, <1>2, PTL DEF Spec, Mail!Spec

----------------------------------------------------------------------------
(* Type correctness of what the mailbox holds, its keys and its claims.     *)
LEMMA MailInvariant ==
    Spec => [](Mail!IInv /\ Mail!StoredOnce /\ Mail!Signed)
<1>1. Mail!Spec => []Mail!IInv
  BY Mail!Invariance, MailAssumptions, BatchSizeAssumption, AttemptsAssumption, OrphansAssumption
<1>2. Mail!Spec => []Mail!StoredOnce
  BY Mail!StoresOnce, MailAssumptions, BatchSizeAssumption, AttemptsAssumption, OrphansAssumption
<1>3. Mail!Spec => []Mail!Signed
  BY Mail!RowsSigned, MailAssumptions, BatchSizeAssumption, AttemptsAssumption, OrphansAssumption
<1> QED BY <1>1, <1>2, <1>3, IsMail, PTL

(* What is delivered is stored, under one key and one claim.                *)
THEOREM EndHeardOnce == Spec => []HeardOnce
<1>1. Mail!IInv /\ Mail!StoredOnce /\ Mail!Signed => HeardOnce
  <2> SUFFICES ASSUME Mail!IInv, Mail!StoredOnce, Mail!Signed,
                      NEW c \in Claims, NEW d \in Claims,
                      NEW x \in delivered[c], NEW y \in delivered[d]
               PROVE  c = d /\ x = y
    BY DEF HeardOnce
  <2>1. /\ rows[x].state = "committed" /\ rows[x].claimed_by = c
        /\ rows[y].state = "committed" /\ rows[y].claimed_by = d
    BY DEF Mail!IInv, Mail!ClaimInv, Mail!ClaimExclusive
  <2>2. x \in Mail!Committed /\ y \in Mail!Committed
    BY <2>1 DEF Mail!IInv, Mail!TableInv, Mail!Shapes, Mail!Committed
  <2>3. x = y
    <3>1. rows[x].sender \in Reports /\ rows[y].sender \in Reports
      BY <2>1, <2>2 DEF Mail!Signed, Mail!Committed
    <3>2. ReportKey[rows[x].sender] = SubagentId /\ ReportKey[rows[y].sender] = SubagentId
      BY <3>1 DEF ReportKey
    <3> QED BY <2>2, <3>2, KeyAssumption DEF Mail!StoredOnce
  <2> QED BY <2>1, <2>3
<1> QED BY <1>1, MailInvariant, PTL
----------------------------------------------------------------------------
(* What an instance reports, or has given up as lost, is how its run ended. *)
StageInv ==
    /\ stage \in [Instances -> {"loading", "running"} \union Reporting \union Over]
    /\ ran \in [Instances -> Statuses \union {"nothing"}]
    /\ \A r \in lost : r \in Reports /\ ran[r[1]] = r[2]
    /\ \A i \in Instances :
          /\ stage[i] \in {"loading", "running"} => ran[i] = "nothing"
          /\ stage[i] = "reporting_result" => ran[i] = "completed"
          /\ stage[i] = "reporting_failure" => ran[i] = "failed"

SignedTrue ==
    \A id \in Mail!Table : rows[id].state # "absent" => ran[rows[id].sender[1]] = rows[id].sender[2]

(* Nothing has run yet.                                                    *)
LEMMA StageInvInit == Init => StageInv
  BY DEF Init, StageInv

(* A status is come to once, and reported as what it is.                   *)
LEMMA StageInvStep == StageInv /\ [Next]_vars => StageInv'
<1> SUFFICES ASSUME StageInv, [Next]_vars PROVE StageInv' OBVIOUS
<1> USE DEF StageInv, Reporting, Over, Statuses
<1>1. CASE UNCHANGED <<stage, ran, lost>>
  BY <1>1
<1> USE DEF Reports
<1>2. ASSUME NEW i \in Instances, Loads(i) \/ LoadFails(i) PROVE StageInv'
  BY <1>2 DEF Loads, LoadFails, To
<1>3. ASSUME NEW i \in Instances, RunReturns(i) PROVE StageInv'
  BY <1>3 DEF RunReturns, To
<1>4. ASSUME NEW i \in Instances, RunRaises(i) PROVE StageInv'
  BY <1>4 DEF RunRaises, To
<1>5. ASSUME NEW i \in Instances, ReportRefused(i) \/ ReportEnds(i) PROVE StageInv'
  BY <1>5 DEF ReportRefused, ReportEnds, AfterLostReport, To
<1>6. ASSUME NEW i \in Instances, ReportLost(i) PROVE StageInv'
  BY <1>6 DEF ReportLost, Report, AfterLostReport, To
<1> QED BY <1>1, <1>2, <1>3, <1>4, <1>5, <1>6
      DEF Next, InstanceStep, ReportRuns, LateReport, ParentStep, Terminated, vars

(* A row is signed with the status its instance has just come to, and a     *)
(* status, once come to, stands.                                            *)
LEMMA SignedTrueStep ==
    Mail!IInv /\ Mail!Signed /\ StageInv /\ SignedTrue /\ [Next]_vars => SignedTrue'
<1> SUFFICES ASSUME Mail!IInv, Mail!Signed, StageInv, SignedTrue, [Next]_vars PROVE SignedTrue'
  OBVIOUS
<1>1. CASE UNCHANGED <<rows, ran>>
  BY <1>1 DEF SignedTrue
<1>2. ASSUME NEW c \in Claims, ParentStep(c) PROVE SignedTrue'
  <2>1. Mail!ClaimStep(c) /\ ran' = ran
    BY <1>2, SameClaims DEF ParentStep
  <2>2. \A id \in Mail!Table :
            rows'[id].state = rows[id].state /\ rows'[id].sender = rows[id].sender
    BY <2>1, Mail!ClaimsKeepSenders, MailAssumptions, BatchSizeAssumption,
       AttemptsAssumption, OrphansAssumption DEF Mail!IInv
  <2> QED BY <2>1, <2>2 DEF SignedTrue
<1>3. ASSUME NEW r \in Reports, ran[r[1]] = r[2], Box!SendStep(r), ran' = ran
      PROVE  SignedTrue'
  <2>1. Mail!SendStep(r)
    BY <1>3, SameSends
  <2>2. \A id \in Mail!Table : rows'[id].state # "absent" =>
            \/ rows'[id].sender = r
            \/ rows[id].state # "absent" /\ rows'[id].sender = rows[id].sender
    BY <2>1, Mail!SendsSign, MailAssumptions, BatchSizeAssumption,
       AttemptsAssumption, OrphansAssumption DEF Mail!IInv
  <2> QED BY <1>3, <2>2 DEF SignedTrue
<1>5. ASSUME NEW i \in Instances, ReportRuns(i) PROVE SignedTrue'
  <2>1. Report(i) \in Reports /\ ran[Report(i)[1]] = Report(i)[2]
    BY <1>5 DEF ReportRuns, Report, Reports, Statuses, Reporting, StageInv
  <2> QED BY <1>3, <1>5, <2>1 DEF ReportRuns
<1>6. ASSUME NEW r \in Reports, LateReport(r) PROVE SignedTrue'
  BY <1>3, <1>6 DEF LateReport, StageInv
<1>4. ASSUME NEW i \in Instances, RunReturns(i) \/ RunRaises(i) PROVE SignedTrue'
  <2>1. ran[i] = "nothing" /\ rows' = rows /\ \A j \in Instances : j # i => ran'[j] = ran[j]
    BY <1>4 DEF RunReturns, RunRaises, StageInv, boxVars
  <2>2. \A id \in Mail!Table : rows[id].state # "absent" =>
            rows[id].sender[1] \in Instances /\ rows[id].sender[2] \in Statuses
    BY DEF Mail!Signed, Reports
  <2> QED BY <2>1, <2>2 DEF SignedTrue, Statuses
<1> QED BY <1>1, <1>2, <1>4, <1>5, <1>6
      DEF Next, InstanceStep, Loads, LoadFails, ReportRefused, ReportLost, ReportEnds,
          Terminated, vars, boxVars

(* No report is false, whatever is lost (SubagentWorkflow.run).             *)
THEOREM ReportsTrue == Spec => []ReportTrue
<1>1. Init => SignedTrue
  BY DEF Init, SignedTrue, Box!Init, Box!Table, Mail!Table, Box!MaxId, Mail!MaxId, Box!Cardinality, Mail!Cardinality, Box!Absent, Mail!Absent
<1>2. SignedTrue => ReportTrue
  BY SameView DEF SignedTrue, ReportTrue
<1> QED BY <1>1, <1>2, StageInvInit, StageInvStep, SignedTrueStep, MailInvariant, PTL DEF Spec

----------------------------------------------------------------------------
(* Types.  The report at work for an instance is the one its stage awaits,  *)
(* or one it has given up as lost.                                          *)
AtWork(r) == send[r].state \in {"open", "touching", "stored"}

AwaitedReport(r) == stage[r[1]] \in Reporting /\ Report(r[1]) = r

Awaited == \A r \in Reports : AtWork(r) => AwaitedReport(r) \/ r \in lost

(* A report is begun by the instance that awaits it, or goes on although it *)
(* is lost; an instance that leaves it otherwise has heard of its end.      *)
LEMMA AwaitedStep == Mail!IInv /\ StageInv /\ Awaited /\ [Next]_vars => Awaited'
<1> SUFFICES ASSUME Mail!IInv, StageInv, Awaited, [Next]_vars PROVE Awaited' OBVIOUS
<1>1. CASE UNCHANGED <<send, stage, lost>>
  BY <1>1 DEF Awaited, AtWork, AwaitedReport, Report
<1>2. ASSUME NEW c \in Claims, ParentStep(c) PROVE Awaited'
  <2>1. UNCHANGED <<send, stage, lost>>
    BY <1>2 DEF ParentStep, Box!ClaimStep, Box!PollStep, Box!TxStep, Box!FindClaimed,
       Box!LockPending, Box!CommitClaim, Box!OrphanEnds, Box!PollStarts, Box!PollDelivers,
       Box!PollIsEmpty, Box!PauseEnds, Box!PollReruns, Box!PollFails
  <2> QED BY <1>1, <2>1
<1>3. ASSUME NEW r \in Reports, Box!SendStep(r), UNCHANGED <<stage, lost>>,
             AwaitedReport(r) \/ r \in lost
      PROVE  Awaited'
  <2>1. \A q \in Reports : q # r => send'[q] = send[q]
    BY <1>3 DEF Box!SendStep, Box!SendInserts, Box!SendTouches, Box!SendCommits,
       Box!SendAnswers, Box!SendDies, Mail!IInv, Mail!TableInv, Mail!Shapes
  <2>2. \A q \in Reports : AwaitedReport(q)' <=> AwaitedReport(q)
    BY <1>3 DEF AwaitedReport, Report
  <2> QED BY <1>3, <2>1, <2>2 DEF Awaited, AtWork
<1>4. ASSUME NEW i \in Instances, ReportRuns(i) PROVE Awaited'
  <2>1. Report(i) \in Reports /\ AwaitedReport(Report(i))
    BY <1>4 DEF ReportRuns, Report, Reports, Statuses, AwaitedReport
  <2> QED BY <1>3, <1>4, <2>1 DEF ReportRuns
<1>5. ASSUME NEW r \in Reports, LateReport(r) PROVE Awaited'
  BY <1>3, <1>5 DEF LateReport
<1>6. ASSUME NEW i \in Instances, InstanceStep(i), ~ReportRuns(i) PROVE Awaited'
  <2>1. send' = send /\ lost \subseteq lost' /\ \A j \in Instances : j # i => stage'[j] = stage[j]
    BY <1>6 DEF InstanceStep, Loads, LoadFails, RunReturns, RunRaises, ReportRefused,
       ReportLost, ReportEnds, To, boxVars, StageInv
  <2>2. stage[i] \in Reporting => ~AtWork(Report(i)) \/ Report(i) \in lost'
    BY <1>6 DEF InstanceStep, Loads, LoadFails, RunReturns, RunRaises, ReportRefused,
       ReportLost, ReportEnds, Sent, AtWork, Reporting
  <2>3. \A r \in Reports : r[1] = i => ~AtWork(r) \/ r \in lost'
    BY <2>1, <2>2 DEF Awaited, AwaitedReport
  <2>4. \A r \in Reports : r[1] \in Instances /\ (r[1] # i => (AwaitedReport(r)' <=> AwaitedReport(r)))
    BY <2>1 DEF Report, Reports, AwaitedReport
  <2> QED BY <2>1, <2>3, <2>4 DEF Awaited, AtWork
<1> QED BY <1>1, <1>2, <1>4, <1>5, <1>6 DEF Next, Terminated, vars, boxVars

(* Every variable keeps its type, the mailbox's among them, and a report at *)
(* work is awaited by its instance or has been given up as lost: no other   *)
(* end of a workflow leaves one behind (SubagentWorkflow.run, send_message).*)
THEOREM TypeCorrect ==
    ASSUME IsFiniteSet(Instances)
    PROVE  Spec => []TypeOK
<1>1. Mail!FiniteTable
  <2>1. IsFiniteSet(Statuses)
    <3>1. IsFiniteSet({"completed"})
      BY FS_Singleton
    <3>2. Statuses = {"completed"} \union {"failed"}
      BY DEF Statuses
    <3> QED BY <3>1, <3>2, FS_AddElement
  <2>2. IsFiniteSet(Reports)
    BY <2>1, FS_Product DEF Reports
  <2> QED BY <2>2 DEF Mail!FiniteTable, Mail!IsFiniteSet, IsFiniteSet
<1>2. Mail!Spec => []Mail!TypeOK
  BY <1>1, Mail!TypeCorrect, MailAssumptions, BatchSizeAssumption, AttemptsAssumption,
     OrphansAssumption
<1>3. Mail!TypeOK => Box!TypeOK
  <2>1. \A S : Box!Cardinality(S) = Mail!Cardinality(S)
    BY DEF Box!Cardinality, Mail!Cardinality
  <2>2. Box!MaxId = Mail!MaxId
    BY <2>1 DEF Box!MaxId, Mail!MaxId
  <2> QED BY <2>1, <2>2, SameView DEF Box!TypeOK, Mail!TypeOK, Box!Row, Mail!Row,
          Box!RowStates, Mail!RowStates, Box!SendStates, Mail!SendStates, Box!Phases, Mail!Phases,
          Box!PollStates, Mail!PollStates
<1>4. Init => Awaited
  BY DEF Init, Box!Init, Awaited, AtWork
<1>5. Box!TypeOK /\ StageInv /\ Awaited => TypeOK
  BY DEF TypeOK, StageInv, Awaited, AtWork, AwaitedReport
<1> QED BY <1>2, <1>3, <1>4, <1>5, IsMail, StageInvInit, StageInvStep, AwaitedStep,
      MailInvariant, PTL DEF Spec

================================================================================
