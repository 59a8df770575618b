-------------------------------- MODULE Mailbox --------------------------------
(****************************************************************************)
(* One agent mailbox on PostgreSQL: send_message and claim_messages         *)
(* (iceaxe/inbox.py) over AgentMessageRecord (iceaxe/models.py), called by  *)
(* sending actions that may be lost and rerun, and by the poll actions of   *)
(* waiting tool calls (workflow.py 404-448, actions.py 542-579).            *)
(*                                                                          *)
(* A sender is what a worker does with one sending action.  That Waymark    *)
(* declares the action lost is no step of it: a worker that hangs goes on   *)
(* and commits late.  A rerun that may overlap it is another sender with    *)
(* the same key; the executions of one sender follow its worker's death.    *)
(*                                                                          *)
(* A step is what PostgreSQL makes atomic: a statement of a transaction, or *)
(* its commit.  Rows get their ids when they are inserted and become        *)
(* visible when they are committed, so ids may become visible out of order. *)
(****************************************************************************)
EXTENDS Integers, FiniteSets

CONSTANTS
    Senders,    \* sending actions at work, one message each
    Keys,       \* dedupe keys
    NoKey,      \* a sender that passes dedupe_key=None
    DedupeKey,  \* the dedupe key of each sender
    Claims,     \* claim keys: the waiting tool calls
    Nobody,     \* claimed_by and sender of a row that has none
    BatchSize,  \* batch_size
    Attempts,   \* executions of one poll (model_retry.attempts)
    MaxSends,   \* bound: executions of one sender
    Orphans     \* the phases in which the transaction of a lost poll may go on

ASSUME DedupeAssumption == DedupeKey \in [Senders -> Keys \union {NoKey}]
ASSUME NoKeyAssumption == NoKey \notin Keys
ASSUME NobodyAssumption == Nobody \notin Claims \union Senders
ASSUME BatchSizeAssumption == BatchSize \in Nat \ {0}
ASSUME AttemptsAssumption == Attempts \in Nat \ {0}
ASSUME OrphansAssumption == Orphans \subseteq {"begun", "checked", "locked"}

VARIABLES
    rows,       \* the table: id -> [state, sender, claimed_by]
    next_id,    \* the id sequence
    send,       \* per sender: [state, row, runs]
    tx,         \* per claim and slot: [phase, rows], the poll's transaction
    current,    \* per claim: the slot of the execution the workflow awaits
    poll,       \* per claim: what the waiting tool call does
    attempt,    \* per claim: executions of the poll under way
    delivered   \* per claim: the messages the poll answered

vars == <<rows, next_id, send, tx, current, poll, attempt, delivered>>

Slots == {1, 2}

Absent == [state |-> "absent", sender |-> Nobody, claimed_by |-> Nobody]
Idle   == [phase |-> "idle", rows |-> {}]

RowStates   == {"absent", "open", "committed", "aborted"}
SendStates  == {"idle", "open", "touching", "stored", "done", "failed"}
Phases      == {"idle", "begun", "checked", "locked", "answered"}
PollStates  == {"polling", "pausing", "delivered", "timed_out", "failed"}

(* Ids that a run can reach: one per execution of a sender.                 *)
MaxId == Cardinality(Senders) * MaxSends
Table == 1..MaxId

Init ==
    /\ rows = [id \in Table |-> Absent]
    /\ next_id = 1
    /\ send = [s \in Senders |-> [state |-> "idle", row |-> 0, runs |-> 0]]
    /\ tx = [c \in Claims |-> [n \in Slots |-> Idle]]
    /\ current = [c \in Claims |-> 1]
    /\ poll = [c \in Claims |-> "polling"]
    /\ attempt = [c \in Claims |-> 1]
    /\ delivered = [c \in Claims |-> {}]

----------------------------------------------------------------------------
(* What a statement sees.                                                   *)

Committed == {id \in Table : rows[id].state = "committed"}

(* Fault: an earlier claim under the key is not looked up.                  *)
NotLookedUp(c) == {}

ClaimedBy(c) == {id \in Committed : rows[id].claimed_by = c}

(* A row lock is held by a claim from its SELECT ... FOR UPDATE, and by an  *)
(* upsert that met the row, until their transaction ends.                   *)
LockedBySends(states) == {send[s].row : s \in {r \in Senders : send[r].state \in states}}

(* Fault: the upsert's transaction is never ended.                          *)
SendLocksKept == LockedBySends({"touching", "stored", "done"})

SendLocks == LockedBySends({"touching"})

Locked ==
    SendLocks \union
    UNION {IF tx[c][n].phase = "locked" THEN tx[c][n].rows ELSE {} : c \in Claims, n \in Slots}

(* Fault: the select does not skip what another claim has locked.           *)
UnclaimedRows == {id \in Committed : rows[id].claimed_by = Nobody}

(* The unclaimed rows that SKIP LOCKED leaves.                              *)
Available == {id \in Committed : rows[id].claimed_by = Nobody} \ Locked

(* Fault: no limit on the rows of one claim.                                *)
AllOfThem(S, from) == S = from

(* ORDER BY id LIMIT batch_size *)
IsOldest(S, from) ==
    /\ S \subseteq from
    /\ Cardinality(S) <= BatchSize
    /\ Cardinality(S) < BatchSize => S = from
    /\ \A x \in S, y \in from \ S : x < y

----------------------------------------------------------------------------
(* send_message.                                                            *)

(* Rows that hold the sender's dedupe key against a second insert.          *)
Holding(s) ==
    {id \in Table : /\ rows[id].state \in {"open", "committed"}
                    /\ DedupeKey[s] # NoKey
                    /\ DedupeKey[rows[id].sender] = DedupeKey[s]}

(* Fault: a plain insert, with no unique constraint on dedupe_key.          *)
NothingHolds(s) == TRUE

NoConflict(s) == Holding(s) = {}

(* The row is inserted, not yet visible; its id is drawn now.               *)
SendInserts(s) ==
    /\ send[s].state = "idle"
    /\ send[s].runs < MaxSends
    /\ NoConflict(s)
    /\ rows' = [rows EXCEPT ![next_id] =
                    [state |-> "open", sender |-> s, claimed_by |-> Nobody]]
    /\ next_id' = next_id + 1
    /\ send' = [send EXCEPT ![s] = [state |-> "open", row |-> next_id, runs |-> @.runs + 1]]
    /\ UNCHANGED <<tx, current, poll, attempt, delivered>>

(* ON CONFLICT DO UPDATE: the stored row is locked and set to its own key.  *)
(* A conflicting row that is not committed, or locked, is waited for.       *)
SendTouches(s) ==
    /\ send[s].state = "idle"
    /\ send[s].runs < MaxSends
    /\ \E id \in Holding(s) \ Locked :
          /\ rows[id].state = "committed"
          /\ send' = [send EXCEPT ![s] = [state |-> "touching", row |-> id, runs |-> @.runs + 1]]
    /\ UNCHANGED <<rows, next_id, tx, current, poll, attempt, delivered>>

(* Fault: the conflicting row is overwritten, claim and all.                *)
Overwritten(row, s) == [row EXCEPT !.sender = s, !.claimed_by = Nobody]

(* What the upsert leaves in the conflicting row.                           *)
Touched(row, s) == row

SendCommits(s) ==
    /\ \/ /\ send[s].state = "open"
          /\ rows' = [rows EXCEPT ![send[s].row].state = "committed"]
       \/ /\ send[s].state = "touching"
          /\ rows' = [rows EXCEPT ![send[s].row] = Touched(@, s)]
    /\ send' = [send EXCEPT ![s].state = "stored"]
    /\ UNCHANGED <<next_id, tx, current, poll, attempt, delivered>>

SendAnswers(s) ==
    /\ send[s].state = "stored"
    /\ send' = [send EXCEPT ![s].state = "done"]
    /\ UNCHANGED <<rows, next_id, tx, current, poll, attempt, delivered>>

(* The worker dies, before the commit or after, and PostgreSQL rolls back   *)
(* what was not committed; the action is run again or given up by whoever   *)
(* awaits it.                                                               *)
SendDies(s) ==
    /\ send[s].state \in {"open", "touching", "stored"}
    /\ rows' = IF send[s].state = "open"
               THEN [rows EXCEPT ![send[s].row].state = "aborted"] ELSE rows
    /\ send' = [send EXCEPT ![s].state = IF send[s].runs < MaxSends THEN "idle" ELSE "failed"]
    /\ UNCHANGED <<next_id, tx, current, poll, attempt, delivered>>

----------------------------------------------------------------------------
(* claim_messages, one transaction.                                         *)

SetTx(c, n, phase, ids) == tx' = [tx EXCEPT ![c][n] = [phase |-> phase, rows |-> ids]]

(* The first select: rows claimed under this key by an earlier execution    *)
(* are the answer.                                                          *)
FindClaimed(c, n) ==
    /\ tx[c][n].phase = "begun"
    /\ IF ClaimedBy(c) # {}
       THEN SetTx(c, n, "answered", ClaimedBy(c))
       ELSE SetTx(c, n, "checked", {})
    /\ UNCHANGED <<rows, next_id, send, current, poll, attempt, delivered>>

(* The second select locks the oldest rows it can have at once.             *)
LockPending(c, n) ==
    /\ tx[c][n].phase = "checked"
    /\ \E S \in SUBSET Available :
          /\ IsOldest(S, Available)
          /\ SetTx(c, n, IF S = {} THEN "answered" ELSE "locked", S)
    /\ UNCHANGED <<rows, next_id, send, current, poll, attempt, delivered>>

(* The update and the commit: the claim is visible from here on.            *)
CommitClaim(c, n) ==
    /\ tx[c][n].phase = "locked"
    /\ rows' = [id \in Table |-> IF id \in tx[c][n].rows
                                 THEN [rows[id] EXCEPT !.claimed_by = c] ELSE rows[id]]
    /\ SetTx(c, n, "answered", tx[c][n].rows)
    /\ UNCHANGED <<next_id, send, current, poll, attempt, delivered>>

TxStep(c, n) == FindClaimed(c, n) \/ LockPending(c, n) \/ CommitClaim(c, n)

(* The transaction of a lost execution ends, its answer unheard.            *)
OrphanEnds(c, n) ==
    /\ n # current[c]
    /\ tx[c][n].phase # "idle"
    /\ SetTx(c, n, "idle", {})
    /\ UNCHANGED <<rows, next_id, send, current, poll, attempt, delivered>>

----------------------------------------------------------------------------
(* The waiting tool call: _wait_for_agent_messages, _read_agent_messages.   *)

CurrentTx(c) == tx[c][current[c]]

PollStarts(c) ==
    /\ poll[c] = "polling"
    /\ CurrentTx(c).phase = "idle"
    /\ SetTx(c, current[c], "begun", {})
    /\ UNCHANGED <<rows, next_id, send, current, poll, attempt, delivered>>

Answered(c) == poll[c] = "polling" /\ CurrentTx(c).phase = "answered"

PollDelivers(c) ==
    /\ Answered(c)
    /\ CurrentTx(c).rows # {}
    /\ delivered' = [delivered EXCEPT ![c] = CurrentTx(c).rows]
    /\ poll' = [poll EXCEPT ![c] = "delivered"]
    /\ SetTx(c, current[c], "idle", {})
    /\ UNCHANGED <<rows, next_id, send, current, attempt>>

(* An empty mailbox: the call sleeps, or its timeout has passed.            *)
PollIsEmpty(c) ==
    /\ Answered(c)
    /\ CurrentTx(c).rows = {}
    /\ \E state \in {"pausing", "timed_out"} : poll' = [poll EXCEPT ![c] = state]
    /\ SetTx(c, current[c], "idle", {})
    /\ UNCHANGED <<rows, next_id, send, current, attempt, delivered>>

PauseEnds(c) ==
    /\ poll[c] = "pausing"
    /\ poll' = [poll EXCEPT ![c] = "polling"]
    /\ attempt' = [attempt EXCEPT ![c] = 1]
    /\ UNCHANGED <<rows, next_id, send, tx, current, delivered>>

(* The poll action is lost or never started.  Its transaction is rolled     *)
(* back, unless it had committed, or goes on behind the workflow's back.    *)
GoesOn(c) ==
    /\ CurrentTx(c).phase \in Orphans
    /\ tx[c][3 - current[c]].phase = "idle"
    /\ current' = [current EXCEPT ![c] = 3 - @]
    /\ UNCHANGED tx

Dies(c) == SetTx(c, current[c], "idle", {}) /\ UNCHANGED current

PollReruns(c) ==
    /\ poll[c] = "polling"
    /\ attempt[c] < Attempts
    /\ GoesOn(c) \/ Dies(c)
    /\ attempt' = [attempt EXCEPT ![c] = @ + 1]
    /\ UNCHANGED <<rows, next_id, send, poll, delivered>>

(* Attempts exhausted, or the poll action raises: the tool call fails.      *)
PollFails(c) ==
    /\ poll[c] = "polling"
    /\ attempt[c] = Attempts \/ CurrentTx(c).phase # "idle"
    /\ GoesOn(c) \/ Dies(c)
    /\ poll' = [poll EXCEPT ![c] = "failed"]
    /\ UNCHANGED <<rows, next_id, send, attempt, delivered>>

----------------------------------------------------------------------------
SendStep(s) ==
    SendInserts(s) \/ SendTouches(s) \/ SendCommits(s) \/ SendAnswers(s) \/ SendDies(s)

PollStep(c) ==
    \/ PollStarts(c) \/ PollDelivers(c) \/ PollIsEmpty(c) \/ PauseEnds(c)
    \/ PollReruns(c) \/ PollFails(c)

ClaimStep(c) == PollStep(c) \/ \E n \in Slots : TxStep(c, n) \/ OrphanEnds(c, n)

Quiet ==
    /\ \A s \in Senders : send[s].state \in {"done", "failed"}
    /\ \A c \in Claims : poll[c] \in {"delivered", "timed_out", "failed"}

Terminated == Quiet /\ UNCHANGED vars

Next ==
    \/ \E s \in Senders : SendStep(s)
    \/ \E c \in Claims : ClaimStep(c)
    \/ Terminated

(* The database finishes what it began and Waymark goes on polling; of the  *)
(* senders, whose steps are finitely many, only that some one goes on.  The *)
(* strong part: a claim that locks rows again and again is not lost each    *)
(* time before its commit.                                                  *)
Fairness ==
    /\ WF_vars(\E s \in Senders : SendStep(s))
    /\ \A c \in Claims : WF_vars(ClaimStep(c))
    /\ \A c \in Claims : SF_vars(\E n \in Slots : CommitClaim(c, n))

Spec == Init /\ [][Next]_vars
FairSpec == Spec /\ Fairness

----------------------------------------------------------------------------
(* Properties.                                                              *)

Row == [state : RowStates, sender : Senders \union {Nobody}, claimed_by : Claims \union {Nobody}]

(* Every variable has its type; a transaction holds rows only from its lock *)
(* on, and never locks more than batch_size of them.                        *)
TypeOK ==
    /\ rows \in [Table -> Row]
    /\ next_id \in 1..(MaxId + 1)
    /\ send \in [Senders -> [state : SendStates, row : Table \union {0}, runs : 0..MaxSends]]
    /\ tx \in [Claims -> [Slots -> [phase : Phases, rows : SUBSET Table]]]
    /\ \A c \in Claims, n \in Slots :
          /\ tx[c][n].phase \in {"idle", "begun", "checked"} => tx[c][n].rows = {}
          /\ tx[c][n].phase = "locked" => Cardinality(tx[c][n].rows) \in 1..BatchSize
    /\ current \in [Claims -> Slots]
    /\ poll \in [Claims -> PollStates]
    /\ attempt \in [Claims -> 1..Attempts]
    /\ delivered \in [Claims -> SUBSET Table]

(* However often senders are lost and rerun, one dedupe key is one message: *)
(* a retried send delivers once (inbox.py 28-29).                           *)
StoredOnce ==
    \A x, y \in Committed :
        LET key == DedupeKey[rows[x].sender]
        IN  key # NoKey /\ DedupeKey[rows[y].sender] = key => x = y

(* What a waiting call was given stays stored under its own claim key, so   *)
(* no two calls on one mailbox are ever given the same message, even while  *)
(* transactions of lost polls are still at work (SKIP LOCKED, inbox.py 58). *)
ClaimExclusive ==
    \A c \in Claims : \A id \in delivered[c] :
        rows[id].state = "committed" /\ rows[id].claimed_by = c

(* A call whose wait is over, with messages or by timeout, was given every  *)
(* message that is claimed under its key: a rerun poll drops none           *)
(* (inbox.py 56-57).                                                        *)
NoDrop ==
    \A c \in Claims : poll[c] \in {"delivered", "timed_out"} =>
        \A id \in Table : rows[id].claimed_by = c => id \in delivered[c]

Waiting(c) == poll[c] \in {"polling", "pausing"}

(* Again and again there is no stored message that nobody has claimed, or   *)
(* no call that waits for one: when the senders are done, every message is  *)
(* claimed as long as some call waits.                                      *)
Claimed ==
    []<>(\/ \A id \in Committed : rows[id].claimed_by # Nobody
         \/ \A c \in Claims : ~Waiting(c))

(* Rows, locks, reruns and transactions hidden, this is a mailbox that      *)
(* stores a message once and gives it away once.                            *)
Plain == INSTANCE PlainMailbox WITH
    unread <- {id \in Committed : rows[id].claimed_by = Nobody},
    taken <- [c \in Claims |-> {id \in Committed : rows[id].claimed_by = c}],
    given <- delivered,
    wait <- [c \in Claims |-> IF Waiting(c) THEN "waiting" ELSE poll[c]]

(* The mailbox implements PlainMailbox when a lost poll's transaction ends. *)
IsPlainMailbox == Plain!Spec

================================================================================
