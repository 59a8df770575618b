----------------------------- MODULE MailboxProofs -----------------------------
(****************************************************************************)
(* ClaimExclusive, StoredOnce and TypeOK for every number of senders,       *)
(* claims and executions and for every set of phases in which a lost poll's *)
(* transaction may go on; NoDrop and the refinement of PlainMailbox when it *)
(* ends with the poll.                                                      *)
(*                                                                          *)
(* The argument: a committed row never leaves the table and only the commit *)
(* of a claim that locked it, while it was unclaimed, changes claimed_by.   *)
(* Two transactions never hold locks on the same row, so a claim, once      *)
(* committed, stands.  A row is only inserted when no stored row has its    *)
(* key, and a row that is stored keeps its sender, and so its key.  When no *)
(* lost transaction goes on, what is claimed under a key is what its call   *)
(* is about to be given.  The table is long enough because an execution of  *)
(* a sender draws one id at most.                                           *)
(****************************************************************************)
EXTENDS Mailbox, FiniteSetTheorems, TLAPS

(* What the steps need of the types; the bounds TypeOK puts on counters are *)
(* not among it.                                                            *)
Shapes ==
    /\ rows \in [Table -> Row]
    /\ next_id \in Nat
    /\ send \in [Senders -> [state : SendStates, row : Nat, runs : Nat]]
    /\ tx \in [Claims -> [Slots -> [phase : Phases, rows : SUBSET Table]]]
    /\ current \in [Claims -> Slots]
    /\ delivered \in [Claims -> SUBSET Table]

(* Ids that were not drawn yet have no row.                                 *)
Fresh == \A id \in Table : id >= next_id => rows[id] = Absent

(* An insert under way owns its row.                                        *)
OpenRows ==
    \A s \in Senders :
        send[s].state = "open" /\ send[s].row \in Table =>
            /\ rows[send[s].row].state = "open"
            /\ rows[send[s].row].sender = s

(* Ids are drawn before they are used.                                      *)
Drawn == \A s \in Senders : send[s].state = "open" => send[s].row < next_id

Holds(id, who) == rows[id].state = "committed" /\ rows[id].claimed_by = who

AnswersHeld ==
    \A c \in Claims, n \in Slots :
        tx[c][n].phase = "answered" => \A id \in tx[c][n].rows : Holds(id, c)

LocksHeld ==
    \A c \in Claims, n \in Slots :
        tx[c][n].phase = "locked" => \A id \in tx[c][n].rows : Holds(id, Nobody)

LocksApart ==
    \A c, d \in Claims, n, m \in Slots :
        /\ tx[c][n].phase = "locked"
        /\ tx[d][m].phase = "locked"
        /\ c # d \/ n # m
        => tx[c][n].rows \cap tx[d][m].rows = {}

TableInv == Shapes /\ Fresh /\ OpenRows /\ Drawn
ClaimInv == AnswersHeld /\ LocksHeld /\ LocksApart /\ ClaimExclusive
IInv == TableInv /\ ClaimInv

----------------------------------------------------------------------------
(* The table is empty and nobody has begun.                                 *)
LEMMA InvInit == Init => IInv
<1> SUFFICES ASSUME Init PROVE IInv OBVIOUS
<1>1. Shapes
  BY DEF Init, Shapes, Row, RowStates, SendStates, Phases, Slots, Absent, Idle
<1>2. Fresh /\ OpenRows /\ Drawn
  BY DEF Init, Fresh, OpenRows, Drawn
<1>3. ClaimInv
  BY DEF Init, ClaimInv, AnswersHeld, LocksHeld, LocksApart, ClaimExclusive, Idle
<1> QED BY <1>1, <1>2, <1>3 DEF IInv, TableInv

(* Setting one transaction leaves the others alone.                         *)
LEMMA TxSet ==
    ASSUME Shapes, NEW c \in Claims, NEW n \in Slots, NEW phase \in Phases,
           NEW ids \in SUBSET Table, SetTx(c, n, phase, ids)
    PROVE  /\ tx' \in [Claims -> [Slots -> [phase : Phases, rows : SUBSET Table]]]
           /\ tx'[c][n] = [phase |-> phase, rows |-> ids]
           /\ \A d \in Claims, m \in Slots : c # d \/ n # m => tx'[d][m] = tx[d][m]
  BY DEF Shapes, SetTx

(* What a sender does leaves every committed row as it is: a retried send   *)
(* cannot touch a claim.                                                    *)
LEMMA SendsKeepRows ==
    ASSUME TableInv, NEW s \in Senders, SendStep(s)
    PROVE  \A id \in Table : rows[id].state = "committed" => rows'[id] = rows[id]
<1> USE DEF TableInv, Shapes
<1>1. CASE SendInserts(s)
  <2>1. \A id \in Table : id # next_id => rows'[id] = rows[id]
    BY <1>1 DEF SendInserts
  <2>2. next_id \in Table => rows[next_id].state # "committed"
    BY DEF Fresh, Absent, Table
  <2> QED BY <2>1, <2>2
<1>2. CASE SendCommits(s)
  <2>1. CASE send[s].state = "open"
    <3>1. rows' = [rows EXCEPT ![send[s].row].state = "committed"]
      BY <1>2, <2>1 DEF SendCommits
    <3>2. send[s].row \in Table => rows[send[s].row].state = "open"
      BY <2>1 DEF OpenRows
    <3> QED BY <3>1, <3>2
  <2>2. CASE send[s].state = "touching"
    BY <1>2, <2>2 DEF SendCommits, Touched
  <2> QED BY <1>2, <2>1, <2>2 DEF SendCommits
<1>3. CASE SendDies(s)
  <2>1. CASE send[s].state = "open"
    <3>1. rows' = [rows EXCEPT ![send[s].row].state = "aborted"]
      BY <1>3, <2>1 DEF SendDies
    <3>2. send[s].row \in Table => rows[send[s].row].state = "open"
      BY <2>1 DEF OpenRows
    <3> QED BY <3>1, <3>2
  <2>2. CASE send[s].state # "open"
    BY <1>3, <2>2 DEF SendDies
  <2> QED BY <2>1, <2>2
<1> QED BY <1>1, <1>2, <1>3 DEF SendStep, SendTouches, SendAnswers

(* Every step of a sender keeps the table in order.                         *)
LEMMA SendsKeepTable ==
    ASSUME TableInv, NEW s \in Senders, SendStep(s)
    PROVE  TableInv'
<1> USE DEF TableInv, Shapes
<1>1. CASE SendInserts(s)
  <2>1. /\ rows' = [rows EXCEPT ![next_id] =
                        [state |-> "open", sender |-> s, claimed_by |-> Nobody]]
        /\ next_id' = next_id + 1
        /\ send' = [send EXCEPT ![s] =
                        [state |-> "open", row |-> next_id, runs |-> @.runs + 1]]
        /\ UNCHANGED <<tx, current, delivered>>
    BY <1>1 DEF SendInserts
  <2>2. Shapes'
    <3>1. [state |-> "open", sender |-> s, claimed_by |-> Nobody] \in Row
      BY DEF Row, RowStates
    <3>2. rows' \in [Table -> Row]
      BY <2>1, <3>1
    <3>3. send' \in [Senders -> [state : SendStates, row : Nat, runs : Nat]]
      BY <2>1 DEF SendStates
    <3> QED BY <2>1, <3>2, <3>3
  <2>3. Fresh'
    BY <2>1 DEF Fresh, Table
  <2>4. OpenRows'
    <3> SUFFICES ASSUME NEW r \in Senders, send'[r].state = "open", send'[r].row \in Table
                 PROVE  /\ rows'[send'[r].row].state = "open"
                        /\ rows'[send'[r].row].sender = r
      BY DEF OpenRows
    <3>1. CASE r = s
      BY <2>1, <3>1
    <3>2. CASE r # s
      <4>1. send'[r] = send[r]
        BY <2>1, <3>2
      <4>2. send[r].row < next_id
        BY <4>1 DEF Drawn
      <4>3. send[r].row # next_id
        BY <4>2
      <4>4. rows'[send[r].row] = rows[send[r].row]
        BY <2>1, <4>1, <4>3
      <4> QED BY <4>1, <4>4 DEF OpenRows
    <3> QED BY <3>1, <3>2
  <2>5. Drawn'
    BY <2>1 DEF Drawn
  <2> QED BY <2>2, <2>3, <2>4, <2>5
<1>2. CASE SendTouches(s)
  <2>1. PICK id \in Table :
           send' = [send EXCEPT ![s] = [state |-> "touching", row |-> id, runs |-> @.runs + 1]]
    BY <1>2 DEF SendTouches, Holding
  <2>2. UNCHANGED <<rows, next_id, tx, current, delivered>>
    BY <1>2 DEF SendTouches
  <2>3. id \in Nat
    BY DEF Table
  <2>4. Shapes'
    BY <2>1, <2>2, <2>3 DEF SendStates
  <2>5. Fresh' /\ OpenRows' /\ Drawn'
    BY <2>1, <2>2 DEF Fresh, OpenRows, Drawn
  <2> QED BY <2>4, <2>5
<1>3. CASE SendCommits(s)
  <2>1. /\ send' = [send EXCEPT ![s].state = "stored"]
        /\ UNCHANGED <<next_id, tx, current, delivered>>
    BY <1>3 DEF SendCommits
  <2>2. \A id \in Table : rows'[id] # rows[id] => send[s].state = "open" /\ id = send[s].row
    BY <1>3 DEF SendCommits, Touched
  <2>3. rows' \in [Table -> Row]
    <3>1. CASE send[s].state = "open"
      <4>1. rows' = [rows EXCEPT ![send[s].row].state = "committed"]
        BY <1>3, <3>1 DEF SendCommits
      <4> QED BY <4>1 DEF Row, RowStates
    <3>2. CASE send[s].state = "touching"
      BY <1>3, <3>2 DEF SendCommits, Touched
    <3> QED BY <1>3, <3>1, <3>2 DEF SendCommits
  <2>4. Shapes'
    BY <2>1, <2>3 DEF SendStates
  <2>5. Drawn'
    BY <2>1 DEF Drawn
  <2>6. Fresh'
    BY <2>1, <2>2 DEF Fresh, Drawn, Table
  <2>7. OpenRows'
    BY <2>1, <2>2 DEF OpenRows
  <2> QED BY <2>4, <2>5, <2>6, <2>7
<1>4. CASE SendAnswers(s)
  <2>1. /\ send' = [send EXCEPT ![s].state = "done"]
        /\ UNCHANGED <<rows, next_id, tx, current, delivered>>
    BY <1>4 DEF SendAnswers
  <2> QED BY <2>1 DEF SendStates, Fresh, OpenRows, Drawn
<1>5. CASE SendDies(s)
  <2>1. PICK state \in {"idle", "failed"} : send' = [send EXCEPT ![s].state = state]
    BY <1>5 DEF SendDies
  <2>2. UNCHANGED <<next_id, tx, current, delivered>>
    BY <1>5 DEF SendDies
  <2>3. \A id \in Table : rows'[id] # rows[id] => send[s].state = "open" /\ id = send[s].row
    BY <1>5 DEF SendDies
  <2>4. rows' \in [Table -> Row]
    <3>1. CASE send[s].state = "open"
      <4>1. rows' = [rows EXCEPT ![send[s].row].state = "aborted"]
        BY <1>5, <3>1 DEF SendDies
      <4> QED BY <4>1 DEF Row, RowStates
    <3>2. CASE send[s].state # "open"
      BY <1>5, <3>2 DEF SendDies
    <3> QED BY <3>1, <3>2
  <2>5. Shapes'
    BY <2>1, <2>2, <2>4 DEF SendStates
  <2>6. Drawn'
    BY <2>1, <2>2 DEF Drawn
  <2>7. Fresh'
    BY <2>2, <2>3 DEF Fresh, Drawn, Table
  <2>8. OpenRows'
    BY <2>1, <2>3 DEF OpenRows
  <2> QED BY <2>5, <2>6, <2>7, <2>8
<1> QED BY <1>1, <1>2, <1>3, <1>4, <1>5 DEF SendStep

(* A step after which committed rows, transactions and deliveries are what  *)
(* they were keeps every claim.                                             *)
LEMMA ClaimsStand ==
    ASSUME TableInv, ClaimInv, UNCHANGED <<tx, delivered>>,
           \A id \in Table : rows[id].state = "committed" => rows'[id] = rows[id]
    PROVE  ClaimInv'
<1> USE DEF TableInv, Shapes, ClaimInv, Holds
<1>1. AnswersHeld'
  BY DEF AnswersHeld
<1>2. LocksHeld'
  BY DEF LocksHeld
<1>3. LocksApart'
  BY DEF LocksApart
<1>4. ClaimExclusive'
  BY DEF ClaimExclusive
<1> QED BY <1>1, <1>2, <1>3, <1>4

----------------------------------------------------------------------------
(* One transaction moves on over an unchanged table.  Its answer must be    *)
(* its own claim, and its locks must be on rows nobody else has locked.     *)
LEMMA ClaimsMove ==
    ASSUME TableInv, ClaimInv, NEW c \in Claims, NEW n \in Slots, NEW phase \in Phases,
           NEW ids \in SUBSET Table, SetTx(c, n, phase, ids),
           UNCHANGED rows,
           phase = "answered" => \A id \in ids : Holds(id, c),
           phase = "locked" => ids \subseteq Available
    PROVE  AnswersHeld' /\ LocksHeld' /\ LocksApart'
<1> USE DEF TableInv, ClaimInv
<1>1. /\ tx'[c][n] = [phase |-> phase, rows |-> ids]
      /\ \A d \in Claims, m \in Slots : c # d \/ n # m => tx'[d][m] = tx[d][m]
  BY TxSet
<1>2. \A id \in Table : \A who : Holds(id, who)' <=> Holds(id, who)
  BY DEF Holds
<1>3. AnswersHeld'
  <2> SUFFICES ASSUME NEW d \in Claims, NEW m \in Slots, tx'[d][m].phase = "answered",
                      NEW id \in tx'[d][m].rows
               PROVE  Holds(id, d)'
    BY DEF AnswersHeld
  <2>1. CASE c = d /\ n = m
    BY <1>1, <2>1 DEF Holds
  <2>2. CASE c # d \/ n # m
    BY <1>1, <2>2 DEF AnswersHeld, Holds
  <2> QED BY <2>1, <2>2
<1>4. phase = "locked" => \A id \in ids : Holds(id, Nobody)
  BY DEF Available, Committed, Holds
<1>5. LocksHeld'
  <2> SUFFICES ASSUME NEW d \in Claims, NEW m \in Slots, tx'[d][m].phase = "locked",
                      NEW id \in tx'[d][m].rows
               PROVE  Holds(id, Nobody)'
    BY DEF LocksHeld
  <2>1. CASE c = d /\ n = m
    BY <1>1, <1>4, <2>1 DEF Holds
  <2>2. CASE c # d \/ n # m
    BY <1>1, <2>2 DEF LocksHeld, Holds
  <2> QED BY <2>1, <2>2
<1>6. \A d \in Claims, m \in Slots :
         phase = "locked" /\ tx[d][m].phase = "locked" => ids \cap tx[d][m].rows = {}
  BY DEF Available, Locked
<1>7. LocksApart'
  <2> SUFFICES ASSUME NEW d \in Claims, NEW e \in Claims, NEW m \in Slots, NEW k \in Slots,
                      tx'[d][m].phase = "locked", tx'[e][k].phase = "locked",
                      d # e \/ m # k
               PROVE  tx'[d][m].rows \cap tx'[e][k].rows = {}
    BY DEF LocksApart
  <2>1. CASE c = d /\ n = m
    <3>1. tx'[e][k] = tx[e][k]
      BY <1>1, <2>1
    <3> QED BY <1>1, <1>6, <2>1, <3>1
  <2>2. CASE c = e /\ n = k
    <3>1. tx'[d][m] = tx[d][m]
      BY <1>1, <2>2
    <3> QED BY <1>1, <1>6, <2>2, <3>1
  <2>3. CASE (c # d \/ n # m) /\ (c # e \/ n # k)
    <3>1. tx'[d][m] = tx[d][m] /\ tx'[e][k] = tx[e][k]
      BY <1>1, <2>3
    <3> QED BY <3>1 DEF LocksApart
  <2> QED BY <2>1, <2>2, <2>3
<1> QED BY <1>3, <1>5, <1>7

(* Steps that leave the table and its senders alone keep it in order.       *)
LEMMA TableStands ==
    ASSUME TableInv, UNCHANGED <<rows, next_id, send>>,
           tx' \in [Claims -> [Slots -> [phase : Phases, rows : SUBSET Table]]],
           current' \in [Claims -> Slots],
           delivered' \in [Claims -> SUBSET Table]
    PROVE  TableInv'
  BY DEF TableInv, Shapes, Fresh, OpenRows, Drawn

(* The two selects: earlier claims are the answer, or unclaimed rows that   *)
(* nobody has locked are locked.                                            *)
LEMMA SelectsKeep ==
    ASSUME IInv, NEW c \in Claims, NEW n \in Slots, FindClaimed(c, n) \/ LockPending(c, n)
    PROVE  IInv'
<1> USE DEF IInv
<1>1. PICK phase \in {"answered", "checked", "locked"}, ids \in SUBSET Table :
         /\ SetTx(c, n, phase, ids)
         /\ phase = "answered" => \A id \in ids : Holds(id, c)
         /\ phase = "locked" => ids \subseteq Available
  <2>1. CASE FindClaimed(c, n)
    <3>1. ClaimedBy(c) \in SUBSET Table /\ \A id \in ClaimedBy(c) : Holds(id, c)
      BY DEF ClaimedBy, Committed, Holds
    <3> QED BY <2>1, <3>1 DEF FindClaimed
  <2>2. CASE LockPending(c, n)
    <3>1. PICK S \in SUBSET Available :
             SetTx(c, n, IF S = {} THEN "answered" ELSE "locked", S)
      BY <2>2 DEF LockPending
    <3>2. S \in SUBSET Table
      BY DEF Available, Committed
    <3> QED BY <3>1, <3>2
  <2> QED BY <2>1, <2>2
<1>2. UNCHANGED <<rows, next_id, send, current, delivered>>
  BY DEF FindClaimed, LockPending
<1>3. phase \in Phases
  BY DEF Phases
<1>4. tx' \in [Claims -> [Slots -> [phase : Phases, rows : SUBSET Table]]]
  BY <1>1, <1>3, TxSet DEF TableInv
<1>5. TableInv'
  BY <1>2, <1>4, TableStands DEF TableInv, Shapes
<1>6. AnswersHeld' /\ LocksHeld' /\ LocksApart'
  BY <1>1, <1>2, <1>3, ClaimsMove
<1>7. UNCHANGED delivered
  BY DEF FindClaimed, LockPending
<1>8. ClaimExclusive'
  BY <1>2, <1>7 DEF ClaimExclusive, ClaimInv
<1> QED BY <1>5, <1>6, <1>8 DEF ClaimInv

(* The commit claims rows that were unclaimed and locked by nobody else, so *)
(* no answer, delivery or lock of another transaction is about them.        *)
LEMMA CommitKeeps ==
    ASSUME IInv, NEW c \in Claims, NEW n \in Slots, CommitClaim(c, n)
    PROVE  IInv'
<1> USE DEF IInv, TableInv, ClaimInv
<1> DEFINE mine == tx[c][n].rows
<1>1. /\ tx[c][n].phase = "locked"
      /\ rows' = [id \in Table |-> IF id \in mine
                                   THEN [rows[id] EXCEPT !.claimed_by = c] ELSE rows[id]]
      /\ SetTx(c, n, "answered", mine)
      /\ UNCHANGED <<next_id, send, current, delivered>>
  BY DEF CommitClaim
<1>2. mine \in SUBSET Table
  BY DEF Shapes
<1>3. "answered" \in Phases
  BY DEF Phases
<1>4. /\ tx' \in [Claims -> [Slots -> [phase : Phases, rows : SUBSET Table]]]
      /\ tx'[c][n] = [phase |-> "answered", rows |-> mine]
      /\ \A d \in Claims, m \in Slots : c # d \/ n # m => tx'[d][m] = tx[d][m]
  <2> HIDE DEF mine
  <2> QED BY <1>1, <1>2, <1>3, TxSet
<1>5. \A id \in mine : Holds(id, Nobody)
  BY <1>1 DEF LocksHeld
<1>6. \A id \in mine : Holds(id, c)'
  BY <1>1, <1>2, <1>5 DEF Holds, Shapes, Row
<1>7. \A id \in Table : id \notin mine => rows'[id] = rows[id]
  BY <1>1
<1>8. \A id \in Table : /\ rows'[id].state = rows[id].state
                       /\ rows'[id].sender = rows[id].sender
  BY <1>1 DEF Shapes, Row
<1>9. Shapes'
  <2>1. rows' \in [Table -> Row]
    <3>1. \A id \in Table : [rows[id] EXCEPT !.claimed_by = c] \in Row
      BY DEF Shapes, Row
    <3> QED BY <1>1, <3>1 DEF Shapes
  <2> QED BY <1>1, <1>4, <2>1 DEF Shapes
<1>10. Fresh'
  BY <1>1, <1>5, <1>7 DEF Fresh, Holds, Absent
<1>11. OpenRows' /\ Drawn'
  BY <1>1, <1>8 DEF OpenRows, Drawn
<1>12. Nobody # c
  BY NobodyAssumption
<1>13. \A d \in Claims, id \in Table : Holds(id, d) => id \notin mine /\ Holds(id, d)'
  BY <1>5, <1>7, NobodyAssumption DEF Holds
<1>14. AnswersHeld'
  <2> SUFFICES ASSUME NEW d \in Claims, NEW m \in Slots, tx'[d][m].phase = "answered",
                      NEW id \in tx'[d][m].rows
               PROVE  Holds(id, d)'
    BY DEF AnswersHeld
  <2>1. CASE c = d /\ n = m
    BY <1>4, <1>6, <2>1
  <2>2. CASE c # d \/ n # m
    <3>1. tx'[d][m] = tx[d][m] /\ id \in Table
      BY <1>4, <2>2 DEF Shapes
    <3> QED BY <1>13, <3>1 DEF AnswersHeld
  <2> QED BY <2>1, <2>2
<1>15. LocksHeld'
  <2> SUFFICES ASSUME NEW d \in Claims, NEW m \in Slots, tx'[d][m].phase = "locked",
                      NEW id \in tx'[d][m].rows
               PROVE  Holds(id, Nobody)'
    BY DEF LocksHeld
  <2>1. c # d \/ n # m
    BY <1>4
  <2>2. tx'[d][m] = tx[d][m] /\ id \in Table
    BY <1>4, <2>1 DEF Shapes
  <2>3. id \notin mine
    BY <1>1, <2>1, <2>2 DEF LocksApart
  <2> QED BY <1>7, <2>2, <2>3 DEF LocksHeld, Holds
<1>16. LocksApart'
  <2> SUFFICES ASSUME NEW d \in Claims, NEW e \in Claims, NEW m \in Slots, NEW k \in Slots,
                      tx'[d][m].phase = "locked", tx'[e][k].phase = "locked",
                      d # e \/ m # k
               PROVE  tx'[d][m].rows \cap tx'[e][k].rows = {}
    BY DEF LocksApart
  <2>1. (c # d \/ n # m) /\ (c # e \/ n # k)
    BY <1>4
  <2>2. tx'[d][m] = tx[d][m] /\ tx'[e][k] = tx[e][k]
    BY <1>4, <2>1
  <2> QED BY <2>2 DEF LocksApart
<1>17. ClaimExclusive'
  <2> SUFFICES ASSUME NEW d \in Claims, NEW id \in delivered'[d]
               PROVE  Holds(id, d)'
    BY DEF ClaimExclusive, Holds
  <2>1. id \in Table /\ Holds(id, d)
    BY <1>1 DEF ClaimExclusive, Holds, Shapes
  <2> QED BY <1>13, <2>1
<1> QED BY <1>9, <1>10, <1>11, <1>14, <1>15, <1>16, <1>17

(* A transaction that begins or ends holds nothing.                         *)
LEMMA EmptyKeeps ==
    ASSUME IInv, NEW c \in Claims, NEW n \in Slots, NEW phase \in {"idle", "begun"},
           SetTx(c, n, phase, {}), UNCHANGED <<rows, next_id, send>>,
           current' \in [Claims -> Slots],
           delivered' \in [Claims -> SUBSET Table]
    PROVE  TableInv' /\ AnswersHeld' /\ LocksHeld' /\ LocksApart'
<1>1. phase \in Phases /\ {} \in SUBSET Table
  BY DEF Phases
<1>2. tx' \in [Claims -> [Slots -> [phase : Phases, rows : SUBSET Table]]]
  BY <1>1, TxSet DEF IInv, TableInv
<1>3. TableInv'
  BY <1>2, TableStands DEF IInv
<1>4. AnswersHeld' /\ LocksHeld' /\ LocksApart'
  BY <1>1, ClaimsMove DEF IInv
<1> QED BY <1>3, <1>4

(* What the waiting call does beside the database: it gives away only what  *)
(* its transaction answered.                                                *)
LEMMA PollsKeep ==
    ASSUME IInv, NEW c \in Claims, PollStep(c) \/ \E n \in Slots : OrphanEnds(c, n)
    PROVE  IInv'
<1> USE DEF IInv
<1>1. current[c] \in Slots /\ 3 - current[c] \in Slots
  BY DEF TableInv, Shapes, Slots
<1>2. UNCHANGED <<rows, next_id, send>>
  BY DEF PollStep, PollStarts, PollDelivers, PollIsEmpty, PauseEnds, PollReruns, PollFails,
         OrphanEnds
<1>3. current' \in [Claims -> Slots]
  BY <1>1 DEF PollStep, PollStarts, PollDelivers, PollIsEmpty, PauseEnds, PollReruns, PollFails,
              OrphanEnds, GoesOn, Dies, TableInv, Shapes
<1>4. \/ UNCHANGED tx
      \/ \E n \in Slots, phase \in {"idle", "begun"} : SetTx(c, n, phase, {})
  BY <1>1 DEF PollStep, PollStarts, PollDelivers, PollIsEmpty, PauseEnds, PollReruns, PollFails,
              OrphanEnds, GoesOn, Dies
<1>5. \A d \in Claims : \A id \in delivered'[d] : id \in Table /\ Holds(id, d)
  <2>1. \A d \in Claims : \A id \in delivered[d] : id \in Table /\ Holds(id, d)
    BY DEF ClaimInv, ClaimExclusive, Holds, TableInv, Shapes
  <2>2. CASE PollDelivers(c)
    <3>1. delivered' = [delivered EXCEPT ![c] = CurrentTx(c).rows]
      BY <2>2 DEF PollDelivers
    <3>2. \A id \in CurrentTx(c).rows : id \in Table /\ Holds(id, c)
      BY <1>1, <2>2 DEF PollDelivers, Answered, CurrentTx, ClaimInv, AnswersHeld, TableInv, Shapes
    <3> QED BY <2>1, <3>1, <3>2 DEF TableInv, Shapes
  <2>3. CASE UNCHANGED delivered
    BY <2>1, <2>3
  <2> QED BY <2>2, <2>3 DEF PollStep, PollStarts, PollIsEmpty, PauseEnds, PollReruns, PollFails,
                            OrphanEnds
<1>6. delivered' \in [Claims -> SUBSET Table]
  <2>1. CurrentTx(c).rows \in SUBSET Table
    BY <1>1 DEF CurrentTx, TableInv, Shapes
  <2> QED BY <2>1 DEF PollStep, PollStarts, PollDelivers, PollIsEmpty, PauseEnds, PollReruns,
                      PollFails, OrphanEnds, TableInv, Shapes
<1>7. TableInv' /\ AnswersHeld' /\ LocksHeld' /\ LocksApart'
  <2>1. CASE UNCHANGED tx
    <3>1. TableInv'
      BY <1>2, <1>3, <1>6, <2>1, TableStands DEF TableInv, Shapes
    <3>2. AnswersHeld' /\ LocksHeld' /\ LocksApart'
      BY <1>2, <2>1 DEF ClaimInv, AnswersHeld, LocksHeld, LocksApart, Holds
    <3> QED BY <3>1, <3>2
  <2>2. ASSUME NEW n \in Slots, NEW phase \in {"idle", "begun"}, SetTx(c, n, phase, {})
        PROVE  TableInv' /\ AnswersHeld' /\ LocksHeld' /\ LocksApart'
    BY <1>2, <1>3, <1>6, <2>2, EmptyKeeps
  <2> QED BY <1>4, <2>1, <2>2
<1>8. ClaimExclusive'
  BY <1>2, <1>5 DEF ClaimExclusive, Holds
<1> QED BY <1>7, <1>8 DEF ClaimInv

----------------------------------------------------------------------------
(* Every step of the mailbox keeps the invariant.                           *)
LEMMA InvStep == IInv /\ [Next]_vars => IInv'
<1> SUFFICES ASSUME IInv, [Next]_vars PROVE IInv' OBVIOUS
<1>1. ASSUME NEW s \in Senders, SendStep(s) PROVE IInv'
  <2>1. UNCHANGED <<tx, delivered>>
    BY <1>1 DEF SendStep, SendInserts, SendTouches, SendCommits, SendAnswers, SendDies
  <2>2. TableInv'
    BY <1>1, SendsKeepTable DEF IInv
  <2>3. ClaimInv'
    BY <1>1, <2>1, SendsKeepRows, ClaimsStand DEF IInv
  <2> QED BY <2>2, <2>3 DEF IInv
<1>2. ASSUME NEW c \in Claims, ClaimStep(c) PROVE IInv'
  <2>1. CASE PollStep(c) \/ \E n \in Slots : OrphanEnds(c, n)
    BY <2>1, PollsKeep
  <2>2. ASSUME NEW n \in Slots, TxStep(c, n) PROVE IInv'
    BY <2>2, SelectsKeep, CommitKeeps DEF TxStep
  <2> QED BY <1>2, <2>1, <2>2 DEF ClaimStep
<1>3. CASE UNCHANGED vars
  <2>1. UNCHANGED <<rows, next_id, send, tx, current, delivered>>
    BY <1>3 DEF vars
  <2>2. TableInv'
    BY <2>1, TableStands DEF IInv, TableInv, Shapes
  <2>3. ClaimInv'
    BY <2>1, ClaimsStand DEF IInv
  <2> QED BY <2>2, <2>3 DEF IInv
<1> QED BY <1>1, <1>2, <1>3 DEF Next, Terminated

(* The inductive invariant holds in every reachable state.                  *)
THEOREM Invariance == Spec => []IInv
<1>1. Init => IInv
  BY InvInit
<1>2. IInv /\ [Next]_vars => IInv'
  BY InvStep
<1> QED BY <1>1, <1>2, PTL DEF Spec

(* No message is given to two waiting calls, and what a call was given      *)
(* stays its own, for any senders, claim keys, batch size and attempts, and *)
(* whatever the transactions of lost polls do (claim_messages).             *)
THEOREM ClaimsExclusive == Spec => []ClaimExclusive
<1>1. IInv => ClaimExclusive
  BY DEF IInv, ClaimInv
<1> QED BY <1>1, Invariance, PTL

----------------------------------------------------------------------------
(* A row that holds its key against a second insert.                        *)
Stored(id) == rows[id].state \in {"open", "committed"}

KeyOf(id) == DedupeKey[rows[id].sender]

(* Stored rows have different keys, committed or not.                       *)
KeysApart ==
    \A x, y \in Table :
        Stored(x) /\ Stored(y) /\ KeyOf(x) # NoKey /\ KeyOf(x) = KeyOf(y) => x = y

(* A step that stores no row keeps the keys apart.                          *)
LEMMA KeysStand ==
    ASSUME KeysApart,
           \A id \in Table : Stored(id)' => Stored(id) /\ rows'[id].sender = rows[id].sender
    PROVE  KeysApart'
  BY DEF KeysApart, KeyOf

(* A sender inserts only when no stored row holds its key.                  *)
LEMMA SendsKeepKeys ==
    ASSUME TableInv, KeysApart, NEW s \in Senders, SendStep(s)
    PROVE  KeysApart'
<1> USE DEF TableInv, Shapes
<1>1. CASE SendInserts(s)
  <2>1. /\ Holding(s) = {}
        /\ rows' = [rows EXCEPT ![next_id] =
                        [state |-> "open", sender |-> s, claimed_by |-> Nobody]]
    BY <1>1 DEF SendInserts, NoConflict
  <2>2. \A id \in Table : id # next_id => rows'[id] = rows[id]
    BY <2>1
  <2>3. \A id \in Table : Stored(id) /\ DedupeKey[s] # NoKey => KeyOf(id) # DedupeKey[s]
    BY <2>1 DEF Holding, Stored, KeyOf
  <2>4. next_id \in Table => rows'[next_id].sender = s
    BY <2>1
  <2> SUFFICES ASSUME NEW x \in Table, NEW y \in Table, Stored(x)', Stored(y)',
                      KeyOf(x)' # NoKey, KeyOf(x)' = KeyOf(y)', x # y
               PROVE  FALSE
    BY DEF KeysApart
  <2>5. CASE x = next_id
    BY <2>2, <2>3, <2>4, <2>5 DEF Stored, KeyOf
  <2>6. CASE y = next_id
    BY <2>2, <2>3, <2>4, <2>6 DEF Stored, KeyOf
  <2>7. CASE x # next_id /\ y # next_id
    BY <2>2, <2>7 DEF KeysApart, Stored, KeyOf
  <2> QED BY <2>5, <2>6, <2>7
<1>2. CASE SendCommits(s)
  <2>1. CASE send[s].state = "open"
    <3>1. rows' = [rows EXCEPT ![send[s].row].state = "committed"]
      BY <1>2, <2>1 DEF SendCommits
    <3>2. send[s].row \in Table => rows[send[s].row].state = "open"
      BY <2>1 DEF OpenRows
    <3>3. \A id \in Table : Stored(id)' => Stored(id) /\ rows'[id].sender = rows[id].sender
      BY <3>1, <3>2 DEF Stored, Row
    <3> QED BY <3>3, KeysStand
  <2>2. CASE send[s].state = "touching"
    <3>1. rows' = rows
      BY <1>2, <2>2 DEF SendCommits, Touched
    <3> QED BY <3>1, KeysStand DEF Stored
  <2> QED BY <1>2, <2>1, <2>2 DEF SendCommits
<1>3. CASE SendDies(s)
  <2>1. \A id \in Table : Stored(id)' => Stored(id) /\ rows'[id].sender = rows[id].sender
    <3>1. CASE send[s].state = "open"
      <4>1. rows' = [rows EXCEPT ![send[s].row].state = "aborted"]
        BY <1>3, <3>1 DEF SendDies
      <4> QED BY <4>1 DEF Stored, Row
    <3>2. CASE send[s].state # "open"
      <4>1. rows' = rows
        BY <1>3, <3>2 DEF SendDies
      <4> QED BY <4>1 DEF Stored
    <3> QED BY <3>1, <3>2
  <2> QED BY <2>1, KeysStand
<1>4. CASE SendTouches(s) \/ SendAnswers(s)
  <2>1. rows' = rows
    BY <1>4 DEF SendTouches, SendAnswers
  <2> QED BY <2>1, KeysStand DEF Stored
<1> QED BY <1>1, <1>2, <1>3, <1>4 DEF SendStep

(* A waiting call sets claimed_by of rows and nothing else of them.         *)
LEMMA ClaimsKeepSenders ==
    ASSUME TableInv, NEW c \in Claims, ClaimStep(c)
    PROVE  \A id \in Table : rows'[id].state = rows[id].state /\ rows'[id].sender = rows[id].sender
<1>1. ASSUME NEW n \in Slots, CommitClaim(c, n)
      PROVE  \A id \in Table : /\ rows'[id].state = rows[id].state
                               /\ rows'[id].sender = rows[id].sender
  BY <1>1 DEF CommitClaim, TableInv, Shapes, Row
<1>2. CASE UNCHANGED rows
  BY <1>2
<1> QED BY <1>1, <1>2 DEF ClaimStep, PollStep, PollStarts, PollDelivers, PollIsEmpty, PauseEnds,
                          PollReruns, PollFails, OrphanEnds, TxStep, FindClaimed, LockPending

(* So a waiting call keeps the keys apart.                                 *)
LEMMA ClaimsKeepKeys ==
    ASSUME TableInv, KeysApart, NEW c \in Claims, ClaimStep(c)
    PROVE  KeysApart'
  BY ClaimsKeepSenders, KeysStand DEF Stored

(* One dedupe key is one message, for any number of senders that share it   *)
(* and however often each is lost and run again (send_message).             *)
THEOREM StoresOnce == Spec => []StoredOnce
<1>1. Init => KeysApart
  BY DEF Init, KeysApart, Stored, Absent
<1>2. IInv /\ KeysApart /\ [Next]_vars => KeysApart'
  <2> SUFFICES ASSUME IInv, KeysApart, [Next]_vars PROVE KeysApart' OBVIOUS
  <2>1. CASE UNCHANGED vars
    BY <2>1, KeysStand DEF vars, Stored
  <2> QED BY <2>1, SendsKeepKeys, ClaimsKeepKeys DEF IInv, Next, Terminated
<1>3. KeysApart => StoredOnce
  BY DEF KeysApart, StoredOnce, Stored, KeyOf, Committed
<1> QED BY <1>1, <1>2, <1>3, Invariance, PTL DEF Spec

(* A row that was ever inserted has a sender.                               *)
Signed == \A id \in Table : rows[id].state # "absent" => rows[id].sender \in Senders

(* A sending action signs the row it inserts and keeps the others' senders. *)
LEMMA SendsSign ==
    ASSUME TableInv, NEW s \in Senders, SendStep(s), NEW id \in Table, rows'[id].state # "absent"
    PROVE  rows'[id].sender = s \/ (rows[id].state # "absent" /\ rows'[id].sender = rows[id].sender)
<1> USE DEF TableInv, Shapes
<1>1. CASE SendInserts(s)
  BY <1>1 DEF SendInserts
<1>2. CASE SendCommits(s)
  <2>1. CASE send[s].state = "open"
    <3>1. rows' = [rows EXCEPT ![send[s].row].state = "committed"]
      BY <1>2, <2>1 DEF SendCommits
    <3> QED BY <2>1, <3>1 DEF OpenRows, Row
  <2>2. CASE send[s].state = "touching"
    BY <1>2, <2>2 DEF SendCommits, Touched
  <2> QED BY <1>2, <2>1, <2>2 DEF SendCommits
<1>3. CASE SendDies(s)
  <2>1. CASE send[s].state = "open"
    <3>1. rows' = [rows EXCEPT ![send[s].row].state = "aborted"]
      BY <1>3, <2>1 DEF SendDies
    <3> QED BY <2>1, <3>1 DEF OpenRows, Row
  <2>2. CASE send[s].state # "open"
    BY <1>3, <2>2 DEF SendDies
  <2> QED BY <2>1, <2>2
<1>4. CASE SendTouches(s) \/ SendAnswers(s)
  BY <1>4 DEF SendTouches, SendAnswers
<1> QED BY <1>1, <1>2, <1>3, <1>4 DEF SendStep

(* What the table holds was sent by a sender.                               *)
THEOREM RowsSigned == Spec => []Signed
<1>1. Init => Signed
  BY DEF Init, Signed, Absent
<1>2. IInv /\ Signed /\ [Next]_vars => Signed'
  <2> SUFFICES ASSUME IInv, Signed, [Next]_vars PROVE Signed' OBVIOUS
  <2>1. CASE UNCHANGED vars
    BY <2>1 DEF vars, Signed
  <2>2. ASSUME NEW c \in Claims, ClaimStep(c) PROVE Signed'
    BY <2>2, ClaimsKeepSenders DEF IInv, Signed
  <2>3. ASSUME NEW s \in Senders, SendStep(s) PROVE Signed'
    BY <2>3, SendsSign DEF IInv, Signed
  <2> QED BY <2>1, <2>2, <2>3 DEF Next, Terminated
<1> QED BY <1>1, <1>2, Invariance, PTL DEF Spec

----------------------------------------------------------------------------
(* NoDrop and IsPlainMailbox, when the transaction of a lost poll ends with *)
(* it (Orphans = {}).                                                       *)
(*                                                                          *)
(* The argument: a call has one transaction at work, and only while it      *)
(* polls.  Once the first select has found nothing under the call's key,    *)
(* nothing can be claimed under it but by that transaction, so its answer   *)
(* is everything that is claimed under the key; and a call that has its     *)
(* answer claims nothing more.                                              *)

(* A call has one transaction at work, and only while it polls.             *)
Working ==
    /\ poll \in [Claims -> PollStates]
    /\ \A c \in Claims, n \in Slots :
          tx[c][n].phase # "idle" => n = current[c] /\ poll[c] = "polling"

(* Only committed rows are claimed.                                         *)
ClaimedCommitted ==
    \A id \in Table : rows[id].state # "committed" => rows[id].claimed_by = Nobody

(* Past the first select nothing is claimed under the call's key but what   *)
(* the transaction answers.                                                 *)
AllFound ==
    \A c \in Claims, n \in Slots :
        /\ tx[c][n].phase \in {"checked", "locked"} =>
              \A id \in Table : rows[id].claimed_by # c
        /\ tx[c][n].phase = "answered" =>
              \A id \in Table : rows[id].claimed_by = c => id \in tx[c][n].rows

DropInv == Working /\ ClaimedCommitted /\ AllFound /\ NoDrop

----------------------------------------------------------------------------
(* Nothing is claimed and nothing polled yet.                              *)
LEMMA DropInit == Init => DropInv
<1> SUFFICES ASSUME Init PROVE DropInv OBVIOUS
<1>1. Working
  BY DEF Init, Working, PollStates, Idle
<1>2. ClaimedCommitted /\ AllFound /\ NoDrop
  BY DEF Init, ClaimedCommitted, AllFound, NoDrop, Absent, Idle
<1> QED BY <1>1, <1>2 DEF DropInv

(* Where no claim changes hands and no transaction moves, nothing is lost.  *)
LEMMA DropStands ==
    ASSUME IInv, DropInv, UNCHANGED <<tx, current, poll, delivered>>,
           \A id \in Table : /\ rows'[id].claimed_by = rows[id].claimed_by
                             /\ rows[id].state = "committed" => rows'[id].state = "committed"
    PROVE  DropInv'
<1> USE DEF DropInv
<1>1. Working'
  BY DEF Working
<1>2. ClaimedCommitted'
  BY DEF ClaimedCommitted
<1>3. AllFound'
  BY DEF AllFound
<1>4. NoDrop'
  BY DEF NoDrop
<1> QED BY <1>1, <1>2, <1>3, <1>4

(* A sender claims nothing and sets no claim free.                          *)
LEMMA SendsDropNothing ==
    ASSUME IInv, DropInv, NEW s \in Senders, SendStep(s)
    PROVE  DropInv'
<1> USE DEF IInv, TableInv, Shapes
<1>1. UNCHANGED <<tx, current, poll, delivered>>
  BY DEF SendStep, SendInserts, SendTouches, SendCommits, SendAnswers, SendDies
<1>2. \A id \in Table : rows[id].state = "committed" => rows'[id] = rows[id]
  BY SendsKeepRows
<1>3. \A id \in Table : rows'[id].claimed_by = rows[id].claimed_by
  <2>1. CASE SendInserts(s)
    <3>1. \A id \in Table : id # next_id => rows'[id] = rows[id]
      BY <2>1 DEF SendInserts
    <3>2. next_id \in Table => rows[next_id].claimed_by = Nobody
      BY DEF Fresh, Absent, Table
    <3>3. next_id \in Table => rows'[next_id].claimed_by = Nobody
      BY <2>1 DEF SendInserts
    <3> QED BY <3>1, <3>2, <3>3
  <2>2. CASE SendCommits(s)
    <3>1. CASE send[s].state = "open"
      <4>1. rows' = [rows EXCEPT ![send[s].row].state = "committed"]
        BY <2>2, <3>1 DEF SendCommits
      <4> QED BY <4>1 DEF Row
    <3>2. CASE send[s].state = "touching"
      BY <2>2, <3>2 DEF SendCommits, Touched
    <3> QED BY <2>2, <3>1, <3>2 DEF SendCommits
  <2>3. CASE SendDies(s)
    <3>1. CASE send[s].state = "open"
      <4>1. rows' = [rows EXCEPT ![send[s].row].state = "aborted"]
        BY <2>3, <3>1 DEF SendDies
      <4> QED BY <4>1 DEF Row
    <3>2. CASE send[s].state # "open"
      BY <2>3, <3>2 DEF SendDies
    <3> QED BY <3>1, <3>2
  <2> QED BY <2>1, <2>2, <2>3 DEF SendStep, SendTouches, SendAnswers
<1> QED BY <1>1, <1>2, <1>3, DropStands

----------------------------------------------------------------------------
(* A transaction moves on over an unchanged table.                          *)
LEMMA SelectsDropNothing ==
    ASSUME IInv, DropInv, NEW c \in Claims, NEW n \in Slots, FindClaimed(c, n) \/ LockPending(c, n)
    PROVE  DropInv'
<1> USE DEF IInv, TableInv, DropInv
<1>1. PICK phase \in {"answered", "checked", "locked"}, ids \in SUBSET Table :
         /\ SetTx(c, n, phase, ids)
         /\ phase \in {"checked", "locked"} => \A id \in Table : rows[id].claimed_by # c
         /\ phase = "answered" => \A id \in Table : rows[id].claimed_by = c => id \in ids
  <2>1. CASE FindClaimed(c, n)
    <3>1. \A id \in Table : rows[id].claimed_by = c => id \in ClaimedBy(c)
      BY NobodyAssumption DEF ClaimedCommitted, ClaimedBy, Committed
    <3>2. ClaimedBy(c) \in SUBSET Table
      BY DEF ClaimedBy, Committed
    <3> QED BY <2>1, <3>1, <3>2 DEF FindClaimed
  <2>2. CASE LockPending(c, n)
    <3>1. \A id \in Table : rows[id].claimed_by # c
      BY <2>2 DEF LockPending, AllFound
    <3>2. PICK S \in SUBSET Available :
             SetTx(c, n, IF S = {} THEN "answered" ELSE "locked", S)
      BY <2>2 DEF LockPending
    <3>3. S \in SUBSET Table
      BY DEF Available, Committed
    <3> QED BY <3>1, <3>2, <3>3
  <2> QED BY <2>1, <2>2
<1>2. UNCHANGED <<rows, current, poll, delivered>>
  BY DEF FindClaimed, LockPending
<1>3. phase \in Phases
  BY DEF Phases
<1>4. /\ tx'[c][n] = [phase |-> phase, rows |-> ids]
      /\ \A d \in Claims, m \in Slots : c # d \/ n # m => tx'[d][m] = tx[d][m]
  BY <1>1, <1>3, TxSet
<1>5. n = current[c] /\ poll[c] = "polling"
  BY DEF FindClaimed, LockPending, Working
<1>6. Working'
  BY <1>2, <1>4, <1>5 DEF Working
<1>7. ClaimedCommitted' /\ NoDrop'
  BY <1>2 DEF ClaimedCommitted, NoDrop
<1>8. AllFound'
  <2> SUFFICES ASSUME NEW d \in Claims, NEW m \in Slots
               PROVE  /\ tx'[d][m].phase \in {"checked", "locked"} =>
                            \A id \in Table : rows'[id].claimed_by # d
                      /\ tx'[d][m].phase = "answered" =>
                            \A id \in Table : rows'[id].claimed_by = d => id \in tx'[d][m].rows
    BY DEF AllFound
  <2>1. CASE c = d /\ n = m
    BY <1>1, <1>2, <1>4, <2>1
  <2>2. CASE c # d \/ n # m
    BY <1>2, <1>4, <2>2 DEF AllFound
  <2> QED BY <2>1, <2>2
<1> QED BY <1>6, <1>7, <1>8

(* The commit claims, under one key, what that transaction answers.         *)
LEMMA CommitDropsNothing ==
    ASSUME IInv, DropInv, NEW c \in Claims, NEW n \in Slots, CommitClaim(c, n)
    PROVE  DropInv'
<1> USE DEF IInv, TableInv, DropInv
<1> DEFINE mine == tx[c][n].rows
<1>1. /\ tx[c][n].phase = "locked"
      /\ rows' = [id \in Table |-> IF id \in mine
                                   THEN [rows[id] EXCEPT !.claimed_by = c] ELSE rows[id]]
      /\ SetTx(c, n, "answered", mine)
      /\ UNCHANGED <<current, poll, delivered>>
  BY DEF CommitClaim
<1>2. mine \in SUBSET Table /\ "answered" \in Phases
  BY DEF Shapes, Phases
<1>3. /\ tx'[c][n] = [phase |-> "answered", rows |-> mine]
      /\ \A d \in Claims, m \in Slots : c # d \/ n # m => tx'[d][m] = tx[d][m]
  <2> HIDE DEF mine
  <2> QED BY <1>1, <1>2, TxSet
<1>4. \A id \in Table : /\ rows'[id].claimed_by = IF id \in mine THEN c ELSE rows[id].claimed_by
                       /\ rows'[id].state = rows[id].state
  BY <1>1 DEF Shapes, Row
<1>5. \A id \in mine : rows[id].state = "committed" /\ rows[id].claimed_by = Nobody
  BY <1>1 DEF ClaimInv, LocksHeld, Holds
<1>6. n = current[c] /\ poll[c] = "polling"
  BY <1>1 DEF Working
<1>7. \A id \in Table : rows[id].claimed_by # c
  BY <1>1 DEF AllFound
<1> HIDE DEF mine
<1>8. Working'
  BY <1>1, <1>3, <1>6 DEF Working
<1>9. ClaimedCommitted'
  BY <1>4, <1>5 DEF ClaimedCommitted
<1>10. AllFound'
  <2> SUFFICES ASSUME NEW d \in Claims, NEW m \in Slots
               PROVE  /\ tx'[d][m].phase \in {"checked", "locked"} =>
                            \A id \in Table : rows'[id].claimed_by # d
                      /\ tx'[d][m].phase = "answered" =>
                            \A id \in Table : rows'[id].claimed_by = d => id \in tx'[d][m].rows
    BY DEF AllFound
  <2>1. CASE c = d /\ n = m
    BY <1>3, <1>4, <1>7, <2>1
  <2>2. CASE c = d /\ n # m
    BY <1>3, <1>6, <2>2 DEF Working
  <2>3. CASE c # d
    BY <1>3, <1>4, <2>3 DEF AllFound
  <2> QED BY <2>1, <2>2, <2>3
<1>11. NoDrop'
  <2> SUFFICES ASSUME NEW d \in Claims, poll'[d] \in {"delivered", "timed_out"},
                      NEW id \in Table, rows'[id].claimed_by = d
               PROVE  id \in delivered'[d]
    BY DEF NoDrop
  <2>1. d # c
    BY <1>1, <1>6
  <2>2. rows[id].claimed_by = d
    BY <1>4, <2>1
  <2> QED BY <1>1, <2>2 DEF NoDrop
<1> QED BY <1>8, <1>9, <1>10, <1>11

(* The transaction of a call begins, or ends with the poll that awaits it.  *)
LEMMA SetDropsNothing ==
    ASSUME IInv, DropInv, NEW c \in Claims, NEW n \in Slots, NEW phase \in {"idle", "begun"},
           SetTx(c, n, phase, {}), n = current[c], UNCHANGED <<rows, current>>,
           NEW state \in PollStates, poll' = [poll EXCEPT ![c] = state],
           phase = "begun" => state = "polling",
           \A d \in Claims : d # c => delivered'[d] = delivered[d],
           state \in {"delivered", "timed_out"} =>
              \A id \in Table : rows[id].claimed_by = c => id \in delivered'[c]
    PROVE  DropInv'
<1> USE DEF IInv, TableInv, DropInv
<1>1. phase \in Phases /\ {} \in SUBSET Table
  BY DEF Phases
<1>2. /\ tx'[c][n] = [phase |-> phase, rows |-> {}]
      /\ \A d \in Claims, m \in Slots : c # d \/ n # m => tx'[d][m] = tx[d][m]
  <2> DEFINE none == {}
  <2>1. none \in SUBSET Table /\ SetTx(c, n, phase, none)
    OBVIOUS
  <2> HIDE DEF none
  <2>2. tx'[c][n] = [phase |-> phase, rows |-> none]
    BY <1>1, <2>1, TxSet
  <2>3. \A d \in Claims, m \in Slots : c # d \/ n # m => tx'[d][m] = tx[d][m]
    BY <1>1, <2>1, TxSet
  <2> QED BY <2>2, <2>3 DEF none
<1>3. \A d \in Claims : poll'[d] = IF d = c THEN state ELSE poll[d]
  BY DEF Working
<1>4. Working'
  <2>1. poll' \in [Claims -> PollStates]
    BY DEF Working
  <2>2. ASSUME NEW d \in Claims, NEW m \in Slots, tx'[d][m].phase # "idle"
        PROVE  m = current'[d] /\ poll'[d] = "polling"
    <3>1. CASE c = d /\ n = m
      BY <1>2, <1>3, <2>2, <3>1
    <3>2. CASE c = d /\ n # m
      BY <1>2, <2>2, <3>2 DEF Working
    <3>3. CASE c # d
      BY <1>2, <1>3, <2>2, <3>3 DEF Working
    <3> QED BY <3>1, <3>2, <3>3
  <2> QED BY <2>1, <2>2 DEF Working
<1>5. ClaimedCommitted'
  BY DEF ClaimedCommitted
<1>6. AllFound'
  <2> SUFFICES ASSUME NEW d \in Claims, NEW m \in Slots
               PROVE  /\ tx'[d][m].phase \in {"checked", "locked"} =>
                            \A id \in Table : rows'[id].claimed_by # d
                      /\ tx'[d][m].phase = "answered" =>
                            \A id \in Table : rows'[id].claimed_by = d => id \in tx'[d][m].rows
    BY DEF AllFound
  <2>1. CASE c = d /\ n = m
    BY <1>2, <2>1
  <2>2. CASE c # d \/ n # m
    BY <1>2, <2>2 DEF AllFound
  <2> QED BY <2>1, <2>2
<1>7. NoDrop'
  <2> SUFFICES ASSUME NEW d \in Claims, poll'[d] \in {"delivered", "timed_out"},
                      NEW id \in Table, rows[id].claimed_by = d
               PROVE  id \in delivered'[d]
    BY DEF NoDrop
  <2>1. CASE d = c
    BY <1>3, <2>1
  <2>2. CASE d # c
    BY <1>3, <2>2 DEF NoDrop
  <2> QED BY <2>1, <2>2
<1> QED BY <1>4, <1>5, <1>6, <1>7

(* What the waiting call does beside the database: it leaves its wait with  *)
(* everything that is claimed under its key.                                *)
LEMMA PollsDropNothing ==
    ASSUME IInv, DropInv, Orphans = {}, NEW c \in Claims, PollStep(c)
    PROVE  DropInv'
<1> USE DEF IInv, TableInv, DropInv
<1> DEFINE n == current[c]
<1>1. n \in Slots /\ poll \in [Claims -> PollStates]
  BY DEF Shapes, Working
<1>2. CASE PollStarts(c)
  <2>1. /\ SetTx(c, n, "begun", {}) /\ poll[c] = "polling"
        /\ UNCHANGED <<rows, current, poll, delivered>>
    BY <1>2 DEF PollStarts
  <2>2. poll' = [poll EXCEPT ![c] = "polling"] /\ "polling" \in PollStates
    BY <1>1, <2>1 DEF PollStates
  <2> QED BY <1>1, <2>1, <2>2, SetDropsNothing
<1>3. CASE PollDelivers(c)
  <2>1. /\ SetTx(c, n, "idle", {}) /\ poll' = [poll EXCEPT ![c] = "delivered"]
        /\ delivered' = [delivered EXCEPT ![c] = tx[c][n].rows]
        /\ tx[c][n].phase = "answered"
        /\ UNCHANGED <<rows, current>>
    BY <1>3 DEF PollDelivers, Answered, CurrentTx
  <2>2. "delivered" \in PollStates
    BY DEF PollStates
  <2>3. /\ delivered'[c] = tx[c][n].rows
        /\ \A d \in Claims : d # c => delivered'[d] = delivered[d]
    BY <2>1 DEF Shapes
  <2>4. \A id \in Table : rows[id].claimed_by = c => id \in delivered'[c]
    BY <1>1, <2>1, <2>3 DEF AllFound
  <2> QED BY <1>1, <2>1, <2>2, <2>3, <2>4, SetDropsNothing
<1>4. CASE PollIsEmpty(c)
  <2>1. PICK state \in {"pausing", "timed_out"} : poll' = [poll EXCEPT ![c] = state]
    BY <1>4 DEF PollIsEmpty
  <2>2. /\ SetTx(c, n, "idle", {}) /\ tx[c][n].phase = "answered" /\ tx[c][n].rows = {}
        /\ UNCHANGED <<rows, current, delivered>>
    BY <1>4 DEF PollIsEmpty, Answered, CurrentTx
  <2>3. \A id \in Table : rows[id].claimed_by # c
    BY <1>1, <2>2 DEF AllFound
  <2>4. state \in PollStates
    BY DEF PollStates
  <2> QED BY <1>1, <2>1, <2>2, <2>3, <2>4, SetDropsNothing
<1>5. CASE PauseEnds(c)
  <2>1. /\ poll[c] = "pausing" /\ poll' = [poll EXCEPT ![c] = "polling"]
        /\ UNCHANGED <<rows, tx, current, delivered>>
    BY <1>5 DEF PauseEnds
  <2>2. \A d \in Claims : poll'[d] = IF d = c THEN "polling" ELSE poll[d]
    BY <1>1, <2>1
  <2>3. Working'
    BY <1>1, <2>1, <2>2 DEF Working, PollStates
  <2>4. ClaimedCommitted' /\ AllFound' /\ NoDrop'
    BY <2>1, <2>2 DEF ClaimedCommitted, AllFound, NoDrop
  <2> QED BY <2>3, <2>4
<1>6. ~GoesOn(c)
  BY DEF GoesOn
<1>7. CASE PollReruns(c)
  <2>1. /\ SetTx(c, n, "idle", {}) /\ poll[c] = "polling"
        /\ UNCHANGED <<rows, current, poll, delivered>>
    BY <1>6, <1>7 DEF PollReruns, Dies
  <2>2. poll' = [poll EXCEPT ![c] = "polling"] /\ "polling" \in PollStates
    BY <1>1, <2>1 DEF PollStates
  <2> QED BY <1>1, <2>1, <2>2, SetDropsNothing
<1>8. CASE PollFails(c)
  <2>1. /\ SetTx(c, n, "idle", {}) /\ poll' = [poll EXCEPT ![c] = "failed"]
        /\ UNCHANGED <<rows, current, delivered>>
    BY <1>6, <1>8 DEF PollFails, Dies
  <2>2. "failed" \in PollStates
    BY DEF PollStates
  <2> QED BY <1>1, <2>1, <2>2, SetDropsNothing
<1> QED BY <1>2, <1>3, <1>4, <1>5, <1>7, <1>8 DEF PollStep

(* There is no transaction that its poll does not await.                    *)
LEMMA NoOrphans ==
    ASSUME IInv, DropInv, NEW c \in Claims, NEW n \in Slots, OrphanEnds(c, n)
    PROVE  FALSE
  BY DEF OrphanEnds, DropInv, Working

----------------------------------------------------------------------------
(* Every step keeps the invariant.                                          *)
LEMMA DropStep == Orphans = {} /\ IInv /\ DropInv /\ [Next]_vars => DropInv'
<1> SUFFICES ASSUME Orphans = {}, IInv, DropInv, [Next]_vars PROVE DropInv' OBVIOUS
<1>1. ASSUME NEW c \in Claims, ClaimStep(c) PROVE DropInv'
  BY <1>1, PollsDropNothing, NoOrphans, SelectsDropNothing, CommitDropsNothing
     DEF ClaimStep, TxStep
<1>2. CASE UNCHANGED vars
  BY <1>2, DropStands DEF vars
<1> QED BY <1>1, <1>2, SendsDropNothing DEF Next, Terminated

(* A call whose wait is over was given every message that is claimed under  *)
(* its key: a rerun poll drops none, for any number of calls, senders and   *)
(* executions, when a lost poll's transaction ends with it (claim_messages).*)
THEOREM NothingDropped ==
    ASSUME Orphans = {}
    PROVE  Spec => []NoDrop
<1>1. Init => DropInv
  BY DropInit
<1>2. DropInv => NoDrop
  BY DEF DropInv
<1>3. IInv /\ DropInv /\ [Next]_vars => DropInv'
  BY DropStep
<1> QED BY <1>1, <1>2, <1>3, Invariance, PTL DEF Spec

----------------------------------------------------------------------------
(* The mailbox as its calls see it.                                         *)

Unread == {id \in Committed : rows[id].claimed_by = Nobody}
Taken  == [c \in Claims |-> {id \in Committed : rows[id].claimed_by = c}]
Wait   == [c \in Claims |-> IF Waiting(c) THEN "waiting" ELSE poll[c]]

PlainStands == UNCHANGED <<Unread, Taken, delivered, Wait>>

(* A transaction holds rows only from its lock on, and a claim locks some   *)
(* rows, no more than batch_size of them.                                   *)
TxRows ==
    \A c \in Claims, n \in Slots :
        /\ tx[c][n].phase \in {"idle", "begun", "checked"} => tx[c][n].rows = {}
        /\ tx[c][n].phase = "locked" => Cardinality(tx[c][n].rows) \in 1..BatchSize

FiniteTable == IsFiniteSet(Senders) /\ MaxSends \in Nat

(* What LIMIT leaves of a finite table is between one row and batch_size.  *)
LEMMA SizeOfLock ==
    ASSUME FiniteTable, NEW S \in SUBSET Table, S # {}, Cardinality(S) <= BatchSize
    PROVE  Cardinality(S) \in 1..BatchSize
<1>1. MaxId \in Nat
  BY FS_CardinalityType DEF FiniteTable, MaxId
<1>2. IsFiniteSet(Table)
  BY <1>1, FS_Interval DEF Table
<1>3. IsFiniteSet(S)
  BY <1>2, FS_Subset
<1>4. Cardinality(S) \in Nat /\ Cardinality(S) # 0
  BY <1>3, FS_CardinalityType, FS_EmptySet
<1> QED BY <1>4, BatchSizeAssumption

(* Every step keeps what transactions hold.                                 *)
LEMMA TxRowsStep ==
    ASSUME FiniteTable, IInv, TxRows, [Next]_vars
    PROVE  TxRows'
<1> USE DEF IInv, TableInv, Shapes
<1>1. CASE UNCHANGED tx
  BY <1>1 DEF TxRows
<1>2. ASSUME NEW c \in Claims, NEW n \in Slots, NEW phase \in Phases, NEW ids \in SUBSET Table,
             SetTx(c, n, phase, ids), phase = "locked" => Cardinality(ids) \in 1..BatchSize,
             phase \in {"idle", "begun", "checked"} => ids = {}
      PROVE  TxRows'
  <2>1. /\ tx'[c][n] = [phase |-> phase, rows |-> ids]
        /\ \A d \in Claims, m \in Slots : c # d \/ n # m => tx'[d][m] = tx[d][m]
    BY <1>2, TxSet
  <2>2. ASSUME NEW d \in Claims, NEW m \in Slots
        PROVE  /\ tx'[d][m].phase \in {"idle", "begun", "checked"} => tx'[d][m].rows = {}
               /\ tx'[d][m].phase = "locked" => Cardinality(tx'[d][m].rows) \in 1..BatchSize
    <3>1. CASE c = d /\ n = m
      BY <1>2, <2>1, <2>2, <3>1
    <3>2. CASE c # d \/ n # m
      BY <2>1, <2>2, <3>2 DEF TxRows
    <3> QED BY <3>1, <3>2
  <2> QED BY <2>2 DEF TxRows
<1>3. ASSUME NEW c \in Claims, NEW n \in Slots, FindClaimed(c, n) PROVE TxRows'
  <2>1. ClaimedBy(c) \in SUBSET Table /\ {"answered", "checked"} \subseteq Phases
    BY DEF ClaimedBy, Committed, Phases
  <2>2. {} \in SUBSET Table
    OBVIOUS
  <2>3. CASE SetTx(c, n, "answered", ClaimedBy(c))
    BY <1>2, <2>1, <2>3
  <2>4. CASE SetTx(c, n, "checked", {})
    BY <1>2, <2>1, <2>2, <2>4
  <2> QED BY <1>3, <2>3, <2>4 DEF FindClaimed
<1>4. ASSUME NEW c \in Claims, NEW n \in Slots, LockPending(c, n) PROVE TxRows'
  <2>1. PICK S \in SUBSET Available :
            /\ IsOldest(S, Available)
            /\ SetTx(c, n, IF S = {} THEN "answered" ELSE "locked", S)
    BY <1>4 DEF LockPending
  <2>2. S \in SUBSET Table /\ {"answered", "locked"} \subseteq Phases
    BY <2>1 DEF Available, Committed, Phases
  <2>3. S # {} => Cardinality(S) \in 1..BatchSize
    BY <2>1, <2>2, SizeOfLock DEF IsOldest
  <2> QED BY <1>2, <2>1, <2>2, <2>3
<1>5. ASSUME NEW c \in Claims, NEW n \in Slots, CommitClaim(c, n) PROVE TxRows'
  <2>1. tx[c][n].rows \in SUBSET Table /\ "answered" \in Phases
    BY DEF Phases
  <2> QED BY <1>2, <1>5, <2>1 DEF CommitClaim
<1>6. ASSUME NEW c \in Claims, NEW n \in Slots, NEW phase \in {"idle", "begun"},
             SetTx(c, n, phase, {})
      PROVE  TxRows'
  <2> DEFINE none == {}
  <2>1. none \in SUBSET Table /\ phase \in Phases /\ SetTx(c, n, phase, none) /\ none = {}
    BY <1>6 DEF Phases
  <2> HIDE DEF none
  <2> QED BY <1>2, <2>1
<1>7. ASSUME NEW c \in Claims, PollStep(c) PROVE TxRows'
  <2>1. current[c] \in Slots
    OBVIOUS
  <2> QED BY <1>1, <1>6, <1>7, <2>1 DEF PollStep, PollStarts, PollDelivers, PollIsEmpty, PauseEnds,
                                  PollReruns, PollFails, GoesOn, Dies
<1>8. ASSUME NEW s \in Senders, SendStep(s) PROVE UNCHANGED tx
  BY <1>8 DEF SendStep, SendInserts, SendTouches, SendCommits, SendAnswers, SendDies
<1>9. ASSUME NEW c \in Claims, NEW n \in Slots, OrphanEnds(c, n) PROVE TxRows'
  BY <1>6, <1>9 DEF OrphanEnds
<1> QED BY <1>1, <1>3, <1>4, <1>5, <1>7, <1>8, <1>9
        DEF Next, Terminated, vars, ClaimStep, TxStep

(* Where no row is stored or claimed, nothing is seen to happen.            *)
LEMMA RowsUnseen ==
    ASSUME \A id \in Table :
              /\ rows'[id].state = "committed" <=> rows[id].state = "committed"
              /\ rows[id].state = "committed" => rows'[id].claimed_by = rows[id].claimed_by
    PROVE  Unread' = Unread /\ Taken' = Taken
<1>1. Committed' = Committed
  BY DEF Committed
<1>2. \A id \in Committed : rows'[id].claimed_by = rows[id].claimed_by
  BY DEF Committed
<1> QED BY <1>1, <1>2 DEF Unread, Taken

(* A committed insert stores a message; the rest of a send is not seen.     *)
LEMMA SendIsPlain ==
    ASSUME IInv, DropInv, NEW s \in Senders, SendStep(s)
    PROVE  (\E id \in Table : Plain!Store(id)) \/ PlainStands
<1> USE DEF IInv, TableInv, Shapes
<1>1. delivered' = delivered /\ Wait' = Wait
  BY DEF SendStep, SendInserts, SendTouches, SendCommits, SendAnswers, SendDies, Wait, Waiting
<1>2. ASSUME rows' = rows PROVE PlainStands
  BY <1>1, <1>2, RowsUnseen DEF PlainStands
<1>3. CASE SendInserts(s)
  <2>1. rows' = [rows EXCEPT ![next_id] =
                    [state |-> "open", sender |-> s, claimed_by |-> Nobody]]
    BY <1>3 DEF SendInserts
  <2>2. next_id \in Table => rows[next_id].state # "committed"
    BY DEF Fresh, Absent
  <2>3. Unread' = Unread /\ Taken' = Taken
    BY <2>1, <2>2, RowsUnseen
  <2> QED BY <1>1, <2>3 DEF PlainStands
<1>4. CASE SendTouches(s) \/ SendAnswers(s)
  BY <1>2, <1>4 DEF SendTouches, SendAnswers
<1>5. CASE SendCommits(s)
  <2>1. CASE send[s].state = "touching"
    BY <1>2, <1>5, <2>1 DEF SendCommits, Touched
  <2>2. CASE send[s].state = "open" /\ send[s].row \notin Table
    BY <1>2, <1>5, <2>2 DEF SendCommits
  <2>3. CASE send[s].state = "open" /\ send[s].row \in Table
    <3> PICK id \in Table : id = send[s].row
      BY <2>3
    <3>1. rows' = [rows EXCEPT ![id].state = "committed"]
      BY <1>5, <2>3 DEF SendCommits
    <3>2. rows[id].state = "open" /\ rows[id].claimed_by = Nobody
      BY <2>3 DEF OpenRows, DropInv, ClaimedCommitted
    <3>3. /\ rows'[id].state = "committed" /\ rows'[id].claimed_by = Nobody
          /\ \A x \in Table : x # id => rows'[x] = rows[x]
      BY <2>3, <3>1, <3>2 DEF Row
    <3>4. Committed' = Committed \union {id} /\ id \notin Committed
      BY <2>3, <3>2, <3>3 DEF Committed
    <3>5. Unread' = Unread \union {id}
      BY <2>3, <3>3, <3>4 DEF Unread, Committed
    <3>6. Taken' = Taken
      <4>1. \A c \in Claims : {x \in Committed' : rows'[x].claimed_by = c}
                               = {x \in Committed : rows[x].claimed_by = c}
        BY <2>3, <3>3, <3>4, NobodyAssumption DEF Committed
      <4> QED BY <4>1 DEF Taken
    <3>7. id \notin Unread \union UNION {Taken[c] : c \in Claims}
      BY <3>4 DEF Unread, Taken
    <3>8. Plain!Store(id)
      BY <1>1, <3>5, <3>6, <3>7 DEF Plain!Store, Unread, Taken, Wait
    <3> QED BY <3>8
  <2> QED BY <1>5, <2>1, <2>2, <2>3 DEF SendCommits
<1>6. CASE SendDies(s)
  <2>1. CASE send[s].state = "open"
    <3>1. rows' = [rows EXCEPT ![send[s].row].state = "aborted"]
      BY <1>6, <2>1 DEF SendDies
    <3>2. send[s].row \in Table => rows[send[s].row].state = "open"
      BY <2>1 DEF OpenRows
    <3>3. Unread' = Unread /\ Taken' = Taken
      BY <3>1, <3>2, RowsUnseen DEF Row
    <3> QED BY <1>1, <3>3 DEF PlainStands
  <2>2. CASE send[s].state # "open"
    BY <1>2, <1>6, <2>2 DEF SendDies
  <2> QED BY <2>1, <2>2
<1> QED BY <1>3, <1>4, <1>5, <1>6 DEF SendStep

(* The commit of a claim takes messages, an answered poll delivers them or  *)
(* times the call out, and one that is given up fails it.                   *)
LEMMA CommitIsPlain ==
    ASSUME IInv, DropInv, TxRows, NEW c \in Claims, NEW n \in Slots, CommitClaim(c, n)
    PROVE  Plain!Take(c)
<1> USE DEF IInv, TableInv, Shapes
<1> DEFINE S == tx[c][n].rows
<1>1. /\ rows' = [id \in Table |-> IF id \in S THEN [rows[id] EXCEPT !.claimed_by = c] ELSE rows[id]]
      /\ tx[c][n].phase = "locked" /\ UNCHANGED <<poll, delivered>>
  BY DEF CommitClaim
<1>2. S \subseteq Unread /\ Cardinality(S) \in 1..BatchSize
  BY <1>1 DEF TxRows, ClaimInv, LocksHeld, Holds, Unread, Committed
<1>3. poll[c] = "polling" /\ Taken[c] = {}
  BY <1>1 DEF DropInv, Working, AllFound, Taken, Committed
<1> HIDE DEF S
<1>4. Committed' = Committed
  BY <1>1 DEF Committed, Row
<1>5. \A id \in Table : rows'[id].claimed_by = IF id \in S THEN c ELSE rows[id].claimed_by
  BY <1>1 DEF Row
<1>6. Unread' = Unread \ S
  BY <1>4, <1>5, NobodyAssumption DEF Unread, Committed
<1>7. Taken' = [Taken EXCEPT ![c] = S]
  <2>1. \A d \in Claims : d # c =>
            {id \in Committed : rows'[id].claimed_by = d} = {id \in Committed : rows[id].claimed_by = d}
    BY <1>2, <1>5, NobodyAssumption DEF Unread, Committed
  <2>2. {id \in Committed : rows'[id].claimed_by = c} = S
    BY <1>2, <1>3, <1>5 DEF Unread, Taken, Committed
  <2> QED BY <1>4, <2>1, <2>2 DEF Taken
<1>8. Wait' = Wait /\ Wait[c] = "waiting"
  BY <1>1, <1>3 DEF Wait, Waiting
<1>9. \A T : Plain!Cardinality(T) = Cardinality(T)
  BY DEF Plain!Cardinality, Cardinality
<1> QED BY <1>1, <1>2, <1>3, <1>6, <1>7, <1>8, <1>9 DEF Plain!Take, Unread, Taken, Wait

(* An answered poll delivers what was taken or, if nothing was, may time   *)
(* the call out; one that is given up fails the call.                      *)
LEMMA PollIsPlain ==
    ASSUME IInv, DropInv, Orphans = {}, NEW c \in Claims, PollStep(c)
    PROVE  Plain!Deliver(c) \/ Plain!TimeOut(c) \/ Plain!GiveUp(c) \/ PlainStands
<1> USE DEF IInv, TableInv, Shapes
<1>1. rows' = rows /\ poll \in [Claims -> PollStates]
  BY DEF PollStep, PollStarts, PollDelivers, PollIsEmpty, PauseEnds, PollReruns, PollFails,
         DropInv, Working
<1>2. Unread' = Unread /\ Taken' = Taken
  BY <1>1, RowsUnseen
<1>3. CASE PollDelivers(c)
  <2> PICK n \in Slots : n = current[c]
    OBVIOUS
  <2>1. /\ poll[c] = "polling" /\ tx[c][n].phase = "answered" /\ tx[c][n].rows # {}
        /\ delivered' = [delivered EXCEPT ![c] = tx[c][n].rows]
        /\ poll' = [poll EXCEPT ![c] = "delivered"]
    BY <1>3 DEF PollDelivers, Answered, CurrentTx
  <2>2. Taken[c] = tx[c][n].rows
    BY <2>1 DEF ClaimInv, AnswersHeld, Holds, DropInv, AllFound, Taken, Committed
  <2>3. Wait[c] = "waiting" /\ Wait' = [Wait EXCEPT ![c] = "delivered"]
    BY <1>1, <2>1 DEF Wait, Waiting
  <2> QED BY <1>2, <2>1, <2>2, <2>3 DEF Plain!Deliver, Unread, Taken, Wait
<1>4. CASE PollIsEmpty(c)
  <2> PICK n \in Slots : n = current[c]
    OBVIOUS
  <2>1. /\ poll[c] = "polling" /\ tx[c][n].phase = "answered" /\ tx[c][n].rows = {}
        /\ delivered' = delivered
    BY <1>4 DEF PollIsEmpty, Answered, CurrentTx
  <2>2. Taken[c] = {}
    BY <2>1 DEF DropInv, AllFound, Taken, Committed
  <2>3. CASE poll' = [poll EXCEPT ![c] = "pausing"]
    <3>1. Wait' = Wait
      BY <1>1, <2>1, <2>3 DEF Wait, Waiting
    <3> QED BY <1>2, <2>1, <3>1 DEF PlainStands
  <2>4. CASE poll' = [poll EXCEPT ![c] = "timed_out"]
    <3>1. Wait[c] = "waiting" /\ Wait' = [Wait EXCEPT ![c] = "timed_out"]
      BY <1>1, <2>1, <2>4 DEF Wait, Waiting
    <3> QED BY <1>2, <2>1, <2>2, <3>1 DEF Plain!TimeOut, Unread, Taken, Wait
  <2> QED BY <1>4, <2>3, <2>4 DEF PollIsEmpty
<1>5. CASE PollFails(c)
  <2>1. poll[c] = "polling" /\ poll' = [poll EXCEPT ![c] = "failed"] /\ delivered' = delivered
    BY <1>5 DEF PollFails
  <2>2. Wait[c] = "waiting" /\ Wait' = [Wait EXCEPT ![c] = "failed"]
    BY <1>1, <2>1 DEF Wait, Waiting
  <2> QED BY <1>2, <2>1, <2>2 DEF Plain!GiveUp, Unread, Taken, Wait
<1>6. CASE PollStarts(c) \/ PauseEnds(c) \/ PollReruns(c)
  <2>1. Wait' = Wait /\ delivered' = delivered
    BY <1>1, <1>6 DEF PollStarts, PauseEnds, PollReruns, Wait, Waiting
  <2> QED BY <1>2, <2>1 DEF PlainStands
<1> QED BY <1>3, <1>4, <1>5, <1>6 DEF PollStep

(* One mailbox, with its rows, locks, reruns and transactions, is a mailbox *)
(* that stores a message once and gives it away once, for any number of     *)
(* senders and calls, when a lost poll's transaction ends with it           *)
(* (claim_messages, send_message).                                          *)
THEOREM Implements ==
    ASSUME Orphans = {}, FiniteTable
    PROVE  Spec => IsPlainMailbox
<1>1. Init => Plain!Init
  <2> SUFFICES ASSUME Init PROVE Plain!Init OBVIOUS
  <2>1. Committed = {}
    BY DEF Init, Committed, Absent
  <2> QED BY <2>1 DEF Init, Waiting, Plain!Init
<1>2. Init => DropInv /\ TxRows
  BY DropInit DEF Init, TxRows, Idle
<1>3. IInv /\ DropInv /\ TxRows /\ [Next]_vars => DropInv' /\ TxRows'
  BY DropStep, TxRowsStep
<1>4. IInv /\ DropInv /\ TxRows /\ [Next]_vars => [Plain!Next]_(Plain!pvars)
  <2> SUFFICES ASSUME IInv, DropInv, TxRows, [Next]_vars PROVE Plain!Next \/ PlainStands
    BY DEF PlainStands, Unread, Taken, Wait, Plain!pvars
  <2>1. ASSUME NEW c \in Claims, ClaimStep(c) PROVE Plain!Next \/ PlainStands
    <3>1. ASSUME NEW n \in Slots, FindClaimed(c, n) \/ LockPending(c, n) PROVE PlainStands
      BY <3>1, RowsUnseen DEF FindClaimed, LockPending, PlainStands, Wait, Waiting
    <3> QED BY <2>1, <3>1, CommitIsPlain, PollIsPlain, NoOrphans
            DEF ClaimStep, TxStep, Plain!Next
  <2>2. CASE UNCHANGED vars
    BY <2>2, RowsUnseen DEF vars, PlainStands, Wait, Waiting
  <2> QED BY <2>1, <2>2, SendIsPlain DEF Next, Terminated, Plain!Next
<1> QED BY <1>1, <1>2, <1>3, <1>4, Invariance, PTL DEF Spec, IsPlainMailbox, Plain!Spec

----------------------------------------------------------------------------
(* Types.  Every id was drawn by an execution of a sender, and no execution *)
(* draws two: that is what bounds the id sequence.                          *)
Executions == Senders \X (1..MaxSends)

Paid(payer) ==
    /\ payer \in [1..(next_id - 1) -> Executions]
    /\ \A id, jd \in 1..(next_id - 1) : payer[id] = payer[jd] => id = jd
    /\ \A id \in 1..(next_id - 1) : payer[id][2] <= send[payer[id][1]].runs

IdsPaid == \E payer : Paid(payer)

(* There are no more ids than executions.                                   *)
LEMMA IdsInTable ==
    ASSUME FiniteTable, NEW n \in Nat \ {0}, NEW payer \in [1..(n - 1) -> Executions],
           \A id, jd \in 1..(n - 1) : payer[id] = payer[jd] => id = jd
    PROVE  n \in 1..(MaxId + 1)
<1> DEFINE ids == 1..(n - 1)
<1>1. payer \in Injection(ids, Executions)
  BY DEF Injection, IsInjective
<1>2. IsFiniteSet(1..MaxSends) /\ Cardinality(1..MaxSends) = MaxSends
  BY FS_Interval DEF FiniteTable
<1>3. IsFiniteSet(Executions) /\ Cardinality(Executions) = MaxId
  BY <1>2, FS_Product DEF FiniteTable, Executions, MaxId
<1>4. Cardinality(ids) <= MaxId
  <2> HIDE DEF ids
  <2> QED BY <1>1, <1>3, FS_Injection
<1>5. Cardinality(ids) = n - 1
  BY FS_Interval
<1>6. MaxId \in Nat
  BY <1>3, FS_CardinalityType
<1> QED BY <1>4, <1>5, <1>6

(* An execution that inserts pays for the id it draws.                      *)
LEMMA InsertPays ==
    ASSUME FiniteTable, next_id \in Nat \ {0}, IdsPaid, NEW s \in Senders,
           send \in [Senders -> [state : SendStates, row : Nat, runs : Nat]],
           SendInserts(s)
    PROVE  IdsPaid'
<1>1. PICK payer : Paid(payer)
  BY DEF IdsPaid
<1> DEFINE run == send[s].runs + 1
<1>2. /\ next_id' = next_id + 1
      /\ run \in 1..MaxSends
      /\ send'[s].runs = run
      /\ \A r \in Senders : r # s => send'[r] = send[r]
  BY DEF SendInserts, FiniteTable
<1>3. \A id \in 1..(next_id - 1) : payer[id] \in Executions
  BY <1>1 DEF Paid
<1>4. PICK next : next = [id \in 1..next_id |-> IF id = next_id THEN <<s, run>> ELSE payer[id]]
  OBVIOUS
<1>5. \A id \in 1..(next_id - 1) : next[id] = payer[id]
  BY <1>4
<1>6. next[next_id] = <<s, run>> /\ <<s, run>> \in Executions
  BY <1>2, <1>4 DEF Executions
<1>7. next \in [1..(next_id' - 1) -> Executions]
  <2>1. 1..(next_id' - 1) = 1..next_id
    BY <1>2
  <2>2. \A id \in 1..next_id : id = next_id \/ id \in 1..(next_id - 1)
    OBVIOUS
  <2>3. \A id \in 1..next_id : (IF id = next_id THEN <<s, run>> ELSE payer[id]) \in Executions
    BY <1>3, <1>6, <2>2
  <2> QED BY <1>4, <2>1, <2>3
<1>8. \A id \in 1..(next_id - 1) : next[id] # next[next_id]
  <2> SUFFICES ASSUME NEW id \in 1..(next_id - 1), payer[id] = <<s, run>> PROVE FALSE
    BY <1>5, <1>6
  <2>1. payer[id][1] = s /\ payer[id][2] = run
    OBVIOUS
  <2>2. payer[id][2] <= send[payer[id][1]].runs
    BY <1>1 DEF Paid
  <2> QED BY <2>1, <2>2
<1>9. ASSUME NEW id \in 1..(next_id' - 1), NEW jd \in 1..(next_id' - 1), next[id] = next[jd]
      PROVE  id = jd
  <2>1. id \in 1..(next_id - 1) \/ id = next_id
    BY <1>2
  <2>2. jd \in 1..(next_id - 1) \/ jd = next_id
    BY <1>2
  <2> QED BY <1>1, <1>5, <1>8, <1>9, <2>1, <2>2 DEF Paid
<1>10. ASSUME NEW id \in 1..(next_id' - 1)
      PROVE  next[id][2] <= send'[next[id][1]].runs
  <2>1. CASE id = next_id
    BY <1>2, <1>6, <2>1
  <2>2. CASE id \in 1..(next_id - 1)
    <3>1. next[id] = payer[id] /\ payer[id][1] \in Senders /\ payer[id][2] <= send[payer[id][1]].runs
      BY <1>1, <1>3, <1>5, <2>2 DEF Paid, Executions
    <3>2. \A r \in Senders : send[r].runs \in Nat /\ send[r].runs <= send'[r].runs
      BY <1>2
    <3>3. payer[id][2] \in 1..MaxSends
      BY <1>3, <2>2 DEF Executions
    <3>4. \A r \in Senders : send'[r].runs \in Nat
      BY <1>2
    <3> QED BY <3>1, <3>2, <3>3, <3>4
  <2> QED BY <1>2, <2>1, <2>2
<1>11. Paid(next)'
  BY <1>7, <1>9, <1>10 DEF Paid
<1> QED BY <1>11 DEF IdsPaid

Counts ==
    /\ next_id \in Nat \ {0}
    /\ send \in [Senders -> [state : SendStates, row : Table \union {0}, runs : 0..MaxSends]]
    /\ IdsPaid

(* A sender draws an id of the table, if any.                               *)
LEMMA SendsCount ==
    ASSUME FiniteTable, Shapes, Counts, NEW s \in Senders, SendStep(s)
    PROVE  Counts'
<1> USE DEF Counts
<1>1. CASE SendInserts(s)
  <2>1. IdsPaid'
    BY <1>1, InsertPays DEF Shapes
  <2>2. next_id' = next_id + 1 /\ next_id' \in Nat \ {0} /\ send[s].runs + 1 \in 0..MaxSends
    BY <1>1 DEF SendInserts, FiniteTable
  <2>3. next_id' \in 1..(MaxId + 1)
    <3>1. PICK payer : Paid(payer)'
      BY <2>1 DEF IdsPaid
    <3> QED BY <2>2, <3>1, IdsInTable DEF Paid
  <2>4. next_id \in Table
    <3>1. MaxId \in Nat
      BY FS_CardinalityType DEF FiniteTable, MaxId
    <3> QED BY <2>2, <2>3, <3>1 DEF Table
  <2>5. send' = [send EXCEPT ![s] =
                    [state |-> "open", row |-> next_id, runs |-> send[s].runs + 1]]
    BY <1>1 DEF SendInserts
  <2> QED BY <2>1, <2>2, <2>4, <2>5 DEF SendStates
<1>2. ASSUME UNCHANGED next_id,
             \A r \in Senders : send'[r].runs \in Nat /\ send'[r].runs >= send[r].runs
      PROVE  IdsPaid'
  <2>1. PICK payer : Paid(payer)
    BY DEF IdsPaid
  <2>2. ASSUME NEW id \in 1..(next_id - 1)
        PROVE  payer[id][2] <= send'[payer[id][1]].runs
    <3>1. payer[id] \in Executions /\ payer[id][2] <= send[payer[id][1]].runs
      BY <2>1 DEF Paid
    <3>2. PICK r \in Senders : payer[id][1] = r
      BY <3>1 DEF Executions
    <3>3. payer[id][2] \in Int /\ send[r].runs \in Int
      BY <3>1 DEF Executions, Shapes
    <3> QED BY <1>2, <3>1, <3>2, <3>3
  <2>3. Paid(payer)'
    BY <1>2, <2>1, <2>2 DEF Paid
  <2> QED BY <2>3 DEF IdsPaid
<1>3. CASE SendTouches(s)
  <2>1. PICK id \in Table :
            send' = [send EXCEPT ![s] =
                        [state |-> "touching", row |-> id, runs |-> send[s].runs + 1]]
    BY <1>3 DEF SendTouches, Holding
  <2>2. send[s].runs + 1 \in 0..MaxSends /\ UNCHANGED next_id
    BY <1>3 DEF SendTouches, FiniteTable
  <2>3. \A r \in Senders : send'[r].runs \in Nat /\ send'[r].runs >= send[r].runs
    BY <2>1, <2>2 DEF Shapes
  <2> QED BY <1>2, <2>1, <2>2, <2>3 DEF SendStates
<1>4. CASE SendCommits(s) \/ SendAnswers(s) \/ SendDies(s)
  <2>1. PICK state \in SendStates : send' = [send EXCEPT ![s].state = state]
    BY <1>4 DEF SendCommits, SendAnswers, SendDies, SendStates
  <2>2. UNCHANGED next_id
    BY <1>4 DEF SendCommits, SendAnswers, SendDies
  <2>3. \A r \in Senders : send'[r].runs \in Nat /\ send'[r].runs >= send[r].runs
    BY <2>1 DEF Shapes
  <2> QED BY <1>2, <2>1, <2>2, <2>3
<1> QED BY <1>1, <1>3, <1>4 DEF SendStep

CallTypes ==
    /\ poll \in [Claims -> PollStates]
    /\ attempt \in [Claims -> 1..Attempts]

(* A waiting call makes no more attempts at a poll than it is given.        *)
LEMMA PollsTyped ==
    ASSUME CallTypes, NEW c \in Claims, ClaimStep(c)
    PROVE  CallTypes'
<1> USE AttemptsAssumption DEF CallTypes
<1>1. CASE PollStarts(c) \/ PollDelivers(c) \/ PollFails(c)
  BY <1>1 DEF PollStarts, PollDelivers, PollFails, PollStates
<1>2. CASE PollIsEmpty(c)
  BY <1>2 DEF PollIsEmpty, PollStates
<1>3. CASE PauseEnds(c) \/ PollReruns(c)
  BY <1>3 DEF PauseEnds, PollReruns, PollStates
<1>4. CASE \E n \in Slots : TxStep(c, n) \/ OrphanEnds(c, n)
  BY <1>4 DEF TxStep, FindClaimed, LockPending, CommitClaim, OrphanEnds
<1> QED BY <1>1, <1>2, <1>3, <1>4 DEF ClaimStep, PollStep

(* Every variable of the mailbox keeps its type.  No sender ever draws an   *)
(* id outside the table, no call polls more often than it may, and no claim *)
(* holds more than batch_size rows, whatever is lost and rerun              *)
(* (send_message, claim_messages, _read_agent_messages).                    *)
THEOREM TypeCorrect ==
    ASSUME FiniteTable
    PROVE  Spec => []TypeOK
<1> DEFINE Typed == TxRows /\ Counts /\ CallTypes
<1>1. Init => Typed
  <2> SUFFICES ASSUME Init PROVE Typed OBVIOUS
  <2>1. TxRows
    BY DEF Init, TxRows, Idle
  <2>2. Paid(<<>>)
    BY DEF Init, Paid
  <2>3. Counts
    BY <2>2 DEF Init, Counts, IdsPaid, SendStates, FiniteTable
  <2>4. CallTypes
    BY AttemptsAssumption DEF Init, CallTypes, PollStates
  <2> QED BY <2>1, <2>3, <2>4
<1>2. IInv /\ Typed /\ [Next]_vars => Typed'
  <2> SUFFICES ASSUME IInv, Typed, [Next]_vars PROVE Typed' OBVIOUS
  <2>1. TxRows'
    BY TxRowsStep
  <2>2. ASSUME UNCHANGED <<next_id, send>> PROVE Counts'
    BY <2>2 DEF Counts, IdsPaid, Paid
  <2>3. CASE UNCHANGED vars
    BY <2>1, <2>2, <2>3 DEF vars, CallTypes
  <2>4. ASSUME NEW s \in Senders, SendStep(s) PROVE Typed'
    <3>1. UNCHANGED <<poll, attempt>>
      BY <2>4 DEF SendStep, SendInserts, SendTouches, SendCommits, SendAnswers, SendDies
    <3> QED BY <2>1, <2>4, <3>1, SendsCount DEF IInv, TableInv, CallTypes
  <2>5. ASSUME NEW c \in Claims, ClaimStep(c) PROVE Typed'
    <3>1. UNCHANGED <<next_id, send>>
      BY <2>5 DEF ClaimStep, PollStep, TxStep, FindClaimed, LockPending, CommitClaim,
                  OrphanEnds, PollStarts, PollDelivers, PollIsEmpty, PauseEnds,
                  PollReruns, PollFails
    <3> QED BY <2>1, <2>2, <2>5, <3>1, PollsTyped
  <2> QED BY <2>3, <2>4, <2>5 DEF Next, Terminated
<1>3. IInv /\ Typed => TypeOK
  <2> SUFFICES ASSUME IInv, Typed PROVE TypeOK OBVIOUS
  <2>1. PICK payer : Paid(payer)
    BY DEF Counts, IdsPaid
  <2>2. next_id \in 1..(MaxId + 1)
    BY <2>1, IdsInTable DEF Counts, Paid
  <2> QED BY <2>2 DEF IInv, TableInv, Shapes, Counts, CallTypes, TxRows, TypeOK
<1> QED BY <1>1, <1>2, <1>3, Invariance, PTL DEF Spec

================================================================================
