------------------------------ MODULE PlainMailbox ------------------------------
(****************************************************************************)
(* What one mailbox promises to the calls that wait on it: messages come in *)
(* one at a time, a call takes some of them for itself once, is given       *)
(* exactly what it took, and times out only if it took nothing.             *)
(****************************************************************************)
EXTENDS FiniteSets, Integers

CONSTANTS Claims, BatchSize, Table

VARIABLES
    unread,   \* stored messages nobody has taken
    taken,    \* per claim: the messages that are its own
    given,    \* per claim: the messages its tool call returned
    wait      \* per claim: waiting, delivered, timed_out or failed

pvars == <<unread, taken, given, wait>>

Init ==
    /\ unread = {}
    /\ taken = [c \in Claims |-> {}]
    /\ given = [c \in Claims |-> {}]
    /\ wait = [c \in Claims |-> "waiting"]

Store(id) ==
    /\ id \notin unread \union UNION {taken[c] : c \in Claims}
    /\ unread' = unread \union {id}
    /\ UNCHANGED <<taken, given, wait>>

Take(c) ==
    /\ wait[c] = "waiting"
    /\ taken[c] = {}
    /\ \E S \in SUBSET unread :
          /\ Cardinality(S) \in 1..BatchSize
          /\ taken' = [taken EXCEPT ![c] = S]
          /\ unread' = unread \ S
    /\ UNCHANGED <<given, wait>>

Deliver(c) ==
    /\ wait[c] = "waiting"
    /\ taken[c] # {}
    /\ given' = [given EXCEPT ![c] = taken[c]]
    /\ wait' = [wait EXCEPT ![c] = "delivered"]
    /\ UNCHANGED <<unread, taken>>

TimeOut(c) ==
    /\ wait[c] = "waiting"
    /\ taken[c] = {}
    /\ wait' = [wait EXCEPT ![c] = "timed_out"]
    /\ UNCHANGED <<unread, taken, given>>

(* The call fails with the polls it lost, what it took with it.             *)
GiveUp(c) ==
    /\ wait[c] = "waiting"
    /\ wait' = [wait EXCEPT ![c] = "failed"]
    /\ UNCHANGED <<unread, taken, given>>

Next ==
    \/ \E id \in Table : Store(id)
    \/ \E c \in Claims : Take(c) \/ Deliver(c) \/ TimeOut(c) \/ GiveUp(c)

Spec == Init /\ [][Next]_pvars

================================================================================
