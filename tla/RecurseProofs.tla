----------------------------- MODULE RecurseProofs -----------------------------
(****************************************************************************)
(* TypeOK, DepthBounded and AnswerComplete of Recurse for every set of      *)
(* calls, every depth limit, retry budget and number of runs.               *)
(*                                                                          *)
(* The argument: a run that awaits nothing has no call open, and a call is  *)
(* only answered by a run below it that has answered.  So the runs below a  *)
(* run that answers are below calls it never delegated, where nothing is,   *)
(* or below runs that answered before, where everything has.                *)
(****************************************************************************)
EXTENDS Recurse, SequenceTheorems, TLAPS

(* States of a call of which nothing is awaited.                            *)
Closed == {"unasked", "answered", "retried"}

(* Only a run in its tools stage, or one that failed there, has open calls. *)
OpenCalls ==
    \A r \in Runs, c \in Calls :
        /\ stage[r] = "absent" => call[r][c] = "unasked"
        /\ stage[r] \in {"node", "answered"} => call[r][c] \in Closed
        /\ stage[r] = "tools" /\ c \notin turn[r] => call[r][c] \in Closed

(* A run was delegated to by the call it is named after.                    *)
Delegated ==
    \A r \in Runs, c \in Calls :
        Child(r, c) \in Runs /\ stage[Child(r, c)] # "absent" =>
            call[r][c] \in {"delegated", "answered", "raised"}

(* An answered call is one whose subagent answered.                         *)
AnswersTrue ==
    \A r \in Runs, c \in Calls :
        call[r][c] = "answered" => Child(r, c) \in Runs /\ stage[Child(r, c)] = "answered"

(* Nothing is below a run that does not exist.                              *)
AbsentBelow ==
    \A r, s \in Runs : stage[r] = "absent" /\ Below(s, r) => stage[s] = "absent"

(* A refusal was within the budget of its turn.                             *)
RetryRoom ==
    \A r \in Runs : \A c \in turn[r] : call[r][c] = "retried" => retries[r] < Retries

TreeInv == OpenCalls /\ Delegated /\ AnswersTrue /\ AbsentBelow /\ AnswerComplete
IInv == TypeOK /\ DepthBounded /\ RetryRoom /\ TreeInv

----------------------------------------------------------------------------
(* Runs as sequences of calls.                                              *)

(* A run is a sequence, of a length that bounds its level.                  *)
LEMMA RunIsSeq ==
    ASSUME NEW r \in Runs
    PROVE  /\ r \in Seq(Calls)
           /\ Len(r) \in 0..(MaxDepth + 1)
           /\ r \in [1..Len(r) -> Calls]
<1>1. PICK d \in 0..(MaxDepth + 1) : r \in [1..d -> Calls]
  BY DEF Runs
<1>2. d \in Nat
  BY <1>1, MaxDepthAssumption
<1>3. r \in Seq(Calls) /\ Len(r) = d
  BY <1>1, <1>2
<1> QED BY <1>1, <1>3

(* The root is a run of depth 0.                                           *)
LEMMA TopIsRun == Top \in Runs /\ Len(Top) = 0
<1>1. 0 \in 0..(MaxDepth + 1)
  BY MaxDepthAssumption
<1>2. << >> \in [1..0 -> Calls]
  OBVIOUS
<1> QED BY <1>1, <1>2 DEF Top, Runs

(* Below the level to spare, every call names a run.                        *)
LEMMA ChildIsRun ==
    ASSUME NEW r \in Runs, NEW c \in Calls, Len(r) <= MaxDepth
    PROVE  Child(r, c) \in Runs
<1>1. /\ r \in Seq(Calls) /\ Len(r) \in 0..(MaxDepth + 1)
  BY RunIsSeq
<1>2. Len(r) + 1 \in 0..(MaxDepth + 1)
  BY <1>1, MaxDepthAssumption
<1>3. Append(r, c) \in Seq(Calls) /\ Len(Append(r, c)) = Len(r) + 1
  BY <1>1, AppendProperties
<1>4. Append(r, c) \in [1..(Len(r) + 1) -> Calls]
  BY <1>3, LenProperties
<1> QED BY <1>2, <1>4 DEF Runs, Child

(* A child is one deeper than its parent and no other run.                 *)
LEMMA ChildFacts ==
    ASSUME NEW r \in Runs, NEW c \in Calls
    PROVE  /\ Len(Child(r, c)) = Len(r) + 1
           /\ Child(r, c)[Len(r) + 1] = c
           /\ \A k \in 1..Len(r) : Child(r, c)[k] = r[k]
           /\ Child(r, c) # r
           /\ Child(r, c) # Top
<1>1. r \in Seq(Calls)
  BY RunIsSeq
<1>2. /\ Len(Child(r, c)) = Len(r) + 1
      /\ Child(r, c)[Len(r) + 1] = c
      /\ \A k \in 1..Len(r) : Child(r, c)[k] = r[k]
  BY <1>1 DEF Child
<1>3. Len(r) \in Nat
  BY <1>1
<1> QED BY <1>2, <1>3, TopIsRun

(* Different calls name different runs.                                     *)
LEMMA ChildIsUnique ==
    ASSUME NEW r \in Runs, NEW c \in Calls, NEW q \in Runs, NEW d \in Calls,
           Child(r, c) = Child(q, d)
    PROVE  r = q /\ c = d
<1>1. Len(r) = Len(q)
  BY ChildFacts, RunIsSeq
<1>2. c = d
  BY <1>1, ChildFacts
<1>3. \A k \in 1..Len(r) : r[k] = q[k]
  BY <1>1, ChildFacts
<1> QED BY <1>1, <1>2, <1>3, RunIsSeq

(* What is below a run is that run or below one of its children.            *)
LEMMA BelowChild ==
    ASSUME NEW r \in Runs, NEW s \in Runs, Below(s, r), s # r
    PROVE  \E c \in Calls : Child(r, c) \in Runs /\ Below(s, Child(r, c))
<1>1. /\ r \in Seq(Calls) /\ Len(r) \in Nat /\ r \in [1..Len(r) -> Calls]
      /\ s \in Seq(Calls) /\ Len(s) \in 0..(MaxDepth + 1) /\ s \in [1..Len(s) -> Calls]
  BY RunIsSeq
<1>2. Len(r) < Len(s)
  BY <1>1 DEF Below
<1>3. Len(r) + 1 \in 1..Len(s) /\ Len(r) <= MaxDepth
  BY <1>1, <1>2, MaxDepthAssumption
<1> DEFINE c == s[Len(r) + 1]
<1>4. c \in Calls
  BY <1>1, <1>3
<1>5. Child(r, c) \in Runs
  BY <1>3, <1>4, ChildIsRun
<1>6. \A k \in 1..(Len(r) + 1) : s[k] = Child(r, c)[k]
  BY <1>1, <1>4, ChildFacts DEF Below
<1>7. Len(Child(r, c)) = Len(r) + 1
  BY <1>4, ChildFacts
<1>8. Below(s, Child(r, c))
  BY <1>1, <1>2, <1>6, <1>7 DEF Below
<1> QED BY <1>4, <1>5, <1>8

(* A child is below another run only if its parent is.                      *)
LEMMA ParentBelow ==
    ASSUME NEW r \in Runs, NEW c \in Calls, NEW q \in Runs, Below(Child(r, c), q),
           q # Child(r, c)
    PROVE  Below(r, q)
<1>1. /\ r \in Seq(Calls) /\ Len(r) \in Nat
      /\ q \in Seq(Calls) /\ Len(q) \in Nat
      /\ q \in [1..Len(q) -> Calls]
  BY RunIsSeq
<1>2. /\ Len(Child(r, c)) = Len(r) + 1
      /\ \A k \in 1..Len(r) : Child(r, c)[k] = r[k]
  BY ChildFacts
<1>3. Child(r, c) \in [1..(Len(r) + 1) -> Calls]
  BY <1>1, <1>2, AppendProperties, LenProperties DEF Child
<1>4. Len(q) <= Len(r) + 1 /\ \A k \in 1..Len(q) : Child(r, c)[k] = q[k]
  BY <1>2 DEF Below
<1>5. Len(q) # Len(r) + 1
  <2> SUFFICES ASSUME Len(q) = Len(r) + 1 PROVE FALSE OBVIOUS
  <2> DEFINE n == Len(q)  child == Child(r, c)
  <2>1. q \in [1..n -> Calls] /\ child \in [1..n -> Calls]
    BY <1>1, <1>3
  <2>2. \A k \in 1..n : child[k] = q[k]
    BY <1>4
  <2>3. child = q
    <3> HIDE DEF n, child
    <3>1. /\ child = [k \in 1..n |-> child[k]]
          /\ q = [k \in 1..n |-> q[k]]
      BY <2>1
    <3> QED BY <2>2, <3>1, Zenon
  <2> QED BY <2>3
<1>6. Len(q) <= Len(r)
  <2> DEFINE m == Len(q)  n == Len(r)
  <2>1. m \in Nat /\ n \in Nat /\ m <= n + 1 /\ m # n + 1
    BY <1>1, <1>4, <1>5
  <2> HIDE DEF m, n
  <2>2. m <= n
    BY <2>1
  <2> QED BY <2>2 DEF m, n
<1>7. \A k \in 1..Len(q) : r[k] = q[k]
  BY <1>1, <1>2, <1>4, <1>6
<1> QED BY <1>6, <1>7 DEF Below

(* Every run is below itself.                                               *)
LEMMA BelowItself == ASSUME NEW r \in Runs PROVE Below(r, r)
  BY RunIsSeq DEF Below

----------------------------------------------------------------------------
(* Only the top exists, and has asked nothing.                              *)
LEMMA InvInit == Init => IInv
<1> SUFFICES ASSUME Init PROVE IInv OBVIOUS
<1> USE DEF Init
<1>1. \A r \in Runs : Len(r) = 0 => r = Top
  BY RunIsSeq DEF Top
<1>2. TypeOK
  BY <1>1, TopIsRun, RetriesAssumption DEF TypeOK, Stages, CallState
<1>3. DepthBounded
  BY TopIsRun, MaxDepthAssumption DEF DepthBounded
<1>4. RetryRoom
  BY DEF RetryRoom
<1>5. OpenCalls /\ AnswersTrue /\ AnswerComplete
  BY DEF OpenCalls, AnswersTrue, AnswerComplete, Closed
<1>6. Delegated
  BY ChildFacts DEF Delegated
<1>7. AbsentBelow
  <2> SUFFICES ASSUME NEW r \in Runs, NEW s \in Runs, r # Top, Below(s, r) PROVE s # Top
    BY DEF AbsentBelow
  <2>1. Len(r) # 0 /\ Len(r) \in Nat
    BY <1>1, RunIsSeq
  <2> QED BY <2>1, TopIsRun DEF Below
<1> QED BY <1>2, <1>3, <1>4, <1>5, <1>6, <1>7 DEF IInv, TreeInv

----------------------------------------------------------------------------
(* A run that awaits nothing open, and all of whose answered calls are of   *)
(* runs that answered, has only answered runs below it.                     *)
LEMMA AllBelowAnswered ==
    ASSUME IInv, NEW r \in Runs, \A c \in Calls : call[r][c] \in Closed
    PROVE  \A s \in Runs : Below(s, r) /\ s # r => stage[s] \in {"answered", "absent"}
<1> USE DEF IInv, TreeInv
<1> SUFFICES ASSUME NEW s \in Runs, Below(s, r), s # r
             PROVE  stage[s] \in {"answered", "absent"}
  OBVIOUS
<1>1. PICK c \in Calls : Child(r, c) \in Runs /\ Below(s, Child(r, c))
  BY BelowChild
<1>2. CASE call[r][c] = "answered"
  <2>1. stage[Child(r, c)] = "answered"
    BY <1>2 DEF AnswersTrue
  <2> QED BY <1>1, <2>1 DEF AnswerComplete
<1>3. CASE call[r][c] # "answered"
  <2>1. call[r][c] \notin {"delegated", "answered", "raised"}
    BY <1>3 DEF Closed
  <2>2. stage[Child(r, c)] = "absent"
    BY <1>1, <2>1 DEF Delegated
  <2> QED BY <1>1, <2>2 DEF AbsentBelow
<1> QED BY <1>2, <1>3

(* The model's answer or its calls, the results of a turn, and a failure:   *)
(* one run that exists goes on to another stage, and no call is answered.   *)
LEMMA RunMoves ==
    ASSUME IInv, NEW r \in Runs, NEW state \in Stages \ {"absent"},
           stage[r] \in {"node", "tools"},
           stage' = [stage EXCEPT ![r] = state],
           state = "answered" => \A c \in Calls : call[r][c] \in Closed
    PROVE  AbsentBelow' /\ AnswerComplete'
<1> USE DEF IInv, TreeInv, TypeOK
<1>1. \A s \in Runs : stage'[s] = IF s = r THEN state ELSE stage[s]
  OBVIOUS
<1>2. AbsentBelow'
  <2> SUFFICES ASSUME NEW q \in Runs, NEW s \in Runs, stage'[q] = "absent", Below(s, q)
               PROVE  stage'[s] = "absent"
    BY DEF AbsentBelow, Below
  <2>1. stage[q] = "absent"
    BY <1>1
  <2>2. stage[s] = "absent"
    BY <2>1 DEF AbsentBelow
  <2> QED BY <1>1, <2>2
<1>3. AnswerComplete'
  <2> SUFFICES ASSUME NEW q \in Runs, NEW s \in Runs, stage'[q] = "answered", Below(s, q)
               PROVE  stage'[s] \in {"answered", "absent"}
    BY DEF AnswerComplete, Below
  <2>1. CASE q # r
    <3>1. stage[s] \in {"answered", "absent"}
      BY <1>1, <2>1 DEF AnswerComplete
    <3> QED BY <1>1, <3>1
  <2>2. CASE q = r
    <3>1. CASE s = r
      BY <2>2, <3>1
    <3>2. CASE s # r
      <4>1. stage[s] \in {"answered", "absent"}
        BY <1>1, <2>2, <3>2, AllBelowAnswered
      <4> QED BY <1>1, <3>2, <4>1
    <3> QED BY <3>1, <3>2
  <2> QED BY <2>1, <2>2
<1> QED BY <1>2, <1>3

(* Where no stage changes, the shape of the tree stays.                     *)
LEMMA TreeStays ==
    ASSUME IInv, UNCHANGED stage
    PROVE  AbsentBelow' /\ AnswerComplete'
  BY DEF IInv, TreeInv, AbsentBelow, AnswerComplete, Below

----------------------------------------------------------------------------
(* The turns of a run.                                                      *)
LEMMA AsksKeeps == ASSUME IInv, NEW r \in Runs, Asks(r) PROVE IInv'
<1> USE DEF IInv, TreeInv
<1>1. PICK asked \in SUBSET {c \in Calls : call[r][c] = "unasked"} :
         /\ turn' = [turn EXCEPT ![r] = asked]
         /\ call' = [call EXCEPT ![r] =
                         [c \in Calls |-> IF c \in asked THEN "asked" ELSE call[r][c]]]
  BY DEF Asks
<1>2. /\ stage[r] = "node" /\ stage' = [stage EXCEPT ![r] = "tools"]
      /\ UNCHANGED <<depth, retries>>
  BY DEF Asks
<1>3. \A s \in Runs : stage'[s] = IF s = r THEN "tools" ELSE stage[s]
  BY <1>2 DEF TypeOK
<1>4. \A s \in Runs, c \in Calls :
         call'[s][c] = IF s = r /\ c \in asked THEN "asked" ELSE call[s][c]
  BY <1>1 DEF TypeOK
<1>5. \A s \in Runs : turn'[s] = IF s = r THEN asked ELSE turn[s]
  BY <1>1 DEF TypeOK
<1>6. \A c \in asked : c \in Calls /\ call[r][c] = "unasked"
  BY <1>1
<1>7. TypeOK'
  BY <1>1, <1>2, <1>3 DEF TypeOK, Stages, CallState
<1>8. DepthBounded'
  BY <1>2, <1>3 DEF DepthBounded
<1>9. RetryRoom'
  BY <1>2, <1>4, <1>5, <1>6 DEF RetryRoom, TypeOK
<1>10. OpenCalls'
  BY <1>2, <1>3, <1>4, <1>5 DEF OpenCalls
<1>11. Delegated'
  BY <1>2, <1>3, <1>4, <1>6 DEF Delegated
<1>12. AnswersTrue'
  BY <1>2, <1>3, <1>4 DEF AnswersTrue
<1>13. AbsentBelow' /\ AnswerComplete'
  BY <1>2, RunMoves DEF Stages
<1> QED BY <1>7, <1>8, <1>9, <1>10, <1>11, <1>12, <1>13

(* The answer to a node keeps the invariant.                               *)
LEMMA NodeEndsKeeps == ASSUME IInv, NEW r \in Runs, NodeEnds(r) PROVE IInv'
<1> USE DEF IInv, TreeInv
<1>1. PICK end \in {"answered", "failed"} : stage' = [stage EXCEPT ![r] = end]
  BY DEF NodeEnds
<1>2. stage[r] = "node" /\ UNCHANGED <<depth, call, turn, retries>>
  BY DEF NodeEnds
<1>3. \A s \in Runs : stage'[s] = IF s = r THEN end ELSE stage[s]
  BY <1>1 DEF TypeOK
<1>4. TypeOK'
  BY <1>1, <1>2, <1>3 DEF TypeOK, Stages
<1>5. DepthBounded'
  BY <1>2, <1>3 DEF DepthBounded
<1>6. RetryRoom'
  BY <1>2 DEF RetryRoom
<1>7. OpenCalls'
  BY <1>2, <1>3 DEF OpenCalls
<1>8. Delegated'
  BY <1>2, <1>3 DEF Delegated
<1>9. AnswersTrue'
  BY <1>2, <1>3 DEF AnswersTrue
<1>10. \A c \in Calls : call[r][c] \in Closed
  BY <1>2 DEF OpenCalls
<1>11. AbsentBelow' /\ AnswerComplete'
  BY <1>1, <1>2, <1>10, RunMoves DEF Stages
<1> QED BY <1>4, <1>5, <1>6, <1>7, <1>8, <1>9, <1>11

(* The end of a turn takes up its counts and keeps the invariant.          *)
LEMMA TurnEndsKeeps == ASSUME IInv, NEW r \in Runs, TurnEnds(r) PROVE IInv'
<1> USE DEF IInv, TreeInv
<1>1. /\ stage[r] = "tools" /\ AllAnswered(r)
      /\ stage' = [stage EXCEPT ![r] = "node"]
      /\ retries' = [retries EXCEPT ![r] = Counted(r)]
      /\ turn' = [turn EXCEPT ![r] = {}]
      /\ UNCHANGED <<depth, call>>
  BY DEF TurnEnds
<1>2. \A s \in Runs : stage'[s] = IF s = r THEN "node" ELSE stage[s]
  BY <1>1 DEF TypeOK
<1>3. \A s \in Runs : turn'[s] = IF s = r THEN {} ELSE turn[s]
  BY <1>1 DEF TypeOK
<1>4. Counted(r) \in 0..Retries
  BY RetriesAssumption DEF Counted, RetryRoom, TypeOK
<1>5. TypeOK'
  BY <1>1, <1>2, <1>4 DEF TypeOK, Stages
<1>6. DepthBounded'
  BY <1>1, <1>2 DEF DepthBounded
<1>7. RetryRoom'
  BY <1>1, <1>3 DEF RetryRoom, TypeOK
<1>8. OpenCalls'
  BY <1>1, <1>2, <1>3 DEF OpenCalls, AllAnswered, Closed
<1>9. Delegated'
  BY <1>1, <1>2 DEF Delegated
<1>10. AnswersTrue'
  BY <1>1, <1>2 DEF AnswersTrue
<1>11. AbsentBelow' /\ AnswerComplete'
  BY <1>1, RunMoves DEF Stages
<1> QED BY <1>5, <1>6, <1>7, <1>8, <1>9, <1>10, <1>11

(* The failure of a turn keeps the invariant.                              *)
LEMMA TurnFailsKeeps == ASSUME IInv, NEW r \in Runs, TurnFails(r) PROVE IInv'
<1> USE DEF IInv, TreeInv
<1>1. /\ stage[r] = "tools" /\ stage' = [stage EXCEPT ![r] = "failed"]
      /\ UNCHANGED <<depth, call, turn, retries>>
  BY DEF TurnFails
<1>2. \A s \in Runs : stage'[s] = IF s = r THEN "failed" ELSE stage[s]
  BY <1>1 DEF TypeOK
<1>3. TypeOK'
  BY <1>1, <1>2 DEF TypeOK, Stages
<1>4. DepthBounded' /\ RetryRoom'
  BY <1>1, <1>2 DEF DepthBounded, RetryRoom
<1>5. OpenCalls'
  BY <1>1, <1>2 DEF OpenCalls
<1>6. Delegated' /\ AnswersTrue'
  BY <1>1, <1>2 DEF Delegated, AnswersTrue
<1>7. AbsentBelow' /\ AnswerComplete'
  BY <1>1, RunMoves DEF Stages
<1> QED BY <1>3, <1>4, <1>5, <1>6, <1>7

----------------------------------------------------------------------------
(* One call.                                                                *)

(* A call whose turn is under way is one of it.                             *)
LEMMA OpenIsInTurn ==
    ASSUME IInv, NEW r \in Runs, NEW c \in Calls, call[r][c] \notin Closed
    PROVE  stage[r] \in {"tools", "failed"} /\ Len(r) <= MaxDepth
<1>1. stage[r] \in {"tools", "failed"}
  BY DEF IInv, TreeInv, OpenCalls, TypeOK, Stages, Closed
<1> QED BY <1>1 DEF IInv, DepthBounded

(* An open call ends: refused, raised, or answered by a run that answered.  *)
LEMMA CallEndsKeeps ==
    ASSUME IInv, NEW r \in Runs, NEW c \in Calls, NEW state \in {"answered", "retried", "raised"},
           Becomes(r, c, state), call[r][c] \in {"asked", "delegated"},
           state = "answered" => stage[Child(r, c)] = "answered",
           state = "retried" => call[r][c] = "asked" /\ retries[r] < Retries,
           UNCHANGED <<stage, depth, turn, retries>>
    PROVE  IInv'
<1> USE DEF IInv, TreeInv
<1>1. \A s \in Runs, d \in Calls :
         call'[s][d] = IF s = r /\ d = c THEN state ELSE call[s][d]
  BY DEF Becomes, TypeOK
<1>2. stage[r] \in {"tools", "failed"} /\ Child(r, c) \in Runs
  BY OpenIsInTurn, ChildIsRun DEF Closed
<1>3. TypeOK'
  BY DEF TypeOK, Becomes, CallState
<1>4. DepthBounded'
  BY DEF DepthBounded
<1>5. RetryRoom'
  BY <1>1 DEF RetryRoom, TypeOK
<1>6. OpenCalls'
  <2>1. stage[r] = "tools" => c \in turn[r]
    BY DEF OpenCalls, Closed
  <2> QED BY <1>1, <1>2, <2>1 DEF OpenCalls
<1>7. Delegated'
  <2> SUFFICES ASSUME NEW s \in Runs, NEW d \in Calls, Child(s, d) \in Runs,
                      stage[Child(s, d)] # "absent"
               PROVE  call'[s][d] \in {"delegated", "answered", "raised"}
    BY DEF Delegated
  <2>1. call[s][d] \in {"delegated", "answered", "raised"}
    BY DEF Delegated
  <2> QED BY <1>1, <2>1
<1>8. AnswersTrue'
  BY <1>1, <1>2 DEF AnswersTrue
<1>9. AbsentBelow' /\ AnswerComplete'
  BY TreeStays
<1> QED BY <1>3, <1>4, <1>5, <1>6, <1>7, <1>8, <1>9

(* A run one level deeper begins, below the limit.                          *)
LEMMA DelegatesKeeps ==
    ASSUME IInv, NEW r \in Runs, NEW c \in Calls, Delegates(r, c)
    PROVE  IInv'
<1> USE DEF IInv, TreeInv
<1> DEFINE child == Child(r, c)
<1>1. /\ call[r][c] = "asked" /\ ~AtLimit(r)
      /\ Becomes(r, c, "delegated")
      /\ stage' = [stage EXCEPT ![child] = "node"]
      /\ depth' = [depth EXCEPT ![child] = DeeperDeps(r)]
      /\ UNCHANGED <<turn, retries>>
  BY DEF Delegates
<1>2. stage[r] \in {"tools", "failed"} /\ child \in Runs
  BY <1>1, OpenIsInTurn, ChildIsRun DEF Closed
<1>3. depth[r] = Len(r) /\ depth[r] < MaxDepth /\ Len(r) \in Nat
  BY <1>1, <1>2, MaxDepthAssumption, RunIsSeq DEF TypeOK, AtLimit
<1>4. Len(child) = Len(r) + 1 /\ child # r
  BY ChildFacts
<1>5. stage[child] = "absent"
  BY <1>1, <1>2 DEF Delegated
<1> HIDE DEF child
<1>6. \A s \in Runs : stage'[s] = IF s = child THEN "node" ELSE stage[s]
  BY <1>1, <1>2 DEF TypeOK
<1>7. \A s \in Runs, d \in Calls :
         call'[s][d] = IF s = r /\ d = c THEN "delegated" ELSE call[s][d]
  BY <1>1 DEF Becomes, TypeOK
<1>8. \A s \in Runs : depth'[s] = IF s = child THEN Len(child) ELSE depth[s]
  BY <1>1, <1>2, <1>3, <1>4 DEF DeeperDeps, TypeOK
<1>9. TypeOK'
  <2>1. stage' \in [Runs -> Stages]
    BY <1>1 DEF TypeOK, Stages
  <2>2. DeeperDeps(r) \in Nat
    BY <1>3 DEF DeeperDeps
  <2>3. depth' \in [Runs -> Nat]
    BY <1>1, <2>2 DEF TypeOK
  <2>4. call' \in [Runs -> [Calls -> CallState]]
    BY <1>1 DEF TypeOK, Becomes, CallState
  <2>5. \A s \in Runs : stage'[s] # "absent" => depth'[s] = Len(s)
    BY <1>6, <1>8 DEF TypeOK
  <2> QED BY <1>1, <2>1, <2>3, <2>4, <2>5 DEF TypeOK
<1>10. DepthBounded'
  <2>1. Len(child) <= MaxDepth
    BY <1>3, <1>4, MaxDepthAssumption
  <2> QED BY <1>6, <2>1 DEF DepthBounded
<1>11. RetryRoom'
  BY <1>1, <1>7 DEF RetryRoom, TypeOK
<1>12. OpenCalls'
  <2>1. \A d \in Calls : call[child][d] = "unasked"
    BY <1>2, <1>5 DEF OpenCalls
  <2>2. stage[r] = "tools" => c \in turn[r]
    BY <1>1 DEF OpenCalls, Closed
  <2> QED BY <1>1, <1>2, <1>4, <1>6, <1>7, <2>1, <2>2 DEF OpenCalls, Closed
<1>13. Delegated'
  <2> SUFFICES ASSUME NEW s \in Runs, NEW d \in Calls, Child(s, d) \in Runs,
                      stage'[Child(s, d)] # "absent"
               PROVE  call'[s][d] \in {"delegated", "answered", "raised"}
    BY DEF Delegated
  <2>1. CASE Child(s, d) = child
    BY <1>7, <2>1, ChildIsUnique DEF child
  <2>2. CASE Child(s, d) # child
    <3>1. call[s][d] \in {"delegated", "answered", "raised"}
      BY <1>6, <2>2 DEF Delegated
    <3> QED BY <1>7, <3>1
  <2> QED BY <2>1, <2>2
<1>14. AnswersTrue'
  BY <1>5, <1>6, <1>7 DEF AnswersTrue
<1>15. \A q \in Runs : Below(child, q) /\ q # child => Below(r, q)
  BY ParentBelow DEF child
<1>16. AbsentBelow'
  <2> SUFFICES ASSUME NEW q \in Runs, NEW s \in Runs, stage'[q] = "absent", Below(s, q)
               PROVE  stage'[s] = "absent"
    BY DEF AbsentBelow, Below
  <2>1. stage[q] = "absent" /\ q # child
    BY <1>6
  <2>2. CASE s = child
    <3>1. Below(r, q)
      BY <1>15, <2>1, <2>2
    <3>2. stage[r] = "absent"
      BY <2>1, <3>1 DEF AbsentBelow
    <3> QED BY <1>2, <3>2
  <2>3. CASE s # child
    BY <1>6, <2>1, <2>3 DEF AbsentBelow
  <2> QED BY <2>2, <2>3
<1>17. AnswerComplete'
  <2> SUFFICES ASSUME NEW q \in Runs, NEW s \in Runs, stage'[q] = "answered", Below(s, q)
               PROVE  stage'[s] \in {"answered", "absent"}
    BY DEF AnswerComplete, Below
  <2>1. stage[q] = "answered" /\ q # child
    BY <1>6
  <2>2. CASE s = child
    <3>1. Below(r, q)
      BY <1>15, <2>1, <2>2
    <3>2. stage[r] \in {"answered", "absent"}
      BY <2>1, <3>1 DEF AnswerComplete
    <3> QED BY <1>2, <3>2
  <2>3. CASE s # child
    BY <1>6, <2>1, <2>3 DEF AnswerComplete
  <2> QED BY <2>2, <2>3
<1> QED BY <1>9, <1>10, <1>11, <1>12, <1>13, <1>14, <1>16, <1>17

(* Every step of a call keeps the invariant.                               *)
LEMMA CallKeeps ==
    ASSUME IInv, NEW r \in Runs, NEW c \in Calls, CallStep(r, c)
    PROVE  IInv'
<1>1. CASE Delegates(r, c)
  BY <1>1, DelegatesKeeps
<1>2. CASE Refuses(r, c)
  <2>1. CASE retries[r] < Retries
    BY <1>2, <2>1, CallEndsKeeps DEF Refuses
  <2>2. CASE ~(retries[r] < Retries)
    BY <1>2, <2>2, CallEndsKeeps DEF Refuses
  <2> QED BY <2>1, <2>2
<1>3. CASE CallAnswers(r, c)
  BY <1>3, CallEndsKeeps DEF CallAnswers
<1>4. CASE CallRaises(r, c)
  BY <1>4, CallEndsKeeps DEF CallRaises, SubagentError
<1>5. CASE CallLost(r, c)
  BY <1>5, CallEndsKeeps DEF CallLost
<1> QED BY <1>1, <1>2, <1>3, <1>4, <1>5 DEF CallStep

----------------------------------------------------------------------------
(* Every step of the tree keeps the invariant.                              *)
LEMMA InvStep == IInv /\ [Next]_vars => IInv'
<1> SUFFICES ASSUME IInv, [Next]_vars PROVE IInv' OBVIOUS
<1>1. ASSUME NEW r \in Runs, RunStep(r) PROVE IInv'
  BY <1>1, AsksKeeps, NodeEndsKeeps, TurnEndsKeeps, TurnFailsKeeps, CallKeeps DEF RunStep
<1>2. CASE UNCHANGED vars
  BY <1>2 DEF vars, IInv, TreeInv, TypeOK, DepthBounded, RetryRoom, OpenCalls, Delegated,
              AnswersTrue, AbsentBelow, AnswerComplete, Below
<1> QED BY <1>1, <1>2 DEF Next, Terminated

(* The inductive invariant holds in every reachable state.                  *)
THEOREM Invariance == Spec => []IInv
<1> QED BY InvInit, InvStep, PTL DEF Spec

(* Every variable of the tree keeps its type, and a run's deps.depth is the *)
(* level it runs at.                                                        *)
THEOREM TypeCorrect == Spec => []TypeOK
<1>1. IInv => TypeOK
  BY DEF IInv
<1> QED BY <1>1, Invariance, PTL

(* No run is deeper than max_depth, however many calls each run makes and   *)
(* however the runs interleave (delegate_subquestion).                      *)
THEOREM DepthsBounded == Spec => []DepthBounded
<1>1. IInv => DepthBounded
  BY DEF IInv
<1> QED BY <1>1, Invariance, PTL

(* When a run has answered, so has every run below it, in trees of every    *)
(* size (_run_subagent under gather).                                       *)
THEOREM AnswersComplete == Spec => []AnswerComplete
<1>1. IInv => AnswerComplete
  BY DEF IInv, TreeInv
<1> QED BY <1>1, Invariance, PTL

================================================================================
