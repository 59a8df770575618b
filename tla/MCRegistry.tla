------------------------------- MODULE MCRegistry -------------------------------
(* Instances of Registry for TLC.                                           *)
EXTENDS Registry, TLC

CONSTANTS m1, m2, n1, n2, a1, a2, p1, p2

(* m2 imports m1.  m1 registers both agents, or one of them up to twice, and *)
(* m2 may register the other.                                               *)
Calls(agents) == {[agent |-> a, name |-> n, given |-> g] : a \in agents, n \in Names, g \in SUBSET Kinds}

CallLists ==
    {<<<<c>>, d>> : c \in Calls({a1}), d \in {<<>>} \union {<<e>> : e \in Calls({a2})}}
    \union {<<<<c, d>>, <<>>>> : c \in Calls({a1}), d \in Calls(Agents)}

Programs ==
    {[variable |-> v, imports |-> [m \in Modules |-> IF m = m2 THEN {m1} ELSE {}],
      calls |-> [m \in Modules |-> IF m = m1 THEN lists[1] ELSE lists[2]],
      own_name |-> [a \in Agents |-> IF a = a1 THEN n1 ELSE n2]] :
        v \in [Modules -> [Names -> Agents \union {Nothing}]], lists \in CallLists}

AlignedPrograms == {l \in Programs : NamesAligned(l) /\ RegisteredWhereHeld(l)}

ASSUME ProgramsAreApplications ==
    \A l \in AlignedPrograms : ImportsAll(l) /\ RegisteredAtOnePlace(l)

(* Each agent is held in a variable that bears the other one's name.        *)
SwappedNames ==
    {[variable |-> [m \in Modules |-> [n \in Names |->
          IF m = m1 THEN IF n = n1 THEN a2 ELSE a1 ELSE Nothing]],
      imports |-> [m \in Modules |-> {}],
      calls |-> [m \in Modules |->
          IF m = m1 THEN <<[agent |-> a1, name |-> n1, given |-> {}],
                           [agent |-> a2, name |-> n2, given |-> {}]>> ELSE <<>>],
      own_name |-> [a \in Agents |-> IF a = a1 THEN n1 ELSE n2]]}

================================================================================
