----------------------------- MODULE RegistryProofs -----------------------------
(****************************************************************************)
(* TypeOK, RestoresAgent, HooksAgree and ShortNameSteady of Registry for    *)
(* every number of processes, modules, agents and requests, and for every   *)
(* program in which names do not clash, or registrations are made once.     *)
(*                                                                          *)
(* The argument: a key that a process knows means the agent that its        *)
(* module's variable holds, if that holds one, whether the key came from a  *)
(* registration, from a request or from a lookup.  The variables are the    *)
(* program's, so they are the same in every process.  A process that knows  *)
(* an agent has loaded the module that registers it, so it has its hooks.   *)
(****************************************************************************)
EXTENDS Registry, FiniteSetTheorems, WellFoundedInduction, TLAPS

----------------------------------------------------------------------------
(* A finite set of call indices has a last one.                             *)
LEMMA LastIsHit ==
    ASSUME NEW calls, Len(calls) \in Nat, NEW hits \in SUBSET (1..Len(calls)), hits # {}
    PROVE  \E i \in hits : LastOf(calls, hits) = calls[i]
<1> DEFINE n == Len(calls)
           below == {p \in Nat \X Nat : p[1] < p[2]}
           T == {n - i : i \in hits}
<1>1. OpToRel(<, Nat) = below
  BY DEF OpToRel
<1>2. IsWellFoundedOn(below, Nat)
  BY <1>1, NatLessThanWellFounded
<1>3. T \subseteq Nat /\ T # {}
  <2>1. PICK j \in hits : TRUE
    OBVIOUS
  <2>2. n - j \in T /\ \A i \in 1..n : n - i \in Nat
    BY <2>1
  <2> QED BY <2>2
<1> HIDE DEF below, T
<1>4. PICK x \in T : \A y \in T : ~ (<<y, x>> \in below)
  BY <1>2, <1>3, WFMin
<1>5. PICK last \in hits : x = n - last
  BY <1>4 DEF T
<1>6. ASSUME NEW j \in hits PROVE j <= last
  <2>1. n - j \in T /\ n - j \in Nat /\ x \in Nat
    BY <1>3 DEF T
  <2>2. ~ (n - j < x)
    BY <1>4, <2>1 DEF below
  <2> QED BY <1>5, <2>1, <2>2
<1>7. PICK hit \in hits : hit = CHOOSE i \in hits : \A j \in hits : j <= i
  BY <1>6
<1> QED BY <1>7 DEF LastOf

(* The calls of a module, and those of them for one agent.                  *)
LEMMA CallsOfProgram ==
    ASSUME layout \in Layouts, NEW m \in Modules
    PROVE  /\ layout.imports[m] \in SUBSET Modules
           /\ \A n \in Names : layout.variable[m][n] \in Agents \union {Nothing}
           /\ layout.calls[m] \in Seq(Call)
           /\ Len(layout.calls[m]) \in Nat
           /\ DOMAIN layout.calls[m] = 1..Len(layout.calls[m])
           /\ \A i \in DOMAIN layout.calls[m] :
                 /\ layout.calls[m][i].agent \in Agents
                 /\ layout.calls[m][i].name \in Names
                 /\ layout.calls[m][i].given \in SUBSET Kinds
<1>1. layout \in Layout
  BY LayoutsAssumption
<1>2. /\ layout.calls[m] \in Seq(Call) /\ layout.imports[m] \in SUBSET Modules
      /\ \A n \in Names : layout.variable[m][n] \in Agents \union {Nothing}
  BY <1>1 DEF Layout
<1>3. \A i \in DOMAIN layout.calls[m] : layout.calls[m][i] \in Call
  BY <1>2
<1> QED BY <1>2, <1>3 DEF Call

KeySets == [Refs -> Agents \union {Nothing}]

(* A call at the top of the module registers the agent under the name.      *)
RegisteredAs(r, a) ==
    \E i \in DOMAIN layout.calls[r[1]] :
        layout.calls[r[1]][i].name = r[2] /\ layout.calls[r[1]][i].agent = a

(* What the calls of some modules do to the keys.                           *)
LEMMA KeysRegistered ==
    ASSUME layout \in Layouts, NEW keys \in KeySets, NEW ms
    PROVE  /\ Registered(keys, ms) \in KeySets
           /\ \A r \in Refs :
                 \/ Registered(keys, ms)[r] = keys[r]
                 \/ r[1] \in ms /\ RegisteredAs(r, Registered(keys, ms)[r])
<1> DEFINE hits(r) == {i \in DOMAIN layout.calls[r[1]] : layout.calls[r[1]][i].name = r[2]}
           new(r) == IF r[1] \in ms /\ hits(r) # {}
                     THEN LastOf(layout.calls[r[1]], hits(r)).agent ELSE keys[r]
<1>1. Registered(keys, ms) = [r \in Refs |-> new(r)]
  BY DEF Registered
<1>2. ASSUME NEW r \in Refs
      PROVE  /\ new(r) \in Agents \union {Nothing}
             /\ new(r) = keys[r] \/ (r[1] \in ms /\ RegisteredAs(r, new(r)))
  <2>1. CASE ~ (r[1] \in ms /\ hits(r) # {})
    BY <2>1 DEF KeySets
  <2>2. CASE r[1] \in ms /\ hits(r) # {}
    <3>1. r[1] \in Modules
      BY DEF Refs
    <3>2. PICK i \in hits(r) : LastOf(layout.calls[r[1]], hits(r)) = layout.calls[r[1]][i]
      BY <2>2, <3>1, CallsOfProgram, LastIsHit
    <3>3. new(r) = layout.calls[r[1]][i].agent
      BY <2>2, <3>2
    <3> QED BY <2>2, <3>1, <3>2, <3>3, CallsOfProgram DEF RegisteredAs
  <2> QED BY <2>1, <2>2
<1> HIDE DEF new
<1> QED BY <1>1, <1>2 DEF KeySets

(* What the module that registers an agent leaves as its hooks.             *)
HooksFrom(m, a) == LastOf(layout.calls[m], CallsFor(layout, m, a)).given

Registers(m, a) == CallsFor(layout, m, a) # {}

(* They are hooks.                                                          *)
LEMMA HooksTyped ==
    ASSUME layout \in Layouts, NEW m \in Modules, NEW a \in Agents, Registers(m, a)
    PROVE  HooksFrom(m, a) \in SUBSET Kinds
<1>1. CallsFor(layout, m, a) \in SUBSET (1..Len(layout.calls[m]))
  BY CallsOfProgram DEF CallsFor
<1>2. PICK i \in CallsFor(layout, m, a) :
          LastOf(layout.calls[m], CallsFor(layout, m, a)) = layout.calls[m][i]
  BY <1>1, CallsOfProgram, LastIsHit DEF Registers
<1> QED BY <1>1, <1>2, CallsOfProgram DEF HooksFrom

HookSets == [Agents -> SUBSET Kinds]

(* What the calls of some modules do to the hooks.                          *)
LEMMA HooksRegistered ==
    ASSUME layout \in Layouts, NEW known \in HookSets, NEW ms \in SUBSET Modules
    PROVE  /\ Hooked(known, ms) \in HookSets
           /\ \A a \in Agents :
                 \/ Hooked(known, ms)[a] = known[a] /\ \A m \in ms : ~Registers(m, a)
                 \/ \E m \in ms : Registers(m, a) /\ Hooked(known, ms)[a] = HooksFrom(m, a)
<1> DEFINE new(a) == IF \E m \in ms : CallsFor(layout, m, a) # {}
                     THEN LET m == CHOOSE m \in ms : CallsFor(layout, m, a) # {}
                          IN  LastOf(layout.calls[m], CallsFor(layout, m, a)).given
                     ELSE known[a]
<1>1. Hooked(known, ms) = [a \in Agents |-> new(a)]
  BY DEF Hooked
<1>2. ASSUME NEW a \in Agents
      PROVE  /\ new(a) \in SUBSET Kinds
             /\ \/ new(a) = known[a] /\ \A m \in ms : ~Registers(m, a)
                \/ \E m \in ms : Registers(m, a) /\ new(a) = HooksFrom(m, a)
  <2>1. CASE \A m \in ms : CallsFor(layout, m, a) = {}
    BY <2>1 DEF Registers, HookSets
  <2>2. CASE \E m \in ms : CallsFor(layout, m, a) # {}
    <3>1. PICK k \in ms : /\ k = CHOOSE m \in ms : CallsFor(layout, m, a) # {}
                          /\ CallsFor(layout, k, a) # {}
      BY <2>2
    <3>2. new(a) = HooksFrom(k, a) /\ Registers(k, a)
      BY <2>2, <3>1 DEF HooksFrom, Registers
    <3> QED BY <3>1, <3>2, HooksTyped
  <2> QED BY <2>1, <2>2
<1> HIDE DEF new
<1> QED BY <1>1, <1>2 DEF HookSets

----------------------------------------------------------------------------
(* What a step does to a process.                                           *)

Typed == layout \in Layouts /\ TypeOK

(* A request's reference is to a variable that holds its agent.             *)
RequestsHeld == \A r \in requests : VariableValue(r.ref) = r.agent

(* A process imports a module, with what it imports.                        *)
LEMMA LoadingMoves ==
    ASSUME Typed, NEW p \in Processes, NEW m \in Modules, NEW keys \in KeySets,
           Loading(p, m, keys)
    PROVE  /\ loaded' \in [Processes -> SUBSET Modules]
           /\ loaded'[p] = loaded[p] \union {m} \union layout.imports[m]
           /\ table' \in [Processes -> KeySets] /\ table'[p] = keys
           /\ hooks' \in [Processes -> HookSets]
           /\ hooks'[p] = Hooked(hooks[p], ToLoad(p, m))
           /\ \A q \in Processes : q # p =>
                 loaded'[q] = loaded[q] /\ table'[q] = table[q] /\ hooks'[q] = hooks[q]
<1>1. ToLoad(p, m) \in SUBSET Modules /\ hooks[p] \in HookSets
  BY CallsOfProgram DEF Typed, TypeOK, ToLoad, HookSets
<1>2. PICK new \in HookSets : new = Hooked(hooks[p], ToLoad(p, m))
  BY <1>1, HooksRegistered DEF Typed
<1>3. hooks' = [hooks EXCEPT ![p] = new]
  BY <1>2 DEF Loading
<1>4. loaded' = [loaded EXCEPT ![p] = @ \union ToLoad(p, m)] /\ table' = [table EXCEPT ![p] = keys]
  BY DEF Loading
<1>5. loaded[p] \union ToLoad(p, m) = loaded[p] \union {m} \union layout.imports[m]
  BY DEF ToLoad
<1> USE DEF Typed, TypeOK, KeySets, HookSets
<1> QED BY <1>1, <1>2, <1>3, <1>4, <1>5

(* The steps that import m, and set at most one key beside.                 *)
Loads(p, m) ==
    \E keys \in KeySets :
        /\ Loading(p, m, keys)
        /\ \A r \in Refs :
              \/ keys[r] = Registered(table[p], ToLoad(p, m))[r]
              \/ r[1] = m /\ keys[r] = VariableValue(r) /\ keys[r] # Nothing

(* What the steps of a process are, as far as its keys and hooks go.        *)
LEMMA StepsLoad ==
    ASSUME Typed, RequestsHeld, NEW p \in Processes, ProcessStep(p)
    PROVE  /\ layout' = layout
           /\ \/ \E m \in Modules : Loads(p, m)
              \/ Restart(p)
              \/ \E m \in Modules, a \in Agents : BindRequest(p, m, a)
              \/ \E r \in requests : LookupKnown(p, r.ref)
<1>1. table[p] \in KeySets
  BY DEF Typed, TypeOK, KeySets
<1>2. \A m : Registered(table[p], ToLoad(p, m)) \in KeySets
  BY <1>1, KeysRegistered DEF Typed
<1>3. ASSUME NEW m \in Modules, Import(p, m) PROVE Loads(p, m)
  BY <1>2, <1>3 DEF Import, Loads
<1>4. ASSUME NEW r \in requests
      PROVE  /\ r.ref \in Refs /\ r.ref[1] \in Modules /\ r.agent \in Agents
             /\ VariableValue(r.ref) = r.agent /\ r.agent # Nothing
  BY NothingAssumption DEF Typed, TypeOK, Refs, RequestsHeld
<1>5. ASSUME NEW ref \in Refs, NEW a \in Agents, VariableValue(ref) = a,
             Loading(p, ref[1], [Registered(table[p], ToLoad(p, ref[1])) EXCEPT ![ref] = a])
      PROVE  \E m \in Modules : Loads(p, m)
  <2>1. PICK old \in KeySets : old = Registered(table[p], ToLoad(p, ref[1]))
    BY <1>2
  <2>2. PICK keys \in KeySets : keys = [old EXCEPT ![ref] = a]
    BY DEF KeySets
  <2>3. \A r \in Refs : r # ref => keys[r] = old[r]
    BY <2>2 DEF KeySets
  <2>4. keys[ref] = a /\ a # Nothing /\ ref[1] \in Modules
    BY <2>2, NothingAssumption DEF KeySets, Refs
  <2>5. Loading(p, ref[1], keys)
    BY <1>5, <2>1, <2>2
  <2>6. \A r \in Refs :
            \/ keys[r] = Registered(table[p], ToLoad(p, ref[1]))[r]
            \/ r[1] = ref[1] /\ keys[r] = VariableValue(r) /\ keys[r] # Nothing
    BY <1>5, <2>1, <2>3, <2>4
  <2>7. Loads(p, ref[1])
    BY <2>5, <2>6 DEF Loads
  <2> QED BY <2>4, <2>7
<1>6. ASSUME NEW r \in requests, LoadRequest(p, r) PROVE \E m \in Modules : Loads(p, m)
  BY <1>4, <1>5, <1>6 DEF LoadRequest
<1>7. ASSUME NEW r \in requests, LookupUnknown(p, r.ref) PROVE \E m \in Modules : Loads(p, m)
  BY <1>4, <1>5, <1>7 DEF LookupUnknown
<1>8. layout' = layout
  BY DEF ProcessStep, Import, Restart, BindRequest, LoadRequest, LookupKnown, LookupUnknown
<1> QED BY <1>3, <1>6, <1>7, <1>8 DEF ProcessStep

(* What a process comes to know: a key of a module it has loaded, by a      *)
(* registration that the key was free for, or as that module's variable.    *)
LEMMA KeysMove ==
    ASSUME Typed, RequestsHeld, NEW p \in Processes, ProcessStep(p)
    PROVE  /\ table' \in [Processes -> KeySets]
           /\ loaded' \in [Processes -> SUBSET Modules]
           /\ hooks' \in [Processes -> HookSets]
           /\ \A q \in Processes : q # p =>
                 loaded'[q] = loaded[q] /\ table'[q] = table[q] /\ hooks'[q] = hooks[q]
           /\ \A r \in Refs : table'[p][r] # Nothing =>
                 /\ r[1] \in loaded'[p]
                 /\ \/ table'[p][r] = table[p][r]
                    \/ table'[p][r] = VariableValue(r)
                    \/ RegisteredAs(r, table'[p][r]) /\ table[p][r] = Nothing
           /\ loaded[p] \subseteq loaded'[p] =>
                 \A r \in Refs : table[p][r] # Nothing => table'[p][r] # Nothing
<1> DEFINE Moves ==
        /\ table' \in [Processes -> KeySets]
        /\ loaded' \in [Processes -> SUBSET Modules]
        /\ hooks' \in [Processes -> HookSets]
        /\ \A q \in Processes : q # p =>
              loaded'[q] = loaded[q] /\ table'[q] = table[q] /\ hooks'[q] = hooks[q]
        /\ \A r \in Refs : table'[p][r] # Nothing =>
              /\ r[1] \in loaded'[p]
              /\ \/ table'[p][r] = table[p][r]
                 \/ table'[p][r] = VariableValue(r)
                 \/ RegisteredAs(r, table'[p][r]) /\ table[p][r] = Nothing
        /\ loaded[p] \subseteq loaded'[p] =>
              \A r \in Refs : table[p][r] # Nothing => table'[p][r] # Nothing
<1>1. /\ table \in [Processes -> KeySets] /\ loaded \in [Processes -> SUBSET Modules]
      /\ hooks \in [Processes -> HookSets]
      /\ \A r \in Refs : table[p][r] # Nothing => r[1] \in loaded[p]
  BY DEF Typed, TypeOK, KeySets, HookSets
<1>2. ASSUME NEW m \in Modules, Loads(p, m) PROVE Moves
  <2>1. PICK keys \in KeySets :
            /\ Loading(p, m, keys)
            /\ \A r \in Refs :
                  \/ keys[r] = Registered(table[p], ToLoad(p, m))[r]
                  \/ r[1] = m /\ keys[r] = VariableValue(r) /\ keys[r] # Nothing
    BY <1>2 DEF Loads
  <2>2. /\ loaded' \in [Processes -> SUBSET Modules]
        /\ loaded'[p] = loaded[p] \union {m} \union layout.imports[m]
        /\ table' \in [Processes -> KeySets] /\ table'[p] = keys
        /\ hooks' \in [Processes -> HookSets]
        /\ \A q \in Processes : q # p =>
              loaded'[q] = loaded[q] /\ table'[q] = table[q] /\ hooks'[q] = hooks[q]
    BY <2>1, LoadingMoves
  <2>3. \A r \in Refs :
            \/ Registered(table[p], ToLoad(p, m))[r] = table[p][r]
            \/ /\ r[1] \in ToLoad(p, m)
               /\ RegisteredAs(r, Registered(table[p], ToLoad(p, m))[r])
    BY <1>1, KeysRegistered DEF Typed
  <2>4. \A r \in Refs : r[1] \in ToLoad(p, m) => table[p][r] = Nothing /\ r[1] \in loaded'[p]
    BY <1>1, <2>2 DEF ToLoad
  <2>5. \A r \in Refs : \A a : RegisteredAs(r, a) => a # Nothing
    <3> SUFFICES ASSUME NEW r \in Refs, RegisteredAs(r, Nothing) PROVE FALSE
      OBVIOUS
    <3>1. r[1] \in Modules
      BY DEF Refs
    <3> QED BY <3>1, CallsOfProgram, NothingAssumption DEF RegisteredAs, Typed
  <2>6. ASSUME NEW r \in Refs, table'[p][r] # Nothing
        PROVE  /\ r[1] \in loaded'[p]
               /\ \/ table'[p][r] = table[p][r]
                  \/ table'[p][r] = VariableValue(r)
                  \/ RegisteredAs(r, table'[p][r]) /\ table[p][r] = Nothing
    BY <1>1, <2>1, <2>2, <2>3, <2>4, <2>6
  <2>7. ASSUME NEW r \in Refs, table[p][r] # Nothing
        PROVE  table'[p][r] # Nothing
    BY <2>1, <2>2, <2>3, <2>5, <2>7
  <2> QED BY <2>2, <2>6, <2>7
<1>3. ASSUME Restart(p) PROVE Moves
  <2>1. NoKeys \in KeySets /\ NoHooks \in HookSets
    BY DEF NoKeys, NoHooks, KeySets, HookSets
  <2>2. /\ loaded[p] # {} /\ loaded' = [loaded EXCEPT ![p] = {}]
        /\ table' = [table EXCEPT ![p] = NoKeys] /\ hooks' = [hooks EXCEPT ![p] = NoHooks]
    BY <1>3 DEF Restart
  <2>3. table'[p] = NoKeys /\ loaded'[p] = {} /\ \A r \in Refs : NoKeys[r] = Nothing
    BY <1>1, <2>2 DEF NoKeys
  <2>4. /\ table' \in [Processes -> KeySets] /\ loaded' \in [Processes -> SUBSET Modules]
        /\ hooks' \in [Processes -> HookSets]
        /\ \A q \in Processes : q # p =>
              loaded'[q] = loaded[q] /\ table'[q] = table[q] /\ hooks'[q] = hooks[q]
    BY <1>1, <2>1, <2>2
  <2> QED BY <2>2, <2>3, <2>4
<1>4. ASSUME NEW m \in Modules, NEW a \in Agents, BindRequest(p, m, a) PROVE Moves
  <2> DEFINE ref == <<m, VariableOf(m, a)>>
  <2>1. /\ m \in loaded[p] /\ table' = [table EXCEPT ![p][ref] = a]
        /\ loaded' = loaded /\ hooks' = hooks
    BY <1>4 DEF BindRequest
  <2>2. ref \in Refs /\ ref[1] = m /\ VariableValue(ref) = a
    BY <1>4 DEF BindRequest, VariableOf, Holding, Refs, VariableValue
  <2> HIDE DEF ref
  <2>3. /\ table'[p] = [table[p] EXCEPT ![ref] = a] /\ table'[p] \in KeySets
        /\ \A q \in Processes : q # p => table'[q] = table[q]
        /\ table' \in [Processes -> KeySets]
    <3>1. [table[p] EXCEPT ![ref] = a] \in KeySets
      BY <1>1 DEF KeySets
    <3> QED BY <1>1, <2>1, <3>1
  <2>4. table'[p][ref] = a /\ \A r \in Refs : r # ref => table'[p][r] = table[p][r]
    BY <1>1, <2>2, <2>3 DEF KeySets
  <2>5. a # Nothing
    BY NothingAssumption
  <2> QED BY <1>1, <2>1, <2>2, <2>3, <2>4, <2>5
<1>5. ASSUME NEW r \in requests, LookupKnown(p, r.ref) PROVE Moves
  <2>1. UNCHANGED <<loaded, table, hooks>>
    BY <1>5 DEF LookupKnown
  <2> QED BY <1>1, <2>1
<1> HIDE DEF Moves
<1>6. \/ \E m \in Modules : Loads(p, m)
      \/ Restart(p)
      \/ \E m \in Modules, a \in Agents : BindRequest(p, m, a)
      \/ \E r \in requests : LookupKnown(p, r.ref)
  BY StepsLoad
<1>7. Moves
  BY <1>2, <1>3, <1>4, <1>5, <1>6
<1> QED BY <1>7 DEF Moves

----------------------------------------------------------------------------
(* Types.                                                                   *)

(* A request that is built is for an agent that its module holds.           *)
LEMMA RequestsMove ==
    ASSUME Typed, RequestsHeld, NEW p \in Processes, ProcessStep(p)
    PROVE  /\ requests' \subseteq [ref : Refs, agent : Agents]
           /\ RequestsHeld'
<1>1. requests \subseteq [ref : Refs, agent : Agents] /\ layout' = layout
  BY StepsLoad DEF Typed, TypeOK
<1>2. CASE UNCHANGED requests
  BY <1>1, <1>2 DEF RequestsHeld, VariableValue
<1>3. ASSUME NEW m \in Modules, NEW a \in Agents, BindRequest(p, m, a)
      PROVE  requests' \subseteq [ref : Refs, agent : Agents] /\ RequestsHeld'
  <2> DEFINE ref == <<m, VariableOf(m, a)>>
  <2>1. ref \in Refs /\ VariableValue(ref) = a
    BY <1>3 DEF BindRequest, VariableOf, Holding, Refs, VariableValue
  <2>2. requests' = requests \union {[ref |-> ref, agent |-> a]}
    BY <1>3 DEF BindRequest
  <2> HIDE DEF ref
  <2>3. \A r : VariableValue(r)' = VariableValue(r)
    BY <1>1 DEF VariableValue
  <2> QED BY <1>1, <2>1, <2>2, <2>3 DEF RequestsHeld
<1>4. (\E m \in Modules, a \in Agents : BindRequest(p, m, a)) \/ UNCHANGED requests
  BY DEF ProcessStep, Import, Restart, LoadRequest, LookupKnown, LookupUnknown
<1> QED BY <1>2, <1>3, <1>4

(* A lookup's answer is what the process knows, or learns now, of its key.  *)
LEMMA FoundMoves ==
    ASSUME Typed, RequestsHeld, NEW p \in Processes, ProcessStep(p)
    PROVE  \A f \in found' : f \in found \/
              /\ f.ref \in Refs
              /\ f.agent = table'[p][f.ref]
              /\ f.agent \in Agents
              /\ f = [ref |-> f.ref, agent |-> f.agent, hooks |-> hooks'[p][f.agent]]
<1>1. /\ table \in [Processes -> KeySets] /\ hooks \in [Processes -> HookSets]
      /\ layout' = layout
  BY StepsLoad DEF Typed, TypeOK, KeySets, HookSets
<1>2. CASE UNCHANGED found
  BY <1>2
<1>3. ASSUME NEW ref \in Refs, NEW a \in Agents, NEW known, Answers(ref, a, known),
             a = table'[p][ref], known = hooks'[p]
      PROVE  \A f \in found' : f \in found \/
                /\ f.ref \in Refs
                /\ f.agent = table'[p][f.ref]
                /\ f.agent \in Agents
                /\ f = [ref |-> f.ref, agent |-> f.agent, hooks |-> hooks'[p][f.agent]]
  <2>1. found' = found \union {[ref |-> ref, agent |-> a, hooks |-> known[a]]}
    BY <1>3, NothingAssumption DEF Answers, HooksOf
  <2> QED BY <1>3, <2>1
<1>4. ASSUME NEW r \in requests, LookupKnown(p, r.ref)
      PROVE  \A f \in found' : f \in found \/
                /\ f.ref \in Refs
                /\ f.agent = table'[p][f.ref]
                /\ f.agent \in Agents
                /\ f = [ref |-> f.ref, agent |-> f.agent, hooks |-> hooks'[p][f.agent]]
  <2>1. r.ref \in Refs
    BY DEF Typed, TypeOK
  <2>2. table[p][r.ref] \in Agents
    BY <1>1, <1>4, <2>1 DEF LookupKnown, KeySets
  <2>3. /\ Answers(r.ref, table[p][r.ref], hooks[p])
        /\ table' = table /\ hooks' = hooks
    BY <1>4 DEF LookupKnown
  <2> QED BY <1>3, <2>1, <2>2, <2>3
<1>5. ASSUME NEW r \in requests, LookupUnknown(p, r.ref)
      PROVE  \A f \in found' : f \in found \/
                /\ f.ref \in Refs
                /\ f.agent = table'[p][f.ref]
                /\ f.agent \in Agents
                /\ f = [ref |-> f.ref, agent |-> f.agent, hooks |-> hooks'[p][f.agent]]
  <2> DEFINE ref == r.ref
             a == VariableValue(ref)
             m == ref[1]
             old == Registered(table[p], ToLoad(p, m))
  <2>1. ref \in Refs /\ m \in Modules /\ a \in Agents /\ a # Nothing
    BY NothingAssumption DEF Typed, TypeOK, RequestsHeld, Refs
  <2>2. old \in KeySets
    BY <1>1, KeysRegistered DEF Typed
  <2>3. /\ Loading(p, m, [old EXCEPT ![ref] = a])
        /\ Answers(ref, a, Hooked(hooks[p], ToLoad(p, m)))
    BY <1>5, <2>1 DEF LookupUnknown
  <2> HIDE DEF ref, a, m, old
  <2>4. PICK keys \in KeySets : keys = [old EXCEPT ![ref] = a]
    BY <2>1, <2>2 DEF KeySets
  <2>5. keys[ref] = a
    BY <2>1, <2>2, <2>4 DEF KeySets
  <2>6. table'[p] = keys /\ hooks'[p] = Hooked(hooks[p], ToLoad(p, m))
    BY <2>1, <2>3, <2>4, LoadingMoves
  <2> QED BY <1>3, <2>1, <2>3, <2>5, <2>6
<1>6. \/ UNCHANGED found
      \/ \E r \in requests : LookupKnown(p, r.ref) \/ LookupUnknown(p, r.ref)
  BY DEF ProcessStep, Import, Restart, BindRequest, LoadRequest
<1> QED BY <1>2, <1>4, <1>5, <1>6

(* Every step keeps the types, and what requests refer to.                  *)
LEMMA TypedStep == Typed /\ RequestsHeld /\ [Next]_vars => Typed' /\ RequestsHeld'
<1> SUFFICES ASSUME Typed, RequestsHeld, [Next]_vars PROVE Typed' /\ RequestsHeld'
  OBVIOUS
<1>1. CASE UNCHANGED vars
  BY <1>1 DEF vars, Typed, TypeOK, RequestsHeld, VariableValue
<1>2. ASSUME NEW p \in Processes, ProcessStep(p) PROVE Typed' /\ RequestsHeld'
  <2>1. layout' = layout
    BY <1>2, StepsLoad
  <2>2. ASSUME NEW q \in Processes, NEW r \in Refs, table'[q][r] # Nothing
        PROVE  r[1] \in loaded'[q]
    <3>1. CASE q = p
      BY <1>2, <2>2, <3>1, KeysMove
    <3>2. CASE q # p
      <4>1. table'[q] = table[q] /\ loaded'[q] = loaded[q]
        BY <1>2, <3>2, KeysMove
      <4> QED BY <2>2, <4>1 DEF Typed, TypeOK
    <3> QED BY <3>1, <3>2
  <2>3. /\ table' \in [Processes -> KeySets] /\ loaded' \in [Processes -> SUBSET Modules]
        /\ hooks' \in [Processes -> HookSets]
    BY <1>2, KeysMove
  <2>4. found' \subseteq [ref : Refs, agent : Agents \union {Nothing}, hooks : SUBSET Kinds]
    <3> SUFFICES ASSUME NEW f \in found'
                 PROVE  f \in [ref : Refs, agent : Agents \union {Nothing}, hooks : SUBSET Kinds]
      OBVIOUS
    <3>1. CASE f \in found
      BY <3>1 DEF Typed, TypeOK
    <3>2. CASE f \notin found
      <4>1. /\ f.ref \in Refs /\ f.agent \in Agents
            /\ f = [ref |-> f.ref, agent |-> f.agent, hooks |-> hooks'[p][f.agent]]
        BY <1>2, <3>2, FoundMoves
      <4>2. hooks'[p][f.agent] \in SUBSET Kinds
        BY <2>3, <4>1 DEF HookSets
      <4> QED BY <4>1, <4>2
    <3> QED BY <3>1, <3>2
  <2> QED BY <1>2, <2>1, <2>2, <2>3, <2>4, RequestsMove DEF Typed, TypeOK, KeySets, HookSets
<1> QED BY <1>1, <1>2 DEF Next

(* Nothing is known, built or found yet.                                    *)
LEMMA TypedInit == Init => Typed /\ RequestsHeld
  BY DEF Init, Typed, TypeOK, RequestsHeld, NoKeys, NoHooks

(* Types hold in every reachable state, and requests refer to variables     *)
(* that hold their agents.                                                  *)
LEMMA TypesHold == Spec => [](Typed /\ RequestsHeld)
  BY TypedInit, TypedStep, PTL DEF Spec

(* The registry of each process keeps its type, and a process knows only    *)
(* references into modules it has imported, for any program                 *)
(* (waymark_agent, registered_agent).                                       *)
THEOREM TypeCorrect == Spec => []TypeOK
<1>1. Typed => TypeOK
  BY DEF Typed
<1> QED BY <1>1, TypesHold, PTL

----------------------------------------------------------------------------
(* References.                                                              *)

(* In every program, no name that an agent is registered under is another's *)
(* variable: the condition under which a reference means one agent.         *)
LayoutsAligned == \A l \in Layouts : NamesAligned(l)

(* A known key means the agent that its variable holds, if it holds one.    *)
KeysTrue ==
    \A p \in Processes, r \in Refs : table[p][r] # Nothing =>
        VariableValue(r) \in {table[p][r], Nothing}

(* And so does every answer.                                                *)
FoundTrue == \A f \in found : VariableValue(f.ref) \in {f.agent, Nothing}

(* Keys and answers stay true.                                              *)
LEMMA TruthStep ==
    LayoutsAligned /\ Typed /\ RequestsHeld /\ KeysTrue /\ FoundTrue /\ [Next]_vars
        => KeysTrue' /\ FoundTrue'
<1> SUFFICES ASSUME LayoutsAligned, Typed, RequestsHeld, KeysTrue, FoundTrue, [Next]_vars
             PROVE  KeysTrue' /\ FoundTrue'
  OBVIOUS
<1>1. CASE UNCHANGED vars
  BY <1>1 DEF vars, KeysTrue, FoundTrue, VariableValue
<1>2. ASSUME NEW p \in Processes, ProcessStep(p) PROVE KeysTrue' /\ FoundTrue'
  <2>1. \A r : VariableValue(r)' = VariableValue(r)
    BY <1>2, StepsLoad DEF VariableValue
  <2>2. ASSUME NEW r \in Refs, NEW a, RegisteredAs(r, a) PROVE VariableValue(r) \in {a, Nothing}
    <3>1. NamesAligned(layout) /\ r[1] \in Modules
      BY DEF LayoutsAligned, Typed, Refs
    <3> QED BY <2>2, <3>1 DEF NamesAligned, RegisteredAs, VariableValue
  <2>3. ASSUME NEW q \in Processes, NEW r \in Refs, table'[q][r] # Nothing
        PROVE  VariableValue(r) \in {table'[q][r], Nothing}
    <3>1. CASE q # p
      <4>1. table'[q] = table[q]
        BY <1>2, <3>1, KeysMove
      <4> QED BY <2>3, <4>1 DEF KeysTrue
    <3>2. CASE q = p
      <4>1. \/ table'[p][r] = table[p][r]
            \/ table'[p][r] = VariableValue(r)
            \/ RegisteredAs(r, table'[p][r])
        BY <1>2, <2>3, <3>2, KeysMove
      <4> QED BY <2>2, <2>3, <3>2, <4>1 DEF KeysTrue
    <3> QED BY <3>1, <3>2
  <2>4. ASSUME NEW f \in found' PROVE VariableValue(f.ref) \in {f.agent, Nothing}
    <3>1. f \in found \/ (f.ref \in Refs /\ f.agent = table'[p][f.ref] /\ f.agent \in Agents)
      BY <1>2, FoundMoves
    <3> QED BY <2>3, <3>1, NothingAssumption DEF FoundTrue
  <2> QED BY <2>1, <2>3, <2>4 DEF KeysTrue, FoundTrue
<1> QED BY <1>1, <1>2 DEF Next

(* At first nothing is known.                                               *)
LEMMA TruthInit == Init => KeysTrue /\ FoundTrue
  BY DEF Init, KeysTrue, FoundTrue, NoKeys

(* A request's reference means its agent in every process, whatever that    *)
(* process imported, bound or looked up before, when no registered name is  *)
(* another agent's variable (AIRequestBase.bind_agent_reference,            *)
(* registered_agent).                                                       *)
THEOREM AgentsRestored ==
    ASSUME LayoutsAligned
    PROVE  Spec => []RestoresAgent
<1>1. Typed /\ RequestsHeld /\ FoundTrue => RestoresAgent
  <2> SUFFICES ASSUME RequestsHeld, FoundTrue, Typed,
                      NEW f \in found, NEW r \in requests, f.ref = r.ref
               PROVE  f.agent = r.agent
    BY DEF RestoresAgent
  <2> QED BY NothingAssumption DEF RequestsHeld, FoundTrue, Typed, TypeOK
<1> QED BY <1>1, TypesHold, TruthInit, TruthStep, PTL DEF Spec

----------------------------------------------------------------------------
(* A name alone.                                                            *)

(* The keys that end in a name are still there, and still mean what they    *)
(* meant: a second one makes the name ambiguous, none changes it.           *)
LEMMA ShortNameStep ==
    ASSUME IsFiniteSet(Modules), IsFiniteSet(Names), Typed, RequestsHeld, KeysTrue, KeysTrue',
           [Next]_vars, NEW p \in Processes, NEW n \in Names,
           ShortName(p, n) # Nothing, loaded[p] \subseteq loaded'[p]
    PROVE  ShortName(p, n)' \in {ShortName(p, n), Nothing}
<1>1. \A q \in Processes : table'[q] \in KeySets /\ table[q] \in KeySets
  <2>1. table \in [Processes -> KeySets]
    BY DEF Typed, TypeOK, KeySets
  <2>2. table' \in [Processes -> KeySets]
    <3>1. Typed'
      BY TypedStep
    <3> QED BY <3>1 DEF Typed, TypeOK, KeySets
  <2> QED BY <2>1, <2>2
<1>2. ASSUME NEW r \in Refs, table[p][r] # Nothing
      PROVE  table'[p][r] = table[p][r]
  <2>1. CASE UNCHANGED vars
    BY <2>1 DEF vars
  <2>2. ASSUME NEW q \in Processes, ProcessStep(q), q # p PROVE table'[p][r] = table[p][r]
    BY <2>2, KeysMove
  <2>3. CASE ProcessStep(p)
    <3>1. table'[p][r] # Nothing
      BY <1>2, <2>3, KeysMove
    <3>2. \/ table'[p][r] = table[p][r]
          \/ table'[p][r] = VariableValue(r)
      BY <1>2, <2>3, <3>1, KeysMove
    <3> QED BY <1>2, <3>1, <3>2 DEF KeysTrue
  <2> QED BY <2>1, <2>2, <2>3 DEF Next
<1>3. Matches(p, n) \subseteq Matches(p, n)'
  BY <1>2 DEF Matches
<1>4. IsFiniteSet(Matches(p, n)) /\ IsFiniteSet(Matches(p, n)')
  <2>1. IsFiniteSet(Refs)
    BY FS_Product DEF Refs
  <2>2. Matches(p, n) \subseteq Refs /\ Matches(p, n)' \subseteq Refs
    BY DEF Matches
  <2> QED BY <2>1, <2>2, FS_Subset
<1>5. PICK r : Matches(p, n) = {r} /\ ShortName(p, n) = table[p][r]
  <2>1. Cardinality(Matches(p, n)) = 1
    BY DEF ShortName
  <2>2. PICK r : Matches(p, n) = {r}
    BY <1>4, <2>1, FS_Singleton
  <2>3. (CHOOSE s \in Matches(p, n) : TRUE) = r
    BY <2>2
  <2> QED BY <2>1, <2>2, <2>3 DEF ShortName
<1>6. CASE ShortName(p, n)' # Nothing
  <2>1. Cardinality(Matches(p, n)') = 1
    BY <1>6 DEF ShortName
  <2>2. PICK s : Matches(p, n)' = {s}
    BY <1>4, <2>1, FS_Singleton
  <2>3. s = r
    BY <1>3, <1>5, <2>2
  <2>4. ShortName(p, n)' = table'[p][r]
    <3>1. (CHOOSE t \in Matches(p, n)' : TRUE) = r
      BY <2>2, <2>3
    <3> QED BY <2>1, <3>1 DEF ShortName
  <2>5. r \in Refs /\ table[p][r] # Nothing
    BY <1>5 DEF Matches
  <2> QED BY <1>2, <1>5, <2>4, <2>5
<1> QED BY <1>6

(* A name alone that means an agent in a process never comes to mean        *)
(* another one there, in any program with aligned names (registered_agent). *)
THEOREM ShortNamesSteady ==
    ASSUME LayoutsAligned, IsFiniteSet(Modules), IsFiniteSet(Names)
    PROVE  Spec => ShortNameSteady
<1>1. Typed /\ RequestsHeld /\ KeysTrue /\ FoundTrue /\ [Next]_vars =>
        [\A p \in Processes, n \in Names :
            ShortName(p, n) # Nothing /\ loaded[p] \subseteq loaded'[p] =>
                ShortName(p, n)' \in {ShortName(p, n), Nothing}]_vars
  BY TruthStep, ShortNameStep
<1> QED BY <1>1, TypesHold, TruthInit, TruthStep, PTL DEF Spec, ShortNameSteady

----------------------------------------------------------------------------
(* Hooks.                                                                   *)

(* In every program an agent is registered at one place, which every module *)
(* that holds it is or imports.                                             *)
LayoutsRegisterOnce ==
    \A l \in Layouts : ImportsAll(l) /\ RegisteredWhereHeld(l) /\ RegisteredAtOnePlace(l)

(* A process that has loaded a module has loaded what it imports.           *)
LoadedWhole == \A p \in Processes : \A m \in loaded[p] : layout.imports[m] \subseteq loaded[p]

(* It has the hooks of the agents that the loaded modules register.         *)
HooksTrue ==
    \A p \in Processes, a \in Agents, m \in Modules :
        m \in loaded[p] /\ Registers(m, a) => hooks[p][a] = HooksFrom(m, a)

(* And none of those that no loaded module registers.                       *)
HooksOnly ==
    \A p \in Processes, a \in Agents :
        (\A m \in loaded[p] : ~Registers(m, a)) => hooks[p][a] = {}

(* It has loaded what registers the agents that it knows.                   *)
KnownRegistered ==
    \A p \in Processes, r \in Refs, m \in Modules :
        table[p][r] # Nothing /\ Registers(m, table[p][r]) => m \in loaded[p]

(* An answer comes with the agent's hooks.                                  *)
FoundHooked ==
    \A f \in found : f.agent # Nothing =>
        /\ \A m \in Modules : Registers(m, f.agent) => f.hooks = HooksFrom(m, f.agent)
        /\ (\A m \in Modules : ~Registers(m, f.agent)) => f.hooks = {}

(* No lookup of a request's reference finds nothing.                        *)
FoundAgents == \A f \in found : f.agent \in Agents

ProcessHooks == LoadedWhole /\ HooksTrue /\ HooksOnly /\ KnownRegistered

(* The program does not change, so what registers an agent does not either. *)
LEMMA HooksStand ==
    ASSUME layout' = layout
    PROVE  /\ \A m, a : Registers(m, a)' = Registers(m, a)
           /\ \A m, a : HooksFrom(m, a)' = HooksFrom(m, a)
  BY DEF Registers, HooksFrom, CallsFor

(* One module registers an agent.                                           *)
LEMMA OnePlace ==
    ASSUME LayoutsRegisterOnce, layout \in Layouts, NEW a \in Agents, NEW k \in Modules,
           NEW m \in Modules, Registers(k, a), Registers(m, a)
    PROVE  k = m
  BY DEF LayoutsRegisterOnce, RegisteredAtOnePlace, Registers

(* An import brings the hooks of the agents that it registers.              *)
LEMMA LoadsKeepHooks ==
    ASSUME LayoutsRegisterOnce, Typed, ProcessHooks, NEW p \in Processes, NEW n \in Modules,
           NEW keys \in KeySets, Loading(p, n, keys)
    PROVE  /\ \A m \in loaded'[p] : layout.imports[m] \subseteq loaded'[p]
           /\ \A a \in Agents, m \in Modules :
                 m \in loaded'[p] /\ Registers(m, a) => hooks'[p][a] = HooksFrom(m, a)
           /\ \A a \in Agents :
                 (\A m \in loaded'[p] : ~Registers(m, a)) => hooks'[p][a] = {}
<1> DEFINE new == ToLoad(p, n)
<1>1. /\ loaded'[p] = loaded[p] \union {n} \union layout.imports[n]
      /\ hooks'[p] = Hooked(hooks[p], new)
  BY LoadingMoves
<1>2. /\ loaded[p] \subseteq Modules /\ layout.imports[n] \subseteq Modules
      /\ hooks[p] \in HookSets /\ layout \in Layouts
  BY CallsOfProgram DEF Typed, TypeOK, HookSets
<1>3. new \in SUBSET Modules /\ loaded'[p] = loaded[p] \union new
  BY <1>1, <1>2 DEF ToLoad
<1>4. \A a \in Agents :
          \/ hooks'[p][a] = hooks[p][a] /\ \A m \in new : ~Registers(m, a)
          \/ \E m \in new : Registers(m, a) /\ hooks'[p][a] = HooksFrom(m, a)
  BY <1>1, <1>2, <1>3, HooksRegistered
<1>5. \A m \in loaded'[p] : layout.imports[m] \subseteq loaded'[p]
  <2>1. ImportsAll(layout)
    BY <1>2 DEF LayoutsRegisterOnce
  <2> QED BY <1>1, <1>2, <2>1 DEF ImportsAll, ProcessHooks, LoadedWhole
<1> HIDE DEF new
<1>6. ASSUME NEW a \in Agents, NEW m \in Modules, m \in loaded'[p], Registers(m, a)
      PROVE  hooks'[p][a] = HooksFrom(m, a)
  <2>1. CASE \E k \in new : Registers(k, a) /\ hooks'[p][a] = HooksFrom(k, a)
    <3>1. PICK k \in new : Registers(k, a) /\ hooks'[p][a] = HooksFrom(k, a)
      BY <2>1
    <3>2. k = m
      BY <1>2, <1>3, <1>6, <3>1, OnePlace
    <3> QED BY <3>1, <3>2
  <2>2. CASE hooks'[p][a] = hooks[p][a] /\ \A k \in new : ~Registers(k, a)
    BY <1>3, <1>6, <2>2 DEF ProcessHooks, HooksTrue
  <2> QED BY <1>4, <2>1, <2>2
<1>7. ASSUME NEW a \in Agents, \A m \in loaded'[p] : ~Registers(m, a)
      PROVE  hooks'[p][a] = {}
  BY <1>3, <1>4, <1>7 DEF ProcessHooks, HooksOnly
<1> QED BY <1>5, <1>6, <1>7

(* Every step of a process keeps what it has of its program.                *)
LEMMA HooksStep ==
    ASSUME LayoutsRegisterOnce, Typed, RequestsHeld, ProcessHooks,
           NEW p \in Processes, ProcessStep(p)
    PROVE  ProcessHooks'
<1>1. /\ layout' = layout /\ layout \in Layouts
      /\ \A m, a : Registers(m, a)' = Registers(m, a)
      /\ \A m, a : HooksFrom(m, a)' = HooksFrom(m, a)
  BY StepsLoad, HooksStand DEF Typed
<1>2. \A q \in Processes : q # p =>
          loaded'[q] = loaded[q] /\ table'[q] = table[q] /\ hooks'[q] = hooks[q]
  BY KeysMove
<1>3. /\ \A m \in loaded'[p] : layout.imports[m] \subseteq loaded'[p]
      /\ \A a \in Agents, m \in Modules :
            m \in loaded'[p] /\ Registers(m, a) => hooks'[p][a] = HooksFrom(m, a)
      /\ \A a \in Agents :
            (\A m \in loaded'[p] : ~Registers(m, a)) => hooks'[p][a] = {}
  <2> DEFINE Kept ==
        /\ \A m \in loaded'[p] : layout.imports[m] \subseteq loaded'[p]
        /\ \A a \in Agents, m \in Modules :
              m \in loaded'[p] /\ Registers(m, a) => hooks'[p][a] = HooksFrom(m, a)
        /\ \A a \in Agents :
              (\A m \in loaded'[p] : ~Registers(m, a)) => hooks'[p][a] = {}
  <2>1. ASSUME NEW m \in Modules, Loads(p, m) PROVE Kept
    BY <2>1, LoadsKeepHooks DEF Loads
  <2>2. ASSUME Restart(p) PROVE Kept
    <3>1. loaded'[p] = {} /\ hooks'[p] = NoHooks
      BY <2>2 DEF Restart, Typed, TypeOK
    <3> QED BY <3>1 DEF NoHooks
  <2>3. ASSUME NEW m \in Modules, NEW a \in Agents, BindRequest(p, m, a) PROVE Kept
    BY <2>3 DEF BindRequest, ProcessHooks, LoadedWhole, HooksTrue, HooksOnly
  <2>4. ASSUME NEW r \in requests, LookupKnown(p, r.ref) PROVE Kept
    BY <2>4 DEF LookupKnown, ProcessHooks, LoadedWhole, HooksTrue, HooksOnly
  <2>5. \/ \E m \in Modules : Loads(p, m)
        \/ Restart(p)
        \/ \E m \in Modules, a \in Agents : BindRequest(p, m, a)
        \/ \E r \in requests : LookupKnown(p, r.ref)
    BY StepsLoad
  <2> HIDE DEF Kept
  <2>6. Kept
    BY <2>1, <2>2, <2>3, <2>4, <2>5
  <2> QED BY <2>6 DEF Kept
<1>4. ASSUME NEW r \in Refs, NEW m \in Modules, table'[p][r] # Nothing, Registers(m, table'[p][r])
      PROVE  m \in loaded'[p]
  <2>1. /\ r[1] \in loaded'[p] /\ r[1] \in Modules /\ r[2] \in Names
        /\ \/ table'[p][r] = table[p][r]
           \/ table'[p][r] = VariableValue(r)
           \/ RegisteredAs(r, table'[p][r])
    BY <1>4, KeysMove DEF Refs
  <2>2. table'[p][r] \in Agents
    BY <1>4, KeysMove DEF KeySets
  <2>3. CASE table'[p][r] = table[p][r]
    <3>1. m \in loaded[p] /\ table[p][r] # Nothing
      BY <1>4, <2>3 DEF ProcessHooks, KnownRegistered
    <3>2. loaded'[p] = {} \/ loaded[p] \subseteq loaded'[p]
      <4>1. ASSUME NEW n \in Modules, Loads(p, n) PROVE loaded[p] \subseteq loaded'[p]
        BY <4>1, LoadingMoves DEF Loads
      <4>2. Restart(p) => loaded'[p] = {}
        BY DEF Restart, Typed, TypeOK
      <4>3. ASSUME NEW n \in Modules, NEW a \in Agents, BindRequest(p, n, a) PROVE loaded' = loaded
        BY <4>3 DEF BindRequest
      <4>4. ASSUME NEW s \in requests, LookupKnown(p, s.ref) PROVE loaded' = loaded
        BY <4>4 DEF LookupKnown
      <4>5. \/ \E n \in Modules : Loads(p, n)
            \/ Restart(p)
            \/ \E n \in Modules, a \in Agents : BindRequest(p, n, a)
            \/ \E s \in requests : LookupKnown(p, s.ref)
        BY StepsLoad
      <4> QED BY <4>1, <4>2, <4>3, <4>4, <4>5
    <3> QED BY <2>1, <3>1, <3>2
  <2>4. CASE table'[p][r] = VariableValue(r)
    <3>1. m \in {r[1]} \union layout.imports[r[1]]
      BY <1>1, <1>4, <2>1, <2>4
         DEF LayoutsRegisterOnce, RegisteredWhereHeld, Registers, VariableValue
    <3> QED BY <1>3, <2>1, <3>1
  <2>5. CASE RegisteredAs(r, table'[p][r])
    <3>1. Registers(r[1], table'[p][r])
      BY <2>5 DEF RegisteredAs, Registers, CallsFor
    <3>2. m = r[1]
      BY <1>1, <1>4, <2>1, <2>2, <3>1, OnePlace
    <3> QED BY <2>1, <3>2
  <2> QED BY <2>1, <2>3, <2>4, <2>5
<1>5. LoadedWhole'
  BY <1>1, <1>2, <1>3 DEF ProcessHooks, LoadedWhole
<1>6. HooksTrue'
  BY <1>1, <1>2, <1>3 DEF ProcessHooks, HooksTrue
<1>7. HooksOnly'
  BY <1>1, <1>2, <1>3 DEF ProcessHooks, HooksOnly
<1>8. KnownRegistered'
  BY <1>1, <1>2, <1>4 DEF ProcessHooks, KnownRegistered
<1> QED BY <1>5, <1>6, <1>7, <1>8 DEF ProcessHooks

(* And what its lookups answer.                                             *)
LEMMA FoundStep ==
    ASSUME LayoutsRegisterOnce, Typed, Typed', RequestsHeld, ProcessHooks, ProcessHooks',
           FoundHooked, NEW p \in Processes, ProcessStep(p)
    PROVE  FoundHooked'
<1>1. /\ layout' = layout
      /\ \A m, a : Registers(m, a)' = Registers(m, a)
      /\ \A m, a : HooksFrom(m, a)' = HooksFrom(m, a)
  BY StepsLoad, HooksStand
<1>2. ASSUME NEW f \in found', f.agent # Nothing
      PROVE  /\ \A m \in Modules : Registers(m, f.agent) => f.hooks = HooksFrom(m, f.agent)
             /\ (\A m \in Modules : ~Registers(m, f.agent)) => f.hooks = {}
  <2>1. CASE f \in found
    BY <1>2, <2>1 DEF FoundHooked
  <2>2. CASE f \notin found
    <3>1. /\ f.ref \in Refs /\ f.agent = table'[p][f.ref] /\ f.agent \in Agents
          /\ f.hooks = hooks'[p][f.agent]
      BY <1>2, <2>2, FoundMoves
    <3>2. ASSUME NEW m \in Modules, Registers(m, f.agent) PROVE f.hooks = HooksFrom(m, f.agent)
      <4>1. m \in loaded'[p]
        BY <1>1, <1>2, <3>1, <3>2 DEF ProcessHooks, KnownRegistered
      <4> QED BY <1>1, <3>1, <3>2, <4>1 DEF ProcessHooks, HooksTrue
    <3>3. ASSUME \A m \in Modules : ~Registers(m, f.agent) PROVE f.hooks = {}
      <4>1. loaded'[p] \subseteq Modules
        BY DEF Typed, TypeOK
      <4> QED BY <1>1, <3>1, <3>3, <4>1 DEF ProcessHooks, HooksOnly
    <3> QED BY <3>2, <3>3
  <2> QED BY <2>1, <2>2
<1> QED BY <1>1, <1>2 DEF FoundHooked

(* Two workers that look an agent up find the same codecs and hooks for it, *)
(* under whatever references, when each agent is registered at one place    *)
(* (registered_codecs, registered_message_reader,                           *)
(* registered_message_writer).                                              *)
THEOREM HooksAlike ==
    ASSUME LayoutsRegisterOnce
    PROVE  Spec => []HooksAgree
<1> DEFINE Inv == ProcessHooks /\ FoundHooked /\ FoundAgents
<1>1. Init => Inv
  BY DEF Init, ProcessHooks, LoadedWhole, HooksTrue, HooksOnly, KnownRegistered, FoundHooked,
         FoundAgents, NoKeys, NoHooks
<1>2. Typed /\ RequestsHeld /\ Inv /\ [Next]_vars => Inv'
  <2> SUFFICES ASSUME Typed, RequestsHeld, Inv, [Next]_vars PROVE Inv' OBVIOUS
  <2>1. CASE UNCHANGED vars
    BY <2>1, HooksStand DEF vars, ProcessHooks, LoadedWhole, HooksTrue, HooksOnly,
       KnownRegistered, FoundHooked, FoundAgents
  <2>2. ASSUME NEW p \in Processes, ProcessStep(p) PROVE Inv'
    <3>1. ProcessHooks' /\ Typed'
      BY <2>2, HooksStep, TypedStep
    <3>2. FoundHooked'
      BY <2>2, <3>1, FoundStep
    <3>3. FoundAgents'
      BY <2>2, FoundMoves DEF FoundAgents
    <3> QED BY <3>1, <3>2, <3>3
  <2> QED BY <2>1, <2>2 DEF Next
<1>3. Typed /\ Inv => HooksAgree
  <2> SUFFICES ASSUME Inv, NEW f \in found, NEW g \in found, f.agent = g.agent
               PROVE  f.hooks = g.hooks
    BY DEF HooksAgree
  <2> QED BY NothingAssumption DEF FoundHooked, FoundAgents
<1> QED BY <1>1, <1>2, <1>3, TypesHold, PTL DEF Spec

================================================================================
