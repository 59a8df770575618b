-------------------------------- MODULE Registry --------------------------------
(****************************************************************************)
(* The agent registry of each process (registry.py) and the references that *)
(* requests carry between processes (request.py 47-69).                     *)
(*                                                                          *)
(* A process imports modules; importing one runs the waymark_agent() calls  *)
(* at its top level.  Building a request of a class of module m binds it to *)
(* "m:variable"; an action in whatever process gets that reference and      *)
(* looks up the agent, and by the agent's identity its codecs and hooks.    *)
(* A name is a variable of a module or a name that an agent is registered   *)
(* under: the table has one key space for both.                             *)
(****************************************************************************)
EXTENDS Integers, Sequences, FiniteSets

CONSTANTS
    Modules,    \* modules of the application
    Names,      \* public variable names and agent names
    Agents,     \* agent objects
    Kinds,      \* what a registration may bring: codecs, reader, writer
    Processes,  \* workers
    Nothing,    \* no agent
    Layouts,    \* programs: what the modules hold, import and register
    MaxRequests \* bound: references bound to requests in one behaviour

Call == [agent : Agents, name : Names, given : SUBSET Kinds]

ASSUME NothingAssumption == Nothing \notin Agents

(* A program.  imports[m] are all the modules that importing m loads first; *)
(* own_name is agent.name.                                                  *)
Layout == [variable : [Modules -> [Names -> Agents \union {Nothing}]],
           imports  : [Modules -> SUBSET Modules],
           calls    : [Modules -> Seq(Call)],
           own_name : [Agents -> Names]]

ASSUME LayoutsAssumption == Layouts \subseteq Layout

(* A module that m imports brings what it imports itself.                   *)
ImportsAll(l) == \A m \in Modules : \A k \in l.imports[m] : l.imports[k] \subseteq {m} \union l.imports[m]

CallsFor(l, m, a) == {i \in DOMAIN l.calls[m] : l.calls[m][i].agent = a}

(* An agent is registered at one place, by a module that every module which *)
(* holds it in a variable is or imports.                                    *)
RegisteredWhereHeld(l) ==
    \A m \in Modules, n \in Names : l.variable[m][n] # Nothing =>
        \A k \in Modules : CallsFor(l, k, l.variable[m][n]) # {} => k \in {m} \union l.imports[m]

RegisteredAtOnePlace(l) ==
    \A a \in Agents : \A k, m \in Modules :
        CallsFor(l, k, a) # {} /\ CallsFor(l, m, a) # {} => k = m

(* A name that an agent is registered under is not a variable of that       *)
(* module which holds another agent.                                        *)
NamesAligned(l) ==
    \A m \in Modules : \A i \in DOMAIN l.calls[m] :
        l.variable[m][l.calls[m][i].name] \in {l.calls[m][i].agent, Nothing}

VARIABLES
    layout,     \* the program, the same for every process
    loaded,     \* per process: modules it has imported
    table,      \* per process: _agents, Nothing where there is no key
    hooks,      \* per process and agent: its _agent_codecs, readers and writers
    requests,   \* requests built so far: [ref, agent]
    found       \* history: every lookup's answer, [ref, agent, hooks]

vars == <<layout, loaded, table, hooks, requests, found>>

Refs == Modules \X Names

NoKeys  == [r \in Refs |-> Nothing]
NoHooks == [a \in Agents |-> {}]

Init ==
    /\ layout \in Layouts
    /\ loaded = [p \in Processes |-> {}]
    /\ table = [p \in Processes |-> NoKeys]
    /\ hooks = [p \in Processes |-> NoHooks]
    /\ requests = {}
    /\ found = {}

----------------------------------------------------------------------------
(* Importing a module, and with it the modules it imports.                  *)

(* Fault: what m imports is loaded, m itself is not.                        *)
ParentsOnly(p, m) == layout.imports[m] \ loaded[p]

ToLoad(p, m) == ({m} \union layout.imports[m]) \ loaded[p]

LastOf(calls, hits) == calls[CHOOSE i \in hits : \A j \in hits : j <= i]

(* _agents after the calls of these modules: the last one under a name wins. *)
Registered(keys, ms) ==
    [r \in Refs |->
        LET calls == layout.calls[r[1]]
            hits == {i \in DOMAIN calls : calls[i].name = r[2]}
        IN  IF r[1] \in ms /\ hits # {} THEN LastOf(calls, hits).agent ELSE keys[r]]

(* A call sets the hooks it is given and pops those it is not.              *)
Hooked(known, ms) ==
    [a \in Agents |->
        IF \E m \in ms : CallsFor(layout, m, a) # {}
        THEN LET m == CHOOSE m \in ms : CallsFor(layout, m, a) # {}
             IN  LastOf(layout.calls[m], CallsFor(layout, m, a)).given
        ELSE known[a]]

(* The process once m is imported, with a key set beside.                   *)
Loading(p, m, keys) ==
    /\ loaded' = [loaded EXCEPT ![p] = @ \union ToLoad(p, m)]
    /\ table' = [table EXCEPT ![p] = keys]
    /\ hooks' = [hooks EXCEPT ![p] = Hooked(@, ToLoad(p, m))]

Import(p, m) ==
    /\ m \notin loaded[p]
    /\ Loading(p, m, Registered(table[p], ToLoad(p, m)))
    /\ UNCHANGED <<layout, requests, found>>

(* A worker dies; its successor starts with nothing imported.               *)
Restart(p) ==
    /\ loaded[p] # {}
    /\ loaded' = [loaded EXCEPT ![p] = {}]
    /\ table' = [table EXCEPT ![p] = NoKeys]
    /\ hooks' = [hooks EXCEPT ![p] = NoHooks]
    /\ UNCHANGED <<layout, requests, found>>

----------------------------------------------------------------------------
(* References.                                                              *)

Holding(m, a) == {n \in Names : layout.variable[m][n] = a}

(* agent.name if it is such a variable, else the first one in order, which  *)
(* is the same everywhere.                                                  *)
VariableOf(m, a) ==
    IF layout.own_name[a] \in Holding(m, a)
    THEN layout.own_name[a] ELSE CHOOSE n \in Holding(m, a) : TRUE

(* A request of a class of module m, whose agent is a, is built.            *)
BindRequest(p, m, a) ==
    LET ref == <<m, VariableOf(m, a)>>
    IN  /\ m \in loaded[p]
        /\ Holding(m, a) # {}
        /\ Cardinality(requests) < MaxRequests
        /\ table' = [table EXCEPT ![p][ref] = a]
        /\ requests' = requests \union {[ref |-> ref, agent |-> a]}
        /\ UNCHANGED <<layout, loaded, hooks, found>>

(* load_request in a subagent's worker: the class's module is imported and  *)
(* the validator binds the reference anew.                                  *)
LoadRequest(p, r) ==
    /\ Loading(p, r.ref[1],
               [Registered(table[p], ToLoad(p, r.ref[1])) EXCEPT ![r.ref] = r.agent])
    /\ UNCHANGED <<layout, requests, found>>

(* Fault: hooks are kept by the reference an agent is registered under.     *)
HooksByReference(known, ref, a) ==
    IF \E i \in CallsFor(layout, ref[1], a) : layout.calls[ref[1]][i].name = ref[2]
    THEN known[a] ELSE {}

(* Codecs, reader and writer are found by the agent's identity.             *)
HooksOf(known, ref, a) == known[a]

Answers(ref, a, known) ==
    found' = found \union {[ref |-> ref, agent |-> a,
                            hooks |-> IF a = Nothing THEN {} ELSE HooksOf(known, ref, a)]}

(* registered_agent with a key it knows.                                    *)
LookupKnown(p, ref) ==
    /\ table[p][ref] # Nothing
    /\ Answers(ref, table[p][ref], hooks[p])
    /\ UNCHANGED <<layout, loaded, table, hooks, requests>>

(* Fault: an agent is sought by the name it is registered under.            *)
RegisteredValue(ref) == Registered(NoKeys, {ref[1]})[ref]

(* getattr on the imported module.                                          *)
VariableValue(ref) == layout.variable[ref[1]][ref[2]]

(* With one it does not know: the module is imported and its variable read. *)
(* If that holds no agent, the match by suffix finds nothing either, since  *)
(* no key ends in ":module:name".                                           *)
LookupUnknown(p, ref) ==
    LET value == VariableValue(ref)
        keys == Registered(table[p], ToLoad(p, ref[1]))
    IN  /\ table[p][ref] = Nothing
        /\ Loading(p, ref[1], IF value = Nothing THEN keys ELSE [keys EXCEPT ![ref] = value])
        /\ Answers(ref, value, Hooked(hooks[p], ToLoad(p, ref[1])))
        /\ UNCHANGED <<layout, requests>>

Matches(p, n) == {r \in Refs : r[2] = n /\ table[p][r] # Nothing}

(* Fault: of several matches the first in order is taken.                   *)
FirstMatch(p, n) ==
    IF Matches(p, n) = {} THEN Nothing ELSE table[p][CHOOSE r \in Matches(p, n) : TRUE]

(* registered_agent with a name alone, which no key equals: the one key     *)
(* that ends in it.  Nothing stands for both errors, unknown and ambiguous; *)
(* one agent under two keys is ambiguous too.                               *)
ShortName(p, n) ==
    IF Cardinality(Matches(p, n)) = 1
    THEN table[p][CHOOSE r \in Matches(p, n) : TRUE] ELSE Nothing

----------------------------------------------------------------------------
ProcessStep(p) ==
    \/ \E m \in Modules : Import(p, m)
    \/ Restart(p)
    \/ \E m \in Modules, a \in Agents : BindRequest(p, m, a)
    \/ \E r \in requests : LoadRequest(p, r)
    \/ \E r \in requests : LookupKnown(p, r.ref) \/ LookupUnknown(p, r.ref)

Next == \E p \in Processes : ProcessStep(p)

Spec == Init /\ [][Next]_vars

----------------------------------------------------------------------------
(* Properties.                                                              *)

(* Every variable has its type, and a process knows only references into    *)
(* modules it has imported.                                                 *)
TypeOK ==
    /\ loaded \in [Processes -> SUBSET Modules]
    /\ table \in [Processes -> [Refs -> Agents \union {Nothing}]]
    /\ hooks \in [Processes -> [Agents -> SUBSET Kinds]]
    /\ requests \subseteq [ref : Refs, agent : Agents]
    /\ found \subseteq [ref : Refs, agent : Agents \union {Nothing}, hooks : SUBSET Kinds]
    /\ \A p \in Processes, r \in Refs : table[p][r] # Nothing => r[1] \in loaded[p]

(* A request's reference means its agent in every process, whatever that    *)
(* process has imported, bound or looked up before: the reference is "so    *)
(* workers can restore the registered agent" (request.py 43-44).            *)
RestoresAgent ==
    \A f \in found, r \in requests : f.ref = r.ref => f.agent = r.agent

(* Two workers that look an agent up find the same codecs and hooks for it, *)
(* under whatever reference: what one encodes the other can decode, and a   *)
(* wait polls with the same reader everywhere (registry.py 127-138).        *)
HooksAgree ==
    \A f, g \in found : f.agent = g.agent => f.hooks = g.hooks

(* A name alone that means an agent in a process never comes to mean        *)
(* another one there: it stays, or is refused as ambiguous, whatever is     *)
(* imported or bound later (registry.py 119-124).                           *)
ShortNameSteady ==
    [][\A p \in Processes, n \in Names :
          ShortName(p, n) # Nothing /\ loaded[p] \subseteq loaded'[p] =>
              ShortName(p, n)' \in {ShortName(p, n), Nothing}]_vars

================================================================================
