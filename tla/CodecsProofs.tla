------------------------------ MODULE CodecsProofs ------------------------------
(****************************************************************************)
(* StoredSealed, ModelSeesPlain and OwnAccepted of Codecs for every number  *)
(* of agents with whatever codecs, of runs on the stack, of turns and of    *)
(* tool calls.                                                              *)
(*                                                                          *)
(* The argument: what a run stores is a plain value with one encoding of    *)
(* the run's own agent on it, and what leaves a run, or reaches a model, is *)
(* decoded by that agent first.  So no value ever carries two encodings,    *)
(* nor one of another agent, and the agent's decoder accepts it, except for *)
(* what was never encoded as the kind it is decoded as: plain messages that *)
(* a request brought, and tool action results under a codec by kind.        *)
(****************************************************************************)
EXTENDS Codecs, SequenceTheorems, TLAPS

----------------------------------------------------------------------------
(* The codecs.                                                              *)

(* A codec puts one encoding on a value, or none.                           *)
LEMMA SealIsShort ==
    ASSUME NEW a \in Agents, NEW kind
    PROVE  \/ codec[a] = "none" /\ Seal(a, kind) = <<>>
           \/ codec[a] # "none" /\ \E mark : Seal(a, kind) = <<mark>>
<1>1. CASE codec[a] = "none"
  BY <1>1 DEF Seal
<1>2. CASE codec[a] = "blind"
  BY <1>2 DEF Seal
<1>3. CASE codec[a] \notin {"none", "blind"}
  BY <1>3 DEF Seal
<1> QED BY <1>1, <1>2, <1>3

(* What an agent encodes as a kind of payload carries that encoding alone,  *)
(* and the agent decodes it as that kind, to the plain value.               *)
LEMMA RoundTrip ==
    ASSUME NEW a \in Agents, NEW kind
    PROVE  /\ Encode(a, kind, Plain) = Seal(a, kind)
           /\ Decodes(a, kind, Seal(a, kind))
           /\ Decode(a, kind, Seal(a, kind)) = Plain
<1>1. CASE codec[a] = "none" /\ Seal(a, kind) = <<>>
  BY <1>1 DEF Encode, Plain, Decodes, Decode
<1>2. ASSUME codec[a] # "none", NEW mark, Seal(a, kind) = <<mark>>
      PROVE  /\ Encode(a, kind, Plain) = Seal(a, kind)
             /\ Decodes(a, kind, Seal(a, kind))
             /\ Decode(a, kind, Seal(a, kind)) = Plain
  <2>1. SealedBy(a, kind, Seal(a, kind))
    BY <1>2 DEF SealedBy, Plain
  <2>2. SubSeq(<<mark>>, 1, 0) = <<>>
    BY SubSeqEmpty
  <2>3. Len(<<mark>>) - 1 = 0 /\ <<>> \o <<mark>> = <<mark>>
    OBVIOUS
  <2> QED BY <1>2, <2>1, <2>2, <2>3 DEF Encode, Plain, Decodes, Decode
<1> QED BY <1>1, <1>2, SealIsShort

----------------------------------------------------------------------------
(* The inductive invariant.                                                 *)

Stages == {"node", "tools", "ended"}

(* What a run of agent a keeps between its actions.                         *)
Chunks(a) == [layers : {Seal(a, "messages")}, holds : SUBSET {Plain}]

Results(a) ==
    [kind : {"return"}, value : {Seal(a, "tool_output")}]
        \union [kind : {"retry_prompt"}, value : {Plain}]

(* The history a request brought is one chunk at most, sealed or plain.     *)
Brought(a) == {<<>>} \union {<<c>> : c \in [layers : {Seal(a, "messages"), Plain}, holds : {{Plain}}]}

RunsOf(a) ==
    [agent : {a}, wait : BOOLEAN, stage : {"node", "tools"}, seed : Brought(a),
     history : Seq(Chunks(a)), results : Seq(Results(a)), output : {Plain}, turns : Nat]
    \union
    [agent : {a}, wait : BOOLEAN, stage : {"ended"}, seed : Brought(a),
     history : Seq(Chunks(a)), results : Seq(Results(a)),
     output : {Seal(a, "agent_output")}, turns : Nat]

SealedRuns == UNION {RunsOf(a) : a \in Agents}

IInv ==
    /\ runs \in Seq(SealedRuns)
    /\ runs # <<>>
    /\ mail \subseteq {Plain}
    /\ seen \subseteq {Plain}
    /\ OwnAccepted

(* The results of a run decode to plain values.                             *)
LEMMA ResultsPlain ==
    ASSUME NEW a \in Agents, NEW results \in Seq(Results(a))
    PROVE  DecodedResults(a, results) \subseteq {Plain}
<1>1. ASSUME NEW i \in DOMAIN results
      PROVE  (IF results[i].kind = "return" THEN Decode(a, "tool_output", results[i].value)
              ELSE results[i].value) = Plain
  <2>1. results[i] \in Results(a)
    BY ElementOfSeq
  <2>2. \/ results[i].kind = "return" /\ results[i].value = Seal(a, "tool_output")
        \/ results[i].kind = "retry_prompt" /\ results[i].value = Plain
    BY <2>1 DEF Results
  <2> QED BY <2>2, RoundTrip
<1> QED BY <1>1 DEF DecodedResults

(* A model is shown plain values.                                           *)
LEMMA ShownPlain ==
    ASSUME NEW a \in Agents, NEW run \in RunsOf(a)
    PROVE  Shown(run) \subseteq {Plain}
<1>1. /\ run.agent = a /\ run.seed \in Brought(a)
      /\ run.history \in Seq(Chunks(a)) /\ run.results \in Seq(Results(a))
  BY DEF RunsOf
<1>2. ASSUME NEW i \in DOMAIN run.history PROVE run.history[i].holds \subseteq {Plain}
  <2>1. run.history[i] \in Chunks(a)
    BY <1>1, ElementOfSeq
  <2> QED BY <2>1 DEF Chunks
<1>3. \A i \in DOMAIN run.seed : run.seed[i].holds = {Plain}
  BY <1>1 DEF Brought
<1>4. Held(run.seed) \subseteq {Plain} /\ Held(run.history) \subseteq {Plain}
  BY <1>2, <1>3 DEF Held
<1> QED BY <1>1, <1>4, ResultsPlain DEF Shown

(* A chunk that an agent stores.                                            *)
LEMMA ChunkSealed ==
    ASSUME NEW a \in Agents, NEW values \in SUBSET {Plain}
    PROVE  Chunk(a, values) \in Chunks(a)
  BY RoundTrip DEF Chunk, Chunks

(* What an agent is refused of its checkpoint was never encoded as such.    *)
LEMMA RefusalsForeign ==
    ASSUME NEW a \in Agents, NEW run \in RunsOf(a)
    PROVE  /\ Refusal(run) \in {"nothing", "seed", "tool_action_results"}
           /\ Refusal(run) = "seed" => run.seed[1].layers = Plain
           /\ Refusal(run) = "tool_action_results" => codec[a] = "by_kind"
<1>1. /\ run.agent = a /\ run.seed \in Brought(a)
      /\ run.history \in Seq(Chunks(a)) /\ run.results \in Seq(Results(a))
  BY DEF RunsOf
<1>2. ChunksLoad(a, run.history)
  <2>1. ASSUME NEW i \in DOMAIN run.history
        PROVE  Decodes(a, "messages", run.history[i].layers)
    <3>1. run.history[i] \in Chunks(a)
      BY <1>1, ElementOfSeq
    <3>2. run.history[i].layers = Seal(a, "messages")
      BY <3>1 DEF Chunks
    <3> QED BY <3>2, RoundTrip
  <2> QED BY <2>1 DEF ChunksLoad, ChunkKind
<1>3. ASSUME ~ChunksLoad(a, run.seed) PROVE run.seed[1].layers = Plain
  <2>1. PICK i \in DOMAIN run.seed : ~Decodes(a, "messages", run.seed[i].layers)
    BY <1>3 DEF ChunksLoad, ChunkKind
  <2>2. i = 1 /\ run.seed[i].layers \in {Seal(a, "messages"), Plain}
    BY <1>1 DEF Brought
  <2> QED BY <2>1, <2>2, RoundTrip
<1>4. ASSUME codec[a] = "knowing" PROVE ResultsDecode(a, run.results)
  <2>1. ASSUME NEW i \in DOMAIN run.results, run.results[i].kind = "return"
        PROVE  SealedBy(a, "tool_output", run.results[i].value)
    <3>1. run.results[i] \in Results(a)
      BY <1>1, ElementOfSeq
    <3>2. run.results[i].value = Seal(a, "tool_output")
      BY <2>1, <3>1 DEF Results
    <3>3. Decodes(a, "tool_output", run.results[i].value)
      BY <3>2, RoundTrip
    <3> QED BY <1>4, <3>3 DEF Decodes
  <2> QED BY <1>4, <2>1 DEF ResultsDecode
<1>5. ~ResultsDecode(a, run.results) => codec[a] = "by_kind"
  BY <1>4 DEF ResultsDecode
<1> QED BY <1>1, <1>2, <1>3, <1>5 DEF Refusal

(* A fresh run, whatever history the request brought.                       *)
LEMMA NewRunSealed ==
    ASSUME NEW a \in Agents, NEW wait \in BOOLEAN, NEW run \in NewRun(a, wait)
    PROVE  run \in RunsOf(a)
<1>1. Chunk(a, {Plain}) = [layers |-> Seal(a, "messages"), holds |-> {Plain}]
  BY RoundTrip DEF Chunk
<1>2. Seeds(a) \subseteq Brought(a)
  BY <1>1 DEF Seeds, Brought
<1>3. PICK seed \in Brought(a) :
          run = [agent |-> a, wait |-> wait, stage |-> "node", seed |-> seed, history |-> <<>>,
                 results |-> <<>>, output |-> Plain, turns |-> 0]
  BY <1>2 DEF NewRun
<1>4. <<>> \in Seq(Chunks(a)) /\ <<>> \in Seq(Results(a))
  OBVIOUS
<1>5. run \in [agent : {a}, wait : BOOLEAN, stage : {"node", "tools"}, seed : Brought(a),
               history : Seq(Chunks(a)), results : Seq(Results(a)), output : {Plain}, turns : Nat]
  BY <1>3, <1>4
<1> QED BY <1>5 DEF RunsOf

(* The run on top, and those below it.                                      *)
LEMMA StackParts ==
    ASSUME runs \in Seq(SealedRuns), runs # <<>>
    PROVE  /\ Len(runs) \in Nat \ {0}
           /\ \E a \in Agents : Current \in RunsOf(a)
           /\ Current.agent \in Agents /\ Current \in RunsOf(Current.agent)
           /\ Rest \in Seq(SealedRuns)
<1>1. Len(runs) \in Nat \ {0} /\ Len(runs) \in 1..Len(runs)
  BY EmptySeq
<1>2. Current \in SealedRuns
  BY <1>1, ElementOfSeq DEF Current
<1>3. PICK a \in Agents : Current \in RunsOf(a)
  BY <1>2 DEF SealedRuns
<1>4. Current.agent = a
  BY <1>3 DEF RunsOf
<1>5. Rest \in Seq(SealedRuns)
  <2>1. \A i \in 1..(Len(runs) - 1) : runs[i] \in SealedRuns
    BY <1>1, ElementOfSeq
  <2> QED BY <1>1, <2>1, SubSeqProperties DEF Rest
<1> QED BY <1>1, <1>3, <1>4, <1>5

(* A sealed run on top of sealed runs.                                      *)
LEMMA StackGrows ==
    ASSUME NEW below \in Seq(SealedRuns), NEW a \in Agents, NEW run \in RunsOf(a)
    PROVE  Append(below, run) \in Seq(SealedRuns) /\ Append(below, run) # <<>>
<1>1. run \in SealedRuns
  BY DEF SealedRuns
<1> QED BY <1>1, AppendProperties

(* No agent changes its codec, so what is sealed stays sealed.              *)
LEMMA SealStands ==
    ASSUME codec' = codec PROVE SealedRuns' = SealedRuns
<1>1. \A a, kind : Seal(a, kind)' = Seal(a, kind)
  BY DEF Seal
<1>2. \A a : RunsOf(a)' = RunsOf(a)
  BY <1>1 DEF RunsOf, Brought, Chunks, Results
<1> QED BY <1>2 DEF SealedRuns

(* A result of its own agent, or a retry prompt, joins a run's results.     *)
LEMMA ResultSealed ==
    ASSUME NEW a \in Agents, NEW run \in RunsOf(a)
    PROVE  /\ Result(run, "return", Encode(a, "tool_output", Plain)) \in RunsOf(a)
           /\ Result(run, "retry_prompt", Plain) \in RunsOf(a)
<1>1. ASSUME NEW kind, NEW value, [kind |-> kind, value |-> value] \in Results(a)
      PROVE  Result(run, kind, value) \in RunsOf(a)
  <2>1. run.results \in Seq(Results(a))
    BY DEF RunsOf
  <2>2. Append(run.results, [kind |-> kind, value |-> value]) \in Seq(Results(a))
    BY <1>1, <2>1, AppendProperties
  <2> QED BY <2>2 DEF Result, RunsOf
<1>2. /\ [kind |-> "return", value |-> Encode(a, "tool_output", Plain)] \in Results(a)
      /\ [kind |-> "retry_prompt", value |-> Plain] \in Results(a)
  BY RoundTrip DEF Results
<1> QED BY <1>1, <1>2

(* The first run, of any agent.                                             *)
LEMMA InvInit == Init => IInv
<1> SUFFICES ASSUME Init PROVE IInv OBVIOUS
<1> PICK a \in Agents : \E run \in NewRun(a, TRUE) : runs = <<run>>
  BY DEF Init
<1>1. PICK run \in NewRun(a, TRUE) : runs = <<run>>
  OBVIOUS
<1>2. run \in SealedRuns
  BY <1>1, NewRunSealed DEF SealedRuns
<1> QED BY <1>1, <1>2 DEF Init, IInv, OwnAccepted

(* The node of a run whose checkpoint can be loaded.                        *)
LEMMA NodesKeep ==
    ASSUME IInv, NodeRefused \/ NodeAsks \/ NodeFinishes
    PROVE  IInv'
<1> DEFINE run == Current
           a == Current.agent
<1>1. /\ a \in Agents /\ run \in RunsOf(a) /\ Rest \in Seq(SealedRuns)
  BY StackParts DEF IInv
<1>2. codec' = codec /\ mail' = mail
  BY DEF NodeRefused, NodeAsks, NodeFinishes
<1>3. SealedRuns' = SealedRuns
  BY <1>2, SealStands
<1>4. Shown(run) \subseteq {Plain} /\ DecodedResults(a, run.results) \subseteq {Plain}
  <2>1. run.results \in Seq(Results(a))
    BY <1>1 DEF RunsOf
  <2> QED BY <1>1, <2>1, ShownPlain, ResultsPlain
<1>5. CASE NodeRefused
  <2>1. runs' = runs /\ Current' = Current /\ seen' = seen /\ refused' = Refusal(Current)
    BY <1>5 DEF NodeRefused, Current
  <2>2. OwnAccepted'
    BY <1>1, <1>2, <2>1, RefusalsForeign DEF OwnAccepted
  <2> QED BY <1>2, <1>3, <2>1, <2>2 DEF IInv
<1>6. CASE NodeAsks
  <2> DEFINE chunk == Chunk(a, DecodedResults(a, run.results))
             next == [run EXCEPT !.stage = "tools", !.history = Append(@, chunk),
                                 !.results = <<>>, !.turns = @ + 1]
  <2>1. run.stage = "node" /\ runs' = Append(Rest, next) /\ refused' = "nothing"
    BY <1>6 DEF NodeAsks, Going, Becomes
  <2>2. seen' \subseteq {Plain}
    BY <1>4, <1>6 DEF NodeAsks, IInv
  <2>3. next \in RunsOf(a)
    <3>1. chunk \in Chunks(a)
      BY <1>1, <1>4, ChunkSealed
    <3>2. run.history \in Seq(Chunks(a)) /\ run.turns \in Nat
      BY <1>1 DEF RunsOf
    <3> HIDE DEF chunk
    <3>3. Append(run.history, chunk) \in Seq(Chunks(a)) /\ <<>> \in Seq(Results(a))
      BY <3>1, <3>2, AppendProperties
    <3> DEFINE Asking == [agent : {a}, wait : BOOLEAN, stage : {"node", "tools"},
                          seed : Brought(a), history : Seq(Chunks(a)),
                          results : Seq(Results(a)), output : {Plain}, turns : Nat]
    <3>4. run \in Asking
      BY <1>1, <2>1 DEF RunsOf
    <3> HIDE DEF run, a
    <3>5. PICK history \in Seq(Chunks(a)) : history = Append(run.history, chunk)
      BY <3>3
    <3>6. PICK none \in Seq(Results(a)) : none = <<>>
      BY <3>3, Zenon
    <3>7. PICK turns \in Nat : turns = run.turns + 1
      BY <3>2
    <3>8. [run EXCEPT !.stage = "tools", !.history = history, !.results = none, !.turns = turns]
              \in Asking
      BY <3>4
    <3>9. next \in Asking
      BY <3>5, <3>6, <3>7, <3>8, Zenon
    <3> QED BY <3>9 DEF RunsOf
  <2> HIDE DEF next
  <2> QED BY <1>1, <1>2, <1>3, <2>1, <2>2, <2>3, StackGrows DEF IInv, OwnAccepted
<1>7. CASE NodeFinishes
  <2>1. PICK v \in {Plain} \union Shown(run) :
            Becomes([run EXCEPT !.stage = "ended", !.output = Encode(a, "agent_output", v)])
    BY <1>7 DEF NodeFinishes
  <2> DEFINE next == [run EXCEPT !.stage = "ended", !.output = Encode(a, "agent_output", v)]
  <2>2. next \in RunsOf(a)
    <3>1. Encode(a, "agent_output", v) = Seal(a, "agent_output")
      BY <1>1, <1>4, RoundTrip
    <3> QED BY <1>1, <3>1 DEF RunsOf
  <2>3. runs' = Append(Rest, next) /\ refused' = "nothing" /\ seen' \subseteq {Plain}
    BY <1>4, <1>7, <2>1 DEF NodeFinishes, Going, Becomes, IInv
  <2> HIDE DEF next
  <2> QED BY <1>1, <1>2, <1>3, <2>2, <2>3, StackGrows DEF IInv, OwnAccepted
<1> QED BY <1>5, <1>6, <1>7

(* The calls of a turn.                                                     *)
LEMMA ToolsKeep ==
    ASSUME IInv, ToolReturns \/ ToolRetries \/ Delegates \/ ReadsMessages \/ TurnEnds
    PROVE  IInv'
<1> DEFINE a == Current.agent
<1>1. /\ a \in Agents /\ Current \in RunsOf(a) /\ Rest \in Seq(SealedRuns)
      /\ Current.stage = "tools"
  BY StackParts DEF IInv, ToolReturns, ToolRetries, Delegates, ReadsMessages, TurnEnds, Going
<1>2. UNCHANGED <<codec, mail, seen>> /\ refused' = "nothing"
  BY DEF ToolReturns, ToolRetries, Delegates, ReadsMessages, TurnEnds, Going
<1>3. SealedRuns' = SealedRuns
  BY <1>2, SealStands
<1>4. ASSUME NEW run \in RunsOf(a), Becomes(run) PROVE IInv'
  BY <1>1, <1>2, <1>3, <1>4, StackGrows DEF Becomes, IInv, OwnAccepted
<1>5. CASE ToolReturns
  BY <1>1, <1>4, <1>5, ResultSealed DEF ToolReturns
<1>6. CASE ToolRetries
  BY <1>1, <1>4, <1>6, ResultSealed DEF ToolRetries
<1>7. CASE Delegates
  <2>1. PICK b \in Agents, wait \in BOOLEAN : \E run \in NewRun(b, wait) : runs' = Append(runs, run)
    BY <1>7 DEF Delegates
  <2>2. PICK run \in NewRun(b, wait) : runs' = Append(runs, run)
    BY <2>1
  <2>3. run \in RunsOf(b)
    BY <2>1, <2>2, NewRunSealed
  <2> QED BY <1>2, <1>3, <2>2, <2>3, StackGrows DEF IInv, OwnAccepted
<1>8. CASE ReadsMessages
  <2>1. Becomes(Result(Current, "return", Encode(a, "tool_output", Plain)))
    BY <1>8 DEF ReadsMessages, IInv
  <2> QED BY <1>1, <1>4, <2>1, ResultSealed
<1>9. CASE TurnEnds
  <2>1. [Current EXCEPT !.stage = "node"] \in RunsOf(a)
    BY <1>1 DEF RunsOf
  <2> QED BY <1>4, <1>9, <2>1 DEF TurnEnds
<1> QED BY <1>5, <1>6, <1>7, <1>8, <1>9

(* A subagent's output is decoded as its own before it goes anywhere.       *)
LEMMA EndsKeep ==
    ASSUME IInv, DelegateReturns \/ DetachedReports
    PROVE  IInv'
<1> DEFINE a == Current.agent
           parent == runs[Len(runs) - 1]
<1>1. /\ a \in Agents /\ Current \in RunsOf(a) /\ Rest \in Seq(SealedRuns)
      /\ Len(runs) \in Nat
  BY StackParts DEF IInv
<1>2. Len(runs) > 1 /\ Current.stage = "ended" /\ codec' = codec /\ seen' = seen
  BY DEF DelegateReturns, DetachedReports, SubagentEnds, Going
<1>3. SealedRuns' = SealedRuns
  BY <1>2, SealStands
<1>4. Current.output = Seal(a, "agent_output")
  BY <1>1, <1>2 DEF RunsOf
<1>5. OutputOf(Current) = Plain /\ refused' = "nothing"
  BY <1>1, <1>4, RoundTrip DEF DelegateReturns, DetachedReports, SubagentEnds, OutputOf
<1>6. CASE DelegateReturns
  <2>1. runs' = Append(SubSeq(runs, 1, Len(runs) - 2),
                       Result(parent, "return", Translated(parent, Current))) /\ mail' = mail
    BY <1>6 DEF DelegateReturns
  <2>2. PICK b \in Agents : parent \in RunsOf(b)
    <3>1. parent \in SealedRuns
      BY <1>1, <1>2, ElementOfSeq DEF IInv
    <3> QED BY <3>1 DEF SealedRuns
  <2>3. SubSeq(runs, 1, Len(runs) - 2) \in Seq(SealedRuns)
    <3>1. \A i \in 1..(Len(runs) - 2) : runs[i] \in SealedRuns
      BY <1>1, ElementOfSeq DEF IInv
    <3> QED BY <1>1, <3>1, SubSeqProperties
  <2>4. Result(parent, "return", Translated(parent, Current)) \in RunsOf(b)
    <3>1. parent.agent = b
      BY <2>2 DEF RunsOf
    <3> QED BY <1>5, <2>2, <3>1, ResultSealed DEF Translated
  <2> QED BY <1>2, <1>3, <1>5, <2>1, <2>3, <2>4, StackGrows DEF IInv, OwnAccepted
<1>7. CASE DetachedReports
  <2>1. runs' = Rest /\ mail' = mail \union {Plain}
    BY <1>5, <1>7 DEF DetachedReports
  <2>2. Rest # <<>>
    <3>1. \A i \in 1..(Len(runs) - 1) : runs[i] \in SealedRuns
      BY <1>1, ElementOfSeq DEF IInv
    <3>2. Len(Rest) = Len(runs) - 1
      BY <1>1, <1>2, <3>1, SubSeqProperties DEF Rest
    <3> QED BY <1>1, <1>2, <3>2
  <2> QED BY <1>1, <1>2, <1>3, <1>5, <2>1, <2>2 DEF IInv, OwnAccepted
<1> QED BY <1>6, <1>7

(* The inductive invariant holds in every reachable state.                  *)
THEOREM Invariance == Spec => []IInv
<1>1. IInv /\ [Next]_vars => IInv'
  <2> SUFFICES ASSUME IInv, [Next]_vars PROVE IInv' OBVIOUS
  <2>1. CASE UNCHANGED vars
    <3>1. SealedRuns' = SealedRuns /\ UNCHANGED vars
      BY <2>1, SealStands DEF vars
    <3> QED BY <3>1 DEF vars, IInv, OwnAccepted, Current
  <2> QED BY <2>1, NodesKeep, ToolsKeep, EndsKeep DEF Next, Terminated
<1> QED BY <1>1, InvInit, PTL DEF Spec

(* What rests between actions carries one encoding, of the agent that will  *)
(* load it, for any agents and codecs (WaymarkAgent's encoders in           *)
(* serialization.py, delegate_tool_result, read_agent_messages).            *)
THEOREM RestsSealed == Spec => []StoredSealed
<1>1. IInv => StoredSealed
  <2> SUFFICES ASSUME IInv, NEW l \in DOMAIN runs
               PROVE  LET run == runs[l]
                      IN  /\ \A i \in DOMAIN run.history :
                                run.history[i].layers = Seal(run.agent, "messages")
                          /\ \A i \in DOMAIN run.results : run.results[i].kind = "return" =>
                                run.results[i].value = Seal(run.agent, "tool_output")
                          /\ run.stage = "ended" => run.output = Seal(run.agent, "agent_output")
    BY DEF StoredSealed
  <2> DEFINE run == runs[l]
  <2>1. PICK a \in Agents : run \in RunsOf(a)
    <3>1. run \in SealedRuns
      BY ElementOfSeq DEF IInv
    <3> QED BY <3>1 DEF SealedRuns
  <2>2. /\ run.agent = a /\ run.history \in Seq(Chunks(a)) /\ run.results \in Seq(Results(a))
        /\ run.stage = "ended" => run.output = Seal(a, "agent_output")
    BY <2>1 DEF RunsOf
  <2> HIDE DEF run
  <2>3. ASSUME NEW i \in DOMAIN run.history
        PROVE  run.history[i].layers = Seal(a, "messages")
    <3>1. run.history[i] \in Chunks(a)
      BY <2>2, ElementOfSeq
    <3> QED BY <3>1 DEF Chunks
  <2>4. ASSUME NEW i \in DOMAIN run.results, run.results[i].kind = "return"
        PROVE  run.results[i].value = Seal(a, "tool_output")
    <3>1. run.results[i] \in Results(a)
      BY <2>2, ElementOfSeq
    <3> QED BY <2>4, <3>1 DEF Results
  <2> QED BY <2>2, <2>3, <2>4 DEF run
<1> QED BY <1>1, Invariance, PTL

(* Whatever agents a value came through, a model is shown it plain          *)
(* (run_agent_node).                                                        *)
THEOREM ModelsSeePlain == Spec => []ModelSeesPlain
<1>1. IInv => ModelSeesPlain
  BY DEF IInv, ModelSeesPlain
<1> QED BY <1>1, Invariance, PTL

(* Decoders take back what actions stored for them, for any agents and      *)
(* codecs; what they may refuse is a plain history that a request brought,  *)
(* or, by kind, tool action results (deserialize_payload, run_agent_node).  *)
THEOREM OwnIsAccepted == Spec => []OwnAccepted
<1>1. IInv => OwnAccepted
  BY DEF IInv
<1> QED BY <1>1, Invariance, PTL

================================================================================
