--------------------------------- MODULE Codecs ---------------------------------
(****************************************************************************)
(* Payload codecs: what crosses an action boundary is encoded by the agent  *)
(* of the run it belongs to, and decoded where it is used (serialization.py *)
(* 64-150, 269-324).  Values move between agents: a nested subagent's       *)
(* output becomes a tool result (actions.py 404-423), a detached one's      *)
(* becomes a message that a tool call reads (485-512, 542-579).             *)
(*                                                                          *)
(* A value is the sequence of encodings that are on it; the plain value has *)
(* none.  A codec "none" is an agent that registers none.  The others are   *)
(* written as the README shows them: "blind" replaces what it finds in any  *)
(* tree and leaves the rest alone (tests/test_agent.py 125-165), "by_kind"  *)
(* and "knowing" treat each payload.kind on its own (README 666-670), and   *)
(* refuse what they have not encoded as that kind.  Tool action results are *)
(* of a kind that nothing is ever encoded as: a knowing codec looks inside  *)
(* them for the tool output it encoded, a codec by kind does not.           *)
(*                                                                          *)
(* Codecs keep nothing between calls, so runs are taken one after another:  *)
(* a stack of runs, the one on top at work.                                 *)
(****************************************************************************)
EXTENDS Integers, Sequences

CONSTANTS
    Agents,     \* registered agents
    Registered, \* codecs an agent may register
    MaxDepth,   \* bound: runs on the stack
    MaxResults, \* bound: tool calls per turn
    MaxTurns    \* bound: turns per run

ASSUME RegisteredAssumption == Registered \subseteq {"none", "blind", "by_kind", "knowing"}

VARIABLES
    codec,      \* per agent: the codec it registers
    runs,       \* the runs under way, outermost first
    mail,       \* contents of messages that subagents have sent
    seen,       \* history: values a model was shown
    refused     \* history: the payload that a decoder refused, or "nothing"

vars == <<codec, runs, mail, seen, refused>>

Plain == <<>>

----------------------------------------------------------------------------
(* The codecs, and serialize_payload and deserialize_payload over them.     *)

(* What encoding a payload of this kind puts on it.                         *)
Seal(a, kind) ==
    CASE codec[a] = "none"  -> <<>>
      [] codec[a] = "blind" -> <<[by |-> a, kind |-> "any"]>>
      [] OTHER              -> <<[by |-> a, kind |-> kind]>>

Encode(a, kind, v) == v \o Seal(a, kind)

SealedBy(a, kind, v) == v # Plain /\ v[Len(v)] = Seal(a, kind)[1]

Decodes(a, kind, v) == codec[a] \in {"none", "blind"} \/ SealedBy(a, kind, v)

Decode(a, kind, v) ==
    IF codec[a] = "none" \/ ~SealedBy(a, kind, v) THEN v ELSE SubSeq(v, 1, Len(v) - 1)

(* Tool results come back as one payload of their own kind, whose list was  *)
(* never encoded as such: a codec by kind refuses any, a knowing one those  *)
(* that return what it did not encode.                                      *)
ResultsDecode(a, results) ==
    /\ codec[a] = "by_kind" => results = <<>>
    /\ codec[a] = "knowing" =>
          \A i \in DOMAIN results :
              results[i].kind = "return" => SealedBy(a, "tool_output", results[i].value)

(* Fault: results are taken as they are stored.                             *)
StoredResults(a, results) == {results[i].value : i \in DOMAIN results}

DecodedResults(a, results) ==
    {IF results[i].kind = "return" THEN Decode(a, "tool_output", results[i].value)
     ELSE results[i].value : i \in DOMAIN results}

----------------------------------------------------------------------------
(* The checkpoint: chunks of messages and the results for the next node.    *)

Chunk(a, values) == [layers |-> Encode(a, "messages", Plain), holds |-> values]

(* Fault: a chunk is decoded as graph state.                                *)
StateKind == "graph_state"

ChunkKind == "messages"

ChunksLoad(a, chunks) ==
    \A i \in DOMAIN chunks : Decodes(a, ChunkKind, chunks[i].layers)

(* What a decoder refuses first when the node is run: of the messages the   *)
(* request brought, those the run has added, or the results.                *)
Refusal(run) ==
    IF ~ChunksLoad(run.agent, run.seed) THEN "seed"
    ELSE IF ~ChunksLoad(run.agent, run.history) THEN "messages"
    ELSE IF ~ResultsDecode(run.agent, run.results) THEN "tool_action_results"
    ELSE "nothing"

Restores(run) == Refusal(run) = "nothing"

Held(chunks) == UNION {chunks[i].holds : i \in DOMAIN chunks}

(* Every value the model is shown when the node runs.                       *)
Shown(run) ==
    DecodedResults(run.agent, run.results) \union Held(run.seed) \union Held(run.history)

(* The history a request may bring: none, that of an earlier result of the  *)
(* agent, or plain JSON (request.py 24-25).                                 *)
Seeds(a) == {<<>>, <<Chunk(a, {Plain})>>, <<[layers |-> Plain, holds |-> {Plain}]>>}

NewRun(a, wait) ==
    {[agent |-> a, wait |-> wait, stage |-> "node", seed |-> seed, history |-> <<>>,
      results |-> <<>>, output |-> Plain, turns |-> 0] : seed \in Seeds(a)}

Init ==
    /\ codec \in [Agents -> Registered]
    /\ \E a \in Agents : \E run \in NewRun(a, TRUE) : runs = <<run>>
    /\ mail = {}
    /\ seen = {}
    /\ refused = "nothing"

Current == runs[Len(runs)]

Going(stage) == refused = "nothing" /\ Current.stage = stage

Rest == SubSeq(runs, 1, Len(runs) - 1)

Becomes(run) == runs' = Append(Rest, run)

----------------------------------------------------------------------------
(* run_agent_node.                                                          *)

(* The checkpoint is refused; the action raises, and the run fails.         *)
NodeRefused ==
    /\ Going("node")
    /\ ~Restores(Current)
    /\ refused' = Refusal(Current)
    /\ UNCHANGED <<codec, runs, mail, seen>>

(* The model asks for tool calls.  The delta holds what this step added.    *)
NodeAsks ==
    LET run == Current
    IN  /\ Going("node")
        /\ Restores(run)
        /\ run.turns < MaxTurns
        /\ seen' = seen \union Shown(run)
        /\ Becomes([run EXCEPT
               !.stage = "tools",
               !.history = Append(@, Chunk(run.agent, DecodedResults(run.agent, run.results))),
               !.results = <<>>,
               !.turns = @ + 1])
        /\ UNCHANGED <<codec, mail, refused>>

(* The model answers, perhaps with a value it was shown.                    *)
NodeFinishes ==
    LET run == Current
    IN  /\ Going("node")
        /\ Restores(run)
        /\ seen' = seen \union Shown(run)
        /\ \E v \in {Plain} \union Shown(run) :
              Becomes([run EXCEPT !.stage = "ended",
                                  !.output = Encode(run.agent, "agent_output", v)])
        /\ UNCHANGED <<codec, mail, refused>>

----------------------------------------------------------------------------
(* The calls of a turn.                                                     *)

Result(run, kind, value) ==
    [run EXCEPT !.results = Append(@, [kind |-> kind, value |-> value])]

HasRoom == Len(Current.results) < MaxResults

(* A call answered by its own action: a return, the results a sleep and a   *)
(* timeout leave, the handle of a detached start.                           *)
ToolReturns ==
    /\ Going("tools") /\ HasRoom
    /\ Becomes(Result(Current, "return", Encode(Current.agent, "tool_output", Plain)))
    /\ UNCHANGED <<codec, mail, seen, refused>>

(* A retry prompt, whose text is not a payload.                             *)
ToolRetries ==
    /\ Going("tools") /\ HasRoom
    /\ Becomes(Result(Current, "retry_prompt", Plain))
    /\ UNCHANGED <<codec, mail, seen, refused>>

(* A subagent starts: nested, or detached beside the delegating run.        *)
Delegates ==
    /\ Going("tools") /\ HasRoom
    /\ Len(runs) < MaxDepth
    /\ \E a \in Agents, wait \in BOOLEAN : \E run \in NewRun(a, wait) : runs' = Append(runs, run)
    /\ UNCHANGED <<codec, mail, seen, refused>>

(* The subagent's output, decoded with the subagent's codec.                *)
OutputOf(run) == Decode(run.agent, "agent_output", run.output)

(* The error of a decoder that refuses it ends the delegating run.          *)
SubagentEnds ==
    /\ Going("ended")
    /\ Len(runs) > 1
    /\ refused' = IF Decodes(Current.agent, "agent_output", Current.output) THEN "nothing"
                  ELSE "agent_output"

(* Fault: the result is stored with the subagent's codec.                   *)
TranslatedBack(parent, run) == Encode(run.agent, "tool_output", OutputOf(run))

Translated(parent, run) == Encode(parent.agent, "tool_output", OutputOf(run))

(* delegate_tool_result.                                                    *)
DelegateReturns ==
    LET parent == runs[Len(runs) - 1]
    IN  /\ SubagentEnds
        /\ Current.wait
        /\ runs' = Append(SubSeq(runs, 1, Len(runs) - 2),
                          Result(parent, "return", Translated(parent, Current)))
        /\ UNCHANGED <<codec, mail, seen>>

(* report_subagent_result: the message's content is the plain value.        *)
DetachedReports ==
    /\ SubagentEnds
    /\ ~Current.wait
    /\ runs' = Rest
    /\ mail' = mail \union {OutputOf(Current)}
    /\ UNCHANGED <<codec, seen>>

(* read_agent_messages.                                                     *)
ReadsMessages ==
    /\ Going("tools") /\ HasRoom
    /\ \E content \in mail :
          Becomes(Result(Current, "return", Encode(Current.agent, "tool_output", content)))
    /\ UNCHANGED <<codec, mail, seen, refused>>

TurnEnds ==
    /\ Going("tools")
    /\ Current.results # <<>>
    /\ Becomes([Current EXCEPT !.stage = "node"])
    /\ UNCHANGED <<codec, mail, seen, refused>>

Terminated ==
    /\ refused # "nothing" \/ (Len(runs) = 1 /\ Current.stage = "ended")
    /\ UNCHANGED vars

Next ==
    \/ NodeRefused \/ NodeAsks \/ NodeFinishes
    \/ ToolReturns \/ ToolRetries \/ Delegates \/ ReadsMessages \/ TurnEnds
    \/ DelegateReturns \/ DetachedReports
    \/ Terminated

Spec == Init /\ [][Next]_vars

----------------------------------------------------------------------------
(* Properties.                                                              *)

(* Whatever a model is shown is plain, however many agents with whatever    *)
(* codecs the value came through: codecs "restore them when loading"        *)
(* (README 633-634).                                                        *)
ModelSeesPlain == seen \subseteq {Plain}

(* What actions leave to rest is encoded once, by the agent of the run that *)
(* will load it: never plain where a codec is registered (tests/test_agent  *)
(* 626-661), never twice, never by the subagent it came from.               *)
StoredSealed ==
    \A l \in DOMAIN runs :
        LET run == runs[l]
        IN  /\ \A i \in DOMAIN run.history :
                  run.history[i].layers = Seal(run.agent, "messages")
            /\ \A i \in DOMAIN run.results : run.results[i].kind = "return" =>
                  run.results[i].value = Seal(run.agent, "tool_output")
            /\ run.stage = "ended" => run.output = Seal(run.agent, "agent_output")

(* Decoders take back what actions stored for them: the messages of every   *)
(* step, a subagent's output, and the tool output inside the results,       *)
(* whichever agents it came through.  Two payloads they may refuse were     *)
(* never encoded as what they are decoded as: a history that a request      *)
(* brought as plain JSON, which a codec that tells its own from others      *)
(* cannot take for messages, and the tool action results of a codec by      *)
(* kind, see KindsRoundTrip.                                                *)
OwnAccepted ==
    /\ refused \in {"nothing", "seed", "tool_action_results"}
    /\ refused = "seed" => Current.seed[1].layers = Plain
    /\ refused = "tool_action_results" => codec[Current.agent] = "by_kind"

(* README 666-670, of payloads and tool action results among them: "Use     *)
(* payload.kind to handle these types separately", their kind preserved     *)
(* "across the round trip".  A codec that does is not refused the results   *)
(* of its own tools.                                                        *)
KindsRoundTrip == refused # "tool_action_results"

================================================================================
