------------------------------ MODULE Requests ------------------------------
(***************************************************************************)
(* Conversations and the requests they are sent as (messages and responses *)
(* of server/orchestrator.rs): a client extends its history and sends all  *)
(* of it, the frontend converts or refuses it, the policy is applied and   *)
(* the result is what the upstream gets.  Before the policy, the reasoning *)
(* shadow gives their reasoning back to turns of the epoch.  To how many   *)
(* of them is left open here: an entry may be missing, have expired, have  *)
(* been evicted or cleared (Shadow).                                       *)
(*                                                                         *)
(* The client is any client: its histories are all sequences over its      *)
(* alphabet, also those a request is refused for.                          *)
(***************************************************************************)
EXTENDS Policy

CONSTANTS Heads,        (* system prompt, declared tools, choice, thinking *)
          Messages,     (* the messages of a Messages client               *)
          Items,        (* the items of a Responses client                 *)
          Longest       (* bound: protocol -> length of its histories      *)

Protocols == {"messages", "responses"}

ASSUME RequestsAssumption ==
  /\ Heads \subseteq [system : BOOLEAN, hosted : BOOLEAN, thinking : BOOLEAN, choice : STRING]
  /\ DOMAIN Longest \subseteq Protocols

VARIABLES
  protocol, head, (* of the conversation                                   *)
  history,        (* messages or items                                     *)
  sent,           (* length of the history that was last accepted          *)
  wire,           (* what was sent upstream for it                         *)
  restored        (* its messages whose reasoning is the shadow's          *)

requestsVars == <<protocol, head, history, sent, wire, restored>>

Anthropic == INSTANCE AnthropicRequest WITH CallIds <- CallIds, NoId <- NoId
Responses == INSTANCE ResponsesRequest WITH CallIds <- CallIds, NoId <- NoId

ASSUME AlphabetAssumption ==
  /\ \A m \in Messages : Anthropic!IsMessage(m)
  /\ \A item \in Items : Responses!IsItem(item)

FromMessages == protocol = "messages"

RequestsInit ==
  /\ protocol \in DOMAIN Longest
  /\ head \in Heads
  /\ history = << >> /\ sent = 0
  /\ wire = [system |-> FALSE, choice |-> "absent", messages |-> << >>]
  /\ restored = {}

Extend(m) ==
  /\ Len(history) < Longest[protocol]
  /\ history' = Append(history, m)
  /\ UNCHANGED <<protocol, head, sent, wire, restored>>

\* The body sent for messages ms, when the shadow has the turns found.
Upstream(h, ms, found) ==
  [system |-> h.system, choice |-> h.choice, messages |-> Applied(ms, found)]

\* A session without an identity, or without entries, has nothing restored.
Transmit(h, ms) ==
  /\ restored' \in SUBSET Restorable(ms)
  /\ wire' = Upstream(h, ms, restored')
  /\ sent' = Len(history)
  /\ UNCHANGED <<protocol, head, history>>

SendMessages ==
  /\ FromMessages /\ history # << >>
  /\ ~ Anthropic!HeadRefused(head) /\ ~ Anthropic!Refuses(history)
  /\ Transmit(Anthropic!WireHead(head), Anthropic!ConvertMessages(history).out)

SendResponses ==
  /\ ~ FromMessages /\ history # << >>
  /\ ~ Responses!HeadRefused(head) /\ ~ Responses!Refuses(history)
  /\ Transmit(Responses!WireHead(head), Responses!ConvertInputItems(history).out)

\* A request that is refused changes nothing but the client's mind.
RequestsNext ==
  \/ FromMessages /\ \E m \in Messages : Extend(m)
  \/ ~ FromMessages /\ \E item \in Items : Extend(item)
  \/ SendMessages \/ SendResponses

RequestsSpec == RequestsInit /\ [][RequestsNext]_requestsVars

-----------------------------------------------------------------------------
Accepted == SubSeq(history, 1, sent)    (* what wire was made from         *)

\* A Responses history read as messages of one call or one output each.
AsMessages(items) ==
  [i \in DOMAIN items |->
     CASE items[i].kind = "function_call"        -> Assistant(FALSE, <<items[i].id>>, i)
       [] items[i].kind = "function_call_output" -> Tool(items[i].id, i)
       [] OTHER                                  -> Plain("other", i)]

ClientPaired == FromMessages \/ Paired(AsMessages(Accepted))

(***************************************************************************)
(* Every tool call the upstream gets is answered once and nothing else is, *)
(* for every history the Messages frontend accepts (the pending uses of    *)
(* convert_messages) and for those Responses histories that are so         *)
(* themselves (pending_calls of convert_input_items): that frontend checks *)
(* nothing.  Of Messages, the answers stand right behind the calls, before *)
(* any text, if the client gave all of them in the message after the uses; *)
(* it is also accepted when it gave them later, see ResultsFollowCalls.    *)
(***************************************************************************)
GivenNext(n) ==
  LET i == wire.messages[n].src IN
  /\ i < sent /\ wire.messages[n].calls # << >>
  /\ ToSet(history[i + 1].results) = CallsOf(wire.messages[n])

Behind(n) ==
  \A k \in n + 1 .. n + Len(wire.messages[n].calls) :
     k \in DOMAIN wire.messages /\ wire.messages[k].role = "tool"

ToolPairing ==
  /\ ClientPaired => Paired(wire.messages)
  /\ FromMessages => \A n \in DOMAIN wire.messages : GivenNext(n) => Behind(n)

(***************************************************************************)
(* What request.rs:135-136, its error texts (159, 224) and                 *)
(* docs/ANTHROPIC_COMPATIBILITY.md:33-36 say: every tool use is resolved   *)
(* in the immediately following user message, for the upstream wants the   *)
(* results adjacent to the calls.  The code only asks that they come       *)
(* before the end: a user message in between is accepted and sent between. *)
(***************************************************************************)
ResultsFollowCalls == FromMessages => \A n \in DOMAIN wire.messages : Behind(n)

(***************************************************************************)
(* While no human speaks, a message sent once is sent again, at its place  *)
(* and with the same bytes: the strip of old reasoning and the rewriting   *)
(* of arguments never reach back (strip_historical_reasoning,              *)
(* canonicalize_tool_arguments).  The shadow is the one exception: a turn  *)
(* whose reasoning it had for one of the two requests only differs, and    *)
(* differs in that.                                                        *)
(***************************************************************************)
SameEpoch == EpochBoundary(wire.messages) = EpochBoundary(wire'.messages)

But(m, reasoning) == [m EXCEPT !.reasoning = reasoning]

SentAgain(n) ==
  LET was == wire.messages[n]
      is  == wire'.messages[n]
  IN  /\ n \in DOMAIN wire'.messages
      /\ IF (n \in restored) = (n \in restored') THEN is = was
         ELSE is = But(was, n \in restored')

PrefixStable ==
  [][sent' > sent /\ sent > 0 /\ ClientPaired /\ SameEpoch
     => \A n \in DOMAIN wire.messages : SentAgain(n)]_requestsVars

(***************************************************************************)
(* orchestrator.rs:273 calls the policy prefix-stable, policy.rs:244 says  *)
(* that the messages must stay byte-stable across consecutive turns, both  *)
(* without the exception.  An entry of the shadow that expires, is evicted *)
(* or is cleared by another conversation of the session takes the          *)
(* reasoning out of a turn sent before.                                    *)
(***************************************************************************)
PrefixKept ==
  [][sent' > sent /\ sent > 0 /\ ClientPaired /\ SameEpoch
     => IsPrefix(wire.messages, wire'.messages)]_requestsVars

(***************************************************************************)
(* Of the client's thinking, that of exactly the turns since a human last  *)
(* spoke reaches the upstream; what else there is of reasoning is what the *)
(* shadow gave back, to turns with tool calls since then that came without *)
(* (reasoning_epoch_boundary on the wire).  count_tokens counts the        *)
(* client's thinking, never the shadow's, and finds the same turns if the  *)
(* request has neither system messages nor empty texts                     *)
(* (strip_anthropic_thinking on the request).                              *)
(***************************************************************************)
LastHuman ==
  SelectLastInSeq(Accepted, LAMBDA m : m.role = "system" \/ (m.role = "user" /\ Anthropic!HasText(m)))

Alike(m) == m.role # "system" /\ m.text # "empty"

SourcesOf(N) == {wire.messages[n].src : n \in N}
OnWire       == SourcesOf({n \in DOMAIN wire.messages : wire.messages[n].reasoning})
OfShadow     == SourcesOf(restored)

\* The turns since a human last spoke.
Epoch == IF LastHuman = 0 THEN {} ELSE LastHuman .. sent

ReasoningOfEpoch ==
  FromMessages =>
    LET thought == {i \in Epoch : Accepted[i].thinking}
    IN  /\ OnWire = thought \cup OfShadow
        /\ \A i \in OfShadow :
             i \in Epoch /\ ~ Accepted[i].thinking /\ Accepted[i].uses # << >>
        /\ (\A i \in DOMAIN Accepted : Alike(Accepted[i])) => thought = Anthropic!Counted(Accepted)

(***************************************************************************)
(* What orchestrator.rs:212 says: count_tokens sees exactly what the wire  *)
(* path makes of a request.  It does not: it knows nothing of the shadow,  *)
(* a system message begins no epoch for it, an empty text block does, and  *)
(* an empty string does not.                                               *)
(***************************************************************************)
CountSeesWire == FromMessages => OnWire = Anthropic!Counted(Accepted)

(***************************************************************************)
(* docs/ARCHITECTURE.md, invariant 4: the conversion is lossless, nothing  *)
(* is silently dropped.  The system prompt of an accepted request is part  *)
(* of what the upstream gets.                                              *)
(***************************************************************************)
PromptReachesWire == sent > 0 /\ head.system => wire.system
==============================================================================
