--------------------------- MODULE AnthropicStream ---------------------------
(***************************************************************************)
(* The converter from the upstream's chat-completion chunks to the events  *)
(* of the Messages protocol (anthropic/stream.rs), driven by StreamPump    *)
(* (server/orchestrator.rs), and the view a client builds from the events. *)
(*                                                                         *)
(* A chunk that carries several deltas is fed as several chunks, in the    *)
(* order in which feed_chunk looks at them: reasoning, text, tool calls.   *)
(* Strings are counted: an accumulator is the number of its fragments.     *)
(* Lines without effect (comments, malformed or oversized data, pings) are *)
(* left out.  The converter never looks at what the client has read, so    *)
(* the client reads all events of a chunk before the next one is fed.      *)
(* Tool calls and blocks are counted from 1, not from 0.                   *)
(***************************************************************************)
EXTENDS Naturals, Sequences, FiniteSets, Deque

CONSTANTS MaxTools,  (* the tool calls of a response                       *)
          MaxChunks  (* its chunks                                         *)

ASSUME AnthropicAssumption == MaxTools \in Nat /\ MaxChunks \in Nat

ToolIndexes == 1 .. MaxTools

VARIABLES
  expose_thinking,
  started, finished,
  finishSeen,      (* finish_reason is Some                                *)
  next_block_idx,
  thinking_idx,    (* the open thinking block, or 0                        *)
  text_idx,        (* the open text block, or 0                            *)
  tools,           (* the slots by index: block, whether started, fragments *)
  thinking_accum, text_accum,
  chunks,          (* chunks fed                                           *)
  out,             (* events the client has not read                       *)
  phase, blocks, failed   (* the client's view                             *)

convVars == <<started, finished, finishSeen, next_block_idx, thinking_idx,
              text_idx, tools, thinking_accum, text_accum>>
view == <<phase, blocks, failed>>
vars == <<expose_thinking, convVars, chunks, out, view>>

Slot == [block : Nat, started : BOOLEAN, args : Nat]

(***************************************************************************)
(* Events.                                                                 *)
(***************************************************************************)
Event(type, index, kind) == [type |-> type, index |-> index, kind |-> kind]

BlockStart(i, kind) == Event("content_block_start", i, kind)
BlockDelta(i)       == Event("content_block_delta", i, "")
BlockStop(i)        == Event("content_block_stop", i, "")
MessageStart        == Event("message_start", 0, "")
MessageStop         == Event("message_stop", 0, "")
ErrorEvent          == Event("error", 0, "")

If(cond, s) == IF cond THEN s ELSE << >>

Init ==
  /\ expose_thinking \in BOOLEAN
  /\ started = FALSE /\ finished = FALSE /\ finishSeen = FALSE
  /\ next_block_idx = 1 /\ thinking_idx = 0 /\ text_idx = 0
  /\ tools = << >> /\ thinking_accum = 0 /\ text_accum = 0
  /\ chunks = 0 /\ out = << >>
  /\ phase = "new" /\ blocks = << >> /\ failed = FALSE

-----------------------------------------------------------------------------
(***************************************************************************)
(* feed_chunk.                                                             *)
(***************************************************************************)
\* A chunk arrives: the first one starts the message; its events follow.
Feed(events) ==
  /\ ~ finished /\ out = << >> /\ chunks < MaxChunks
  /\ chunks' = chunks + 1
  /\ started' = TRUE
  /\ out' = If(~ started, <<MessageStart>>) \o events
  /\ UNCHANGED <<expose_thinking, finished, view>>

\* A chunk with a role, a usage or no choice only.
NoDelta ==
  /\ Feed(<< >>)
  /\ UNCHANGED <<finishSeen, next_block_idx, thinking_idx, text_idx, tools,
                 thinking_accum, text_accum>>

FinishReason ==
  /\ Feed(<< >>)
  /\ finishSeen' = TRUE
  /\ UNCHANGED <<next_block_idx, thinking_idx, text_idx, tools,
                 thinking_accum, text_accum>>

HiddenReasoning ==
  /\ ~ expose_thinking
  /\ Feed(<< >>)
  /\ thinking_accum' = thinking_accum + 1
  /\ UNCHANGED <<finishSeen, next_block_idx, thinking_idx, text_idx, tools, text_accum>>

ThinkingOpen == thinking_idx # 0

\* close_thinking.
CloseThinking == If(ThinkingOpen, <<BlockStop(thinking_idx)>>)

Reasoning ==
  LET i == IF ThinkingOpen THEN thinking_idx ELSE next_block_idx IN
  /\ expose_thinking
  /\ Feed(If(~ ThinkingOpen, <<BlockStart(i, "thinking")>>) \o <<BlockDelta(i)>>)
  /\ thinking_idx' = i
  /\ next_block_idx' = IF ThinkingOpen THEN next_block_idx ELSE next_block_idx + 1
  /\ thinking_accum' = thinking_accum + 1
  /\ UNCHANGED <<finishSeen, text_idx, tools, text_accum>>

TextOpen == text_idx # 0

\* Mutant of Content: the client's text block is not given the first fragment.
ContentAfterStart ==
  LET i == IF TextOpen THEN text_idx ELSE next_block_idx IN
  /\ Feed(CloseThinking \o
          (IF TextOpen THEN <<BlockDelta(i)>> ELSE <<BlockStart(i, "text")>>))
  /\ thinking_idx' = 0
  /\ text_idx' = i
  /\ next_block_idx' = IF TextOpen THEN next_block_idx ELSE next_block_idx + 1
  /\ text_accum' = text_accum + 1
  /\ UNCHANGED <<finishSeen, tools, thinking_accum>>

Content ==
  LET i == IF TextOpen THEN text_idx ELSE next_block_idx IN
  /\ Feed(CloseThinking \o If(~ TextOpen, <<BlockStart(i, "text")>>) \o <<BlockDelta(i)>>)
  /\ thinking_idx' = 0
  /\ text_idx' = i
  /\ next_block_idx' = IF TextOpen THEN next_block_idx ELSE next_block_idx + 1
  /\ text_accum' = text_accum + 1
  /\ UNCHANGED <<finishSeen, tools, thinking_accum>>

WithSlot(t, slot) == [u \in DOMAIN tools \cup {t} |-> IF u = t THEN slot ELSE tools[u]]

\* Mutant of ToolCall: an open thinking block is left open.
ToolCallBesideThinking(t, args) ==
  LET new == t \notin DOMAIN tools
      i   == IF new THEN next_block_idx ELSE tools[t].block
      had == IF new THEN 0 ELSE tools[t].args
  IN
  /\ Feed(If(new, <<BlockStart(i, "tool")>>) \o If(args = 1, <<BlockDelta(i)>>))
  /\ tools' = WithSlot(t, [block |-> i, started |-> TRUE, args |-> had + args])
  /\ next_block_idx' = IF new THEN next_block_idx + 1 ELSE next_block_idx
  /\ UNCHANGED <<finishSeen, thinking_idx, text_idx, thinking_accum, text_accum>>

\* A fragment of tool call t, with arguments (1) or without (0).
ToolCall(t, args) ==
  LET new == t \notin DOMAIN tools
      i   == IF new THEN next_block_idx ELSE tools[t].block
      had == IF new THEN 0 ELSE tools[t].args
  IN
  /\ Feed(CloseThinking \o If(new, <<BlockStart(i, "tool")>>)
          \o If(args = 1, <<BlockDelta(i)>>))
  /\ thinking_idx' = 0
  /\ tools' = WithSlot(t, [block |-> i, started |-> TRUE, args |-> had + args])
  /\ next_block_idx' = IF new THEN next_block_idx + 1 ELSE next_block_idx
  /\ UNCHANGED <<finishSeen, text_idx, thinking_accum, text_accum>>

(***************************************************************************)
(* StreamPump.finish: [DONE], the end of the body, a transport error or a  *)
(* stall.  The error event depends on finish_reason alone.  The tools'     *)
(* blocks are closed in the order of their indexes (BTreeMap).             *)
(***************************************************************************)
StartedSlots == {t \in DOMAIN tools : tools[t].started}

CloseTools ==
  LET order == Enumerate(StartedSlots, MaxTools)
  IN  [n \in DOMAIN order |-> BlockStop(tools[order[n]].block)]

Finish ==
  /\ ~ finished /\ out = << >>
  /\ finished' = TRUE
  /\ out' = If(~ finishSeen, <<ErrorEvent>>) \o CloseThinking
            \o If(TextOpen, <<BlockStop(text_idx)>>) \o CloseTools \o <<MessageStop>>
  /\ thinking_idx' = 0 /\ text_idx' = 0
  /\ tools' = [t \in DOMAIN tools |-> [tools[t] EXCEPT !.started = FALSE]]
  /\ UNCHANGED <<expose_thinking, started, finishSeen, next_block_idx, thinking_accum,
                 text_accum, chunks, view>>

(***************************************************************************)
(* The client reads one event and believes it.                             *)
(***************************************************************************)
With(i, b) == [j \in DOMAIN blocks \cup {i} |-> IF j = i THEN b ELSE blocks[j]]

Believe(e) ==
  \/ /\ e.type = "content_block_start"
     /\ blocks' = With(e.index, [kind |-> e.kind, open |-> TRUE, parts |-> 0])
     /\ UNCHANGED <<phase, failed>>
  \/ /\ e.type = "content_block_delta"
     /\ blocks' = [blocks EXCEPT ![e.index].parts = @ + 1]
     /\ UNCHANGED <<phase, failed>>
  \/ /\ e.type = "content_block_stop"
     /\ blocks' = [blocks EXCEPT ![e.index].open = FALSE]
     /\ UNCHANGED <<phase, failed>>
  \/ e.type = "message_start" /\ phase' = "begun" /\ UNCHANGED <<blocks, failed>>
  \/ e.type = "error" /\ failed' = TRUE /\ UNCHANGED <<phase, blocks>>
  \/ e.type = "message_stop" /\ phase' = "over" /\ UNCHANGED <<blocks, failed>>

ClientReads ==
  /\ out # << >>
  /\ Believe(Head(out))
  /\ out' = Tail(out)
  /\ UNCHANGED <<expose_thinking, convVars, chunks>>

Complete == finished /\ out = << >> /\ UNCHANGED vars

FeedChunk ==
  \/ NoDelta \/ FinishReason \/ HiddenReasoning \/ Reasoning \/ Content
  \/ \E t \in ToolIndexes, args \in {0, 1} : ToolCall(t, args)

Next == FeedChunk \/ Finish \/ ClientReads \/ Complete

Spec == Init /\ [][Next]_vars

-----------------------------------------------------------------------------
Given == 1 .. next_block_idx - 1    (* the indexes given to blocks          *)

TypeOK ==
  /\ expose_thinking \in BOOLEAN /\ started \in BOOLEAN /\ finished \in BOOLEAN
  /\ finishSeen \in BOOLEAN /\ next_block_idx \in 1 .. MaxChunks + 1
  /\ thinking_idx \in {0} \cup Given /\ text_idx \in {0} \cup Given
  /\ DOMAIN tools \subseteq ToolIndexes
  /\ \A t \in DOMAIN tools : tools[t] \in Slot /\ tools[t].block \in Given
  /\ thinking_accum \in Nat /\ text_accum \in Nat /\ chunks \in 0 .. MaxChunks
  /\ phase \in {"new", "begun", "over"} /\ failed \in BOOLEAN
  /\ blocks \in Seq([kind : {"thinking", "text", "tool"}, open : BOOLEAN, parts : Nat])

(***************************************************************************)
(* The events keep the promise of the protocol, read one at a time, for    *)
(* any order of deltas and any moment of the end (feed_chunk, finish).     *)
(***************************************************************************)
Protocol == INSTANCE MessageStream WITH phase <- phase, blocks <- blocks, failed <- failed

KeepsLifecycle == Protocol!Spec

(***************************************************************************)
(* What the client has assembled is what the converter has accumulated,    *)
(* which is what a response that is not streamed is made of                *)
(* (nonstream_response), and what reaches the reasoning shadow.            *)
(***************************************************************************)
Fragments(bs, kind) ==
  UNION {{i} \X (1 .. bs[i].parts) : i \in {j \in DOMAIN bs : bs[j].kind = kind}}

NothingLost ==
  out = << >> =>
    /\ Cardinality(Fragments(blocks, "text")) = text_accum
    /\ Cardinality(Fragments(blocks, "thinking")) =
         (IF expose_thinking THEN thinking_accum ELSE 0)
    /\ \A t \in DOMAIN tools : blocks[tools[t].block].parts = tools[t].args
==============================================================================
