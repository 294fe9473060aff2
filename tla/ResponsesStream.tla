--------------------------- MODULE ResponsesStream ---------------------------
(***************************************************************************)
(* The converter from the upstream's chat-completion chunks to the frames  *)
(* of the Responses API (responses/stream.rs), driven by the pump of       *)
(* server/responses_pump.rs, and the view a client builds from the frames. *)
(*                                                                         *)
(* A chunk with several deltas is fed as several chunks in the order in    *)
(* which feed_chunk looks at them, except that the tool calls of a chunk   *)
(* stay together: they are walked twice.  Strings are counted; a tool's    *)
(* index and an output index start at 1, and an output index is 0 before   *)
(* it is assigned.  The server-tool set of the converter is always empty   *)
(* and left out.  The client reads all frames of a chunk before the next   *)
(* one is fed: the converter never looks at what the client has read.      *)
(***************************************************************************)
EXTENDS Naturals, Sequences, FiniteSets, Deque

CONSTANTS MaxTools,  (* the tool calls of a response                       *)
          MaxCalls,  (* of them, those that a chunk may tell of            *)
          MaxChunks  (* its chunks                                         *)

ASSUME ResponsesAssumption == MaxTools \in Nat /\ MaxCalls \in Nat /\ MaxChunks \in Nat

ToolIndexes == 1 .. MaxTools

VARIABLES
  expose_thinking,
  started, ended,
  sequence, next_output_index,
  reasoning, message,  (* output index, accumulated fragments, item_done   *)
  tools,               (* the slots by upstream index                      *)
  output_items,        (* kind and upstream index, in allocation order     *)
  finish_reason,       (* "none", "stop" or "length"                       *)
  chunks,              (* chunks fed                                       *)
  out,                 (* frames the client has not read                   *)
  stage, items, last,  (* the client's view of the stream                  *)
  output               (* output of the terminal response, as it read it   *)

convVars == <<next_output_index, reasoning, message, tools, output_items, finish_reason>>
view     == <<stage, items, last, output>>
vars     == <<expose_thinking, started, ended, sequence, convVars, chunks, out, view>>

(***************************************************************************)
(* Frames.                                                                 *)
(***************************************************************************)
Frame(type, index, kind, named) ==
  [type |-> type, index |-> index, kind |-> kind, named |-> named, output |-> << >>,
   seq |-> 0]

Added(i, kind, named) == Frame("output_item.added", i, kind, named)
Part(i)               == Frame("part", i, "", FALSE)
Delta(i)              == Frame("delta", i, "", FALSE)
Whole(i)              == Frame("whole", i, "", FALSE)
Done(i, named)        == Frame("output_item.done", i, "", named)
Created               == <<Frame("created", 0, "", FALSE), Frame("in_progress", 0, "", FALSE)>>

If(cond, s) == IF cond THEN s ELSE << >>

\* emit numbers the frames.
Numbered(frames) == [n \in DOMAIN frames |-> [frames[n] EXCEPT !.seq = sequence + n]]

Nothing == [index |-> 0, parts |-> 0, item_done |-> FALSE]

Init ==
  /\ expose_thinking \in BOOLEAN
  /\ started = FALSE /\ ended = FALSE
  /\ sequence = 0 /\ next_output_index = 1
  /\ reasoning = Nothing /\ message = Nothing
  /\ tools = << >> /\ output_items = << >> /\ finish_reason = "none"
  /\ chunks = 0 /\ out = << >>
  /\ stage = "new" /\ items = << >> /\ last = 0 /\ output = << >>

-----------------------------------------------------------------------------
(***************************************************************************)
(* feed_chunk.                                                             *)
(***************************************************************************)
Feed(frames) ==
  LET all == If(~ started, Created) \o frames IN
  /\ ~ ended /\ out = << >> /\ chunks < MaxChunks
  /\ chunks' = chunks + 1
  /\ started' = TRUE
  /\ out' = Numbered(all)
  /\ sequence' = sequence + Len(all)
  /\ UNCHANGED <<expose_thinking, ended, view>>

\* A chunk with a role, a usage or no choice only.
NoDelta == Feed(<< >>) /\ UNCHANGED convVars

FinishReason(reason) ==
  /\ Feed(<< >>)
  /\ finish_reason' = reason
  /\ UNCHANGED <<next_output_index, reasoning, message, tools, output_items>>

HiddenReasoning ==
  /\ ~ expose_thinking
  /\ Feed(<< >>)
  /\ reasoning' = [reasoning EXCEPT !.parts = @ + 1]
  /\ UNCHANGED <<next_output_index, message, tools, output_items, finish_reason>>

\* The first fragment of an item takes the next index and adds item and part.
IndexOf(item)  == IF item.index = 0 THEN next_output_index ELSE item.index
Grown(item)    == [item EXCEPT !.index = IndexOf(item), !.parts = @ + 1]
Opening(item, kind) ==
  If(item.index = 0, <<Added(IndexOf(item), kind, FALSE), Part(IndexOf(item))>>)

Allocate(item, kind) ==
  /\ next_output_index' = next_output_index + (IF item.index = 0 THEN 1 ELSE 0)
  /\ output_items' = output_items \o If(item.index = 0, <<[kind |-> kind, tool |-> 0]>>)

Reasoning ==
  /\ expose_thinking
  /\ Feed(Opening(reasoning, "reasoning") \o <<Delta(IndexOf(reasoning))>>)
  /\ Allocate(reasoning, "reasoning")
  /\ reasoning' = Grown(reasoning)
  /\ UNCHANGED <<message, tools, finish_reason>>

\* A message closed by a tool call still takes text: item_done is not asked.
Text ==
  /\ Feed(Opening(message, "message") \o <<Delta(IndexOf(message))>>)
  /\ Allocate(message, "message")
  /\ message' = Grown(message)
  /\ UNCHANGED <<reasoning, tools, finish_reason>>

CloseItem(item) == <<Whole(item.index), Whole(item.index), Done(item.index, FALSE)>>

\* Mutant of CloseMessage: a message that a tool call has closed is closed again.
CloseMessageAgain == If(message.index # 0, CloseItem(message))

\* close_message_item.
CloseMessage == If(message.index # 0 /\ ~ message.item_done, CloseItem(message))

\* The calls of a chunk: upstream index, whether with an id, fragments (0 or 1).
Call  == [tool : ToolIndexes, id : BOOLEAN, args : {0, 1}]
Calls == UNION {[1 .. n -> Call] : n \in 1 .. MaxCalls}

\* The first call of each index that has no slot yet, in the chunk's order.
FirstCalls(calls) ==
  Enumerate({n \in DOMAIN calls : /\ calls[n].tool \notin DOMAIN tools
                                  /\ \A m \in 1 .. n - 1 : calls[m].tool # calls[n].tool},
            Len(calls))

ToolsOf(calls) == {calls[n].tool : n \in DOMAIN calls}

SlotAfter(t, calls) ==
  LET mine  == {n \in DOMAIN calls : calls[n].tool = t}
      first == FirstCalls(calls)
  IN  [index |-> IF t \in DOMAIN tools THEN tools[t].index
                 ELSE next_output_index - 1 + CHOOSE k \in DOMAIN first : calls[first[k]].tool = t,
       named |-> (t \in DOMAIN tools /\ tools[t].named) \/ \E n \in mine : calls[n].id,
       args  |-> (IF t \in DOMAIN tools THEN tools[t].args ELSE 0)
                 + Cardinality({n \in mine : calls[n].args = 1})]

SlotsAfter(calls) == [t \in DOMAIN tools \cup ToolsOf(calls) |->
                        IF t \in ToolsOf(calls) THEN SlotAfter(t, calls) ELSE tools[t]]

\* Pass 1: the new calls are added, as their first delta names them.
AddedFrames(calls) ==
  LET first == FirstCalls(calls)
  IN  [k \in DOMAIN first |-> Added(next_output_index - 1 + k, "function_call", calls[first[k]].id)]

\* Pass 2: the fragments.
ArgumentFrames(calls) ==
  LET given == Enumerate({n \in DOMAIN calls : calls[n].args = 1}, Len(calls))
  IN  [k \in DOMAIN given |-> Delta(SlotAfter(calls[given[k]].tool, calls).index)]

\* Mutant of ToolFrames: the fragments of the chunk come first.
FragmentsFirst(calls) == ArgumentFrames(calls) \o AddedFrames(calls)

ToolFrames(calls) == AddedFrames(calls) \o ArgumentFrames(calls)

ToolCalls(calls) ==
  LET first == FirstCalls(calls)
      close == DOMAIN tools = {} IN
  /\ Feed(If(close, CloseMessage) \o ToolFrames(calls))
  /\ message' = IF close /\ message.index # 0 THEN [message EXCEPT !.item_done = TRUE] ELSE message
  /\ tools' = SlotsAfter(calls)
  /\ next_output_index' = next_output_index + Len(first)
  /\ output_items' = output_items \o
       [k \in DOMAIN first |-> [kind |-> "function_call", tool |-> calls[first[k]].tool]]
  /\ UNCHANGED <<reasoning, finish_reason>>

(***************************************************************************)
(* The end: [DONE] or the end of the body with a finish reason, or, with   *)
(* an error, without one, by a transport error or by a stall.  A failure   *)
(* is reported at once and leaves the items of the stream open.            *)
(***************************************************************************)
TerminalItem(o) ==
  CASE o.kind = "reasoning" -> [kind |-> o.kind, named |-> FALSE, parts |-> reasoning.parts]
    [] o.kind = "message"   -> [kind |-> o.kind, named |-> FALSE, parts |-> message.parts]
    [] OTHER                -> [kind |-> o.kind, named |-> tools[o.tool].named,
                                parts |-> tools[o.tool].args]

Terminal(type) ==
  [Frame(type, 0, "", FALSE) EXCEPT
     !.output = [n \in DOMAIN output_items |-> TerminalItem(output_items[n])]]

CloseReasoning == If(reasoning.index # 0, CloseItem(reasoning))

\* In the order of the upstream's indexes (BTreeMap).
CloseTools ==
  LET order   == Enumerate(DOMAIN tools, MaxTools)
      slot(n) == tools[order[(n + 1) \div 2]]
  IN  [n \in 1 .. 2 * Len(order) |->
        IF n % 2 = 1 THEN Whole(slot(n).index) ELSE Done(slot(n).index, slot(n).named)]

End(frames) ==
  /\ ~ ended /\ out = << >>
  /\ ended' = TRUE
  /\ out' = Numbered(frames)
  /\ sequence' = sequence + Len(frames)
  /\ UNCHANGED <<expose_thinking, started, convVars, chunks, view>>

FinishFailed == End(<<Terminal("failed")>>)

Finish ==
  /\ finish_reason # "none"
  /\ End(CloseReasoning \o CloseMessage \o CloseTools
         \o <<Terminal(IF finish_reason = "length" THEN "incomplete" ELSE "completed")>>)

(***************************************************************************)
(* The client reads one frame.  It maps an output index by the frame that  *)
(* adds the item; a fragment of an index it does not know is dropped.      *)
(***************************************************************************)
With(i, item) == [j \in DOMAIN items \cup {i} |-> IF j = i THEN item ELSE items[j]]

Believe(f) ==
  \/ /\ f.type = "created" /\ stage' = "created"
     /\ UNCHANGED <<items, output>>
  \/ /\ f.type = "in_progress" /\ stage' = "streaming"
     /\ UNCHANGED <<items, output>>
  \/ /\ f.type = "output_item.added"
     /\ items' = With(f.index, [kind |-> f.kind, named |-> f.named, open |-> TRUE,
                              parts |-> 0, details |-> 0])
     /\ UNCHANGED <<stage, output>>
  \/ /\ f.type = "delta"
     /\ items' = [i \in DOMAIN items |->
                   [items[i] EXCEPT !.parts = @ + (IF i = f.index THEN 1 ELSE 0)]]
     /\ UNCHANGED <<stage, output>>
  \/ /\ f.type = "output_item.done"
     /\ items' = [items EXCEPT ![f.index].open = FALSE, ![f.index].named = f.named]
     /\ UNCHANGED <<stage, output>>
  \/ /\ f.type \in {"completed", "incomplete", "failed"}
     /\ stage' = f.type /\ output' = f.output
     /\ UNCHANGED items
  \/ /\ f.type \in {"part", "whole"}
     /\ items' = [items EXCEPT ![f.index].details = @ + 1]
     /\ UNCHANGED <<stage, output>>

ClientReads ==
  /\ out # << >>
  /\ Believe(Head(out))
  /\ last' = Head(out).seq
  /\ out' = Tail(out)
  /\ UNCHANGED <<expose_thinking, started, ended, sequence, convVars, chunks>>

Complete == ended /\ out = << >> /\ UNCHANGED vars

FeedChunk ==
  \/ NoDelta \/ HiddenReasoning \/ Reasoning \/ Text
  \/ \E reason \in {"stop", "length"} : FinishReason(reason)
  \/ \E calls \in Calls : ToolCalls(calls)

Next == FeedChunk \/ Finish \/ FinishFailed \/ ClientReads \/ Complete

Spec == Init /\ [][Next]_vars

-----------------------------------------------------------------------------
Given == 1 .. next_output_index - 1     (* the output indexes given to items *)

ItemState == [index : {0} \cup Given, parts : Nat, item_done : BOOLEAN]
Slot      == [index : Given, named : BOOLEAN, args : Nat]

TypeOK ==
  /\ expose_thinking \in BOOLEAN /\ started \in BOOLEAN /\ ended \in BOOLEAN
  /\ sequence \in Nat /\ next_output_index \in Nat \ {0}
  /\ reasoning \in ItemState /\ message \in ItemState
  /\ DOMAIN tools \subseteq ToolIndexes /\ \A t \in DOMAIN tools : tools[t] \in Slot
  /\ finish_reason \in {"none", "stop", "length"}
  /\ output_items \in [Given -> [kind : {"reasoning", "message", "function_call"}, tool : Nat]]

(***************************************************************************)
(* The frames, read one at a time, for any order of deltas and any end     *)
(* (feed_chunk, finish): no gap in the numbers, no fragment before its     *)
(* item, no item done twice, the message done before the first function    *)
(* call is added (ensure_tool_item_added), and no item left open by a      *)
(* response that is complete.                                              *)
(***************************************************************************)
Protocol == INSTANCE ResponseItems WITH
  stage <- stage,
  items <- [i \in DOMAIN items |->
              [kind |-> items[i].kind, open |-> items[i].open,
               parts |-> items[i].parts, details |-> items[i].details]],
  last  <- last

KeepsItems == Protocol!Spec

(***************************************************************************)
(* What docs/RESPONSES_API.md:11-30, the head of responses/stream.rs and   *)
(* its comment at 467-469 (output items are sequential) say: an item is    *)
(* done before the next one is added, and takes no fragment after that.    *)
(* The converter keeps the reasoning and all calls open to the end, and    *)
(* feeds text to a message it has closed.                                  *)
(***************************************************************************)
KeepsLifecycle == Protocol!Lifecycle

(***************************************************************************)
(* The client replays the output of the terminal response as the state of  *)
(* the next turn: it is what the client has assembled from the frames,     *)
(* item by item and in their order, late text and late call ids included   *)
(* (terminal_response against feed_text and feed_tool_call_arguments).     *)
(* After a failure the ids that came late have reached no frame.           *)
(***************************************************************************)
Terminated == stage \in {"completed", "incomplete", "failed"}

TerminalComplete ==
  Terminated =>
    /\ Len(output) = Cardinality(DOMAIN items)
    /\ \A i \in DOMAIN output :
         /\ output[i].kind = items[i].kind /\ output[i].parts = items[i].parts
         /\ stage # "failed" => output[i].named = items[i].named

(***************************************************************************)
(* The head of responses/stream.rs: the converter never emits an           *)
(* item-added without call_id and name.                                    *)
(***************************************************************************)
AddedNamesCall ==
  \A n \in DOMAIN out :
     out[n].type = "output_item.added" /\ out[n].kind = "function_call" => out[n].named
==============================================================================
