-------------------------- MODULE ResponsesRequest --------------------------
(***************************************************************************)
(* The conversion of a Responses request (responses/request.rs).  An item  *)
(* of the input has a kind, a role if it is a message, and an id if it is  *)
(* a call or its output.  Items of kind "other" stand for every one that   *)
(* is refused by itself; the text form of the input is one user message.   *)
(***************************************************************************)
EXTENDS Policy

IsItem(item) ==
  /\ item \in [kind : {"message", "function_call", "function_call_output", "reasoning", "other"},
               role : {"user", "assistant", "system", ""}, id : CallIds \cup {NoId}]
  /\ item.kind = "message" => item.role # ""
  /\ item.kind \in {"function_call", "function_call_output"} => item.id # NoId

Item(kind, role, id) == [kind |-> kind, role |-> role, id |-> id]

FlushCalls(s) ==
  s.out \o If(s.calls # << >>, <<Assistant(FALSE, s.calls, s.first)>>)

\* A message, unlike an output or reasoning, leaves the pending calls pending.
Keeps(item) == item.kind \in {"message", "function_call"}

Converted(item, i) ==
  CASE item.kind = "message"              -> <<Plain(item.role, i)>>
    [] item.kind = "function_call_output" -> <<Tool(item.id, i)>>
    [] OTHER                              -> << >>

(***************************************************************************)
(* One item of the loop in convert_input_items.  s has the messages so     *)
(* far, the calls not yet put in a message, and the position of the first  *)
(* of them.  reasoning is dropped.                                         *)
(***************************************************************************)
ConvertNext(s, item, i) ==
  LET kept == IF Keeps(item) THEN s.calls ELSE << >> IN
  [out   |-> (IF Keeps(item) THEN s.out ELSE FlushCalls(s)) \o Converted(item, i),
   calls |-> kept \o If(item.kind = "function_call", <<item.id>>),
   first |-> IF kept = << >> THEN i ELSE s.first,
   ok    |-> s.ok /\ item.kind # "other"]

ConvertInputItems(items) ==
  LET s[n \in 0 .. Len(items)] ==
        IF n = 0 THEN [out |-> << >>, calls |-> << >>, first |-> 0, ok |-> TRUE]
        ELSE ConvertNext(s[n - 1], items[n], n)
  IN  [out |-> FlushCalls(s[Len(items)]), ok |-> s[Len(items)].ok]

Refuses(items) == LET s == ConvertInputItems(items) IN ~ s.ok \/ s.out = << >>

(***************************************************************************)
(* The rest of convert_request: a tool the proxy cannot run is left out,   *)
(* a forced function becomes a free choice, and instructions are ignored.  *)
(***************************************************************************)
HeadRefused(h) == h.choice = "other"

ToolChoice(c) == IF c \in {"none", "required", "absent"} THEN c ELSE "auto"

WireHead(h) == [system |-> FALSE, choice |-> ToolChoice(h.choice)]
==============================================================================
