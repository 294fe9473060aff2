-------------------------- MODULE AnthropicRequest --------------------------
(***************************************************************************)
(* The conversion of a Messages request (anthropic/request.rs), and what   *)
(* count_tokens makes of the same request (deepseek/policy.rs).            *)
(*                                                                         *)
(* A message has the fields its role makes use of.  A user message is one  *)
(* string, empty or not, or blocks: tool results in their order, and       *)
(* whether there is a text that is not empty or only an empty one.  An     *)
(* image or a document is a text that is not empty.  An assistant message  *)
(* has thinking or not, and tool uses.  Blocks without effect on control   *)
(* (text of the assistant, redacted thinking) are left out.  A message of  *)
(* role "other" stands for every one that is refused by itself: role,      *)
(* block, id, name or input.                                               *)
(***************************************************************************)
EXTENDS Policy

IsMessage(m) ==
  /\ m \in [role : {"user", "assistant", "system", "other"}, string : BOOLEAN,
            text : {"none", "some", "empty"}, results : Seq(CallIds),
            thinking : BOOLEAN, uses : Seq(CallIds)]
  /\ m.role # "user" => ~ m.string /\ m.text = "none" /\ m.results = << >>
  /\ m.role # "assistant" => ~ m.thinking /\ m.uses = << >>
  /\ m.string => m.text # "none" /\ m.results = << >>

Blocks(role) == [role |-> role, string |-> FALSE, text |-> "none", results |-> << >>,
                 thinking |-> FALSE, uses |-> << >>]

Words(txt)        == [Blocks("user") EXCEPT !.string = TRUE, !.text = txt]
Results(ids, txt) == [Blocks("user") EXCEPT !.results = ids, !.text = txt]
Turn(thinks, ids) == [Blocks("assistant") EXCEPT !.thinking = thinks, !.uses = ids]
System            == Blocks("system")
Refused           == Blocks("other")

\* A string is handed on as it is, an empty text block is not.
HasText(m) == m.string \/ m.text = "some"

\* The results first, next to the calls; then what a human said, if anything.
ConvertUserMessage(m, i) ==
  [n \in DOMAIN m.results |-> Tool(m.results[n], i)]
    \o If(HasText(m), <<Plain("user", i)>>)

\* The blocks of a turn are one message; a turn without any still is one.
ConvertAssistantMessage(m, i) == Assistant(m.thinking, m.uses, i)

\* Mutant of Registers: a use of a pending id is taken.
RegistersAny(pending, ids) == TRUE

\* Every use needs an id that is not pending.
Registers(pending, ids) == IsInjective(ids) /\ ToSet(ids) \cap pending = {}

\* Every result takes its id away.
Settles(pending, ids) == IsInjective(ids) /\ ToSet(ids) \subseteq pending

(***************************************************************************)
(* One message of the loop in convert_messages.  s has the messages so     *)
(* far, the uses without a result, and whether the request still stands.   *)
(* A system or developer message is a reminder by the user.                *)
(***************************************************************************)
ConvertNext(s, m, i) ==
  [out |-> s.out \o
     (CASE m.role = "user"      -> ConvertUserMessage(m, i)
        [] m.role = "assistant" -> <<ConvertAssistantMessage(m, i)>>
        [] m.role = "system"    -> <<Plain("user", i)>>
        [] m.role = "other"     -> << >>),
   pending |-> (s.pending \ ToSet(m.results)) \cup ToSet(m.uses),
   ok |-> /\ s.ok /\ m.role # "other"
          /\ Settles(s.pending, m.results)
          /\ Registers(s.pending, m.uses)]

ConvertMessages(ms) ==
  LET s[n \in 0 .. Len(ms)] == IF n = 0 THEN [out |-> << >>, pending |-> {}, ok |-> TRUE]
                               ELSE ConvertNext(s[n - 1], ms[n], n)
  IN  s[Len(ms)]

Refuses(ms) == LET s == ConvertMessages(ms) IN ~ s.ok \/ s.pending # {}

(***************************************************************************)
(* The rest of convert_request.  A declared tool that the proxy cannot run *)
(* refuses the request, as does a forced choice along with thinking.  The  *)
(* system prompt is normalised in the request and put nowhere else.        *)
(***************************************************************************)
HeadRefused(h) ==
  h.hosted \/ h.choice = "other" \/ (h.thinking /\ h.choice \notin {"auto", "absent"})

ToolChoice(c) ==
  CASE c = "any" -> "required"
    [] c = "tool" -> "auto"
    [] OTHER -> c

WireHead(h) == [system |-> FALSE, choice |-> ToolChoice(h.choice)]

(***************************************************************************)
(* strip_anthropic_thinking: the thinking that count_tokens leaves out     *)
(* lies before the last user message that is a string and not empty, or    *)
(* has any block but tool results.                                         *)
(***************************************************************************)
CountBoundary(ms) ==
  LET last == SelectLastInSeq(ms, LAMBDA m :
                m.role = "user" /\ IF m.string THEN m.text = "some" ELSE m.text # "none")
  IN  IF last = 0 THEN Len(ms) + 1 ELSE last

Counted(ms) == {i \in DOMAIN ms : ms[i].thinking /\ i >= CountBoundary(ms)}
==============================================================================
