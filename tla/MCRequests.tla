----------------------------- MODULE MCRequests -----------------------------
(***************************************************************************)
(* Instances of Requests for TLC: two call ids, and the messages and items *)
(* that the conversion tells apart.                                        *)
(***************************************************************************)
EXTENDS Requests, TLC

CONSTANTS c, d

AllMessages ==
  {Anthropic!Words("some"), Anthropic!Words("empty"), Anthropic!System, Anthropic!Refused}
    \cup {Anthropic!Results(ids, txt) : ids \in {<<c>>, <<d, c>>}, txt \in {"none", "some", "empty"}}
    \cup {Anthropic!Results(<<d>>, "none"), Anthropic!Results(<<c, c>>, "none")}
    \cup {Anthropic!Turn(thinks, ids) : thinks \in BOOLEAN, ids \in {<< >>, <<c>>, <<c, d>>}}

AllItems ==
  {Responses!Item("message", role, NoId) : role \in {"user", "assistant"}}
    \cup {Responses!Item(kind, "", id) : kind \in {"function_call", "function_call_output"},
                                        id \in CallIds}
    \cup {Responses!Item(kind, "", NoId) : kind \in {"reasoning", "other"}}

OneHead == {[system |-> FALSE, hosted |-> FALSE, thinking |-> TRUE, choice |-> "auto"]}

AllHeads == [system : {TRUE}, hosted : BOOLEAN, thinking : BOOLEAN, choice : {"absent", "auto", "tool", "other"}]

Short == [messages |-> 4, responses |-> 5]

OneMessage == [messages |-> 1]
==============================================================================
