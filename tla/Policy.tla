------------------------------- MODULE Policy -------------------------------
(***************************************************************************)
(* The chat messages that the requests of both frontends are converted to, *)
(* and the policy applied to them before they are sent (deepseek/policy.rs *)
(* ).  A message is what the rules tell apart: its role, whether it has    *)
(* reasoning, the ids of its tool calls and whether their arguments are in *)
(* canonical form, the id a tool message answers, and the position in the  *)
(* client's history of what it was made from.                              *)
(***************************************************************************)
EXTENDS Naturals, Sequences, FiniteSets, SequencesExt

CONSTANTS CallIds, (* tool call ids                                        *)
          NoId     (* of a message that answers no call                    *)

ASSUME PolicyAssumption == NoId \notin CallIds

Message(role, reasoning, calls, id, src) ==
  [role |-> role, reasoning |-> reasoning, calls |-> calls, canonical |-> FALSE, id |-> id, src |-> src]

Plain(role, src)         == Message(role, FALSE, << >>, NoId, src)
Tool(id, src)            == Message("tool", FALSE, << >>, id, src)
Assistant(r, calls, src) == Message("assistant", r, calls, NoId, src)

If(cond, s) == IF cond THEN s ELSE << >>

\* Mutant of EpochBoundary: the result of a tool begins an epoch, too.
EpochBoundaryOfTools(ms) ==
  LET last == SelectLastInSeq(ms, LAMBDA m : m.role \in {"user", "tool"})
  IN  IF last = 0 THEN Len(ms) + 1 ELSE last

\* reasoning_epoch_boundary: every user message of the converted body is human.
EpochBoundary(ms) ==
  LET last == SelectLastInSeq(ms, LAMBDA m : m.role = "user")
  IN  IF last = 0 THEN Len(ms) + 1 ELSE last

\* The turns restore_into asks the shadow about.
Restorable(ms) ==
  {n \in DOMAIN ms : /\ n >= EpochBoundary(ms) /\ ms[n].role = "assistant"
                     /\ ms[n].calls # << >> /\ ~ ms[n].reasoning}

\* restore_into: the shadow has the reasoning of the turns found, of no others.
Restored(ms, found) ==
  [n \in DOMAIN ms |-> IF n \in found THEN [ms[n] EXCEPT !.reasoning = TRUE] ELSE ms[n]]

StripHistoricalReasoning(ms) ==
  [n \in DOMAIN ms |-> IF n < EpochBoundary(ms) /\ ms[n].role = "assistant"
                       THEN [ms[n] EXCEPT !.reasoning = FALSE] ELSE ms[n]]

\* Mutant of LastAction: the last turn of the assistant is left as it is.
LastTurn(ms) == SelectLastInSeq(ms, LAMBDA m : m.role = "assistant")

LastAction(ms) == SelectLastInSeq(ms, LAMBDA m : m.role \in {"user", "tool"})

\* Arguments that do not parse are canonical in the model: nothing rewrites them.
CanonicalizeToolArguments(ms) ==
  [n \in DOMAIN ms |-> IF n < LastAction(ms) /\ ms[n].calls # << >>
                       THEN [ms[n] EXCEPT !.canonical = TRUE] ELSE ms[n]]

\* What the handlers do between the conversion and the generation.
Applied(ms, found) ==
  CanonicalizeToolArguments(StripHistoricalReasoning(Restored(ms, found)))

(***************************************************************************)
(* Every call of ms is answered once, after it and before its id is used   *)
(* again, and nothing else is answered.                                    *)
(***************************************************************************)
CallsOf(m)   == ToSet(m.calls)
Answers(m, id) == m.role = "tool" /\ m.id = id

Called(ms, n, k, id)   == \E j \in n + 1 .. k - 1 : id \in CallsOf(ms[j])
Answered(ms, n, k, id) == \E j \in n + 1 .. k - 1 : Answers(ms[j], id)

Paired(ms) ==
  /\ \A n \in DOMAIN ms : IsInjective(ms[n].calls)
  /\ \A k \in DOMAIN ms : ms[k].role = "tool" =>
       \E n \in 1 .. k - 1 : /\ ms[k].id \in CallsOf(ms[n])
                             /\ ~ Answered(ms, n, k, ms[k].id)
  /\ \A n \in DOMAIN ms : \A id \in CallsOf(ms[n]) :
       \E k \in n + 1 .. Len(ms) : Answers(ms[k], id) /\ ~ Called(ms, n, k, id)
==============================================================================
