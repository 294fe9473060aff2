---------------------------- MODULE MessageStream ----------------------------
(***************************************************************************)
(* What a client of the streamed Messages protocol relies on, as           *)
(* docs/ANTHROPIC_COMPATIBILITY.md ("Strict block lifecycles") words it:   *)
(* one message; blocks with consecutive indexes, each opened once and      *)
(* closed once; fragments only for an open block; a thinking block that is *)
(* closed when text or tool content begins; one block for each parallel    *)
(* tool call; and an end that leaves no block open.  A message that never  *)
(* began ends with an error.                                               *)
(***************************************************************************)
EXTENDS Naturals, Sequences

VARIABLES phase,  (* of the message: "new", "begun", "over"                *)
          blocks, (* its blocks by index, from 1                           *)
          failed  (* an error event was sent                               *)

vars == <<phase, blocks, failed>>

Kinds == {"thinking", "text", "tool"}
Block == [kind : Kinds, open : BOOLEAN, parts : Nat]

OpenBlocks    == {i \in DOMAIN blocks : blocks[i].open}
OpenOfKind(k) == {i \in OpenBlocks : blocks[i].kind = k}

Init == phase = "new" /\ blocks = << >> /\ failed = FALSE

Begin ==
  /\ phase = "new" /\ ~ failed
  /\ phase' = "begun"
  /\ UNCHANGED <<blocks, failed>>

Streaming == phase = "begun" /\ ~ failed

\* Text and tool content begin behind closed thinking; text is one block.
Open(kind) ==
  /\ Streaming
  /\ OpenOfKind("thinking") = {}
  /\ kind = "text" => OpenOfKind("text") = {}
  /\ blocks' = Append(blocks, [kind |-> kind, open |-> TRUE, parts |-> 0])
  /\ UNCHANGED <<phase, failed>>

Fragment(i) ==
  /\ Streaming
  /\ i \in OpenBlocks
  /\ OpenOfKind("thinking") \subseteq {i}
  /\ blocks' = [blocks EXCEPT ![i].parts = @ + 1]
  /\ UNCHANGED <<phase, failed>>

Close(i) ==
  /\ phase = "begun"
  /\ i \in OpenBlocks
  /\ blocks' = [blocks EXCEPT ![i].open = FALSE]
  /\ UNCHANGED <<phase, failed>>

Fail ==
  /\ phase # "over" /\ ~ failed
  /\ failed' = TRUE
  /\ UNCHANGED <<phase, blocks>>

End ==
  /\ phase = "begun" \/ (phase = "new" /\ failed)
  /\ OpenBlocks = {}
  /\ phase' = "over"
  /\ UNCHANGED <<blocks, failed>>

Next ==
  \/ Begin \/ Fail \/ End
  \/ \E kind \in Kinds : Open(kind)
  \/ \E i \in DOMAIN blocks : Fragment(i) \/ Close(i)

Spec == Init /\ [][Next]_vars
==============================================================================
