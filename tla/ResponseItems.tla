---------------------------- MODULE ResponseItems ----------------------------
(***************************************************************************)
(* The frames of a streamed response, as its client reads them: numbered   *)
(* without a gap; created and in_progress before any item; items with      *)
(* consecutive output indexes, each added before its parts and fragments   *)
(* and done once; and one terminal frame, behind items that are all done   *)
(* unless it reports a failure.                                            *)
(*                                                                         *)
(* Lifecycle is the order that docs/RESPONSES_API.md and the head of       *)
(* responses/stream.rs write down, one item after the other.  Spec is less *)
(* and not what they promise: it also has the two kinds of step by which   *)
(* the converter leaves that order.  The order of the parts within an item *)
(* is in neither.                                                          *)
(***************************************************************************)
EXTENDS Naturals, Sequences

VARIABLES stage, (* "new", "created", "streaming" or how the response ended *)
          items, (* the output items by index, from 1                      *)
          last   (* the sequence number of the last frame                  *)

vars == <<stage, items, last>>

Kinds     == {"reasoning", "message", "function_call"}
Item      == [kind : Kinds, open : BOOLEAN, parts : Nat, details : Nat]
OpenItems == {i \in DOMAIN items : items[i].open}

Init == stage = "new" /\ items = << >> /\ last = 0

Frame == last' = last + 1

Begin ==
  /\ Frame
  /\ \/ stage = "new" /\ stage' = "created"
     \/ stage = "created" /\ stage' = "streaming"
  /\ UNCHANGED items

AddItem(kind) ==
  /\ stage = "streaming" /\ Frame
  /\ items' = Append(items, [kind |-> kind, open |-> TRUE, parts |-> 0, details |-> 0])
  /\ UNCHANGED stage

\* A part of the item begins, or its text or arguments are repeated whole.
Detail(i) ==
  /\ stage = "streaming" /\ Frame
  /\ i \in OpenItems
  /\ items' = [items EXCEPT ![i].details = @ + 1]
  /\ UNCHANGED stage

AddFragment(i) ==
  /\ stage = "streaming" /\ Frame
  /\ items' = [items EXCEPT ![i].parts = @ + 1]
  /\ UNCHANGED stage

Close(i) ==
  /\ stage = "streaming" /\ Frame
  /\ i \in OpenItems
  /\ items' = [items EXCEPT ![i].open = FALSE]
  /\ UNCHANGED stage

Complete ==
  /\ stage = "streaming" /\ Frame
  /\ OpenItems = {}
  /\ stage' \in {"completed", "incomplete"}
  /\ UNCHANGED items

Fail ==
  /\ stage \in {"new", "streaming"} /\ Frame
  /\ stage' = "failed"
  /\ UNCHANGED items

-----------------------------------------------------------------------------
\* One item is done before the next is added, and takes no fragment then.
Add(kind)   == OpenItems = {} /\ AddItem(kind)
Fragment(i) == i \in OpenItems /\ AddFragment(i)

LifecycleNext ==
  \/ Begin \/ Complete \/ Fail
  \/ \E kind \in Kinds : Add(kind)
  \/ \E i \in DOMAIN items : Detail(i) \/ Fragment(i) \/ Close(i)

Lifecycle == Init /\ [][LifecycleNext]_vars

-----------------------------------------------------------------------------
\* Items stand open side by side; but the first function call finds the
\* message closed.
CallMayStart ==
  \/ \E i \in DOMAIN items : items[i].kind = "function_call"
  \/ \A i \in OpenItems : items[i].kind # "message"

AddBeside(kind) ==
  /\ OpenItems # {} /\ AddItem(kind)
  /\ kind = "function_call" => CallMayStart

\* Text goes to the message that the calls have closed.
LateText(i) ==
  /\ i \notin OpenItems /\ items[i].kind = "message"
  /\ AddFragment(i)

Next ==
  \/ LifecycleNext
  \/ \E kind \in Kinds : AddBeside(kind)
  \/ \E i \in DOMAIN items : LateText(i)

Spec == Init /\ [][Next]_vars
==============================================================================
