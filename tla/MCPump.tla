------------------------------- MODULE MCPump -------------------------------
(***************************************************************************)
(* Instances of Pump for TLC.                                              *)
(***************************************************************************)
EXTENDS Pump

Timeouts(event, semantic, idle, progress) ==
  [k \in StallKinds |->
     CASE k = "first_event"    -> event
       [] k = "first_semantic" -> semantic
       [] k = "stream_idle"    -> idle
       [] k = "semantic_idle"  -> progress]

\* All four timers, in the order of the defaults; or those on progress alone.
TwoChoices == {Timeouts(1, 2, 1, 2), Timeouts(0, 2, 0, 1)}
==============================================================================
