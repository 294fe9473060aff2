-------------------------------- MODULE Watch --------------------------------
(***************************************************************************)
(* The stall watchdog of a stream (stream_watch.rs).  An Instant is the    *)
(* time since then; a limit of 0 disables its timer.                       *)
(***************************************************************************)
EXTENDS Integers

CONSTANT Far    (* the deadline when no timer runs, a year ahead           *)

ASSUME WatchAssumption == Far \in Nat \ {0}

StallKinds == {"first_event", "first_semantic", "stream_idle", "semantic_idle"}

Limits == [StallKinds -> Nat]
Watches == [started : Nat, last_byte : Nat, last_semantic : Nat,
            got_first_event : BOOLEAN, got_first_semantic : BOOLEAN]

NewWatch == [started |-> 0, last_byte |-> 0, last_semantic |-> 0,
             got_first_event |-> FALSE, got_first_semantic |-> FALSE]

OnBytes(w)    == [w EXCEPT !.last_byte = 0]
OnEvent(w)    == [w EXCEPT !.got_first_event = TRUE]
OnSemantic(w) == [w EXCEPT !.got_first_semantic = TRUE, !.last_semantic = 0]

\* Mutant of Reached: a timer fires only beyond its limit.
ReachedBeyond(age, limit) == limit # 0 /\ age > limit

Reached(age, limit) == limit # 0 /\ age >= limit

\* check: the first stall in the order of the code, or "none".
Check(w, limit) ==
  IF ~ w.got_first_event /\ Reached(w.started, limit["first_event"])
  THEN "first_event"
  ELSE IF ~ w.got_first_semantic /\ Reached(w.started, limit["first_semantic"])
  THEN "first_semantic"
  ELSE IF Reached(w.last_byte, limit["stream_idle"])
  THEN "stream_idle"
  ELSE IF w.got_first_semantic /\ Reached(w.last_semantic, limit["semantic_idle"])
  THEN "semantic_idle"
  ELSE "none"

\* next_deadline, as the time left until it: it may have passed.
Smaller(a, b) == IF a <= b THEN a ELSE b

Sooner(deadline, armed, limit, age) ==
  IF armed /\ limit # 0 THEN Smaller(deadline, limit - age) ELSE deadline

\* Mutant of NextDeadline: no timer runs on progress after the first.
NextDeadlineOfFirst(w, limit) ==
  LET event    == Sooner(Far - w.started, ~ w.got_first_event, limit["first_event"], w.started)
      semantic == Sooner(event, ~ w.got_first_semantic, limit["first_semantic"], w.started)
  IN  Sooner(semantic, TRUE, limit["stream_idle"], w.last_byte)

NextDeadline(w, limit) ==
  LET event    == Sooner(Far - w.started, ~ w.got_first_event, limit["first_event"], w.started)
      semantic == Sooner(event, ~ w.got_first_semantic, limit["first_semantic"], w.started)
      idle     == Sooner(semantic, TRUE, limit["stream_idle"], w.last_byte)
  IN  Sooner(idle, w.got_first_semantic, limit["semantic_idle"], w.last_semantic)
==============================================================================
