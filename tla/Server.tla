-------------------------------- MODULE Server --------------------------------
(***************************************************************************)
(* The life of the server from the first request to the exit: the signal   *)
(* listener and the drain (shutdown.rs), the handlers of /v1/messages and  *)
(* /v1/responses with their counters (server/orchestrator.rs), and the     *)
(* in-flight guard that the drain watches (observability.rs).              *)
(*                                                                         *)
(* Every request has a connection of its own.  A handler runs inside its   *)
(* connection and is dropped with it; the pump of a streamed response and  *)
(* the task that records it are detached and go on.  What a pump does is   *)
(* the module Pump: here it ends with an outcome, or notices that its      *)
(* client has left.                                                        *)
(***************************************************************************)
EXTENDS Naturals, FiniteSets

CONSTANTS Requests,   (* the requests, and their connections               *)
          MaxSignals  (* bound: what the operator sends                    *)

ASSUME ServerAssumption == IsFiniteSet(Requests) /\ MaxSignals \in Nat

VARIABLES
  sent,      (* signals the operator has sent                              *)
  listener,  (* the listener task: "arming", "waiting" or "stopped"        *)
  pending,   (* a signal has reached the listener's streams                *)
  watch,     (* the watch value: signals the listener has counted          *)
  serve,     (* axum's serve: "accepting" or "closing"                     *)
  stage,     (* of a request and its connection                            *)
  pump,      (* of a streamed response: pump task, then summary task       *)
  guards,    (* the requests whose InFlightGuard is alive                  *)
  total, ok, err, (* requests_total, requests_ok, requests_error           *)
  rejected,  (* bodies that could not be read (history)                    *)
  departed,  (* clients that left before there was an outcome (history)    *)
  drain,     (* "serving", "draining", "polling" or "exited"               *)
  late,      (* the drain deadline has passed                              *)
  outcome    (* the DrainOutcome                                           *)

signalVars  == <<sent, listener, pending, watch>>
counterVars == <<total, ok, err, rejected, departed>>
requestVars == <<stage, pump, guards, counterVars>>
drainVars   == <<drain, late, outcome>>
serverVars == <<signalVars, serve, requestVars, drainVars>>

Open == {"reading", "working", "streaming", "idle"}
Connections == {r \in Requests : stage[r] \in Open}

\* The requests_in_flight gauge.
InFlight == Cardinality(guards)

ServerInit ==
  /\ sent = 0 /\ listener = "arming" /\ pending = FALSE /\ watch = 0
  /\ serve = "accepting"
  /\ stage = [r \in Requests |-> "away"]
  /\ pump = [r \in Requests |-> "none"] /\ guards = {}
  /\ total = 0 /\ ok = 0 /\ err = 0 /\ rejected = 0 /\ departed = 0
  /\ drain = "serving" /\ late = FALSE /\ outcome = "none"

-----------------------------------------------------------------------------
(***************************************************************************)
(* Signals.  The handlers stay installed once they are, but a signal that  *)
(* arrives when no stream is there to receive it is lost.                  *)
(***************************************************************************)
Signal ==
  /\ sent < MaxSignals
  /\ listener = "waiting" \/ watch > 0
  /\ sent' = sent + 1
  /\ pending' = (listener = "waiting")
  /\ UNCHANGED <<listener, watch, serve, requestVars, drainVars>>

Arm ==
  /\ listener = "arming"
  /\ listener' = "waiting"
  /\ UNCHANGED <<sent, pending, watch, serve, requestVars, drainVars>>

Receive ==
  /\ listener = "waiting" /\ pending
  /\ pending' = FALSE
  /\ watch' = watch + 1
  /\ listener' = IF watch' = 1 THEN "arming" ELSE "stopped"
  /\ UNCHANGED <<sent, serve, requestVars, drainVars>>

\* with_graceful_shutdown: no more connections, and the idle ones close.
StopAccepting ==
  /\ serve = "accepting" /\ watch > 0
  /\ serve' = "closing"
  /\ UNCHANGED <<signalVars, requestVars, drainVars>>

ServeResolved == serve = "closing" /\ Connections = {}

-----------------------------------------------------------------------------
(***************************************************************************)
(* Requests.                                                               *)
(***************************************************************************)
Moves(r, from, to) ==
  /\ stage[r] = from
  /\ stage' = [stage EXCEPT ![r] = to]
  /\ UNCHANGED <<signalVars, serve, drainVars>>

Counts(o) ==
  /\ ok' = IF o = "ok" THEN ok + 1 ELSE ok
  /\ err' = IF o = "error" THEN err + 1 ELSE err

Connect(r) ==
  /\ serve = "accepting"
  /\ Moves(r, "away", "reading")
  /\ UNCHANGED <<pump, guards, counterVars>>

Unauthenticated(r) ==
  /\ Moves(r, "reading", "idle")
  /\ UNCHANGED <<pump, guards, counterVars>>

\* An error is recorded of what was never counted as a request.
RejectBody(r) ==
  /\ Moves(r, "reading", "idle")
  /\ Counts("error") /\ rejected' = rejected + 1
  /\ UNCHANGED <<pump, guards, total, departed>>

Accept(r) ==
  /\ Moves(r, "reading", "working")
  /\ total' = total + 1
  /\ guards' = guards \cup {r}
  /\ UNCHANGED <<pump, ok, err, rejected, departed>>

\* Mutant of Answer: an early return that records nothing.
AnswerSilently(r, o) ==
  /\ Moves(r, "working", "idle")
  /\ guards' = guards \ {r}
  /\ ok' = IF o = "ok" THEN ok + 1 ELSE ok
  /\ UNCHANGED <<pump, total, err, rejected, departed>>

\* A request refused, a generation failed, or an aggregated answer.
Answer(r, o) ==
  /\ Moves(r, "working", "idle")
  /\ guards' = guards \ {r}
  /\ Counts(o)
  /\ UNCHANGED <<pump, total, rejected, departed>>

\* Mutant of StartStream: the guard stays in the handler, which returns.
StartStreamUnguarded(r) ==
  /\ Moves(r, "working", "streaming")
  /\ pump' = [pump EXCEPT ![r] = "running"]
  /\ guards' = guards \ {r}
  /\ UNCHANGED counterVars

\* The guard moves into the pump task and the handler returns.
StartStream(r) ==
  /\ Moves(r, "working", "streaming")
  /\ pump' = [pump EXCEPT ![r] = "running"]
  /\ UNCHANGED <<guards, counterVars>>

\* The pump ends with an outcome: the guard drops before the body ends.
FinishPump(r, o) ==
  /\ pump[r] = "running"
  /\ pump' = [pump EXCEPT ![r] = o]
  /\ guards' = guards \ {r}
  /\ UNCHANGED <<signalVars, serve, stage, counterVars, drainVars>>

\* The pump finds its body gone and returns without an outcome.
AbandonPump(r) ==
  /\ pump[r] = "running" /\ stage[r] = "closed"
  /\ pump' = [pump EXCEPT ![r] = "abandoned"]
  /\ guards' = guards \ {r}
  /\ departed' = departed + 1
  /\ UNCHANGED <<signalVars, serve, stage, total, ok, err, rejected, drainVars>>

\* The summary task.
Summarize(r) ==
  /\ pump[r] \in {"ok", "error"}
  /\ Counts(pump[r])
  /\ pump' = [pump EXCEPT ![r] = "summarized"]
  /\ UNCHANGED <<signalVars, serve, stage, guards, total, rejected, departed, drainVars>>

EndBody(r) ==
  /\ pump[r] # "running"
  /\ Moves(r, "streaming", "idle")
  /\ UNCHANGED <<pump, guards, counterVars>>

\* An idle connection closes, by either side.
CloseIdle(r) ==
  /\ Moves(r, "idle", "closed")
  /\ UNCHANGED <<pump, guards, counterVars>>

\* The client leaves: its handler, if one runs, is dropped at an await.
ClientGone(r) ==
  /\ \E from \in {"reading", "working", "streaming"} : Moves(r, from, "closed")
  /\ guards' = IF stage[r] = "working" THEN guards \ {r} ELSE guards
  /\ departed' = IF stage[r] = "working" THEN departed + 1 ELSE departed
  /\ UNCHANGED <<pump, total, ok, err, rejected>>

RequestStep(r) ==
  \/ Connect(r) \/ Unauthenticated(r) \/ RejectBody(r) \/ Accept(r)
  \/ StartStream(r)
  \/ \E o \in {"ok", "error"} : Answer(r, o) \/ FinishPump(r, o)
  \/ AbandonPump(r) \/ Summarize(r) \/ EndBody(r) \/ CloseIdle(r) \/ ClientGone(r)

-----------------------------------------------------------------------------
(***************************************************************************)
(* The drain.  Before the first signal its select is not biased; then the  *)
(* second signal goes first and the deadline last.                         *)
(***************************************************************************)
\* Mutant of Forced: the signal that started the drain forces it, too.
ForcedAtOnce == watch > 0

\* wait_for_force, armed at the first signal.
Forced == watch > 1

Exit(o) ==
  /\ drain' = "exited" /\ outcome' = o
  /\ UNCHANGED <<signalVars, serve, requestVars, late>>

StartDrain ==
  /\ drain = "serving" /\ watch > 0
  /\ drain' = "draining"
  /\ UNCHANGED <<signalVars, serve, requestVars, late, outcome>>

\* serve resolves in the select that waits for the first signal.
ServeEnds ==
  /\ drain = "serving" /\ ServeResolved
  /\ Exit("ConnectionsClosed")

ForceQuit ==
  /\ drain \in {"draining", "polling"} /\ Forced
  /\ Exit("Forced")

StartPolling ==
  /\ drain = "draining" /\ ~ Forced /\ ServeResolved
  /\ drain' = "polling"
  /\ UNCHANGED <<signalVars, serve, requestVars, late, outcome>>

FoundIdle ==
  /\ drain = "polling" /\ InFlight = 0
  /\ Exit("ConnectionsClosed")

\* Mutant of TimeOut: once the connections are closed only the gauge counts.
TimeOutConnections ==
  /\ late
  /\ drain = "draining" /\ ~ Forced /\ ~ ServeResolved
  /\ Exit("DrainTimedOut")

TimeOut ==
  /\ late
  /\ \/ drain = "draining" /\ ~ Forced /\ ~ ServeResolved
     \/ drain = "polling" /\ InFlight > 0
  /\ Exit("DrainTimedOut")

DeadlinePasses ==
  /\ drain \in {"draining", "polling"} /\ ~ late
  /\ late' = TRUE
  /\ UNCHANGED <<signalVars, serve, requestVars, drain, outcome>>

DrainStep ==
  StartDrain \/ ServeEnds \/ ForceQuit \/ StartPolling \/ FoundIdle \/ TimeOut

Exited == drain = "exited" /\ UNCHANGED serverVars

\* The process ends with the drain, and everything in it.
ServerNext ==
  \/ /\ drain # "exited"
     /\ \/ Signal \/ Arm \/ Receive \/ StopAccepting
        \/ \E r \in Requests : RequestStep(r)
        \/ DrainStep \/ DeadlinePasses
  \/ Exited

ServerSpec == ServerInit /\ [][ServerNext]_serverVars

(***************************************************************************)
(* The runtime polls the listener and the drain, and the deadline comes.   *)
(* Nothing is asked of clients, handlers, pumps or the upstream.           *)
(***************************************************************************)
ServerFairSpec ==
  /\ ServerSpec
  /\ WF_serverVars(Arm) /\ WF_serverVars(Receive)
  /\ WF_serverVars(DrainStep) /\ WF_serverVars(DeadlinePasses)

-----------------------------------------------------------------------------
ServerTypeOK ==
  /\ sent \in 0 .. MaxSignals /\ watch \in 0 .. MaxSignals
  /\ listener \in {"arming", "waiting", "stopped"} /\ pending \in BOOLEAN
  /\ serve \in {"accepting", "closing"}
  /\ stage \in [Requests -> Open \cup {"away", "closed"}]
  /\ pump \in [Requests -> {"none", "running", "ok", "error", "summarized", "abandoned"}]
  /\ guards \subseteq Requests
  /\ total \in Nat /\ ok \in Nat /\ err \in Nat
  /\ rejected \in Nat /\ departed \in Nat
  /\ drain \in {"serving", "draining", "polling", "exited"} /\ late \in BOOLEAN
  /\ outcome \in {"none", "ConnectionsClosed", "DrainTimedOut", "Forced"}

Running == {r \in Requests : stage[r] = "working" \/ pump[r] = "running"}

(***************************************************************************)
(* A received signal ends the process, whatever clients, handlers, pumps   *)
(* and the upstream do: the drain is bounded (shutdown.rs:20-22).          *)
(***************************************************************************)
SignalEndsProcess == pending ~> drain = "exited"

(***************************************************************************)
(* What the drain's gauge poll reports is what is running: it finds the    *)
(* server idle only when no handler and no detached pump is left           *)
(* (shutdown.rs:141-144, InFlightGuard, the guard moved into the pump).    *)
(***************************************************************************)
GaugeIsAuthoritative ==
  [][drain = "polling" /\ outcome' = "ConnectionsClosed" => Running = {}]_serverVars

(***************************************************************************)
(* A request whose client is still there is cut off by the exit only when  *)
(* the deadline has passed or the operator has signalled twice: one signal *)
(* is never taken for two (drain_until_idle, wait_for_force, armed_at).    *)
(***************************************************************************)
CutOff == {r \in Running : stage[r] # "closed"}

CutsOffOnlyLate ==
  [][drain # "exited" /\ drain' = "exited" /\ CutOff # {} => late \/ sent > 1]_serverVars

(***************************************************************************)
(* The counters account for every request exactly once: it is in flight,   *)
(* or waits for its summary task, or its client left, or it has one        *)
(* outcome; bodies that could not be read are errors without a request     *)
(* (record_request, record_ok, record_error, InFlightGuard).               *)
(***************************************************************************)
Unsummarized == {r \in Requests : pump[r] \in {"ok", "error"}}

OutcomesBalance ==
  total + rejected = ok + err + InFlight + Cardinality(Unsummarized) + departed
=============================================================================
