-------------------------------- MODULE Pump --------------------------------
(***************************************************************************)
(* The pump task of one streamed response, with its client, its upstream,  *)
(* its watchdog and the task that records the request: stream_response     *)
(* (server/orchestrator.rs) and responses_stream_response                  *)
(* (server/responses_pump.rs), which differ at [DONE] (Done) and in what   *)
(* they make of a client that leaves at the end (SendFails, Flush).        *)
(*                                                                         *)
(* Every chunk of bytes holds one line, or none ("part"); a "note" is a    *)
(* line without progress, "delta" one with output, and "tool_calls" and    *)
(* "stop" carry a finish_reason.  Every line but a "part" may make the     *)
(* converter write: the first one starts the message, and progress may be  *)
(* hidden.  What it writes is "bytes", or "end" with the last event.       *)
(*                                                                         *)
(* Time is counted in ping intervals.  It passes only while the pump waits *)
(* for a timer, for bytes or for room in the channel: a step of the pump   *)
(* takes no time.                                                          *)
(***************************************************************************)
EXTENDS Watch, Naturals, Sequences

CONSTANTS
  LimitChoices, (* the timeouts that may be configured                     *)
  MaxAge,       (* a limit on the ages that are told apart                 *)
  Room,         (* the channel's capacity                                  *)
  MaxArrivals,  (* what the upstream sends                                 *)
  MaxBuffered   (* of it, what may wait to be read                         *)

(***************************************************************************)
(* The stream idle timer is on, or both of the timers on progress are.     *)
(***************************************************************************)
BoundsSilence(limit) ==
  \/ limit["stream_idle"] # 0
  \/ limit["first_semantic"] # 0 /\ limit["semantic_idle"] # 0

ASSUME PumpAssumption ==
  /\ LimitChoices \subseteq Limits
  /\ \A limit \in LimitChoices :
       /\ BoundsSilence(limit)
       /\ \A k \in StallKinds : limit[k] <= MaxAge
  /\ MaxAge \in Nat /\ MaxAge < Far
  /\ Room \in Nat \ {0} /\ MaxArrivals \in Nat /\ MaxBuffered \in Nat \ {0}

FinishReasons == {"tool_calls", "stop"}
Lines == {"part", "note", "delta", "done"} \cup FinishReasons
Ends  == {"eof", "broken"}

VARIABLES
  frontend,  (* "messages" or "responses": which of the two pumps           *)
  limit,     (* the timeouts                                               *)
  pc, watch,
  pingDue,   (* the ping timer has elapsed                                 *)
  finish,    (* the converter's finish_reason                              *)
  out,       (* written and not yet in the channel                         *)
  chan,      (* the channel to the response body                           *)
  terminal,  (* the outcome the pump has decided on                        *)
  stats,     (* the stats channel: "open", an outcome, or "dropped"        *)
  pumpDone,  (* the pump_done channel: "open", "sent" or "dropped"         *)
  inFlight,  (* the in-flight guard is held                                *)
  stall,     (* the stall reported                                         *)
  shadow,    (* of the session: as before, "stored" or "cleared"           *)
  recorded,  (* by the summary task: "none", "ok", "error"                 *)
  client,    (* "here" or "gone"                                           *)
  seenEnd,   (* the client has read the end of the message                 *)
  input,     (* arrived from the upstream and not read                     *)
  waited,    (* what is in input has been there for a while                *)
  arrivals, upstreamEnded

clientVars   == <<client, seenEnd>>
upstreamVars == <<arrivals, upstreamEnded>>
inputVars    == <<input, waited>>
doneVars     == <<stats, pumpDone, inFlight>>
vars == <<frontend, limit, pc, watch, pingDue, finish, out, chan, terminal,
          doneVars, stall, shadow, recorded, clientVars, inputVars, upstreamVars>>

Init ==
  /\ frontend \in {"messages", "responses"} /\ limit \in LimitChoices
  /\ pc = "select" /\ watch = NewWatch
  /\ pingDue = TRUE       \* the first tick of an interval is immediate
  /\ finish = "none" /\ out = "none" /\ chan = << >> /\ terminal = "none"
  /\ stats = "open" /\ pumpDone = "open" /\ inFlight = TRUE
  /\ stall = "none" /\ shadow = "before" /\ recorded = "none"
  /\ client = "here" /\ seenEnd = FALSE
  /\ input = << >> /\ waited = FALSE /\ arrivals = 0 /\ upstreamEnded = FALSE

-----------------------------------------------------------------------------
(***************************************************************************)
(* The branches of the select, in its biased order.                        *)
(***************************************************************************)
\* The task returns: what it owns is dropped.
Return(done) ==
  /\ pc' = "done" /\ inFlight' = FALSE
  /\ pumpDone' = done

\* close_watch.closed().
ClientLeft ==
  /\ pc = "select" /\ client = "gone"
  /\ Return("sent") /\ stats' = "dropped"
  /\ UNCHANGED <<frontend, limit, watch, pingDue, finish, out, chan, terminal, stall,
                 shadow, recorded, clientVars, inputVars, upstreamVars>>

Selects == pc = "select" /\ client = "here"

\* Mutant of Ping: the timer is not set again.
PingStaysDue ==
  /\ Selects /\ pingDue
  /\ out' = "bytes" /\ pc' = "sending"
  /\ UNCHANGED <<frontend, limit, watch, pingDue, finish, chan, terminal, doneVars, stall,
                 shadow, recorded, clientVars, inputVars, upstreamVars>>

Ping ==
  /\ Selects /\ pingDue
  /\ pingDue' = FALSE /\ out' = "bytes" /\ pc' = "sending"
  /\ UNCHANGED <<frontend, limit, watch, finish, chan, terminal, doneVars, stall,
                 shadow, recorded, clientVars, inputVars, upstreamVars>>

\* Mutant of Bookkeeping: a turn with tool calls is taken for a final answer.
BookkeepingClears == IF finish = "none" THEN shadow ELSE "cleared"

Bookkeeping ==
  IF finish = "tool_calls" THEN "stored"
  ELSE IF finish = "stop" THEN "cleared" ELSE shadow

\* finish: the last events are written and the shadow is brought up to date.
FinishStream(outcome) ==
  /\ out' = "end" /\ shadow' = Bookkeeping
  /\ terminal' = outcome
  /\ pc' = "flushing"

DeadlinePassed == NextDeadline(watch, limit) <= 0

Stall ==
  /\ Selects /\ ~ pingDue /\ DeadlinePassed
  /\ Check(watch, limit) # "none"
  /\ stall' = Check(watch, limit)
  /\ FinishStream("error")
  /\ UNCHANGED <<frontend, limit, watch, pingDue, finish, chan, doneVars, recorded,
                 clientVars, inputVars, upstreamVars>>

Reads(item) ==
  /\ Selects /\ ~ pingDue /\ ~ DeadlinePassed
  /\ input # << >> /\ Head(input) = item
  /\ input' = Tail(input) /\ waited' = (waited /\ Tail(input) # << >>)
  /\ UNCHANGED <<frontend, limit, pingDue, chan, doneVars, stall, recorded, clientVars,
                 upstreamVars>>

Unfinished == IF finish = "none" THEN "error" ELSE "ok"

UpstreamEnds(end) ==
  /\ Reads(end)
  /\ FinishStream(IF end = "broken" THEN "error" ELSE Unfinished)
  /\ UNCHANGED <<watch, finish>>

\* The Messages pump reports no error at [DONE], whatever came before.
Done ==
  /\ Reads("done")
  /\ watch' = OnEvent(OnBytes(watch))
  /\ FinishStream(IF frontend = "messages" THEN "ok" ELSE Unfinished)
  /\ UNCHANGED finish

Watched(line) ==
  IF line = "part" THEN OnBytes(watch)
  ELSE IF line = "note" THEN OnEvent(OnBytes(watch))
  ELSE OnSemantic(OnEvent(OnBytes(watch)))

Line(line) ==
  /\ line # "done" /\ Reads(line)
  /\ watch' = Watched(line)
  /\ finish' = IF line \in FinishReasons THEN line ELSE finish
  /\ \/ line # "part" /\ out' = "bytes" /\ pc' = "sending"
     \/ UNCHANGED <<out, pc>>
  /\ UNCHANGED <<terminal, shadow>>

(***************************************************************************)
(* Sending: the task waits for room; a send fails once the body is gone,   *)
(* and then the pump returns without an outcome.                           *)
(***************************************************************************)
HasRoom == client = "here" /\ Len(chan) < Room

\* The Responses pump sends the last events in its loop, too.
SendFails ==
  /\ pc = "sending" \/ (pc = "flushing" /\ frontend = "responses")
  /\ client = "gone"
  /\ Return("dropped") /\ stats' = "dropped"
  /\ UNCHANGED <<frontend, limit, watch, pingDue, finish, out, chan, terminal, stall,
                 shadow, recorded, clientVars, inputVars, upstreamVars>>

Send ==
  /\ pc = "sending" /\ HasRoom
  /\ chan' = Append(chan, out) /\ out' = "none" /\ pc' = "select"
  /\ UNCHANGED <<frontend, limit, watch, pingDue, finish, terminal, doneVars, stall,
                 shadow, recorded, clientVars, inputVars, upstreamVars>>

\* Mutant of Flush: the last events are dropped when there is no room.
TryFlush ==
  /\ pc = "flushing"
  /\ chan' = IF HasRoom THEN Append(chan, out) ELSE chan
  /\ out' = "none" /\ pc' = "closing"
  /\ UNCHANGED <<frontend, limit, watch, pingDue, finish, terminal, doneVars, stall,
                 shadow, recorded, clientVars, inputVars, upstreamVars>>

\* The last events; the Messages pump ignores that nobody takes them.
Flush ==
  /\ pc = "flushing" /\ (HasRoom \/ (client = "gone" /\ frontend = "messages"))
  /\ chan' = IF HasRoom THEN Append(chan, out) ELSE chan
  /\ out' = "none" /\ pc' = "closing"
  /\ UNCHANGED <<frontend, limit, watch, pingDue, finish, terminal, doneVars, stall,
                 shadow, recorded, clientVars, inputVars, upstreamVars>>

\* PumpItem::Finished, which the body skips, then the outcome.
SendFinished ==
  /\ pc = "closing" /\ (HasRoom \/ client = "gone")
  /\ chan' = IF HasRoom THEN Append(chan, "finished") ELSE chan
  /\ Return("sent") /\ stats' = terminal
  /\ UNCHANGED <<frontend, limit, watch, pingDue, finish, out, terminal, stall,
                 shadow, recorded, clientVars, inputVars, upstreamVars>>

\* The summary task: an outcome is recorded if one was sent.
Record ==
  /\ pumpDone = "sent" /\ stats \notin {"open", "dropped"} /\ recorded = "none"
  /\ recorded' = stats
  /\ UNCHANGED <<frontend, limit, pc, watch, pingDue, finish, out, chan, terminal,
                 doneVars, stall, shadow, clientVars, inputVars, upstreamVars>>

(***************************************************************************)
(* The client, the upstream and time.                                      *)
(***************************************************************************)
ClientReads ==
  /\ client = "here" /\ chan # << >>
  /\ chan' = Tail(chan)
  /\ seenEnd' = (seenEnd \/ Head(chan) = "end")
  /\ UNCHANGED <<frontend, limit, pc, watch, pingDue, finish, out, terminal, doneVars,
                 stall, shadow, recorded, client, inputVars, upstreamVars>>

ClientLeaves ==
  /\ client = "here" /\ client' = "gone" /\ chan' = << >>
  /\ UNCHANGED <<frontend, limit, pc, watch, pingDue, finish, out, terminal, doneVars,
                 stall, shadow, recorded, seenEnd, inputVars, upstreamVars>>

Arrives(item) ==
  /\ pc # "done" /\ ~ upstreamEnded
  /\ arrivals < MaxArrivals /\ Len(input) < MaxBuffered
  /\ input' = Append(input, item)
  /\ arrivals' = arrivals + 1
  /\ upstreamEnded' = (item \in Ends) /\ UNCHANGED waited
  /\ UNCHANGED <<frontend, limit, pc, watch, pingDue, finish, out, chan, terminal,
                 doneVars, stall, shadow, recorded, clientVars>>

Older(age) == IF age = MaxAge THEN age ELSE age + 1

PumpWaits ==
  /\ client = "here"
  /\ \/ pc \in {"sending", "flushing", "closing"} /\ ~ HasRoom
     \/ pc = "select" /\ ~ pingDue /\ ~ DeadlinePassed /\ input = << >>

Tick ==
  /\ PumpWaits
  /\ pingDue' = TRUE
  /\ watch' = [watch EXCEPT !.started = Older(@), !.last_byte = Older(@),
                            !.last_semantic = Older(@)]
  /\ waited' = (input # << >>)
  /\ UNCHANGED <<frontend, limit, pc, finish, out, chan, terminal, doneVars, stall,
                 shadow, recorded, clientVars, input, arrivals, upstreamEnded>>

Ended == pc = "done" /\ pumpDone # "open" /\ UNCHANGED vars

PumpStep ==
  \/ ClientLeft \/ Ping \/ Stall \/ Done
  \/ \E item \in Lines : Line(item)
  \/ \E item \in Ends : UpstreamEnds(item)
  \/ SendFails \/ Send \/ Flush \/ SendFinished

Next ==
  \/ PumpStep \/ Record \/ ClientReads \/ ClientLeaves \/ Tick \/ Ended
  \/ \E item \in Lines \cup Ends : Arrives(item)

Spec == Init /\ [][Next]_vars

(***************************************************************************)
(* The runtime polls both tasks, time passes, and a client reads or leaves. *)
(* In the end the client reads within a ping interval: one that is always  *)
(* slower keeps the pump busy with pings, which the select prefers.        *)
(***************************************************************************)
ClientKeepsUp == <>[][Tick => chan = << >>]_vars

FairSpec ==
  /\ Spec
  /\ WF_vars(PumpStep) /\ WF_vars(Record) /\ WF_vars(Tick)
  /\ WF_vars(ClientReads \/ ClientLeaves)
  /\ ClientKeepsUp

-----------------------------------------------------------------------------
TypeOK ==
  /\ frontend \in {"messages", "responses"} /\ limit \in LimitChoices
  /\ pc \in {"select", "sending", "flushing", "closing", "done"}
  /\ watch \in Watches /\ watch.started <= MaxAge
  /\ pingDue \in BOOLEAN
  /\ finish \in {"none"} \cup FinishReasons
  /\ out \in {"none", "bytes", "end"}
  /\ chan \in Seq({"bytes", "end", "finished"}) /\ Len(chan) <= Room
  /\ terminal \in {"none", "ok", "error"}
  /\ stats \in {"open", "dropped", "ok", "error"}
  /\ pumpDone \in {"open", "sent", "dropped"} /\ inFlight \in BOOLEAN
  /\ stall \in {"none"} \cup StallKinds
  /\ shadow \in {"before", "stored", "cleared"} /\ recorded \in {"none", "ok", "error"}
  /\ client \in {"here", "gone"} /\ seenEnd \in BOOLEAN
  /\ input \in Seq(Lines \cup Ends) /\ upstreamEnded \in BOOLEAN
  /\ waited \in BOOLEAN /\ arrivals \in 0 .. MaxArrivals

\* The shadow is what the finish reason asks for.
UpToDate ==
  shadow = IF finish = "tool_calls" THEN "stored"
           ELSE IF finish = "stop" THEN "cleared" ELSE "before"

(***************************************************************************)
(* When the client has read the end of the message, the shadow is up to    *)
(* date: the next request of the session, with the results of the tools,   *)
(* may come at once (FinishStream, before the events are sent).            *)
(***************************************************************************)
ShadowReadyAtEnd == seenEnd => UpToDate

(***************************************************************************)
(* The sleep until the deadline never ends without a stall, which would    *)
(* make the pump spin (next_deadline against check).                       *)
(***************************************************************************)
WakesToStall == DeadlinePassed => Check(watch, limit) # "none"

\* The client has the end of the message, or it is in the channel.
EndWritten == seenEnd \/ \E n \in DOMAIN chan : chan[n] = "end"

(***************************************************************************)
(* An outcome is recorded only when the client has the end of the message, *)
(* has it in its channel, or has left.                                     *)
(***************************************************************************)
RecordedAfterEnd == recorded # "none" => EndWritten \/ client = "gone"

(***************************************************************************)
(* The in-flight guard is released, even when the upstream falls silent or *)
(* the client stops reading and leaves (every path of the pump task).      *)
(***************************************************************************)
GuardReleased == <> ~ inFlight

(***************************************************************************)
(* A client that stays reads the end, and then the request is recorded.    *)
(***************************************************************************)
StreamCompletes == <>(client = "gone" \/ (seenEnd /\ recorded # "none"))

(***************************************************************************)
(* What stream_watch.rs:60 says in the error the client is given: the      *)
(* upstream stream was idle, with no bytes, beyond the configured limit.   *)
(* At least no bytes have been waiting for the pump to read them.          *)
(***************************************************************************)
IdleMeansSilence ==
  [][stall' = "stream_idle" /\ stall = "none" => ~ waited]_vars
==============================================================================
