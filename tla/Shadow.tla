------------------------------- MODULE Shadow -------------------------------
(***************************************************************************)
(* The reasoning shadow (reasoning_shadow.rs) under the conversations that *)
(* use it: what a finished turn stores or clears (StreamPump.finish), and  *)
(* what restore_into puts back into the history the client sends with the  *)
(* next request, before strip_historical_reasoning (deepseek/policy.rs).   *)
(*                                                                         *)
(* A history is a sequence of human messages and of assistant turns with   *)
(* their tool calls; tool results are left out.  Reasoning is named by the *)
(* session and the position of its turn, and has a size.  An entry carries *)
(* its age; a time of creation is never compared but with now.  A turn in  *)
(* a history carries its age as well, for the properties only.             *)
(***************************************************************************)
EXTENDS Naturals, Sequences, FiniteSetsExt, Deque

CONSTANTS
  Sessions,     (* session fingerprints                                    *)
  CallLists,    (* the lists of tool-call ids a turn may have              *)
  Sizes,        (* the sizes of a turn's reasoning; 0 is none              *)
  MaxEntry,     (* max_entry_bytes                                         *)
  MaxTotal,     (* max_total_bytes                                         *)
  MaxSessions,  (* max_sessions                                            *)
  Ttl,          (* in ticks                                                *)
  MaxMessages   (* of one history                                          *)

ASSUME ShadowAssumption ==
  /\ \A calls \in CallLists : calls \in Seq(Members(calls))
  /\ Sizes \subseteq Nat
  /\ {MaxEntry, MaxTotal, MaxSessions, Ttl, MaxMessages} \subseteq Nat

VARIABLES
  store,    (* sessions: entries by call id, and the bytes counted         *)
  lru,
  total,    (* total_bytes                                                 *)
  history,  (* by session, as the client keeps it                          *)
  waiting,  (* the sessions with a request under way                       *)
  body,     (* by session: the turns whose reasoning its request holds     *)
  lost      (* sessions whose entries were cleared, or dropped for room,   *)
            (* since the last human message                                *)

storeVars == <<store, lru, total>>
vars == <<storeVars, history, waiting, body, lost>>

Human == [calls |-> << >>, size |-> 0, age |-> 0]
IsTurn(m) == m.calls # << >>

Stored == DOMAIN store

Init ==
  /\ store = << >> /\ lru = << >> /\ total = 0
  /\ history = [s \in Sessions |-> << >>]
  /\ waiting = {}
  /\ body = [s \in Sessions |-> << >>]
  /\ lost = {}

-----------------------------------------------------------------------------
(***************************************************************************)
(* The store as a value [map, lru, total].                                 *)
(***************************************************************************)
Current == [map |-> store, lru |-> lru, total |-> total]

Assign(v) == store' = v.map /\ lru' = v.lru /\ total' = v.total

Saturated(a, b) == IF a >= b THEN a - b ELSE 0

\* The sum of the values of f, as the number of units its arguments have.
Units(f) == UNION {{x} \X (1 .. f[x]) : x \in DOMAIN f}
SumOf(f) == Cardinality(Units(f))

BytesOf(v, S) == SumOf([s \in S |-> v.map[s].bytes])

\* remove_session, for every session of S.
Without(v, S) ==
  [map   |-> [s \in DOMAIN v.map \ S |-> v.map[s]],
   lru   |-> Retain(v.lru, Sessions \ S),
   total |-> Saturated(v.total, BytesOf(v, S \cap DOMAIN v.map))]

\* Mutant of Expired: an entry exactly ttl old is expired.
ExpiredAtTtl(e) == e.age >= Ttl

Expired(e) == e.age > Ttl

ExpiredSessions(v) ==
  {s \in DOMAIN v.map : \A id \in DOMAIN v.map[s].entries : Expired(v.map[s].entries[id])}

Fits(v) == v.total <= MaxTotal /\ Cardinality(DOMAIN v.map) <= MaxSessions

FirstOf(n, v) == {v.lru[i] : i \in 1 .. n}

\* The two loops of enforce_limits pop the front until both limits hold.
Evict(v) ==
  LET n == Min({n \in 0 .. Len(v.lru) : n = Len(v.lru) \/ Fits(Without(v, FirstOf(n, v)))})
  IN  Without(v, FirstOf(n, v))

EnforceLimits(v) == Evict(Without(v, ExpiredSessions(v)))

NoSession == [entries |-> << >>, bytes |-> 0]

Ids(calls) == Members(calls)

\* Mutant of Insert: a session that stores again is queued again.
InsertQueued(v, s, calls, entry) ==
  LET old   == IF s \in DOMAIN v.map THEN v.map[s] ELSE NoSession
      added == entry.size * Len(calls)
      new   == [entries |-> [id \in DOMAIN old.entries \cup Ids(calls) |->
                               IF id \in Ids(calls) THEN entry ELSE old.entries[id]],
                bytes   |-> old.bytes + added]
  IN
  [map   |-> [t \in DOMAIN v.map \cup {s} |-> IF t = s THEN new ELSE v.map[t]],
   lru   |-> Append(v.lru, s),
   total |-> v.total + added]

\* The bytes count every id, and count again what is overwritten.
Insert(v, s, calls, entry) ==
  LET old   == IF s \in DOMAIN v.map THEN v.map[s] ELSE NoSession
      added == entry.size * Len(calls)
      new   == [entries |-> [id \in DOMAIN old.entries \cup Ids(calls) |->
                               IF id \in Ids(calls) THEN entry ELSE old.entries[id]],
                bytes   |-> old.bytes + added]
  IN
  [map   |-> [t \in DOMAIN v.map \cup {s} |-> IF t = s THEN new ELSE v.map[t]],
   lru   |-> IF s \in DOMAIN v.map THEN v.lru ELSE Append(v.lru, s),
   total |-> v.total + added]

Ignored(calls, size) == size = 0 \/ calls = << >> \/ size > MaxEntry

Store(s, calls, size, turn) ==
  IF Ignored(calls, size)
  THEN UNCHANGED <<storeVars, lost>>
  ELSE /\ Assign(EnforceLimits(
            Insert(Current, s, calls, [of |-> <<s, turn>>, size |-> size, age |-> 0])))
       /\ lost' = lost \cup (((Stored \ ExpiredSessions(Current)) \cup {s}) \ DOMAIN store')

\* clear_session.
Clear(s) ==
  /\ Assign(IF s \in Stored THEN Without(Current, {s}) ELSE Current)
  /\ lost' = lost \cup {s}

(***************************************************************************)
(* restore: the first of the calls that has an entry decides; an expired   *)
(* entry is dropped and counts as a miss.                                  *)
(***************************************************************************)
Found(s, calls) ==
  IF s \in Stored THEN {i \in DOMAIN calls : calls[i] \in DOMAIN store[s].entries} ELSE {}

FirstFound(s, calls) == calls[Min(Found(s, calls))]

\* Mutant of Hit: the age of an entry is not looked at.
HitAnyAge(s, calls) == Found(s, calls) # {}

Hit(s, calls) ==
  Found(s, calls) # {} /\ ~ Expired(store[s].entries[FirstFound(s, calls)])

Dropped(s, calls) ==
  IF Found(s, calls) # {} /\ ~ Hit(s, calls) THEN {FirstFound(s, calls)} ELSE {}

\* reasoning_epoch_boundary: the newest human message, or past the end.
EpochStart(h) ==
  LET humans == {i \in DOMAIN h : ~ IsTurn(h[i])}
  IN  IF humans = {} THEN Len(h) + 1 ELSE Max(humans)

TurnsOf(h) == {i \in DOMAIN h : IsTurn(h[i]) /\ i >= EpochStart(h)}

-----------------------------------------------------------------------------
(***************************************************************************)
(* The client.                                                             *)
(***************************************************************************)
Asks(s) ==
  /\ s \notin waiting /\ Len(history[s]) < MaxMessages
  /\ history' = [history EXCEPT ![s] = Append(@, Human)]
  /\ lost' = lost \ {s}
  /\ UNCHANGED <<storeVars, waiting, body>>

\* The client gives the conversation up and begins another in the session.
Restarts(s) ==
  /\ s \notin waiting
  /\ history' = [history EXCEPT ![s] = << >>]
  /\ lost' = lost \ {s}
  /\ UNCHANGED <<storeVars, waiting, body>>

(***************************************************************************)
(* A request: restore_into, then the strip of the epochs before.  The      *)
(* client's own history holds no reasoning.  body is emptied at the end.   *)
(***************************************************************************)
Request(s) ==
  LET h     == history[s]
      turns == TurnsOf(h)
      hits  == {i \in turns : Hit(s, h[i].calls)}
      gone  == UNION {Dropped(s, h[i].calls) : i \in turns}
  IN
  /\ s \notin waiting /\ h # << >>
  /\ waiting' = waiting \cup {s}
  /\ body' = [body EXCEPT ![s] =
                [i \in hits |-> store[s].entries[FirstFound(s, h[i].calls)].of]]
  /\ store' = IF s \in Stored
              THEN [store EXCEPT ![s].entries =
                      [id \in DOMAIN @ \ gone |-> @[id]]]
              ELSE store
  /\ UNCHANGED <<lru, total, history, lost>>

(***************************************************************************)
(* Its end: a turn with tool calls, a final answer, or neither when the    *)
(* stream breaks or the client leaves.  An id is not used twice in a       *)
(* session while anything remembers it.                                    *)
(***************************************************************************)
UsedIn(s) ==
  (UNION {Ids(history[s][i].calls) : i \in DOMAIN history[s]})
    \cup (IF s \in Stored THEN DOMAIN store[s].entries ELSE {})

Returns(s) ==
  /\ s \in waiting
  /\ waiting' = waiting \ {s}
  /\ body' = [body EXCEPT ![s] = << >>]

ToolTurn(s, calls, size) ==
  /\ Ids(calls) \cap UsedIn(s) = {} /\ Len(history[s]) < MaxMessages
  /\ Returns(s)
  /\ history' = [history EXCEPT ![s] = Append(@, [calls |-> calls, size |-> size, age |-> 0])]
  /\ Store(s, calls, size, Len(history[s]) + 1)

\* The text of a final answer does not matter to later requests.
Answer(s) == Returns(s) /\ Clear(s) /\ UNCHANGED history

Breaks(s) == Returns(s) /\ UNCHANGED <<storeVars, history, lost>>

(***************************************************************************)
(* A second conversation of the session, such as a subagent's: a client    *)
(* that names its user only has one session for all of them.               *)
(***************************************************************************)
OtherTurn(s, calls, size) ==
  /\ Ids(calls) \cap UsedIn(s) = {}
  /\ Store(s, calls, size, 0)
  /\ UNCHANGED <<history, waiting, body>>

OtherAnswer(s) == Clear(s) /\ UNCHANGED <<history, waiting, body>>

Older(e) == [e EXCEPT !.age = IF @ > Ttl THEN @ ELSE @ + 1]

\* Only turns that may be in the store need their age.
Ages(m) == IsTurn(m) /\ ~ Ignored(m.calls, m.size)

Tick ==
  /\ store' = [s \in Stored |->
                 [store[s] EXCEPT !.entries = [id \in DOMAIN @ |-> Older(@[id])]]]
  /\ history' = [s \in Sessions |-> [i \in DOMAIN history[s] |->
                   IF Ages(history[s][i]) THEN Older(history[s][i]) ELSE history[s][i]]]
  /\ UNCHANGED <<lru, total, waiting, body, lost>>

Next ==
  \/ Tick
  \/ \E s \in Sessions :
       \/ Asks(s) \/ Restarts(s) \/ Request(s) \/ Answer(s) \/ Breaks(s) \/ OtherAnswer(s)
       \/ \E calls \in CallLists, size \in Sizes :
            ToolTurn(s, calls, size) \/ OtherTurn(s, calls, size)

Spec == Init /\ [][Next]_vars

-----------------------------------------------------------------------------
Turn    == Sessions \X Nat
Entry   == [of : Turn, size : 1 .. MaxEntry, age : 0 .. Ttl + 1]
Message == [calls : CallLists \cup {<< >>}, size : Nat, age : 0 .. Ttl + 1]

TypeOK ==
  /\ Stored \subseteq Sessions
  /\ \A s \in Stored : store[s].bytes \in Nat
  /\ \A s \in Stored : \A id \in DOMAIN store[s].entries : store[s].entries[id] \in Entry
  /\ lru \in Seq(Sessions) /\ total \in Nat
  /\ history \in [Sessions -> Seq(Message)]
  /\ waiting \subseteq Sessions /\ lost \subseteq Sessions
  /\ \A s \in Sessions : \A i \in DOMAIN body[s] : body[s][i] \in Turn

(***************************************************************************)
(* The map, the queue and the counter agree, the limits hold, and what is  *)
(* counted is no less than what is kept: the store is bounded after any    *)
(* mix of store, restore, clear, expiry and eviction (enforce_limits).     *)
(***************************************************************************)
Kept(s) == SumOf([id \in DOMAIN store[s].entries |-> store[s].entries[id].size])

StoreConsistent ==
  /\ Members(lru) = Stored /\ Len(lru) = Cardinality(Stored)
  /\ total = BytesOf(Current, Stored)
  /\ \A s \in Stored : Kept(s) <= store[s].bytes
  /\ Fits(Current)

(***************************************************************************)
(* What a request restores to a turn is that turn's own reasoning, of that *)
(* session, not expired, and the turn is of the current epoch              *)
(* (restore_into, strip_historical_reasoning).                             *)
(***************************************************************************)
Begins(s) == s \in waiting' \ waiting

FreshEntry(s, i) ==
  \E id \in Ids(history[s][i].calls) \cap DOMAIN store[s].entries :
     store[s].entries[id].age <= Ttl

LastHuman(s, i) == \A j \in i .. Len(history[s]) : IsTurn(history[s][j])

RestoresOwnTurn ==
  [][\A s \in Sessions : Begins(s) =>
       \A i \in DOMAIN body'[s] :
          body'[s][i] = <<s, i>> /\ LastHuman(s, i) /\ FreshEntry(s, i)]_vars

(***************************************************************************)
(* A tool loop keeps its reasoning: every turn of the epoch that is not    *)
(* older than the ttl, nor oversized, is restored in each request, unless  *)
(* a final answer or the limits took the session's entries.                *)
(***************************************************************************)
KeepsContinuity ==
  [][\A s \in Sessions \ lost : Begins(s) =>
       \A i \in DOMAIN history[s] :
          LET m == history[s][i] IN
          Ages(m) /\ m.age <= Ttl /\ LastHuman(s, i)
            => i \in DOMAIN body'[s]]_vars

(***************************************************************************)
(* What reasoning_shadow.rs:22 says: eviction is by least recent use.  The *)
(* session that has just stored a turn is dropped for room only when no    *)
(* other session is left.                                                  *)
(***************************************************************************)
LeastRecentGoesFirst ==
  [][\A s \in Sessions :
       Len(history'[s]) > Len(history[s]) /\ s \in waiting
         /\ s \in lost' \ lost => DOMAIN store' = {}]_vars
=============================================================================
