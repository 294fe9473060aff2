------------------------------ MODULE Generate ------------------------------
(***************************************************************************)
(* One logical generation (lobsterai/upstream.rs): choose an account, send *)
(* the request, look at the head of the answer, and either hand the stream *)
(* to the caller, retry, fail over or stop.                                *)
(*                                                                         *)
(* The other requests and the housekeeping task are the environment: they  *)
(* load, drop, cool and revive any account at any time.  pick is what Pool *)
(* shows of it (PickIsSound): it returns a loaded account that is healthy  *)
(* for the model, or none when there is none.  force_refresh is what       *)
(* Refresh shows of it: it ends, with or without success.                  *)
(*                                                                         *)
(* The body of a 200 answer is a sequence of SSE frames, each received in  *)
(* two halves, so a chunk may end within a frame.  A "note" frame has no   *)
(* data (a comment, or [DONE]); "quota" is the error frame with code       *)
(* 40201, "fault" any other error frame.  The first half of a huge frame,  *)
(* of whatever kind, is already beyond MAX_PREFIX_INSPECT_BYTES.           *)
(***************************************************************************)
EXTENDS Naturals, Sequences, FiniteSets

CONSTANTS Accounts, NoAccount,
          Bodies    (* the bodies a 200 answer may have *)

FrameKinds == {"note", "data", "quota", "fault"}
Frames     == [kind : FrameKinds, huge : BOOLEAN]

ASSUME GenerateAssumption ==
  /\ IsFiniteSet(Accounts) /\ NoAccount \notin Accounts
  /\ Bodies \subseteq Seq(Frames)

VARIABLES
  loaded,    (* the pool's accounts                                        *)
  cooling,   (* the accounts that are not healthy for the model            *)
  pc,        (* where the generation is                                    *)
  cred,      (* the account of the current attempt                         *)
  retried,   (* retried_401_account                                        *)
  failovers, (* failover_count                                             *)
  body,      (* the body of the 200 answer being looked at                 *)
  got,       (* half-frames of it in prefix                                *)
  last,      (* how the last attempt was answered                          *)
  sends,     (* attempts made                                              *)
  left       (* the accounts it had to leave, not revived since             *)

poolVars == <<loaded, cooling>>
peekVars == <<body, got>>
vars == <<poolVars, pc, cred, retried, failovers, peekVars, last, sends, left>>

Steps == {"picking", "sent", "peeking", "refreshing", "counting", "started", "failed"}

Healthy == loaded \ cooling
Ended   == pc \in {"started", "failed"}

\* note_status, note_hard_credit: the account of the attempt cools down.
CoolDown == cooling' = cooling \cup {cred}

Leave == left' = left \cup {cred}

\* note_error_threshold: it does so with every third error.
MayCoolDown == cooling' \in {cooling, cooling \cup {cred}}

-----------------------------------------------------------------------------
Begin ==
  /\ pc = "picking" /\ cred = NoAccount /\ retried = NoAccount
  /\ failovers = 0 /\ body = << >> /\ got = 0 /\ last = "none" /\ sends = 0
  /\ left = {}

Init == loaded \in SUBSET Accounts /\ cooling \in SUBSET Accounts /\ Begin

\* The caller is done with one generation and begins another.
Again ==
  /\ Ended
  /\ pc' = "picking" /\ cred' = NoAccount /\ retried' = NoAccount
  /\ failovers' = 0 /\ body' = << >> /\ got' = 0 /\ last' = "none" /\ sends' = 0
  /\ left' = {}
  /\ UNCHANGED poolVars

\* Mutant of Choices: the account that was refreshed is picked anew.
ChoicesOfPick == Healthy

\* The account refreshed after a 401, while it is loaded; else what pick says.
Choices == IF retried \in loaded THEN {retried} ELSE Healthy

\* The request is sent; the peek at its answer will start with no prefix.
Attempt(u) ==
  /\ pc = "picking" /\ u \in Choices
  /\ cred' = u
  /\ pc' = "sent" /\ body' = << >> /\ got' = 0
  /\ sends' = sends + 1
  /\ UNCHANGED <<poolVars, retried, failovers, last, left>>

\* 429 when every globally healthy account is rate-limited, else 503.
NoneHealthy ==
  /\ pc = "picking" /\ Choices = {}
  /\ pc' = "failed"
  /\ UNCHANGED <<poolVars, cred, retried, failovers, peekVars, last, sends, left>>

(***************************************************************************)
(* The answer to an attempt.                                               *)
(***************************************************************************)
\* send() fails.
TransportError ==
  /\ pc = "sent"
  /\ pc' = "failed" /\ last' = "transport"
  /\ MayCoolDown
  /\ UNCHANGED <<loaded, cred, retried, failovers, peekVars, sends, left>>

Answer200(b) ==
  /\ pc = "sent"
  /\ pc' = "peeking" /\ body' = b
  /\ UNCHANGED <<poolVars, cred, retried, failovers, got, last, sends, left>>

\* 402, 403 or 429 with a body that speaks of credits.
OutOfCredits ==
  /\ pc = "sent"
  /\ pc' = "counting" /\ last' = "credits"
  /\ CoolDown /\ Leave
  /\ UNCHANGED <<loaded, cred, retried, failovers, peekVars, sends>>

Unauthorized ==
  /\ pc = "sent" /\ last' = "401"
  /\ IF retried = NoAccount
     THEN pc' = "refreshing" /\ UNCHANGED cooling
     ELSE pc' = "failed" /\ CoolDown
  /\ UNCHANGED <<loaded, cred, retried, failovers, peekVars, sends, left>>

\* Mutant of RateLimited: the account does not cool down.
RateLimitedOnly ==
  /\ pc = "sent"
  /\ pc' = "counting" /\ last' = "429"
  /\ Leave
  /\ UNCHANGED <<poolVars, cred, retried, failovers, peekVars, sends>>

RateLimited ==
  /\ pc = "sent"
  /\ pc' = "counting" /\ last' = "429"
  /\ CoolDown /\ Leave
  /\ UNCHANGED <<loaded, cred, retried, failovers, peekVars, sends>>

Forbidden ==
  /\ pc = "sent"
  /\ pc' = "failed" /\ last' = "403"
  /\ CoolDown
  /\ UNCHANGED <<loaded, cred, retried, failovers, peekVars, sends, left>>

\* Mutant of ServerError: a server error is retried on another account.
ServerErrorRetried ==
  /\ pc = "sent"
  /\ pc' = "counting" /\ last' = "5xx"
  /\ UNCHANGED <<poolVars, cred, retried, failovers, peekVars, sends, left>>

ServerError ==
  /\ pc = "sent"
  /\ pc' = "failed" /\ last' = "5xx"
  /\ UNCHANGED <<poolVars, cred, retried, failovers, peekVars, sends, left>>

OtherStatus ==
  /\ pc = "sent"
  /\ pc' = "failed" /\ last' = "other"
  /\ MayCoolDown
  /\ UNCHANGED <<loaded, cred, retried, failovers, peekVars, sends, left>>

(***************************************************************************)
(* Failover and the retry after a refresh.                                 *)
(***************************************************************************)
AtLeastOne(n) == IF n = 0 THEN 1 ELSE n

\* Mutant of Exhausted: a generation never gives up.
NeverExhausted == FALSE

\* The pool's size is read now, not when the generation began.
Exhausted == failovers' > AtLeastOne(Cardinality(loaded))

Failover ==
  /\ pc = "counting"
  /\ failovers' = failovers + 1
  /\ pc' = IF Exhausted THEN "failed" ELSE "picking"
  /\ UNCHANGED <<poolVars, cred, retried, peekVars, last, sends, left>>

RefreshDone ==
  /\ pc = "refreshing"
  /\ pc' = "picking" /\ retried' = cred
  /\ UNCHANGED <<poolVars, cred, failovers, peekVars, last, sends, left>>

RefreshFailed ==
  /\ pc = "refreshing"
  /\ pc' = "failed"
  /\ CoolDown
  /\ UNCHANGED <<loaded, cred, retried, failovers, peekVars, last, sends, left>>

(***************************************************************************)
(* peek_stream_error: scan the complete frames of the prefix, then decide. *)
(***************************************************************************)
Complete == got \div 2

IsData(f)  == f.kind = "data"
IsError(f) == f.kind \in {"quota", "fault"}

\* Mutant of FoundAt: an error frame counts wherever it is.
FoundAnywhere(i) == i <= Complete /\ IsError(body[i])

\* scan_prefix_for_stream_error finds its error in frame i.
FoundAt(i) ==
  /\ i <= Complete /\ IsError(body[i])
  /\ \A j \in 1 .. i - 1 : ~ IsError(body[j]) /\ ~ IsData(body[j])

Errored == {i \in DOMAIN body : FoundAt(i)}

\* Mutant of HeadSeen: any byte of the body makes the head healthy.
AnyBytesSeen == got > 0

\* As many bytes as the peek is willing to hold, and no frame boundary.
Inconclusive == Complete = 0 /\ got > 0 /\ body[1].huge

HeadSeen == Complete > 0 \/ Inconclusive

Chunk(n) ==
  /\ pc = "peeking" /\ Errored = {} /\ ~ HeadSeen
  /\ n > 0 /\ got + n <= 2 * Len(body)
  /\ got' = got + n
  /\ UNCHANGED <<poolVars, pc, cred, retried, failovers, body, last, sends, left>>

\* Mutant of PeekUnavailable: the end of the body is not noticed.
EndOfBodyIgnored ==
  /\ pc = "peeking" /\ Errored = {} /\ ~ HeadSeen
  /\ got < 2 * Len(body)
  /\ pc' = "failed" /\ last' = "transport"
  /\ MayCoolDown
  /\ UNCHANGED <<loaded, cred, retried, failovers, peekVars, sends, left>>

\* The transport fails, or the body ends, before there is a decision.
PeekUnavailable ==
  /\ pc = "peeking" /\ Errored = {} /\ ~ HeadSeen
  /\ pc' = "failed" /\ last' = "transport"
  /\ MayCoolDown
  /\ UNCHANGED <<loaded, cred, retried, failovers, peekVars, sends, left>>

PeekQuota ==
  /\ pc = "peeking" /\ \E i \in Errored : body[i].kind = "quota"
  /\ pc' = "counting" /\ last' = "quota"
  /\ CoolDown /\ Leave
  /\ UNCHANGED <<loaded, cred, retried, failovers, peekVars, sends>>

PeekFault ==
  /\ pc = "peeking" /\ \E i \in Errored : body[i].kind = "fault"
  /\ pc' = "failed" /\ last' = "fault"
  /\ MayCoolDown
  /\ UNCHANGED <<loaded, cred, retried, failovers, peekVars, sends, left>>

PeekHealthy ==
  /\ pc = "peeking" /\ Errored = {} /\ HeadSeen
  /\ pc' = "started" /\ last' = "ok"
  /\ UNCHANGED <<poolVars, cred, retried, failovers, peekVars, sends, left>>

(***************************************************************************)
(* Other tasks, users and time change the pool.                            *)
(***************************************************************************)
PoolChanges ==
  /\ \E u \in Accounts :
       \/ loaded' \in {loaded \cup {u}, loaded \ {u}} /\ UNCHANGED <<cooling, left>>
       \/ cooling' = cooling \cup {u} /\ UNCHANGED <<loaded, left>>
       \/ cooling' = cooling \ {u} /\ left' = left \ {u} /\ UNCHANGED loaded
  /\ UNCHANGED <<pc, cred, retried, failovers, peekVars, last, sends>>

Picking   == (\E u \in Accounts : Attempt(u)) \/ NoneHealthy
Refreshed == RefreshDone \/ RefreshFailed
Answered  ==
  \/ TransportError \/ OutOfCredits \/ Unauthorized \/ RateLimited
  \/ Forbidden \/ ServerError \/ OtherStatus
  \/ \E b \in Bodies : Answer200(b)
Arrives == PeekUnavailable \/ \E n \in 1 .. 2 * Len(body) : Chunk(n)
Decided == PeekQuota \/ PeekFault \/ PeekHealthy

Next ==
  \/ Picking \/ Answered \/ Failover \/ Refreshed
  \/ Arrives \/ Decided \/ Again \/ PoolChanges

Spec == Init /\ [][Next]_vars

(***************************************************************************)
(* The proxy's own steps are taken; a refresh ends within its timeout.     *)
(***************************************************************************)
ProxyFairness ==
  WF_vars(Picking) /\ WF_vars(Failover) /\ WF_vars(Refreshed) /\ WF_vars(Decided)

\* What the code takes from the upstream: it answers, or the connection fails.
UpstreamFairness == WF_vars(Answered) /\ WF_vars(Arrives)

FairSpec == Spec /\ ProxyFairness /\ UpstreamFairness

-----------------------------------------------------------------------------
TypeOK ==
  /\ loaded \subseteq Accounts /\ cooling \subseteq Accounts
  /\ pc \in Steps
  /\ cred \in Accounts \cup {NoAccount} /\ retried \in Accounts \cup {NoAccount}
  /\ failovers \in Nat /\ sends \in Nat /\ left \subseteq Accounts
  /\ body \in Seq(Frames) /\ got \in 0 .. 2 * Len(body)
  /\ last \in {"none", "transport", "credits", "401", "429", "403", "5xx", "other",
               "quota", "fault", "ok"}

(***************************************************************************)
(* A generation makes a bounded number of attempts, whatever the answers   *)
(* and however the pool grows, shrinks and recovers meanwhile: one per     *)
(* failover, one more, and one after a refresh (failover_count).           *)
(***************************************************************************)
AttemptsBounded == sends <= AtLeastOne(Cardinality(Accounts)) + 2

(***************************************************************************)
(* However the upstream cuts the body into chunks, a stream that is handed *)
(* over starts with an error in one case only: when the head was beyond    *)
(* the limit of the peek before a frame of it was complete.  Frames behind *)
(* the first are not spoken of: what was not received is not looked at     *)
(* (peek_stream_error).                                                    *)
(***************************************************************************)
ErrorHeadNeverStarts == pc = "started" /\ IsError(body[1]) => Inconclusive

(***************************************************************************)
(* Another attempt follows only a 401, a 429, a refusal for want of        *)
(* credits, or an error frame ahead of all data: nothing is sent again     *)
(* after a transport error, a 5xx, a 403 or output of the model.           *)
(***************************************************************************)
SafeToReplay ==
  /\ last \in {"none", "401", "429", "credits", "quota"}
  /\ last = "quota" =>
       \E i \in 1 .. Complete :
          body[i].kind = "quota" /\ \A j \in 1 .. i - 1 : ~ IsData(body[j])

ReplaysOnlyWhenSafe == [][sends' > sends => SafeToReplay]_vars

(***************************************************************************)
(* The attempt after a refresh is made with the refreshed account, cooling *)
(* or not, as long as it is loaded (retried_401_account).                  *)
(***************************************************************************)
RetryStaysOnAccount ==
  [][last = "401" /\ sends' > sends /\ cred \in loaded => cred' = cred]_vars

(***************************************************************************)
(* An account left after a 429, a refusal for want of credits or a quota   *)
(* frame is tried again only if someone else revived it meanwhile, or if   *)
(* it is the one account pinned by a refresh after a 401, to which the     *)
(* generation goes back though it is cooling.  The step that leaves an     *)
(* account has cooled it (note_status and note_hard_credit in generate,    *)
(* against pick).                                                          *)
(***************************************************************************)
NoReturn == [][sends' > sends => cred' \notin left \/ cred' = retried]_vars

(***************************************************************************)
(* A generation ends, under an upstream that answers or breaks.            *)
(***************************************************************************)
GenerationEnds == ~ Ended ~> Ended

(***************************************************************************)
(* What upstream.rs:526-531 promises of the peek, without a word on its    *)
(* limit: an error that heads the body is noticed before the stream is     *)
(* handed over.  An oversized error frame is not.                          *)
(***************************************************************************)
ErrorHeadNoticed == pc = "started" => ~ IsError(body[1])

(***************************************************************************)
(* What upstream.rs:8 says: after a 429 the next attempt is made with      *)
(* another account.  The account left is cooling still when the next       *)
(* attempt is made, and another one is healthy.                            *)
(***************************************************************************)
FailsOver ==
  [][sends' > sends /\ cred \in left /\ Healthy # {} => cred' # cred]_vars
=============================================================================
