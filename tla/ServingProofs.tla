--------------------------- MODULE ServingProofs ---------------------------
(***************************************************************************)
(* Proofs about what serves a request: Generate, for any finite set of     *)
(* accounts and any bodies, and Server around it, for any finite set of    *)
(* requests and any number of signals.                                     *)
(***************************************************************************)
EXTENDS Generate, Server, FiniteSetTheorems, TLAPS

(***************************************************************************)
(* A generation has an account from its first attempt on, and the peek     *)
(* begins with no prefix.                                                  *)
(***************************************************************************)
UnderWay == {"sent", "peeking", "refreshing", "counting"}

AttemptInv ==
  /\ pc \in UnderWay => cred \in Accounts
  /\ pc = "sent" => got = 0

\* What paid for an attempt: the beginning, a failover or the refresh.
Paid == failovers + (IF retried = NoAccount THEN 0 ELSE 1)

Budget == AtLeastOne(Cardinality(Accounts))

BudgetInv ==
  /\ pc = "picking" => sends <= Paid
  /\ pc \in {"sent", "peeking", "counting"} => sends <= Paid + 1
  /\ pc = "refreshing" => sends <= failovers + 1 /\ retried = NoAccount
  /\ Ended => sends <= Budget + 2
  /\ pc # "failed" => failovers <= Budget

\* What the last answer was where another attempt may follow.
AnswerInv ==
  /\ pc = "counting" => last \in {"credits", "429", "quota"}
  /\ pc = "refreshing" => last = "401"
  /\ pc \in {"counting", "refreshing", "picking"} => SafeToReplay
  /\ pc = "picking" /\ last = "401" => retried = cred

\* An account that was left is cooling until someone revives it.
LeftIsCooling == left \subseteq cooling

Facts == AttemptInv /\ BudgetInv /\ AnswerInv /\ LeftIsCooling /\ ErrorHeadNeverStarts

IInv == TypeOK /\ Facts

-----------------------------------------------------------------------------
LEMMA BudgetType ==
  /\ Cardinality(Accounts) \in Nat /\ Budget \in Nat /\ 1 <= Budget
  /\ \A S \in SUBSET Accounts : /\ AtLeastOne(Cardinality(S)) \in Nat
                                /\ AtLeastOne(Cardinality(S)) <= Budget
<1>1. Cardinality(Accounts) \in Nat
  BY GenerateAssumption, FS_CardinalityType
<1>2. \A S \in SUBSET Accounts : Cardinality(S) \in Nat /\ Cardinality(S) <= Cardinality(Accounts)
  BY <1>1, GenerateAssumption, FS_Subset, FS_CardinalityType
<1>3. QED
  BY <1>1, <1>2 DEF Budget, AtLeastOne

LEMMA InitIInv == Init => IInv
<1> SUFFICES ASSUME Init
             PROVE  IInv
  OBVIOUS
<1>1. TypeOK
  BY DEF Init, Begin, TypeOK, Steps
<1>2. AttemptInv /\ BudgetInv /\ LeftIsCooling /\ ErrorHeadNeverStarts
  BY BudgetType DEF Init, Begin, AttemptInv, BudgetInv, Paid, Ended, LeftIsCooling,
                    ErrorHeadNeverStarts, UnderWay
<1>3. AnswerInv
  BY DEF Init, Begin, AnswerInv, SafeToReplay
<1>4. QED
  BY <1>1, <1>2, <1>3 DEF IInv, Facts

(***************************************************************************)
(* The steps of one attempt that leave the budget as it is.                *)
(***************************************************************************)
LEMMA PickingStep ==
  ASSUME IInv, Picking
  PROVE  IInv'
<1> USE BudgetType DEF IInv, Facts, poolVars, peekVars
<1>1. ASSUME NEW u \in Accounts, Attempt(u)
      PROVE  IInv'
  <2> USE <1>1 DEF Attempt
  <2>1. TypeOK'
    BY DEF TypeOK, Steps
  <2>2. AttemptInv' /\ LeftIsCooling' /\ ErrorHeadNeverStarts'
    BY DEF AttemptInv, LeftIsCooling, ErrorHeadNeverStarts, UnderWay
  <2>3. BudgetInv'
    BY DEF TypeOK, BudgetInv, Paid, Ended
  <2>4. AnswerInv'
    BY DEF AnswerInv
  <2>5. QED
    BY <2>1, <2>2, <2>3, <2>4
<1>2. CASE NoneHealthy
  <2> USE <1>2 DEF NoneHealthy
  <2>1. TypeOK'
    BY DEF TypeOK, Steps
  <2>2. AttemptInv' /\ LeftIsCooling' /\ ErrorHeadNeverStarts' /\ AnswerInv'
    BY DEF AttemptInv, LeftIsCooling, ErrorHeadNeverStarts, UnderWay, AnswerInv
  <2>3. BudgetInv'
    BY DEF TypeOK, BudgetInv, Paid, Ended
  <2>4. QED
    BY <2>1, <2>2, <2>3
<1>3. QED
  BY <1>1, <1>2 DEF Picking

(***************************************************************************)
(* An attempt that ends the generation, with the account cooled or not.    *)
(***************************************************************************)
LEMMA Fails ==
  ASSUME IInv, pc \in UnderWay, pc # "counting",
         pc' = "failed", last' = last \/ last' \in {"transport", "401", "403", "5xx", "other", "fault"},
         cooling' \in {cooling, cooling \cup {cred}},
         UNCHANGED <<loaded, cred, retried, failovers, peekVars, sends, left>>
  PROVE  IInv'
<1> USE DEF IInv, Facts, peekVars
<1>1. TypeOK'
  BY DEF TypeOK, Steps, AttemptInv
<1>2. AttemptInv' /\ LeftIsCooling' /\ ErrorHeadNeverStarts' /\ AnswerInv'
  BY DEF AttemptInv, LeftIsCooling, ErrorHeadNeverStarts, UnderWay, AnswerInv
<1>3. BudgetInv'
  BY BudgetType DEF TypeOK, BudgetInv, Paid, Ended, UnderWay
<1>4. QED
  BY <1>1, <1>2, <1>3

(***************************************************************************)
(* An attempt that makes the generation leave its account.                 *)
(***************************************************************************)
LEMMA Leaves ==
  ASSUME IInv, pc \in {"sent", "peeking"},
         pc' = "counting", last' \in {"credits", "429", "quota"}, SafeToReplay',
         CoolDown, Leave,
         UNCHANGED <<loaded, cred, retried, failovers, peekVars, sends>>
  PROVE  IInv'
<1> USE DEF IInv, Facts, peekVars, CoolDown, Leave
<1>1. TypeOK'
  BY DEF TypeOK, Steps, AttemptInv, UnderWay
<1>2. AttemptInv' /\ LeftIsCooling' /\ ErrorHeadNeverStarts' /\ AnswerInv'
  BY DEF AttemptInv, LeftIsCooling, ErrorHeadNeverStarts, UnderWay, AnswerInv
<1>3. BudgetInv'
  BY DEF TypeOK, BudgetInv, Paid, Ended
<1>4. QED
  BY <1>1, <1>2, <1>3

LEMMA AnsweredStep ==
  ASSUME IInv, Answered
  PROVE  IInv'
<1>1. CASE TransportError \/ Forbidden \/ ServerError \/ OtherStatus
  BY <1>1, Fails DEF TransportError, Forbidden, ServerError, OtherStatus, MayCoolDown,
                     CoolDown, UnderWay, poolVars
<1>2. CASE OutOfCredits \/ RateLimited
  BY <1>2, Leaves DEF OutOfCredits, RateLimited, SafeToReplay
<1>3. CASE Unauthorized /\ retried # NoAccount
  BY <1>3, Fails DEF Unauthorized, CoolDown, UnderWay
<1>4. CASE Unauthorized /\ retried = NoAccount
  <2> USE <1>4 DEF Unauthorized, IInv, Facts, peekVars
  <2>1. TypeOK'
    BY DEF TypeOK, Steps
  <2>2. AttemptInv' /\ LeftIsCooling' /\ ErrorHeadNeverStarts' /\ AnswerInv'
    BY DEF AttemptInv, LeftIsCooling, ErrorHeadNeverStarts, UnderWay, AnswerInv, SafeToReplay
  <2>3. BudgetInv'
    BY DEF TypeOK, BudgetInv, Paid, Ended
  <2>4. QED
    BY <2>1, <2>2, <2>3
<1>5. ASSUME NEW b \in Bodies, Answer200(b)
      PROVE  IInv'
  <2> USE <1>5 DEF Answer200, IInv, Facts, poolVars
  <2>1. b \in Seq(Frames) /\ got = 0 /\ Len(b) \in Nat
    BY GenerateAssumption DEF AttemptInv
  <2>2. TypeOK'
    BY <2>1 DEF TypeOK, Steps
  <2>3. AttemptInv' /\ LeftIsCooling' /\ ErrorHeadNeverStarts' /\ AnswerInv'
    BY DEF AttemptInv, LeftIsCooling, ErrorHeadNeverStarts, UnderWay, AnswerInv
  <2>4. BudgetInv'
    BY DEF TypeOK, BudgetInv, Paid, Ended
  <2>5. QED
    BY <2>2, <2>3, <2>4
<1>6. QED
  BY <1>1, <1>2, <1>3, <1>4, <1>5 DEF Answered

(***************************************************************************)
(* A failover is paid for by the counter, which is compared with the pool  *)
(* as it is now, and the pool is never larger than all accounts.           *)
(***************************************************************************)
LEMMA FailoverStep ==
  ASSUME IInv, Failover
  PROVE  IInv'
<1> USE DEF IInv, Facts, Failover, poolVars, peekVars
<1>1. AtLeastOne(Cardinality(loaded)) \in Nat /\ AtLeastOne(Cardinality(loaded)) <= Budget
  BY BudgetType DEF TypeOK
<1>2. failovers \in Nat /\ sends \in Nat /\ Budget \in Nat
  BY BudgetType DEF TypeOK
<1>3. TypeOK'
  BY <1>2 DEF TypeOK, Steps
<1>4. AttemptInv' /\ LeftIsCooling' /\ ErrorHeadNeverStarts'
  BY DEF AttemptInv, LeftIsCooling, ErrorHeadNeverStarts, UnderWay
<1>5. AnswerInv'
  BY DEF AnswerInv, SafeToReplay, Complete
<1>6. BudgetInv'
  <2>1. CASE Exhausted
    BY <1>2, <2>1 DEF BudgetInv, Paid, Ended
  <2>2. CASE ~ Exhausted
    <3>1. failovers' <= Budget
      BY <1>1, <1>2, <2>2 DEF Exhausted
    <3>2. QED
      BY <1>2, <2>2, <3>1 DEF BudgetInv, Paid, Ended
  <2>3. QED
    BY <2>1, <2>2
<1>7. QED
  BY <1>3, <1>4, <1>5, <1>6

LEMMA RefreshedStep ==
  ASSUME IInv, Refreshed
  PROVE  IInv'
<1>1. CASE RefreshFailed
  BY <1>1, Fails DEF RefreshFailed, CoolDown, UnderWay
<1>2. CASE RefreshDone
  <2> USE <1>2 DEF RefreshDone, IInv, Facts, poolVars, peekVars
  <2>1. TypeOK'
    BY DEF TypeOK, Steps
  <2>2. AttemptInv' /\ LeftIsCooling' /\ ErrorHeadNeverStarts'
    BY DEF AttemptInv, LeftIsCooling, ErrorHeadNeverStarts, UnderWay
  <2>3. AnswerInv'
    BY DEF AnswerInv, SafeToReplay, Complete
  <2>4. cred # NoAccount
    BY GenerateAssumption DEF AttemptInv, UnderWay
  <2>5. BudgetInv'
    BY <2>4 DEF TypeOK, BudgetInv, Paid, Ended
  <2>6. QED
    BY <2>1, <2>2, <2>3, <2>5
<1>3. QED
  BY <1>1, <1>2 DEF Refreshed

-----------------------------------------------------------------------------
(***************************************************************************)
(* The head of the body.                                                   *)
(***************************************************************************)
LEMMA CompleteFrames ==
  ASSUME TypeOK
  PROVE  /\ Len(body) \in Nat /\ DOMAIN body = 1 .. Len(body)
         /\ Complete \in Nat /\ Complete <= Len(body)
         /\ \A i \in DOMAIN body : body[i] \in Frames
BY DEF TypeOK, Complete

LEMMA ArrivesStep ==
  ASSUME IInv, Arrives
  PROVE  IInv'
<1>1. CASE PeekUnavailable
  BY <1>1, Fails DEF PeekUnavailable, MayCoolDown, UnderWay
<1>2. ASSUME NEW n \in 1 .. 2 * Len(body), Chunk(n)
      PROVE  IInv'
  <2> USE <1>2 DEF Chunk, IInv, Facts, poolVars
  <2>1. TypeOK'
    <3>1. got \in Nat /\ n \in Nat /\ Len(body) \in Nat /\ got + n <= 2 * Len(body)
      BY CompleteFrames DEF TypeOK
    <3>2. got' \in 0 .. 2 * Len(body')
      BY <3>1
    <3>3. QED
      BY <3>2 DEF TypeOK
  <2>2. AttemptInv' /\ LeftIsCooling' /\ ErrorHeadNeverStarts' /\ AnswerInv'
    BY DEF AttemptInv, LeftIsCooling, ErrorHeadNeverStarts, UnderWay, AnswerInv
  <2>3. BudgetInv'
    BY DEF TypeOK, BudgetInv, Paid, Ended
  <2>4. QED
    BY <2>1, <2>2, <2>3
<1>3. QED
  BY <1>1, <1>2 DEF Arrives

LEMMA DecidedStep ==
  ASSUME IInv, Decided
  PROVE  IInv'
<1> USE DEF IInv
<1>1. CASE PeekQuota
  <2>1. PICK i \in Errored : body[i].kind = "quota"
    BY <1>1 DEF PeekQuota
  <2>2. i \in 1 .. Complete /\ \A j \in 1 .. i - 1 : ~ IsData(body[j])
    BY <2>1, CompleteFrames DEF Errored, FoundAt
  <2>3. SafeToReplay'
    BY <1>1, <2>1, <2>2 DEF PeekQuota, SafeToReplay, Complete, peekVars
  <2>4. QED
    BY <1>1, <2>3, Leaves DEF PeekQuota
<1>2. CASE PeekFault
  BY <1>2, Fails DEF PeekFault, MayCoolDown, UnderWay
<1>3. CASE PeekHealthy
  <2> USE <1>3 DEF PeekHealthy, Facts, poolVars, peekVars
  <2>1. TypeOK'
    BY DEF TypeOK, Steps
  <2>2. AttemptInv' /\ LeftIsCooling' /\ AnswerInv'
    BY DEF AttemptInv, LeftIsCooling, UnderWay, AnswerInv
  <2>3. ErrorHeadNeverStarts'
    <3>1. CASE Complete > 0
      <4>1. 1 \in DOMAIN body /\ 1 <= Complete
        BY <3>1, CompleteFrames
      <4>2. ~ FoundAt(1)
        BY <4>1 DEF Errored
      <4>3. ~ IsError(body[1])
        BY <4>1, <4>2 DEF FoundAt
      <4>4. QED
        BY <4>3 DEF ErrorHeadNeverStarts, IsError
    <3>2. CASE Inconclusive
      BY <3>2 DEF ErrorHeadNeverStarts, Inconclusive, Complete
    <3>3. QED
      BY <3>1, <3>2 DEF HeadSeen
  <2>4. BudgetInv'
    BY BudgetType DEF TypeOK, BudgetInv, Paid, Ended
  <2>5. QED
    BY <2>1, <2>2, <2>3, <2>4
<1>4. QED
  BY <1>1, <1>2, <1>3 DEF Decided

-----------------------------------------------------------------------------
LEMMA AgainStep ==
  ASSUME IInv, Again
  PROVE  IInv'
<1> USE DEF IInv, Facts, Again, poolVars
<1>1. TypeOK'
  BY DEF TypeOK, Steps
<1>2. AttemptInv' /\ BudgetInv' /\ LeftIsCooling' /\ ErrorHeadNeverStarts'
  BY BudgetType DEF AttemptInv, BudgetInv, Paid, Ended, LeftIsCooling,
                    ErrorHeadNeverStarts, UnderWay
<1>3. AnswerInv'
  BY DEF AnswerInv, SafeToReplay
<1>4. QED
  BY <1>1, <1>2, <1>3

LEMMA PoolStep ==
  ASSUME IInv, PoolChanges
  PROVE  IInv'
<1> USE DEF IInv, Facts, PoolChanges, peekVars
<1>1. TypeOK'
  BY DEF TypeOK
<1>2. AttemptInv' /\ BudgetInv' /\ ErrorHeadNeverStarts'
  BY DEF AttemptInv, BudgetInv, Paid, Ended, ErrorHeadNeverStarts, Inconclusive, Complete
<1>3. LeftIsCooling'
  BY DEF LeftIsCooling
<1>4. AnswerInv'
  BY DEF AnswerInv, SafeToReplay, Complete
<1>5. QED
  BY <1>1, <1>2, <1>3, <1>4

LEMMA NextIInv == IInv /\ [Next]_vars => IInv'
<1> SUFFICES ASSUME IInv, [Next]_vars
             PROVE  IInv'
  OBVIOUS
<1>1. CASE UNCHANGED vars
  BY <1>1 DEF IInv, Facts, TypeOK, AttemptInv, BudgetInv, Paid, Ended, AnswerInv,
              SafeToReplay, Complete, LeftIsCooling, ErrorHeadNeverStarts, Inconclusive,
              vars, poolVars, peekVars
<1>2. CASE Next
  BY <1>2, PickingStep, AnsweredStep, FailoverStep, RefreshedStep, ArrivesStep,
     DecidedStep, AgainStep, PoolStep DEF Next
<1>3. QED
  BY <1>1, <1>2

(***************************************************************************)
(* The strengthening, and with it the types.                               *)
(***************************************************************************)
THEOREM Invariance == Spec => []IInv
<1>1. QED
  BY InitIInv, NextIInv, PTL DEF Spec

(***************************************************************************)
(* However the pool changes, a generation makes at most two more attempts  *)
(* than there are accounts (failover_count, retried_401_account).          *)
(***************************************************************************)
THEOREM Bounded == Spec => []AttemptsBounded
<1>1. IInv => AttemptsBounded
  <2> SUFFICES ASSUME IInv
               PROVE  AttemptsBounded
    OBVIOUS
  <2>1. failovers \in Nat /\ sends \in Nat /\ Budget \in Nat /\ pc \in Steps
    BY BudgetType DEF IInv, TypeOK
  <2>2. sends <= Budget + 2
    BY <2>1 DEF IInv, Facts, BudgetInv, Paid, Ended, Steps
  <2>3. QED
    BY <2>2 DEF AttemptsBounded, Budget
<1>2. QED
  BY <1>1, Invariance, PTL

(***************************************************************************)
(* For all bodies and all cuts into chunks, an error that heads the body   *)
(* is noticed before the stream starts, unless the peek gave up at its     *)
(* limit with no frame complete (peek_stream_error).                       *)
(***************************************************************************)
THEOREM HeadIsHealthy == Spec => []ErrorHeadNeverStarts
<1>1. IInv => ErrorHeadNeverStarts
  BY DEF IInv, Facts
<1>2. QED
  BY <1>1, Invariance, PTL

-----------------------------------------------------------------------------
(***************************************************************************)
(* The only step that sends is an attempt.                                 *)
(***************************************************************************)
LEMMA OnlyAttemptsSend ==
  ASSUME IInv, [Next]_vars, sends' > sends
  PROVE  \E u \in Accounts : Attempt(u)
<1>1. sends \in Nat
  BY DEF IInv, TypeOK
<1>2. ~ Again
  BY <1>1 DEF Again
<1>3. QED
  BY <1>1, <1>2 DEF Next, vars, Picking, Answered, Failover, Refreshed, Arrives, Decided,
     PoolChanges, NoneHealthy, TransportError, OutOfCredits, Unauthorized, RateLimited,
     Forbidden, ServerError, OtherStatus, Answer200, RefreshDone, RefreshFailed,
     PeekUnavailable, Chunk, PeekQuota, PeekFault, PeekHealthy

SafeStep   == sends' > sends => SafeToReplay
RetryStep  == last = "401" /\ sends' > sends /\ cred \in loaded => cred' = cred
ReturnStep == sends' > sends => cred' \notin left \/ cred' = retried

LEMMA AttemptStep == IInv /\ [Next]_vars => SafeStep /\ RetryStep /\ ReturnStep
<1> SUFFICES ASSUME IInv, [Next]_vars, sends' > sends
             PROVE  SafeStep /\ RetryStep /\ ReturnStep
  BY DEF SafeStep, RetryStep, ReturnStep
<1>1. PICK u \in Accounts : Attempt(u)
  BY OnlyAttemptsSend
<1>2. pc = "picking" /\ cred' = u /\ u \in Choices
  BY <1>1 DEF Attempt
<1>3. SafeStep
  BY <1>2 DEF IInv, Facts, AnswerInv, SafeStep
<1>4. RetryStep
  BY <1>2 DEF IInv, Facts, AnswerInv, Choices, RetryStep
<1>5. ReturnStep
  BY <1>2 DEF IInv, Facts, LeftIsCooling, Choices, Healthy, ReturnStep
<1>6. QED
  BY <1>3, <1>4, <1>5

(***************************************************************************)
(* Nothing the upstream may have acted upon is sent again.                 *)
(***************************************************************************)
THEOREM SafeReplays == Spec => ReplaysOnlyWhenSafe
<1>1. IInv /\ [Next]_vars => [SafeStep]_vars
  BY AttemptStep
<1>2. QED
  BY <1>1, Invariance, PTL DEF Spec, ReplaysOnlyWhenSafe, SafeStep

(***************************************************************************)
(* The attempt after a refresh is made with the refreshed account while it *)
(* is loaded, whatever the pool does meanwhile.                            *)
(***************************************************************************)
THEOREM RetryIsPinned == Spec => RetryStaysOnAccount
<1>1. IInv /\ [Next]_vars => [RetryStep]_vars
  BY AttemptStep
<1>2. QED
  BY <1>1, Invariance, PTL DEF Spec, RetryStaysOnAccount, RetryStep

(***************************************************************************)
(* An account that was left and not revived since is not tried again,      *)
(* except the one account pinned by a refresh after a 401: to that one the *)
(* generation does go back, cooling or not (retried_401_account).          *)
(***************************************************************************)
THEOREM NeverReturns == Spec => NoReturn
<1>1. IInv /\ [Next]_vars => [ReturnStep]_vars
  BY AttemptStep
<1>2. QED
  BY <1>1, Invariance, PTL DEF Spec, NoReturn, ReturnStep

-----------------------------------------------------------------------------
(***************************************************************************)
(* The types that the argument needs.                                      *)
(***************************************************************************)
ServerTypes ==
  /\ sent \in Nat /\ watch \in Nat /\ pending \in BOOLEAN
  /\ stage \in [Requests -> Open \cup {"away", "closed"}]
  /\ pump \in [Requests -> {"none", "running", "ok", "error", "summarized", "abandoned"}]
  /\ guards \subseteq Requests

\* What the listener has counted, and what waits for it, has been sent.
Counted == IF pending THEN watch < sent ELSE watch <= sent

\* There is a pump once the handler has returned, and it runs for a body that
\* is read or whose client has left.
PumpHasBody ==
  \A r \in Requests :
     /\ pump[r] = "running" => stage[r] \in {"streaming", "closed"}
     /\ stage[r] \in {"away", "reading", "working"} => pump[r] = "none"

\* What runs, and nothing else, holds a guard.
Guarded == guards = Running

NoOutcomeYet == drain # "exited" => outcome = "none"

ServerInv == ServerTypes /\ Counted /\ PumpHasBody /\ Guarded /\ NoOutcomeYet

-----------------------------------------------------------------------------
LEMMA InitServerInv == ServerInit => ServerInv
<1> SUFFICES ASSUME ServerInit
             PROVE  ServerInv
  OBVIOUS
<1>1. ServerTypes
  BY DEF ServerInit, ServerTypes
<1>2. Running = {} /\ PumpHasBody
  BY DEF ServerInit, Running, PumpHasBody
<1>3. Counted /\ Guarded /\ NoOutcomeYet
  BY <1>2 DEF ServerInit, Counted, Guarded, NoOutcomeYet
<1>4. QED
  BY <1>1, <1>2, <1>3 DEF ServerInv

LEMMA SignalSteps ==
  ASSUME ServerInv, Signal \/ Arm \/ Receive
  PROVE  ServerInv'
<1>1. CASE Signal
  BY <1>1 DEF ServerInv, ServerTypes, Counted, PumpHasBody, Guarded, NoOutcomeYet,
     Running, Signal, drainVars, requestVars, counterVars
<1>2. CASE Arm
  BY <1>2 DEF ServerInv, ServerTypes, Counted, PumpHasBody, Guarded, NoOutcomeYet,
     Running, Arm, drainVars, requestVars, counterVars
<1>3. CASE Receive
  <2>1. watch < sent /\ sent \in Nat /\ watch \in Nat
    BY <1>3 DEF ServerInv, ServerTypes, Counted, Receive
  <2>2. watch' \in Nat /\ watch' <= sent'
    BY <1>3, <2>1 DEF Receive
  <2>3. pending' = FALSE
    BY <1>3 DEF Receive
  <2>4. ServerTypes' /\ Counted'
    BY <1>3, <2>1, <2>2, <2>3 DEF ServerInv, ServerTypes, Counted, Receive,
       requestVars
  <2>5. PumpHasBody' /\ Guarded' /\ NoOutcomeYet'
    BY <1>3 DEF ServerInv, PumpHasBody, Guarded, NoOutcomeYet, Running, Receive,
       drainVars, requestVars
  <2>6. QED
    BY <2>4, <2>5 DEF ServerInv
<1>4. QED
  BY <1>1, <1>2, <1>3

(***************************************************************************)
(* The signals do not move in a step of a request.                         *)
(***************************************************************************)
LEMMA RequestSteps ==
  ASSUME ServerInv, NEW r \in Requests, RequestStep(r)
  PROVE  ServerInv'
<1> USE DEF ServerInv, ServerTypes, Counted, PumpHasBody, Guarded, NoOutcomeYet,
   Running, Open, Moves, Counts,
            signalVars, counterVars, drainVars
<1>1. CASE Connect(r)
  BY <1>1 DEF Connect
<1>2. CASE Unauthenticated(r)
  BY <1>2 DEF Unauthenticated
<1>3. CASE RejectBody(r)
  BY <1>3 DEF RejectBody
<1>4. CASE Accept(r)
  BY <1>4 DEF Accept
<1>5. CASE StartStream(r)
  BY <1>5 DEF StartStream
<1>6. ASSUME NEW o \in {"ok", "error"}, Answer(r, o)
      PROVE  ServerInv'
  BY <1>6 DEF Answer
<1>7. ASSUME NEW o \in {"ok", "error"}, FinishPump(r, o)
      PROVE  ServerInv'
  BY <1>7 DEF FinishPump
<1>8. CASE AbandonPump(r)
  BY <1>8 DEF AbandonPump
<1>9. CASE Summarize(r)
  BY <1>9 DEF Summarize
<1>10. CASE EndBody(r)
  BY <1>10 DEF EndBody
<1>11. CASE CloseIdle(r)
  BY <1>11 DEF CloseIdle
<1>12. CASE ClientGone(r)
  BY <1>12 DEF ClientGone
<1>13. QED
  BY <1>1, <1>2, <1>3, <1>4, <1>5, <1>6, <1>7, <1>8, <1>9, <1>10, <1>11,
     <1>12 DEF RequestStep

LEMMA DrainSteps ==
  ASSUME ServerInv, StopAccepting \/ DrainStep \/ DeadlinePasses
  PROVE  ServerInv'
BY DEF ServerInv, ServerTypes, Counted, PumpHasBody, Guarded, NoOutcomeYet,
   Running, StopAccepting, DrainStep, DeadlinePasses, StartDrain, ServeEnds,
   ForceQuit, StartPolling, FoundIdle, TimeOut, Exit, signalVars, requestVars,
   counterVars, drainVars

LEMMA NextServerInv == ServerInv /\ [ServerNext]_serverVars => ServerInv'
<1> SUFFICES ASSUME ServerInv, [ServerNext]_serverVars
             PROVE  ServerInv'
  OBVIOUS
<1>1. CASE Signal \/ Arm \/ Receive
  BY <1>1, SignalSteps
<1>2. ASSUME NEW r \in Requests, RequestStep(r)
      PROVE  ServerInv'
  BY <1>2, RequestSteps
<1>3. CASE StopAccepting \/ DrainStep \/ DeadlinePasses
  BY <1>3, DrainSteps
<1>4. CASE UNCHANGED serverVars
  BY <1>4 DEF ServerInv, ServerTypes, Counted, PumpHasBody, Guarded, NoOutcomeYet,
     Running, serverVars, signalVars, requestVars, drainVars
<1>5. QED
  BY <1>1, <1>2, <1>3, <1>4 DEF ServerNext, Exited

(***************************************************************************)
(* The inductive invariant: types, no signal counted that was not sent, a  *)
(* pump only behind a body, and a guard for all that runs.                 *)
(***************************************************************************)
THEOREM ServerInvariance == ServerSpec => []ServerInv
BY InitServerInv, NextServerInv, PTL DEF ServerSpec

-----------------------------------------------------------------------------
(***************************************************************************)
(* The gauge is the cardinality of the guards: at zero, nothing runs.      *)
(***************************************************************************)
LEMMA FiniteGuards == ServerInv => IsFiniteSet(guards)
BY FS_Subset, ServerAssumption DEF ServerInv, ServerTypes

LEMMA ZeroIsIdle == ServerInv /\ InFlight = 0 => Running = {}
<1> SUFFICES ASSUME ServerInv, InFlight = 0
             PROVE  Running = {}
  OBVIOUS
<1>1. guards = {}
  BY FiniteGuards, FS_EmptySet DEF InFlight
<1>2. QED
  BY <1>1 DEF ServerInv, Guarded

GaugeStep == drain = "polling" /\ outcome' = "ConnectionsClosed" => Running = {}

LEMMA PollStep == ServerInv /\ [ServerNext]_serverVars => GaugeStep
<1> SUFFICES ASSUME ServerInv, [ServerNext]_serverVars,
                    drain = "polling", outcome' = "ConnectionsClosed"
             PROVE  Running = {}
  BY DEF GaugeStep
<1>1. outcome = "none"
  BY DEF ServerInv, NoOutcomeYet
<1>2. CASE FoundIdle
  BY <1>2, ZeroIsIdle DEF FoundIdle
<1>3. CASE ~ FoundIdle
  BY <1>1, <1>3 DEF ServerNext, serverVars, drainVars, Signal, Arm, Receive,
     StopAccepting, RequestStep, Connect, Unauthenticated, RejectBody, Accept,
     StartStream, Answer, FinishPump, AbandonPump, Summarize, EndBody, CloseIdle,
     ClientGone, Moves, DrainStep, StartDrain, ServeEnds, ForceQuit, StartPolling,
     TimeOut, Exit, DeadlinePasses, Exited
<1>4. QED
  BY <1>2, <1>3

(***************************************************************************)
(* The gauge poll is authoritative: a drain that ends in it as idle leaves *)
(* no handler and no pump running (bounded_drain_inner, InFlightGuard).    *)
(***************************************************************************)
THEOREM GaugeSound == ServerSpec => GaugeIsAuthoritative
BY ServerInvariance, PollStep, PTL DEF ServerSpec, GaugeIsAuthoritative, GaugeStep

-----------------------------------------------------------------------------
CutStep == drain # "exited" /\ drain' = "exited" /\ CutOff # {} => late \/ sent > 1

LEMMA ExitStep == ServerInv /\ [ServerNext]_serverVars => CutStep
<1> SUFFICES ASSUME ServerInv, [ServerNext]_serverVars, drain # "exited", drain' = "exited",
                    CutOff # {}, ~ late
             PROVE  sent > 1
  BY DEF CutStep
<1>1. Connections # {}
  BY DEF CutOff, Running, Connections, Open, ServerInv, PumpHasBody
<1>2. ~ ServeEnds
  BY <1>1 DEF ServeEnds, ServeResolved
<1>3. ~ FoundIdle
  BY ZeroIsIdle DEF FoundIdle, CutOff
<1>4. ForceQuit
  BY <1>2, <1>3 DEF ServerNext, serverVars, drainVars, Signal, Arm, Receive,
     StopAccepting, RequestStep, Connect, Unauthenticated, RejectBody, Accept,
     StartStream, Answer, FinishPump, AbandonPump, Summarize, EndBody, CloseIdle,
     ClientGone, Moves, DrainStep, StartDrain, StartPolling, TimeOut, Exit,
     DeadlinePasses, Exited
<1>5. QED
  BY <1>4 DEF ForceQuit, Forced, ServerInv, ServerTypes, Counted

(***************************************************************************)
(* The exit cuts off a request whose client is there only after the        *)
(* deadline or a second signal (drain_until_idle, wait_for_force).         *)
(***************************************************************************)
THEOREM CutsOffLate == ServerSpec => CutsOffOnlyLate
BY ServerInvariance, ExitStep, PTL DEF ServerSpec, CutsOffOnlyLate, CutStep

-----------------------------------------------------------------------------
(***************************************************************************)
(* The balance of the counters.                                            *)
(***************************************************************************)
Numbers == total \in Nat /\ ok \in Nat /\ err \in Nat /\ rejected \in Nat /\ departed \in Nat

BalanceInv == Numbers /\ OutcomesBalance

LEMMA CountNat == ServerInv => InFlight \in Nat /\ Cardinality(Unsummarized) \in Nat
BY FiniteGuards, FS_Subset, FS_CardinalityType, ServerAssumption DEF InFlight,
   Unsummarized

LEMMA GuardTaken ==
  ASSUME ServerInv, NEW r \in Requests, r \notin guards, guards' = guards \cup {r}
  PROVE  InFlight' = InFlight + 1
BY FiniteGuards, FS_AddElement DEF InFlight

LEMMA GuardDropped ==
  ASSUME ServerInv, NEW r \in Requests, r \in guards, guards' = guards \ {r}
  PROVE  InFlight' = InFlight - 1
BY FiniteGuards, FS_RemoveElement DEF InFlight

LEMMA RequestBalance ==
  ASSUME ServerInv, BalanceInv, NEW r \in Requests, RequestStep(r)
  PROVE  BalanceInv'
<1> DEFINE U == Cardinality(Unsummarized)
<1>1. InFlight \in Nat /\ U \in Nat
  BY CountNat
<1>2. pump' = pump => Unsummarized' = Unsummarized
  BY DEF Unsummarized
<1>3. guards' = guards => InFlight' = InFlight
  BY DEF InFlight
<1>4. IsFiniteSet(Unsummarized)
  BY FS_Subset, ServerAssumption DEF Unsummarized
<1>5. pump[r] = "none" /\ pump' = [pump EXCEPT ![r] = "running"]
      => Unsummarized' = Unsummarized
  BY DEF Unsummarized, ServerInv, ServerTypes
<1>6. CASE Connect(r) \/ Unauthenticated(r) \/ EndBody(r) \/ CloseIdle(r)
  BY <1>2, <1>3, <1>6 DEF BalanceInv, Numbers, OutcomesBalance, Connect,
     Unauthenticated, EndBody, CloseIdle, counterVars
<1>7. CASE RejectBody(r)
  <2>1. ok' = ok /\ err' = err + 1 /\ rejected' = rejected + 1
    BY <1>7 DEF RejectBody, Counts
  <2>2. UNCHANGED <<pump, guards, total, departed>>
    BY <1>7 DEF RejectBody
  <2>3. QED
    BY <1>1, <1>2, <1>3, <2>1, <2>2 DEF BalanceInv, Numbers, OutcomesBalance
<1>8. CASE Accept(r)
  <2>1. r \notin guards
    BY <1>8 DEF Accept, Moves, ServerInv, Guarded, Running, PumpHasBody
  <2>2. InFlight' = InFlight + 1
    BY <1>8, <2>1, GuardTaken DEF Accept
  <2>3. QED
    BY <1>1, <1>2, <1>8, <2>2 DEF BalanceInv, Numbers, OutcomesBalance, Accept
<1>9. ASSUME NEW o \in {"ok", "error"}, Answer(r, o)
      PROVE  BalanceInv'
  <2>1. r \in guards
    BY <1>9 DEF Answer, Moves, ServerInv, Guarded, Running
  <2>2. InFlight' = InFlight - 1
    BY <1>9, <2>1, GuardDropped DEF Answer
  <2>3. QED
    BY <1>1, <1>2, <1>9, <2>2 DEF BalanceInv, Numbers, OutcomesBalance, Answer,
       Counts
<1>10. CASE StartStream(r)
  <2>1. pump[r] = "none"
    BY <1>10 DEF StartStream, Moves, ServerInv, PumpHasBody
  <2>2. QED
    BY <1>3, <1>5, <1>10, <2>1 DEF BalanceInv, Numbers, OutcomesBalance,
       StartStream, counterVars
<1>11. ASSUME NEW o \in {"ok", "error"}, FinishPump(r, o)
       PROVE  BalanceInv'
  <2>1. r \in guards /\ r \notin Unsummarized
    BY <1>11 DEF FinishPump, ServerInv, Guarded, Running, Unsummarized
  <2>2. InFlight' = InFlight - 1
    BY <1>11, <2>1, GuardDropped DEF FinishPump
  <2>3. Unsummarized' = Unsummarized \cup {r}
    BY <1>11 DEF FinishPump, Unsummarized, ServerInv, ServerTypes
  <2>4. U' = U + 1
    BY <1>4, <2>1, <2>3, FS_AddElement
  <2>5. QED
    BY <1>1, <1>11, <2>2, <2>4 DEF BalanceInv, Numbers, OutcomesBalance,
       FinishPump, counterVars
<1>12. CASE AbandonPump(r)
  <2>1. r \in guards
    BY <1>12 DEF AbandonPump, ServerInv, Guarded, Running
  <2>2. InFlight' = InFlight - 1
    BY <1>12, <2>1, GuardDropped DEF AbandonPump
  <2>3. Unsummarized' = Unsummarized
    BY <1>12 DEF AbandonPump, Unsummarized, ServerInv, ServerTypes
  <2>4. QED
    BY <1>1, <1>12, <2>2, <2>3 DEF BalanceInv, Numbers, OutcomesBalance, AbandonPump
<1>13. CASE Summarize(r)
  <2>1. r \in Unsummarized /\ Unsummarized' = Unsummarized \ {r}
    BY <1>13 DEF Summarize, Unsummarized, ServerInv, ServerTypes
  <2>2. U' = U - 1
    BY <1>4, <2>1, FS_RemoveElement
  <2>3. QED
    BY <1>1, <1>3, <1>13, <2>2 DEF BalanceInv, Numbers, OutcomesBalance,
       Summarize, Counts
<1>14. CASE ClientGone(r)
  <2>1. CASE stage[r] = "working"
    <3>1. r \in guards
      BY <2>1 DEF ServerInv, Guarded, Running
    <3>2. InFlight' = InFlight - 1
      BY <1>14, <2>1, <3>1, GuardDropped DEF ClientGone
    <3>3. QED
      BY <1>1, <1>2, <1>14, <2>1, <3>2 DEF BalanceInv, Numbers, OutcomesBalance,
         ClientGone
  <2>2. CASE stage[r] # "working"
    BY <1>2, <1>3, <1>14, <2>2 DEF BalanceInv, Numbers, OutcomesBalance, ClientGone
  <2>3. QED
    BY <2>1, <2>2
<1>15. QED
  BY <1>6, <1>7, <1>8, <1>9, <1>10, <1>11, <1>12, <1>13, <1>14 DEF RequestStep

LEMMA InitBalance == ServerInit => BalanceInv
<1> SUFFICES ASSUME ServerInit
             PROVE  BalanceInv
  OBVIOUS
<1>1. guards = {} /\ Unsummarized = {}
  BY DEF ServerInit, Unsummarized
<1>2. QED
  BY <1>1, FS_EmptySet DEF ServerInit, BalanceInv, Numbers, OutcomesBalance,
     InFlight

LEMMA NextBalance == ServerInv /\ BalanceInv /\ [ServerNext]_serverVars => BalanceInv'
<1> SUFFICES ASSUME ServerInv, BalanceInv, [ServerNext]_serverVars
             PROVE  BalanceInv'
  OBVIOUS
<1>1. ASSUME NEW r \in Requests, RequestStep(r)
      PROVE  BalanceInv'
  BY <1>1, RequestBalance
<1>2. CASE UNCHANGED requestVars
  BY <1>2 DEF requestVars, counterVars, BalanceInv, Numbers, OutcomesBalance,
     InFlight, Unsummarized
<1>3. QED
  BY <1>1, <1>2 DEF ServerNext, serverVars, Signal, Arm, Receive, StopAccepting,
     DrainStep, StartDrain, ServeEnds, ForceQuit, StartPolling, FoundIdle,
     TimeOut, Exit, DeadlinePasses, Exited

(***************************************************************************)
(* Every request is accounted for once, by its guard, its summary task, a  *)
(* departed client or one outcome (record_request, record_ok,              *)
(* record_error).                                                          *)
(***************************************************************************)
THEOREM Balance == ServerSpec => []OutcomesBalance
<1>1. BalanceInv => OutcomesBalance
  BY DEF BalanceInv
<1>2. QED
  BY <1>1, InitBalance, NextBalance, ServerInvariance, PTL DEF ServerSpec
============================================================================
