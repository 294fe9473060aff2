-------------------------- MODULE AnthropicProofs --------------------------
(***************************************************************************)
(* The Messages stream keeps its protocol and loses nothing, for any       *)
(* number of parallel tool calls and of chunks.                            *)
(*                                                                         *)
(* At any moment the events the client has not read are a script: at most  *)
(* the beginning of the message or the error, the ends of some blocks, one *)
(* new block, one fragment and the end of the message, in this order.  The *)
(* invariant says that the client's view, once the script is read, is what *)
(* the converter remembers.                                                *)
(***************************************************************************)
EXTENDS AnthropicStream, DequeProofs, SequenceTheorems

BlockKinds == {"thinking", "text", "tool"}
Block == [kind : BlockKinds, open : BOOLEAN, parts : Nat]

Scripts == [begin : BOOLEAN, fail : BOOLEAN, stops : Seq(Nat),
            opens : {"none"} \cup BlockKinds, delta : BOOLEAN, ends : BOOLEAN, at : Nat]

Stops(s) == [n \in DOMAIN s |-> BlockStop(s[n])]

EndEvents(q)   == If(q.ends, <<MessageStop>>)
DeltaEvents(q) == If(q.delta, <<BlockDelta(q.at)>>) \o EndEvents(q)
OpenEvents(q)  == If(q.opens # "none", <<BlockStart(q.at, q.opens)>>) \o DeltaEvents(q)
StopEvents(q)  == Stops(q.stops) \o OpenEvents(q)
FailEvents(q)  == If(q.fail, <<ErrorEvent>>) \o StopEvents(q)
Written(q)     == If(q.begin, <<MessageStart>>) \o FailEvents(q)

Types  == {"content_block_start", "content_block_delta", "content_block_stop",
           "message_start", "message_stop", "error"}
Events == [type : Types, index : Nat, kind : {"", "none"} \cup BlockKinds]

-----------------------------------------------------------------------------
(***************************************************************************)
(* Reading a script from its head.                                         *)
(***************************************************************************)
LEMMA EventTypes ==
  /\ MessageStart \in Events /\ ErrorEvent \in Events /\ MessageStop \in Events
  /\ \A i \in Nat : BlockDelta(i) \in Events /\ BlockStop(i) \in Events
  /\ \A i \in Nat, k \in {"none"} \cup BlockKinds : BlockStart(i, k) \in Events
BY DEF MessageStart, ErrorEvent, MessageStop, BlockDelta, BlockStop, BlockStart, Event,
       Events, Types

LEMMA Cons ==
  ASSUME NEW x \in Events, NEW r \in Seq(Events)
  PROVE  /\ <<x>> \o r \in Seq(Events) /\ <<x>> \o r # << >>
         /\ Head(<<x>> \o r) = x /\ Tail(<<x>> \o r) = r
<1> DEFINE s == <<x>> \o r
<1>1. <<x>> \in Seq(Events) /\ Len(<<x>>) = 1 /\ <<x>>[1] = x
  OBVIOUS
<1>2. /\ s \in Seq(Events) /\ Len(s) = 1 + Len(r)
      /\ \A i \in 1 .. 1 + Len(r) : s[i] = IF i <= 1 THEN <<x>>[i] ELSE r[i - 1]
  BY <1>1, ConcatProperties
<1>3. Len(r) \in Nat /\ s # << >>
  BY <1>2, EmptySeq, LenProperties
<1> HIDE DEF s
<1>4. Head(s) = x
  BY <1>1, <1>2, <1>3
<1>5. /\ Tail(s) \in Seq(Events) /\ Len(Tail(s)) = Len(r)
      /\ \A i \in 1 .. Len(r) : Tail(s)[i] = s[i + 1]
  BY <1>2, <1>3, HeadTailProperties
<1>6. \A i \in 1 .. Len(r) : Tail(s)[i] = r[i]
  BY <1>2, <1>3, <1>5
<1>7. Tail(s) = r
  BY <1>5, <1>6, SeqEqual
<1> QED
  BY <1>2, <1>3, <1>4, <1>7 DEF s

LEMMA Maybe ==
  ASSUME NEW cond \in BOOLEAN, NEW x \in Events, NEW r \in Seq(Events)
  PROVE  /\ If(cond, <<x>>) \in Seq(Events)
         /\ If(cond, <<x>>) \o r \in Seq(Events)
         /\ ~ cond => If(cond, <<x>>) \o r = r
         /\ cond => /\ If(cond, <<x>>) \o r # << >>
                    /\ Head(If(cond, <<x>>) \o r) = x
                    /\ Tail(If(cond, <<x>>) \o r) = r
<1>1. CASE cond
  BY <1>1, Cons DEF If
<1>2. CASE ~ cond
  BY <1>2, ConcatEmptySeq DEF If
<1> QED
  BY <1>1, <1>2

LEMMA StopsSeq ==
  ASSUME NEW s \in Seq(Nat)
  PROVE  /\ Stops(s) \in Seq(Events) /\ Len(Stops(s)) = Len(s)
         /\ \A n \in 1 .. Len(s) : Stops(s)[n] = BlockStop(s[n])
<1>1. Len(s) \in Nat /\ DOMAIN s = 1 .. Len(s) /\ \A n \in 1 .. Len(s) : s[n] \in Nat
  OBVIOUS
<1>2. Stops(s) = [n \in 1 .. Len(s) |-> BlockStop(s[n])]
  BY <1>1 DEF Stops
<1>3. \A n \in 1 .. Len(s) : BlockStop(s[n]) \in Events
  BY <1>1, EventTypes
<1> QED
  BY <1>1, <1>2, <1>3

LEMMA StopsHead ==
  ASSUME NEW s \in Seq(Nat), s # << >>
  PROVE  /\ Head(s) \in Nat /\ Tail(s) \in Seq(Nat)
         /\ Stops(s) = <<BlockStop(Head(s))>> \o Stops(Tail(s))
<1>1. /\ Head(s) \in Nat /\ Head(s) = s[1] /\ Tail(s) \in Seq(Nat)
      /\ Len(s) \in Nat \ {0} /\ Len(Tail(s)) = Len(s) - 1
      /\ \A i \in 1 .. Len(s) - 1 : Tail(s)[i] = s[i + 1]
  BY HeadTailProperties, EmptySeq
<1> DEFINE x == BlockStop(Head(s))
           r == Stops(Tail(s))
<1>2. x \in Events /\ r \in Seq(Events) /\ Len(r) = Len(s) - 1
  BY <1>1, EventTypes, StopsSeq
<1>3. <<x>> \in Seq(Events) /\ Len(<<x>>) = 1 /\ <<x>>[1] = x
  BY <1>2
<1>4. /\ <<x>> \o r \in Seq(Events) /\ Len(<<x>> \o r) = Len(s)
      /\ \A i \in 1 .. Len(s) : (<<x>> \o r)[i] = IF i <= 1 THEN <<x>>[i] ELSE r[i - 1]
  <2> HIDE DEF x, r
  <2>1. /\ <<x>> \o r \in Seq(Events) /\ Len(<<x>> \o r) = Len(<<x>>) + Len(r)
        /\ \A i \in 1 .. Len(<<x>>) + Len(r) :
             (<<x>> \o r)[i] = IF i <= Len(<<x>>) THEN <<x>>[i] ELSE r[i - Len(<<x>>)]
    BY <1>2, <1>3, ConcatProperties
  <2>2. 1 + (Len(s) - 1) = Len(s)
    BY <1>1
  <2> QED
    BY <1>2, <1>3, <2>1, <2>2
<1>5. \A i \in 1 .. Len(s) - 1 : r[i] = BlockStop(s[i + 1])
  <2>1. PICK u : u = Tail(s)
    OBVIOUS
  <2>2. \A n \in 1 .. Len(u) : Stops(u)[n] = BlockStop(u[n])
    BY <1>1, <2>1, StopsSeq
  <2>3. \A i \in 1 .. Len(s) - 1 : Stops(u)[i] = BlockStop(s[i + 1])
    BY <1>1, <2>1, <2>2
  <2> QED
    BY <2>1, <2>3
<1>6. \A i \in 1 .. Len(s) : (<<x>> \o r)[i] = Stops(s)[i]
  <2> SUFFICES ASSUME NEW i \in 1 .. Len(s)
               PROVE  (<<x>> \o r)[i] = Stops(s)[i]
    OBVIOUS
  <2>1. Stops(s)[i] = BlockStop(s[i])
    BY StopsSeq
  <2>2. CASE i = 1
    <3>1. x = BlockStop(s[1]) /\ 1 \in 1 .. Len(s)
      BY <1>1
    <3> HIDE DEF x, r
    <3> QED
      BY <1>3, <1>4, <2>1, <2>2, <3>1
  <2>3. CASE i # 1
    <3>1. i - 1 \in 1 .. Len(s) - 1 /\ (i - 1) + 1 = i
      BY <1>1, <2>3
    <3>2. r[i - 1] = BlockStop(s[i])
      BY <1>5, <3>1
    <3> HIDE DEF x, r
    <3> QED
      BY <1>1, <1>4, <2>1, <2>3, <3>2
  <2> QED
    BY <2>2, <2>3
<1> HIDE DEF x, r
<1>7. Stops(s) \in Seq(Events) /\ Len(Stops(s)) = Len(s)
  BY StopsSeq
<1>8. Stops(s) = <<x>> \o r
  BY <1>4, <1>6, <1>7, SeqEqual
<1> QED
  BY <1>1, <1>8 DEF x, r

(***************************************************************************)
(* Each part of a script is a sequence of events.                          *)
(***************************************************************************)
LEMMA ScriptSeq ==
  ASSUME NEW q \in Scripts
  PROVE  /\ EndEvents(q) \in Seq(Events) /\ DeltaEvents(q) \in Seq(Events)
         /\ OpenEvents(q) \in Seq(Events) /\ StopEvents(q) \in Seq(Events)
         /\ FailEvents(q) \in Seq(Events) /\ Written(q) \in Seq(Events)
         /\ Stops(q.stops) \in Seq(Events)
<1>1. /\ q.begin \in BOOLEAN /\ q.fail \in BOOLEAN /\ q.stops \in Seq(Nat)
      /\ q.opens \in {"none"} \cup BlockKinds /\ q.delta \in BOOLEAN
      /\ q.ends \in BOOLEAN /\ q.at \in Nat
  BY DEF Scripts
<1>2. EndEvents(q) \in Seq(Events)
  BY <1>1, EventTypes, EmptySeq, Maybe DEF EndEvents
<1>3. DeltaEvents(q) \in Seq(Events)
  BY <1>1, <1>2, EventTypes, Maybe DEF DeltaEvents
<1>4. OpenEvents(q) \in Seq(Events)
  BY <1>1, <1>3, EventTypes, Maybe DEF OpenEvents
<1>5. Stops(q.stops) \in Seq(Events)
  BY <1>1, StopsSeq
<1>6. StopEvents(q) \in Seq(Events)
  BY <1>4, <1>5, ConcatProperties DEF StopEvents
<1>7. FailEvents(q) \in Seq(Events)
  BY <1>1, <1>6, EventTypes, Maybe DEF FailEvents
<1>8. Written(q) \in Seq(Events)
  BY <1>1, <1>7, EventTypes, Maybe DEF Written
<1> QED
  BY <1>2, <1>3, <1>4, <1>5, <1>6, <1>7, <1>8

LEMMA Unfold ==
  ASSUME NEW q \in Scripts
  PROVE  /\ ~ q.begin => Written(q) = FailEvents(q)
         /\ ~ q.fail => FailEvents(q) = StopEvents(q)
         /\ q.stops = << >> => StopEvents(q) = OpenEvents(q)
         /\ q.opens = "none" => OpenEvents(q) = DeltaEvents(q)
         /\ ~ q.delta => DeltaEvents(q) = EndEvents(q)
         /\ ~ q.ends => EndEvents(q) = << >>
<1>1. q.begin \in BOOLEAN /\ q.fail \in BOOLEAN /\ q.delta \in BOOLEAN /\ q.at \in Nat
  BY DEF Scripts
<1>2. ~ q.begin => Written(q) = FailEvents(q)
  BY <1>1, ScriptSeq, EventTypes, Maybe DEF Written
<1>3. ~ q.fail => FailEvents(q) = StopEvents(q)
  BY <1>1, ScriptSeq, EventTypes, Maybe DEF FailEvents
<1>4. q.stops = << >> => StopEvents(q) = OpenEvents(q)
  <2> SUFFICES ASSUME q.stops = << >>
               PROVE  StopEvents(q) = OpenEvents(q)
    OBVIOUS
  <2>1. Stops(q.stops) \in Seq(Events) /\ Len(Stops(q.stops)) = 0
    BY StopsSeq, EmptySeq
  <2>2. Stops(q.stops) = << >>
    BY <2>1, EmptySeq
  <2> QED
    BY <2>2, ScriptSeq, ConcatEmptySeq DEF StopEvents
<1>5. q.opens = "none" => OpenEvents(q) = DeltaEvents(q)
  BY <1>1, ScriptSeq, ConcatEmptySeq DEF OpenEvents, If
<1>6. ~ q.delta => DeltaEvents(q) = EndEvents(q)
  <2>1. BlockDelta(q.at) \in Events
    BY <1>1, EventTypes
  <2> QED
    BY <1>1, <2>1, ScriptSeq, Maybe DEF DeltaEvents
<1> QED
  BY <1>2, <1>3, <1>4, <1>5, <1>6 DEF EndEvents, If

\* The client reads event e of script q, and r is what is left.
Reads(q, e, r) ==
  r \in Scripts /\ Written(q) # << >> /\ Head(Written(q)) = e /\ Tail(Written(q)) = Written(r)

LEMMA ReadBegin ==
  ASSUME NEW q \in Scripts, q.begin
  PROVE  Reads(q, MessageStart, [q EXCEPT !.begin = FALSE])
<1> DEFINE r == [q EXCEPT !.begin = FALSE]
<1>1. r \in Scripts /\ ~ r.begin /\ FailEvents(r) = FailEvents(q)
  BY DEF Scripts, FailEvents, StopEvents, OpenEvents, DeltaEvents, EndEvents
<1> HIDE DEF r
<1>2. Written(r) = FailEvents(q)
  BY <1>1, Unfold
<1>3. /\ Written(q) # << >> /\ Head(Written(q)) = MessageStart
      /\ Tail(Written(q)) = FailEvents(q)
  BY ScriptSeq, EventTypes, Maybe DEF Written
<1> QED
  BY <1>1, <1>2, <1>3 DEF Reads, r

LEMMA ReadFail ==
  ASSUME NEW q \in Scripts, ~ q.begin, q.fail
  PROVE  Reads(q, ErrorEvent, [q EXCEPT !.fail = FALSE])
<1> DEFINE r == [q EXCEPT !.fail = FALSE]
<1>1. r \in Scripts /\ ~ r.begin /\ ~ r.fail /\ StopEvents(r) = StopEvents(q)
  BY DEF Scripts, StopEvents, OpenEvents, DeltaEvents, EndEvents
<1> HIDE DEF r
<1>2. Written(r) = StopEvents(q)
  BY <1>1, Unfold
<1>3. /\ FailEvents(q) # << >> /\ Head(FailEvents(q)) = ErrorEvent
      /\ Tail(FailEvents(q)) = StopEvents(q)
  BY ScriptSeq, EventTypes, Maybe DEF FailEvents
<1> QED
  BY <1>1, <1>2, <1>3, Unfold DEF Reads, r

LEMMA ReadStop ==
  ASSUME NEW q \in Scripts, ~ q.begin, ~ q.fail, q.stops # << >>
  PROVE  Reads(q, BlockStop(Head(q.stops)), [q EXCEPT !.stops = Tail(@)])
<1> DEFINE r == [q EXCEPT !.stops = Tail(@)]
           x == BlockStop(Head(q.stops))
<1>1. q.stops \in Seq(Nat)
  BY DEF Scripts
<1>2. /\ Head(q.stops) \in Nat /\ Tail(q.stops) \in Seq(Nat)
      /\ Stops(q.stops) = <<x>> \o Stops(Tail(q.stops))
  BY <1>1, StopsHead
<1>3. /\ r \in Scripts /\ ~ r.begin /\ ~ r.fail /\ r.stops = Tail(q.stops)
      /\ OpenEvents(r) = OpenEvents(q)
  BY <1>2 DEF Scripts, OpenEvents, DeltaEvents, EndEvents
<1> HIDE DEF r
<1>4. x \in Events
  BY <1>2, EventTypes
<1> HIDE DEF x
<1>5. Written(r) = Stops(Tail(q.stops)) \o OpenEvents(q)
  BY <1>3, Unfold DEF StopEvents
<1>6. Stops(Tail(q.stops)) \in Seq(Events) /\ OpenEvents(q) \in Seq(Events)
  BY <1>2, StopsSeq, ScriptSeq
<1>7. Written(q) = (<<x>> \o Stops(Tail(q.stops))) \o OpenEvents(q)
  BY <1>2, Unfold DEF StopEvents
<1>8. Written(q) = <<x>> \o (Stops(Tail(q.stops)) \o OpenEvents(q))
  <2>1. <<x>> \in Seq(Events)
    BY <1>4
  <2> QED
    BY <1>6, <1>7, <2>1, ConcatAssociative
<1>9. Stops(Tail(q.stops)) \o OpenEvents(q) \in Seq(Events)
  BY <1>6, ConcatProperties
<1>10. Written(q) # << >> /\ Head(Written(q)) = x /\ Tail(Written(q)) = Written(r)
  BY <1>4, <1>5, <1>8, <1>9, Cons
<1> QED
  BY <1>3, <1>10 DEF Reads, r, x

LEMMA ReadOpen ==
  ASSUME NEW q \in Scripts, ~ q.begin, ~ q.fail, q.stops = << >>, q.opens # "none"
  PROVE  Reads(q, BlockStart(q.at, q.opens), [q EXCEPT !.opens = "none"])
<1> DEFINE r == [q EXCEPT !.opens = "none"]
<1>1. /\ r \in Scripts /\ ~ r.begin /\ ~ r.fail /\ r.stops = << >> /\ r.opens = "none"
      /\ DeltaEvents(r) = DeltaEvents(q)
  BY DEF Scripts, DeltaEvents, EndEvents
<1> HIDE DEF r
<1>2. Written(r) = DeltaEvents(q)
  BY <1>1, Unfold
<1>3. BlockStart(q.at, q.opens) \in Events
  BY EventTypes DEF Scripts
<1>4. /\ OpenEvents(q) # << >> /\ Head(OpenEvents(q)) = BlockStart(q.at, q.opens)
      /\ Tail(OpenEvents(q)) = DeltaEvents(q)
  BY <1>3, ScriptSeq, Maybe DEF OpenEvents
<1>5. Written(q) = OpenEvents(q)
  BY Unfold
<1> QED
  BY <1>1, <1>2, <1>4, <1>5 DEF Reads, r

LEMMA ReadDelta ==
  ASSUME NEW q \in Scripts, ~ q.begin, ~ q.fail, q.stops = << >>, q.opens = "none", q.delta
  PROVE  Reads(q, BlockDelta(q.at), [q EXCEPT !.delta = FALSE])
<1> DEFINE r == [q EXCEPT !.delta = FALSE]
<1>1. /\ r \in Scripts /\ ~ r.begin /\ ~ r.fail /\ r.stops = << >> /\ r.opens = "none"
      /\ ~ r.delta /\ EndEvents(r) = EndEvents(q)
  BY DEF Scripts, EndEvents
<1> HIDE DEF r
<1>2. Written(r) = EndEvents(q)
  BY <1>1, Unfold
<1>3. BlockDelta(q.at) \in Events
  BY EventTypes DEF Scripts
<1>4. /\ DeltaEvents(q) # << >> /\ Head(DeltaEvents(q)) = BlockDelta(q.at)
      /\ Tail(DeltaEvents(q)) = EndEvents(q)
  BY <1>3, ScriptSeq, Maybe DEF DeltaEvents
<1>5. Written(q) = DeltaEvents(q)
  BY Unfold
<1> QED
  BY <1>1, <1>2, <1>4, <1>5 DEF Reads, r

LEMMA ReadEnd ==
  ASSUME NEW q \in Scripts, ~ q.begin, ~ q.fail, q.stops = << >>, q.opens = "none", ~ q.delta,
         q.ends
  PROVE  Reads(q, MessageStop, [q EXCEPT !.ends = FALSE])
<1> DEFINE r == [q EXCEPT !.ends = FALSE]
<1>1. /\ r \in Scripts /\ ~ r.begin /\ ~ r.fail /\ r.stops = << >> /\ r.opens = "none"
      /\ ~ r.delta /\ ~ r.ends
  BY DEF Scripts
<1> HIDE DEF r
<1>2. Written(r) = << >>
  BY <1>1, Unfold
<1>3. EndEvents(q) = <<MessageStop>> /\ Written(q) = EndEvents(q)
  BY Unfold DEF EndEvents, If
<1> QED
  BY <1>1, <1>2, <1>3 DEF Reads, r

\* Nothing is left of a script in which nothing is to be read.
Silent(q) ==
  ~ q.begin /\ ~ q.fail /\ q.stops = << >> /\ q.opens = "none" /\ ~ q.delta /\ ~ q.ends

LEMMA ReadAll ==
  ASSUME NEW q \in Scripts, Written(q) = << >>
  PROVE  Silent(q)
BY ReadBegin, ReadFail, ReadStop, ReadOpen, ReadDelta, ReadEnd DEF Reads, Silent

LEMMA SilentScript ==
  ASSUME NEW q \in Scripts, Silent(q)
  PROVE  Written(q) = << >>
BY Unfold DEF Silent

-----------------------------------------------------------------------------
(***************************************************************************)
(* The invariant.                                                          *)
(***************************************************************************)
One(cond) == IF cond THEN 1 ELSE 0

\* The blocks as the client will have them when it has read script q.
FinalBlock(q, i) ==
  [kind  |-> IF i \in DOMAIN blocks THEN blocks[i].kind ELSE q.opens,
   open  |-> IF i \in DOMAIN blocks THEN blocks[i].open /\ i \notin Members(q.stops) ELSE TRUE,
   parts |-> (IF i \in DOMAIN blocks THEN blocks[i].parts ELSE 0) + One(q.delta /\ q.at = i)]

Final(q) == [i \in Given |-> FinalBlock(q, i)]

\* The blocks the converter holds open.
Held == {thinking_idx, text_idx} \cup {tools[t].block : t \in StartedSlots}

OpenAgrees(bs) == \A i \in Given : bs[i].open <=> i \in Held

KindsAgree(bs) ==
  /\ thinking_idx # 0 => bs[thinking_idx].kind = "thinking"
  /\ text_idx # 0 => bs[text_idx].kind = "text"
  /\ \A t \in DOMAIN tools : bs[tools[t].block].kind = "tool"

\* The fragments of a kind are as many as were accumulated.
Counts(bs, kind, n) == IsFiniteSet(Fragments(bs, kind)) /\ Cardinality(Fragments(bs, kind)) = n

PartsAgree(bs) ==
  /\ \A t \in DOMAIN tools : bs[tools[t].block].parts = tools[t].args
  /\ \A t, u \in DOMAIN tools : tools[t].block = tools[u].block => t = u
  /\ Counts(bs, "text", text_accum)
  /\ Counts(bs, "thinking", IF expose_thinking THEN thinking_accum ELSE 0)

Remembered(bs) ==
  bs \in [Given -> Block] /\ OpenAgrees(bs) /\ KindsAgree(bs) /\ PartsAgree(bs)

MessageAgrees(q) ==
  /\ phase = (IF finished /\ ~ q.ends THEN "over"
              ELSE IF q.begin \/ ~ started THEN "new" ELSE "begun")
  /\ failed = (finished /\ ~ finishSeen /\ ~ q.fail)
  /\ q.begin => started /\ ~ finished
  /\ q.fail => q.ends /\ ~ finishSeen
  /\ q.ends => finished

BlocksAgree(q) ==
  /\ Len(blocks) + One(q.opens # "none") = next_block_idx - 1
  /\ q.opens # "none" => /\ q.at = Len(blocks) + 1 /\ ~ finished
                         /\ thinking_idx \in {0, q.at}
                         /\ q.opens = "text" => text_idx = q.at
  /\ q.delta => /\ q.at \in Given /\ q.at \in Held /\ ~ finished
                /\ thinking_idx \in {0, q.at}

StopsAgree(q) ==
  /\ \A n \in DOMAIN q.stops : q.stops[n] \in DOMAIN blocks /\ blocks[q.stops[n]].open
  /\ \A m, n \in DOMAIN q.stops : q.stops[m] = q.stops[n] => m = n
  /\ finished /\ q.stops # << >> => q.ends

Agrees(q) == MessageAgrees(q) /\ BlocksAgree(q) /\ StopsAgree(q) /\ Remembered(Final(q))

DrainInv == \E q \in Scripts : out = Written(q) /\ Agrees(q)

ConverterInv ==
  /\ next_block_idx <= chunks + 1
  /\ ~ started => next_block_idx = 1 /\ ~ finishSeen
  /\ finished => thinking_idx = 0 /\ text_idx = 0 /\ StartedSlots = {}
  /\ ~ finished => \A t \in DOMAIN tools : tools[t].started
  /\ IsFiniteSet(DOMAIN tools)

IInv == TypeOK /\ ConverterInv /\ DrainInv

LEMMA Sizes ==
  ASSUME TypeOK
  PROVE  /\ next_block_idx \in Nat \ {0} /\ Given = 1 .. next_block_idx - 1
         /\ Len(blocks) \in Nat /\ DOMAIN blocks = 1 .. Len(blocks)
         /\ blocks \in Seq(Block) /\ \A i \in DOMAIN blocks : blocks[i] \in Block
<1>1. next_block_idx \in Nat \ {0} /\ Given = 1 .. next_block_idx - 1
  BY AnthropicAssumption DEF TypeOK, Given
<1>2. blocks \in Seq(Block)
  BY DEF TypeOK, Block, BlockKinds
<1> QED
  BY <1>1, <1>2

-----------------------------------------------------------------------------
(***************************************************************************)
(* The client reads.  The converter is as it was, and so is the final      *)
(* view: the event has moved from the script to the view.                  *)
(***************************************************************************)
LEMMA Carried ==
  ASSUME NEW q, NEW r, Remembered(Final(q)), Final(r)' = Final(q),
         UNCHANGED <<expose_thinking, convVars>>
  PROVE  Remembered(Final(r))'
BY DEF Remembered, OpenAgrees, KindsAgree, PartsAgree, Counts, Held, StartedSlots, Given,
       convVars

LEMMA BelievesStart ==
  ASSUME Believe(MessageStart)
  PROVE  phase' = "begun" /\ UNCHANGED <<blocks, failed>>
<1>1. MessageStart.type = "message_start"
  BY DEF MessageStart, Event
<1> QED
  BY <1>1 DEF Believe

LEMMA BelievesError ==
  ASSUME Believe(ErrorEvent)
  PROVE  failed' = TRUE /\ UNCHANGED <<phase, blocks>>
<1>1. ErrorEvent.type = "error"
  BY DEF ErrorEvent, Event
<1> QED
  BY <1>1 DEF Believe

LEMMA BelievesEnd ==
  ASSUME Believe(MessageStop)
  PROVE  phase' = "over" /\ UNCHANGED <<blocks, failed>>
<1>1. MessageStop.type = "message_stop"
  BY DEF MessageStop, Event
<1> QED
  BY <1>1 DEF Believe

LEMMA BelievesOpen ==
  ASSUME NEW i, NEW k, Believe(BlockStart(i, k))
  PROVE  /\ blocks' = With(i, [kind |-> k, open |-> TRUE, parts |-> 0])
         /\ UNCHANGED <<phase, failed>>
<1>1. /\ BlockStart(i, k).type = "content_block_start"
      /\ BlockStart(i, k).index = i /\ BlockStart(i, k).kind = k
  BY DEF BlockStart, Event
<1> QED
  BY <1>1 DEF Believe

LEMMA BelievesDelta ==
  ASSUME NEW i, Believe(BlockDelta(i))
  PROVE  blocks' = [blocks EXCEPT ![i].parts = @ + 1] /\ UNCHANGED <<phase, failed>>
<1>1. BlockDelta(i).type = "content_block_delta" /\ BlockDelta(i).index = i
  BY DEF BlockDelta, Event
<1> QED
  BY <1>1 DEF Believe

LEMMA BelievesStop ==
  ASSUME NEW i, Believe(BlockStop(i))
  PROVE  blocks' = [blocks EXCEPT ![i].open = FALSE] /\ UNCHANGED <<phase, failed>>
<1>1. BlockStop(i).type = "content_block_stop" /\ BlockStop(i).index = i
  BY DEF BlockStop, Event
<1> QED
  BY <1>1 DEF Believe

LEMMA ViewStep ==
  ASSUME TypeOK, ConverterInv, NEW q, NEW r \in Scripts, Remembered(Final(q)),
         UNCHANGED <<expose_thinking, convVars, chunks>>, out' = Written(r),
         phase' \in {"new", "begun", "over"}, failed' \in BOOLEAN, blocks' \in Seq(Block),
         MessageAgrees(r)', BlocksAgree(r)', StopsAgree(r)', Final(r)' = Final(q)
  PROVE  IInv'
<1>1. TypeOK'
  BY DEF TypeOK, convVars, Block, BlockKinds, Given
<1>2. ConverterInv'
  BY DEF ConverterInv, convVars, StartedSlots
<1>3. Agrees(r)'
  BY Carried DEF Agrees
<1>4. Written(r)' = Written(r)
  OBVIOUS
<1>5. DrainInv'
  BY <1>3, <1>4 DEF DrainInv
<1> QED
  BY <1>1, <1>2, <1>5 DEF IInv

LEMMA FinalIsSame ==
  ASSUME NEW q, NEW r, UNCHANGED next_block_idx,
         \A i \in Given : FinalBlock(r, i)' = FinalBlock(q, i)
  PROVE  Final(r)' = Final(q)
BY DEF Final, Given

\* Blocks that stay as they are, and a script without a change of theirs.
LEMMA FinalUnmoved ==
  ASSUME NEW q, NEW r, UNCHANGED <<next_block_idx, blocks>>,
         r.stops = q.stops, r.opens = q.opens, r.delta = q.delta, r.at = q.at
  PROVE  Final(r)' = Final(q)
BY FinalIsSame DEF FinalBlock, One

LEMMA BlocksAgreeUnmoved ==
  ASSUME NEW q, NEW r, BlocksAgree(q), UNCHANGED convVars, Len(blocks') = Len(blocks),
         r.opens = q.opens, r.delta = q.delta, r.at = q.at
  PROVE  BlocksAgree(r)'
BY DEF BlocksAgree, Held, StartedSlots, Given, One, convVars

LEMMA StopsAgreeUnmoved ==
  ASSUME NEW q, NEW r, StopsAgree(q), UNCHANGED <<convVars, blocks>>, r.stops = q.stops,
         finished /\ q.stops # << >> => r.ends
  PROVE  StopsAgree(r)'
BY DEF StopsAgree, convVars

LEMMA BeginIsRead ==
  ASSUME TypeOK, ConverterInv, NEW q \in Scripts, out = Written(q), Agrees(q),
         ClientReads, q.begin
  PROVE  IInv' /\ Protocol!Begin
<1> DEFINE r == [q EXCEPT !.begin = FALSE]
<1>1. Reads(q, MessageStart, r)
  BY ReadBegin
<1>2. /\ r.fail = q.fail /\ r.stops = q.stops /\ r.opens = q.opens /\ r.delta = q.delta
      /\ r.ends = q.ends /\ r.at = q.at /\ ~ r.begin
  BY DEF Scripts
<1> HIDE DEF r
<1>3. /\ phase' = "begun" /\ UNCHANGED <<blocks, failed>>
      /\ UNCHANGED <<expose_thinking, convVars, chunks>>
  BY <1>1, BelievesStart DEF ClientReads, Reads
<1>4. r \in Scripts /\ out' = Written(r)
  BY <1>1 DEF Reads, ClientReads
<1>5. started /\ ~ finished /\ ~ q.ends /\ ~ q.fail
  BY DEF Agrees, MessageAgrees, Scripts
<1>6. MessageAgrees(r)'
  BY <1>2, <1>3, <1>5 DEF Agrees, MessageAgrees, convVars
<1>7. BlocksAgree(r)' /\ StopsAgree(r)'
  BY <1>2, <1>3, <1>5, BlocksAgreeUnmoved, StopsAgreeUnmoved DEF Agrees
<1>8. Final(r)' = Final(q)
  BY <1>2, <1>3, FinalUnmoved DEF convVars
<1>9. failed' \in BOOLEAN /\ blocks' \in Seq(Block)
  BY <1>3, Sizes DEF TypeOK
<1>10. IInv'
  BY <1>3, <1>4, <1>6, <1>7, <1>8, <1>9, ViewStep DEF Agrees
<1>11. Protocol!Begin
  BY <1>3, <1>5 DEF Protocol!Begin, Agrees, MessageAgrees
<1> QED
  BY <1>10, <1>11

LEMMA FailIsRead ==
  ASSUME TypeOK, ConverterInv, NEW q \in Scripts, out = Written(q), Agrees(q),
         ClientReads, ~ q.begin, q.fail
  PROVE  IInv' /\ Protocol!Fail
<1> DEFINE r == [q EXCEPT !.fail = FALSE]
<1>1. Reads(q, ErrorEvent, r)
  BY ReadFail
<1>2. /\ ~ r.fail /\ r.stops = q.stops /\ r.opens = q.opens /\ r.delta = q.delta
      /\ r.ends = q.ends /\ r.at = q.at /\ r.begin = q.begin
  BY DEF Scripts
<1> HIDE DEF r
<1>3. /\ failed' = TRUE /\ UNCHANGED <<phase, blocks>>
      /\ UNCHANGED <<expose_thinking, convVars, chunks>>
  BY <1>1, BelievesError DEF ClientReads, Reads
<1>4. r \in Scripts /\ out' = Written(r)
  BY <1>1 DEF Reads, ClientReads
<1>5. finished /\ q.ends /\ ~ finishSeen
  BY DEF Agrees, MessageAgrees
<1>6. MessageAgrees(r)'
  BY <1>2, <1>3, <1>5 DEF Agrees, MessageAgrees, convVars
<1>7. BlocksAgree(r)' /\ StopsAgree(r)'
  BY <1>2, <1>3, <1>5, BlocksAgreeUnmoved, StopsAgreeUnmoved DEF Agrees
<1>8. Final(r)' = Final(q)
  BY <1>2, <1>3, FinalUnmoved DEF convVars
<1>9. phase' \in {"new", "begun", "over"} /\ blocks' \in Seq(Block)
  BY <1>3, Sizes DEF TypeOK
<1>10. IInv'
  BY <1>3, <1>4, <1>6, <1>7, <1>8, <1>9, ViewStep DEF Agrees
<1>11. Protocol!Fail
  BY <1>3, <1>5 DEF Protocol!Fail, Agrees, MessageAgrees
<1> QED
  BY <1>10, <1>11

\* The blocks left when every end of the script was read.
LEMMA StopIsRead ==
  ASSUME TypeOK, ConverterInv, NEW q \in Scripts, out = Written(q), Agrees(q),
         ClientReads, ~ q.begin, ~ q.fail, q.stops # << >>
  PROVE  IInv' /\ \E i \in DOMAIN blocks : Protocol!Close(i)
<1> DEFINE r == [q EXCEPT !.stops = Tail(@)]
           i == Head(q.stops)
<1>1. Reads(q, BlockStop(i), r)
  BY ReadStop
<1>2. /\ ~ r.fail /\ r.stops = Tail(q.stops) /\ r.opens = q.opens /\ r.delta = q.delta
      /\ r.ends = q.ends /\ r.at = q.at /\ ~ r.begin /\ q.stops \in Seq(Nat)
  BY DEF Scripts
<1>3. /\ Len(q.stops) \in Nat \ {0} /\ DOMAIN q.stops = 1 .. Len(q.stops) /\ i = q.stops[1]
      /\ Tail(q.stops) \in Seq(Nat) /\ DOMAIN Tail(q.stops) = 1 .. Len(q.stops) - 1
      /\ \A n \in 1 .. Len(q.stops) - 1 : Tail(q.stops)[n] = q.stops[n + 1]
  BY <1>2, HeadTailProperties, LenProperties, EmptySeq
<1> HIDE DEF r, i
<1>4. i \in DOMAIN blocks /\ blocks[i].open
  BY <1>3 DEF Agrees, StopsAgree
<1>5. /\ blocks' = [blocks EXCEPT ![i].open = FALSE] /\ UNCHANGED <<phase, failed>>
      /\ UNCHANGED <<expose_thinking, convVars, chunks>>
  BY <1>1, BelievesStop DEF ClientReads, Reads
<1>6. r \in Scripts /\ out' = Written(r)
  BY <1>1 DEF Reads, ClientReads
<1>7. /\ DOMAIN blocks' = DOMAIN blocks /\ Len(blocks') = Len(blocks) /\ blocks' \in Seq(Block)
      /\ \A j \in DOMAIN blocks : /\ blocks'[j].kind = blocks[j].kind
                                  /\ blocks'[j].parts = blocks[j].parts
                                  /\ blocks'[j].open = (blocks[j].open /\ j # i)
  <2>1. \A j \in DOMAIN blocks : blocks[j] \in Block
    BY Sizes
  <2>2. \A j \in DOMAIN blocks : blocks'[j] = IF j = i THEN [blocks[i] EXCEPT !.open = FALSE]
                                                      ELSE blocks[j]
    BY <1>5
  <2>3. [blocks[i] EXCEPT !.open = FALSE] \in Block
    BY <1>4, <2>1 DEF Block
  <2>4. blocks' \in Seq(Block) /\ Len(blocks') = Len(blocks) /\ DOMAIN blocks' = DOMAIN blocks
    BY <1>4, <1>5, <2>3, Sizes, ExceptSeq
  <2> QED
    BY <1>4, <2>1, <2>2, <2>4 DEF Block
<1>8. Members(q.stops) = Members(Tail(q.stops)) \cup {i} /\ i \notin Members(Tail(q.stops))
  <2>1. i \notin Members(Tail(q.stops))
    <3> SUFFICES ASSUME NEW n \in 1 .. Len(q.stops) - 1, q.stops[n + 1] = q.stops[1]
                 PROVE  FALSE
      BY <1>3 DEF Members
    <3>1. n + 1 \in DOMAIN q.stops /\ 1 \in DOMAIN q.stops /\ n + 1 # 1
      BY <1>3
    <3> QED
      BY <3>1 DEF Agrees, StopsAgree
  <2>2. ASSUME NEW j \in Members(q.stops), j # i
        PROVE  j \in Members(Tail(q.stops))
    <3>1. PICK n \in 1 .. Len(q.stops) : j = q.stops[n]
      BY <1>3 DEF Members
    <3>2. n - 1 \in 1 .. Len(q.stops) - 1 /\ (n - 1) + 1 = n
      BY <1>3, <2>2, <3>1
    <3>3. Tail(q.stops)[n - 1] = j
      BY <1>3, <3>1, <3>2
    <3> QED
      BY <1>3, <3>2, <3>3 DEF Members
  <2>3. Members(Tail(q.stops)) \subseteq Members(q.stops) /\ i \in Members(q.stops)
    <3>1. i \in Members(q.stops)
      <4>1. 1 \in DOMAIN q.stops
        BY <1>3
      <4> QED
        BY <1>3, <4>1 DEF Members
    <3>2. ASSUME NEW j \in Members(Tail(q.stops))
          PROVE  j \in Members(q.stops)
      <4>1. PICK n \in 1 .. Len(q.stops) - 1 : j = Tail(q.stops)[n]
        BY <1>3 DEF Members
      <4>2. n + 1 \in DOMAIN q.stops /\ j = q.stops[n + 1]
        BY <1>3, <4>1
      <4> QED
        BY <4>2 DEF Members
    <3> QED
      BY <3>1, <3>2
  <2> QED
    BY <2>1, <2>2, <2>3
<1>9. started /\ (finished => q.ends)
  BY <1>4, Sizes DEF Agrees, BlocksAgree, StopsAgree, ConverterInv, One
<1>10. MessageAgrees(r)'
  BY <1>2, <1>5, <1>9 DEF Agrees, MessageAgrees, convVars
<1>11. BlocksAgree(r)' /\ StopsAgree(r)'
  <2>1. ASSUME NEW n \in 1 .. Len(q.stops) - 1
        PROVE  q.stops[n + 1] \in DOMAIN blocks' /\ blocks'[q.stops[n + 1]].open
    <3>1. n + 1 \in DOMAIN q.stops /\ Tail(q.stops)[n] = q.stops[n + 1]
      BY <1>3
    <3>2. q.stops[n + 1] \in Members(Tail(q.stops))
      BY <1>3, <3>1 DEF Members
    <3>3. q.stops[n + 1] \in DOMAIN blocks /\ blocks[q.stops[n + 1]].open
      BY <3>1 DEF Agrees, StopsAgree
    <3> QED
      BY <1>7, <1>8, <3>2, <3>3
  <2>2. ASSUME NEW m \in 1 .. Len(q.stops) - 1, NEW n \in 1 .. Len(q.stops) - 1,
               q.stops[m + 1] = q.stops[n + 1]
        PROVE  m = n
    <3>1. m + 1 \in DOMAIN q.stops /\ n + 1 \in DOMAIN q.stops
      BY <1>3
    <3>2. m + 1 = n + 1
      BY <2>2, <3>1 DEF Agrees, StopsAgree
    <3> QED
      BY <3>2
  <2>3. /\ \A n \in DOMAIN r.stops : r.stops[n] \in DOMAIN blocks' /\ blocks'[r.stops[n]].open
        /\ \A m, n \in DOMAIN r.stops : r.stops[m] = r.stops[n] => m = n
    <3>1. /\ DOMAIN r.stops = 1 .. Len(q.stops) - 1
          /\ \A n \in 1 .. Len(q.stops) - 1 : r.stops[n] = q.stops[n + 1]
      BY <1>2, <1>3
    <3> QED
      BY <2>1, <2>2, <3>1
  <2>4. StopsAgree(r)'
    BY <1>2, <1>5, <1>9, <2>3 DEF StopsAgree, convVars
  <2> QED
    BY <1>2, <1>5, <1>7, <2>4, BlocksAgreeUnmoved DEF Agrees
<1>12. Final(r)' = Final(q)
  <2>1. \A j \in Given : FinalBlock(r, j)' = FinalBlock(q, j)
    <3> SUFFICES ASSUME NEW j \in Given
                 PROVE  FinalBlock(r, j)' = FinalBlock(q, j)
      OBVIOUS
    <3>1. CASE j \in DOMAIN blocks
      <4>1. (blocks[j].open /\ j # i) /\ j \notin Members(r.stops)
              <=> blocks[j].open /\ j \notin Members(q.stops)
        BY <1>2, <1>8
      <4>2. blocks[j].open \in BOOLEAN
        BY <3>1, Sizes DEF Block
      <4> QED
        BY <1>2, <1>7, <3>1, <4>1, <4>2 DEF FinalBlock, One
    <3>2. CASE j \notin DOMAIN blocks
      BY <1>2, <1>7, <3>2 DEF FinalBlock, One
    <3> QED
      BY <3>1, <3>2
  <2> QED
    BY <1>5, <2>1, FinalIsSame DEF convVars
<1>13. phase' \in {"new", "begun", "over"} /\ failed' \in BOOLEAN
  BY <1>5 DEF TypeOK
<1>14. IInv'
  BY <1>5, <1>6, <1>7, <1>10, <1>11, <1>12, <1>13, ViewStep DEF Agrees
<1>15. Protocol!Close(i)
  <2>1. phase = "begun"
    BY <1>9 DEF Agrees, MessageAgrees
  <2> QED
    BY <1>4, <1>5, <2>1 DEF Protocol!Close, Protocol!OpenBlocks
<1> QED
  BY <1>4, <1>14, <1>15

\* With no end left in the script, an open block is one the converter holds.
LEMMA OpenIsHeld ==
  ASSUME TypeOK, NEW q \in Scripts, Agrees(q), q.stops = << >>,
         NEW i \in DOMAIN blocks, blocks[i].open
  PROVE  /\ i \in Held /\ i < next_block_idx
         /\ blocks[i].kind = "thinking" => i = thinking_idx
         /\ blocks[i].kind = "text" => i = text_idx
<1>1. Members(q.stops) = {}
  BY DEF Members
<1>2. i \in Given /\ i < next_block_idx
  BY Sizes DEF Agrees, BlocksAgree, One
<1>3. Final(q)[i].open /\ Final(q)[i].kind = blocks[i].kind
  BY <1>1, <1>2 DEF Final, FinalBlock
<1>4. i \in Held
  BY <1>2, <1>3 DEF Agrees, Remembered, OpenAgrees
<1>5. i # 0
  BY Sizes
<1>6. i = thinking_idx \/ i = text_idx \/ \E t \in DOMAIN tools : i = tools[t].block
  BY <1>4 DEF Held, StartedSlots
<1> QED
  BY <1>2, <1>3, <1>4, <1>5, <1>6 DEF Agrees, Remembered, KindsAgree

LEMMA WithIsAppend ==
  ASSUME blocks \in Seq(Block), NEW b \in Block, NEW i, i = Len(blocks) + 1
  PROVE  /\ With(i, b) = Append(blocks, b)
         /\ Append(blocks, b) \in Seq(Block) /\ Len(Append(blocks, b)) = i
         /\ DOMAIN Append(blocks, b) = DOMAIN blocks \cup {i}
         /\ i \notin DOMAIN blocks /\ Append(blocks, b)[i] = b
         /\ \A j \in DOMAIN blocks : Append(blocks, b)[j] = blocks[j]
<1>1. Len(blocks) \in Nat /\ DOMAIN blocks = 1 .. Len(blocks)
  OBVIOUS
<1>2. DOMAIN blocks \cup {i} = 1 .. i /\ i \notin DOMAIN blocks
  BY <1>1
<1>3. /\ Append(blocks, b) \in Seq(Block) /\ Len(Append(blocks, b)) = i
      /\ \A j \in 1 .. Len(blocks) : Append(blocks, b)[j] = blocks[j]
      /\ Append(blocks, b)[i] = b
  BY AppendProperties
<1>4. Append(blocks, b) = [j \in 1 .. i |-> Append(blocks, b)[j]]
  BY <1>3, LenProperties
<1>5. \A j \in 1 .. i : Append(blocks, b)[j] = IF j = i THEN b ELSE blocks[j]
  BY <1>1, <1>2, <1>3
<1>6. With(i, b) = [j \in 1 .. i |-> IF j = i THEN b ELSE blocks[j]]
  BY <1>2 DEF With
<1>7. With(i, b) = Append(blocks, b)
  BY <1>4, <1>5, <1>6
<1> QED
  BY <1>1, <1>2, <1>3, <1>7, LenProperties

LEMMA OpenIsRead ==
  ASSUME TypeOK, ConverterInv, NEW q \in Scripts, out = Written(q), Agrees(q),
         ClientReads, ~ q.begin, ~ q.fail, q.stops = << >>, q.opens # "none"
  PROVE  IInv' /\ \E kind \in Protocol!Kinds : Protocol!Open(kind)
<1> DEFINE r == [q EXCEPT !.opens = "none"]
           b == [kind |-> q.opens, open |-> TRUE, parts |-> 0]
<1>1. Reads(q, BlockStart(q.at, q.opens), r)
  BY ReadOpen
<1>2. /\ ~ r.fail /\ r.stops = << >> /\ r.opens = "none" /\ r.delta = q.delta
      /\ r.ends = q.ends /\ r.at = q.at /\ ~ r.begin
  BY DEF Scripts
<1>3. b \in Block /\ q.opens \in BlockKinds
  BY DEF Scripts, Block
<1> HIDE DEF r, b
<1>4. /\ q.at = Len(blocks) + 1 /\ ~ finished /\ thinking_idx \in {0, q.at}
      /\ q.opens = "text" => text_idx = q.at
  BY DEF Agrees, BlocksAgree
<1>5. /\ blocks' = Append(blocks, b) /\ UNCHANGED <<phase, failed>>
      /\ UNCHANGED <<expose_thinking, convVars, chunks>>
  <2>1. blocks' = With(q.at, b) /\ UNCHANGED <<phase, failed>>
    BY <1>1, BelievesOpen DEF ClientReads, Reads, b
  <2> QED
    BY <1>3, <1>4, <2>1, Sizes, WithIsAppend DEF ClientReads
<1>6. r \in Scripts /\ out' = Written(r)
  BY <1>1 DEF Reads, ClientReads
<1>7. /\ blocks' \in Seq(Block) /\ Len(blocks') = q.at
      /\ DOMAIN blocks' = DOMAIN blocks \cup {q.at} /\ q.at \notin DOMAIN blocks
      /\ blocks'[q.at] = b /\ \A j \in DOMAIN blocks : blocks'[j] = blocks[j]
  BY <1>3, <1>4, <1>5, Sizes, WithIsAppend
<1>8. started
  BY <1>4, Sizes DEF Agrees, BlocksAgree, ConverterInv, One
<1>9. MessageAgrees(r)'
  BY <1>2, <1>5 DEF Agrees, MessageAgrees, convVars
<1>10. BlocksAgree(r)'
  <2>1. Len(blocks') = next_block_idx - 1
    BY <1>4, <1>7, Sizes DEF Agrees, BlocksAgree, One
  <2> QED
    BY <1>2, <1>5, <2>1 DEF Agrees, BlocksAgree, Held, StartedSlots, Given, One, convVars
<1>11. StopsAgree(r)'
  BY <1>2 DEF StopsAgree
<1>12. Final(r)' = Final(q)
  <2>1. Members(r.stops) = {} /\ Members(q.stops) = {}
    BY <1>2 DEF Members
  <2>2. ASSUME NEW j \in Given
        PROVE  FinalBlock(r, j)' = FinalBlock(q, j)
    <3>1. CASE j = q.at
      <4>1. b.kind = q.opens /\ b.open = TRUE /\ b.parts = 0
        BY DEF b
      <4> QED
        BY <1>2, <1>7, <2>1, <3>1, <4>1 DEF FinalBlock, One
    <3>2. CASE j \in DOMAIN blocks
      <4>1. j # q.at /\ j \in DOMAIN blocks'
        BY <1>7, <3>2
      <4> QED
        BY <1>2, <1>7, <2>1, <3>2, <4>1 DEF FinalBlock, One
    <3>3. j = q.at \/ j \in DOMAIN blocks
      BY <1>4, Sizes DEF Agrees, BlocksAgree, One
    <3> QED
      BY <3>1, <3>2, <3>3
  <2> QED
    BY <1>5, <2>2, FinalIsSame DEF convVars
<1>13. phase' \in {"new", "begun", "over"} /\ failed' \in BOOLEAN
  BY <1>5 DEF TypeOK
<1>14. IInv'
  BY <1>5, <1>6, <1>7, <1>9, <1>10, <1>11, <1>12, <1>13, ViewStep DEF Agrees
<1>15. Protocol!Open(q.opens)
  <2>1. phase = "begun" /\ ~ failed
    BY <1>4, <1>8 DEF Agrees, MessageAgrees
  <2>2. ASSUME NEW j \in DOMAIN blocks, blocks[j].open
        PROVE  blocks[j].kind # "thinking" /\ (q.opens = "text" => blocks[j].kind # "text")
    <3>1. j # q.at /\ j # 0
      BY <1>7, Sizes
    <3> QED
      BY <1>4, <2>2, <3>1, OpenIsHeld
  <2>3. Protocol!OpenOfKind("thinking") = {}
        /\ (q.opens = "text" => Protocol!OpenOfKind("text") = {})
    BY <2>2 DEF Protocol!OpenOfKind, Protocol!OpenBlocks
  <2> QED
    BY <1>5, <2>1, <2>3 DEF Protocol!Open, Protocol!Streaming, b
<1> QED
  BY <1>3, <1>14, <1>15 DEF Protocol!Kinds, BlockKinds

LEMMA DeltaIsRead ==
  ASSUME TypeOK, ConverterInv, NEW q \in Scripts, out = Written(q), Agrees(q),
         ClientReads, ~ q.begin, ~ q.fail, q.stops = << >>, q.opens = "none", q.delta
  PROVE  IInv' /\ \E i \in DOMAIN blocks : Protocol!Fragment(i)
<1> DEFINE r == [q EXCEPT !.delta = FALSE]
           i == q.at
<1>1. Reads(q, BlockDelta(i), r)
  BY ReadDelta
<1>2. /\ ~ r.fail /\ r.stops = << >> /\ r.opens = "none" /\ ~ r.delta
      /\ r.ends = q.ends /\ r.at = i /\ ~ r.begin
  BY DEF Scripts
<1> HIDE DEF r
<1>3. Len(blocks) = next_block_idx - 1 /\ DOMAIN blocks = Given
  BY Sizes DEF Agrees, BlocksAgree, One
<1>4. i \in DOMAIN blocks /\ i \in Held /\ ~ finished /\ thinking_idx \in {0, i}
  BY <1>3 DEF Agrees, BlocksAgree
<1>5. /\ blocks' = [blocks EXCEPT ![i].parts = @ + 1] /\ UNCHANGED <<phase, failed>>
      /\ UNCHANGED <<expose_thinking, convVars, chunks>>
  BY <1>1, BelievesDelta DEF ClientReads, Reads
<1>6. r \in Scripts /\ out' = Written(r)
  BY <1>1 DEF Reads, ClientReads
<1>7. /\ DOMAIN blocks' = DOMAIN blocks /\ Len(blocks') = Len(blocks) /\ blocks' \in Seq(Block)
      /\ \A j \in DOMAIN blocks : /\ blocks'[j].kind = blocks[j].kind
                                  /\ blocks'[j].open = blocks[j].open
                                  /\ blocks'[j].parts = blocks[j].parts + One(j = i)
  <2>1. \A j \in DOMAIN blocks : blocks[j] \in Block
    BY Sizes
  <2>2. \A j \in DOMAIN blocks : blocks'[j] = IF j = i THEN [blocks[i] EXCEPT !.parts = @ + 1]
                                                      ELSE blocks[j]
    BY <1>5
  <2>3. [blocks[i] EXCEPT !.parts = @ + 1] \in Block
    BY <1>4, <2>1 DEF Block
  <2>4. blocks' \in Seq(Block) /\ Len(blocks') = Len(blocks) /\ DOMAIN blocks' = DOMAIN blocks
    BY <1>4, <1>5, <2>3, Sizes, ExceptSeq
  <2> QED
    BY <1>4, <2>1, <2>2, <2>4 DEF Block, One
<1>8. started
  BY <1>3, <1>4, Sizes DEF ConverterInv
<1>9. MessageAgrees(r)'
  BY <1>2, <1>5 DEF Agrees, MessageAgrees, convVars
<1>10. BlocksAgree(r)'
  BY <1>2, <1>3, <1>5, <1>7 DEF BlocksAgree, One, convVars
<1>11. StopsAgree(r)'
  BY <1>2 DEF StopsAgree
<1>12. Final(r)' = Final(q)
  <2>1. Members(r.stops) = {} /\ Members(q.stops) = {}
    BY <1>2 DEF Members
  <2>2. ASSUME NEW j \in Given
        PROVE  FinalBlock(r, j)' = FinalBlock(q, j)
    <3>1. j \in DOMAIN blocks /\ blocks[j].parts \in Nat
      BY <1>3, Sizes DEF Block
    <3>2. blocks'[j].parts + 0 = blocks[j].parts + One(i = j)
      BY <1>7, <3>1 DEF One
    <3> QED
      BY <1>2, <1>7, <2>1, <3>1, <3>2 DEF FinalBlock, One
  <2> QED
    BY <1>5, <2>2, FinalIsSame DEF convVars
<1>13. phase' \in {"new", "begun", "over"} /\ failed' \in BOOLEAN
  BY <1>5 DEF TypeOK
<1>14. IInv'
  BY <1>5, <1>6, <1>7, <1>9, <1>10, <1>11, <1>12, <1>13, ViewStep DEF Agrees
<1>15. Protocol!Fragment(i)
  <2>1. phase = "begun" /\ ~ failed
    BY <1>4, <1>8 DEF Agrees, MessageAgrees
  <2>2. blocks[i].open
    <3>1. Final(q)[i].open
      BY <1>3, <1>4 DEF Agrees, Remembered, OpenAgrees
    <3> QED
      BY <1>3, <1>4, <3>1 DEF Final, FinalBlock
  <2>3. Protocol!OpenOfKind("thinking") \subseteq {i}
    <3> SUFFICES ASSUME NEW j \in DOMAIN blocks, blocks[j].open, blocks[j].kind = "thinking"
                 PROVE  j = i
      BY DEF Protocol!OpenOfKind, Protocol!OpenBlocks
    <3>1. j = thinking_idx /\ j # 0
      BY OpenIsHeld, Sizes
    <3> QED
      BY <1>4, <3>1
  <2> QED
    BY <1>4, <1>5, <2>1, <2>2, <2>3
       DEF Protocol!Fragment, Protocol!Streaming, Protocol!OpenBlocks
<1> QED
  BY <1>4, <1>14, <1>15

LEMMA EndIsRead ==
  ASSUME TypeOK, ConverterInv, NEW q \in Scripts, out = Written(q), Agrees(q),
         ClientReads, ~ q.begin, ~ q.fail, q.stops = << >>, q.opens = "none", ~ q.delta, q.ends
  PROVE  IInv' /\ Protocol!End
<1> DEFINE r == [q EXCEPT !.ends = FALSE]
<1>1. Reads(q, MessageStop, r)
  BY ReadEnd
<1>2. /\ ~ r.fail /\ r.stops = q.stops /\ r.opens = q.opens /\ r.delta = q.delta
      /\ ~ r.ends /\ r.at = q.at /\ ~ r.begin
  BY DEF Scripts
<1> HIDE DEF r
<1>3. /\ phase' = "over" /\ UNCHANGED <<blocks, failed>>
      /\ UNCHANGED <<expose_thinking, convVars, chunks>>
  BY <1>1, BelievesEnd DEF ClientReads, Reads
<1>4. r \in Scripts /\ out' = Written(r)
  BY <1>1 DEF Reads, ClientReads
<1>5. finished
  BY DEF Agrees, MessageAgrees
<1>6. MessageAgrees(r)'
  BY <1>2, <1>3, <1>5 DEF Agrees, MessageAgrees, convVars
<1>7. BlocksAgree(r)' /\ StopsAgree(r)'
  BY <1>2, <1>3, BlocksAgreeUnmoved, StopsAgreeUnmoved DEF Agrees
<1>8. Final(r)' = Final(q)
  BY <1>2, <1>3, FinalUnmoved DEF convVars
<1>9. failed' \in BOOLEAN /\ blocks' \in Seq(Block)
  BY <1>3, Sizes DEF TypeOK
<1>10. IInv'
  BY <1>3, <1>4, <1>6, <1>7, <1>8, <1>9, ViewStep DEF Agrees
<1>11. Protocol!End
  <2>1. phase = "begun" \/ (phase = "new" /\ failed)
    BY <1>5 DEF Agrees, MessageAgrees, ConverterInv
  <2>2. Held = {0}
    BY <1>5 DEF ConverterInv, Held
  <2>3. Protocol!OpenBlocks = {}
    BY <2>2, OpenIsHeld, Sizes DEF Protocol!OpenBlocks
  <2> QED
    BY <1>3, <2>1, <2>3 DEF Protocol!End
<1> QED
  BY <1>10, <1>11

(***************************************************************************)
(* Whatever the client reads next is a step of the protocol.               *)
(***************************************************************************)
LEMMA ReadingStep ==
  ASSUME IInv, ClientReads
  PROVE  IInv' /\ Protocol!Next
<1>1. PICK q \in Scripts : out = Written(q) /\ Agrees(q)
  BY DEF IInv, DrainInv
<1>2. TypeOK /\ ConverterInv
  BY DEF IInv
<1>3. ~ Silent(q)
  BY <1>1, SilentScript DEF ClientReads
<1>4. CASE q.begin
  BY <1>1, <1>2, <1>4, BeginIsRead DEF Protocol!Next
<1>5. CASE ~ q.begin /\ q.fail
  BY <1>1, <1>2, <1>5, FailIsRead DEF Protocol!Next
<1>6. CASE ~ q.begin /\ ~ q.fail /\ q.stops # << >>
  BY <1>1, <1>2, <1>6, StopIsRead DEF Protocol!Next
<1>7. CASE ~ q.begin /\ ~ q.fail /\ q.stops = << >> /\ q.opens # "none"
  BY <1>1, <1>2, <1>7, OpenIsRead DEF Protocol!Next
<1>8. CASE ~ q.begin /\ ~ q.fail /\ q.stops = << >> /\ q.opens = "none" /\ q.delta
  BY <1>1, <1>2, <1>8, DeltaIsRead DEF Protocol!Next
<1>9. CASE ~ q.begin /\ ~ q.fail /\ q.stops = << >> /\ q.opens = "none" /\ ~ q.delta /\ q.ends
  BY <1>1, <1>2, <1>9, EndIsRead DEF Protocol!Next
<1> QED
  BY <1>3, <1>4, <1>5, <1>6, <1>7, <1>8, <1>9 DEF Silent

-----------------------------------------------------------------------------
(***************************************************************************)
(* When the client has read everything, its view is what the converter     *)
(* remembers.                                                              *)
(***************************************************************************)
LEMMA Settled ==
  ASSUME IInv, out = << >>
  PROVE  /\ TypeOK /\ ConverterInv
         /\ phase = (IF finished THEN "over" ELSE IF started THEN "begun" ELSE "new")
         /\ failed = (finished /\ ~ finishSeen)
         /\ Len(blocks) = next_block_idx - 1 /\ DOMAIN blocks = Given
         /\ Remembered(blocks)
<1>1. PICK q \in Scripts : out = Written(q) /\ Agrees(q)
  BY DEF IInv, DrainInv
<1>2. TypeOK /\ ConverterInv
  BY DEF IInv
<1>3. Silent(q)
  BY <1>1, ReadAll
<1>4. /\ phase = (IF finished THEN "over" ELSE IF started THEN "begun" ELSE "new")
      /\ failed = (finished /\ ~ finishSeen)
  BY <1>1, <1>3 DEF Silent, Agrees, MessageAgrees
<1>5. Len(blocks) = next_block_idx - 1 /\ DOMAIN blocks = Given
  BY <1>1, <1>2, <1>3, Sizes DEF Silent, Agrees, BlocksAgree, One
<1>6. Final(q) = blocks
  <2>1. Members(q.stops) = {}
    BY <1>3 DEF Silent, Members
  <2>2. ASSUME NEW j \in Given
        PROVE  FinalBlock(q, j) = blocks[j]
    <3>1. blocks[j] \in Block
      BY <1>2, <1>5, Sizes
    <3>2. /\ FinalBlock(q, j).kind = blocks[j].kind /\ FinalBlock(q, j).open = blocks[j].open
          /\ FinalBlock(q, j).parts = blocks[j].parts /\ FinalBlock(q, j) \in Block
      BY <1>3, <1>5, <2>1, <3>1 DEF FinalBlock, Silent, One, Block
    <3> QED
      BY <3>1, <3>2 DEF Block
  <2>3. blocks = [j \in Given |-> blocks[j]]
    BY <1>2, <1>5, Sizes
  <2> QED
    BY <2>2, <2>3 DEF Final
<1> QED
  BY <1>1, <1>2, <1>4, <1>5, <1>6 DEF Agrees

(***************************************************************************)
(* One more fragment is one more element.                                  *)
(***************************************************************************)
LEMMA FragmentsMembers ==
  ASSUME NEW bs, NEW kind, NEW z
  PROVE  z \in Fragments(bs, kind) <=>
           \E x \in DOMAIN bs, m \in Nat :
              m \in 1 .. bs[x].parts /\ bs[x].kind = kind /\ z = <<x, m>>
BY DEF Fragments

LEMMA CountsGrow ==
  ASSUME NEW bs, NEW cs, NEW j, NEW c \in BOOLEAN, NEW d \in BOOLEAN, NEW k,
         DOMAIN cs = DOMAIN bs \cup {j}, c <=> j \notin DOMAIN bs,
         \A x \in DOMAIN bs : x # j => cs[x].kind = bs[x].kind /\ cs[x].parts = bs[x].parts,
         cs[j].kind = k,
         ~ c => bs[j].kind = k /\ bs[j].parts \in Nat,
         cs[j].parts = (IF c THEN 0 ELSE bs[j].parts) + One(d),
         NEW kind, NEW n \in Nat, Counts(bs, kind, n)
  PROVE  Counts(cs, kind, n + One(d /\ kind = k))
<1> DEFINE p == cs[j].parts
<1>1. p \in Nat /\ p = (IF c THEN 0 ELSE bs[j].parts) + One(d)
  BY DEF One
<1>2. CASE d /\ kind = k
  <2>1. <<j, p>> \notin Fragments(bs, kind)
    <3> SUFFICES ASSUME j \in DOMAIN bs, p \in 1 .. bs[j].parts
                 PROVE  FALSE
      BY FragmentsMembers
    <3> QED
      BY <1>1, <1>2 DEF One
  <2>2. ASSUME NEW z
        PROVE  z \in Fragments(cs, kind) <=> z \in Fragments(bs, kind) \cup {<<j, p>>}
    <3>1. ASSUME z \in Fragments(cs, kind)
          PROVE  z \in Fragments(bs, kind) \cup {<<j, p>>}
      <4>1. PICK x \in DOMAIN cs, m \in Nat :
                 m \in 1 .. cs[x].parts /\ cs[x].kind = kind /\ z = <<x, m>>
        BY <3>1, FragmentsMembers
      <4>2. CASE x # j
        BY <4>1, <4>2, FragmentsMembers
      <4>3. CASE x = j /\ m # p
        <5>1. j \in DOMAIN bs /\ m \in 1 .. bs[j].parts /\ bs[j].kind = kind
          BY <1>1, <1>2, <4>1, <4>3 DEF One
        <5> QED
          BY <4>1, <4>3, <5>1, FragmentsMembers
      <4> QED
        BY <4>1, <4>2, <4>3
    <3>2. ASSUME z \in Fragments(bs, kind)
          PROVE  z \in Fragments(cs, kind)
      <4>1. PICK x \in DOMAIN bs, m \in Nat :
                 m \in 1 .. bs[x].parts /\ bs[x].kind = kind /\ z = <<x, m>>
        BY <3>2, FragmentsMembers
      <4>2. m \in 1 .. cs[x].parts /\ cs[x].kind = kind /\ x \in DOMAIN cs
        BY <1>1, <1>2, <4>1 DEF One
      <4> QED
        BY <4>1, <4>2, FragmentsMembers
    <3>3. <<j, p>> \in Fragments(cs, kind)
      <4>1. p \in Nat /\ p \in 1 .. cs[j].parts /\ j \in DOMAIN cs /\ cs[j].kind = kind
        BY <1>1, <1>2 DEF One
      <4> HIDE DEF p
      <4> QED
        BY <4>1, FragmentsMembers
    <3> QED
      BY <3>1, <3>2, <3>3
  <2>3. Fragments(cs, kind) = Fragments(bs, kind) \cup {<<j, p>>}
    BY <2>2
  <2> QED
    BY <1>2, <2>1, <2>3, FS_AddElement DEF Counts, One
<1>3. CASE ~ (d /\ kind = k)
  <2>1. ASSUME NEW z
        PROVE  z \in Fragments(cs, kind) <=> z \in Fragments(bs, kind)
    <3>1. ASSUME z \in Fragments(cs, kind)
          PROVE  z \in Fragments(bs, kind)
      <4>1. PICK x \in DOMAIN cs, m \in Nat :
                 m \in 1 .. cs[x].parts /\ cs[x].kind = kind /\ z = <<x, m>>
        BY <3>1, FragmentsMembers
      <4>2. x \in DOMAIN bs /\ m \in 1 .. bs[x].parts /\ bs[x].kind = kind
        BY <1>1, <1>3, <4>1 DEF One
      <4> QED
        BY <4>1, <4>2, FragmentsMembers
    <3>2. ASSUME z \in Fragments(bs, kind)
          PROVE  z \in Fragments(cs, kind)
      <4>1. PICK x \in DOMAIN bs, m \in Nat :
                 m \in 1 .. bs[x].parts /\ bs[x].kind = kind /\ z = <<x, m>>
        BY <3>2, FragmentsMembers
      <4>2. m \in 1 .. cs[x].parts /\ cs[x].kind = kind /\ x \in DOMAIN cs
        BY <1>1, <1>3, <4>1 DEF One
      <4> QED
        BY <4>1, <4>2, FragmentsMembers
    <3> QED
      BY <3>1, <3>2
  <2>2. Fragments(cs, kind) = Fragments(bs, kind)
    BY <2>1
  <2> QED
    BY <1>3, <2>2 DEF Counts, One
<1> QED
  BY <1>2, <1>3

(***************************************************************************)
(* The script of a chunk.                                                  *)
(***************************************************************************)
LEMMA StopsShort ==
  /\ Stops(<< >>) = << >>
  /\ \A i \in Nat : Stops(<<i>>) = <<BlockStop(i)>>
<1>1. << >> \in Seq(Nat) /\ Len(<< >>) = 0
  BY EmptySeq
<1>2. Stops(<< >>) \in Seq(Events) /\ Len(Stops(<< >>)) = 0
  BY <1>1, StopsSeq
<1>3. Stops(<< >>) = << >>
  BY <1>2, EmptySeq
<1>4. ASSUME NEW i \in Nat
      PROVE  Stops(<<i>>) = <<BlockStop(i)>>
  <2>1. <<i>> \in Seq(Nat) /\ Len(<<i>>) = 1 /\ <<i>>[1] = i /\ 1 \in 1 .. 1
    OBVIOUS
  <2>2. /\ Stops(<<i>>) \in Seq(Events) /\ Len(Stops(<<i>>)) = 1
        /\ Stops(<<i>>)[1] = BlockStop(i)
    BY <2>1, StopsSeq
  <2>3. BlockStop(i) \in Events
    BY EventTypes
  <2>4. <<BlockStop(i)>> \in Seq(Events) /\ Len(<<BlockStop(i)>>) = 1
        /\ <<BlockStop(i)>>[1] = BlockStop(i)
    BY <2>3
  <2>5. \A n \in 1 .. 1 : Stops(<<i>>)[n] = <<BlockStop(i)>>[n]
    BY <2>2, <2>4
  <2> QED
    BY <2>2, <2>4, <2>5, SeqEqual
<1> QED
  BY <1>3, <1>4

Opening(q)  == If(q.opens # "none", <<BlockStart(q.at, q.opens)>>)
Fragment(q) == If(q.delta, <<BlockDelta(q.at)>>)

LEMMA FedScript ==
  ASSUME NEW q \in Scripts, ~ q.fail, ~ q.ends
  PROVE  /\ FailEvents(q) = Stops(q.stops) \o Opening(q) \o Fragment(q)
         /\ FailEvents(q) = Stops(q.stops) \o (Opening(q) \o Fragment(q))
<1>1. /\ q.stops \in Seq(Nat) /\ q.at \in Nat /\ q.opens \in {"none"} \cup BlockKinds
      /\ q.delta \in BOOLEAN
  BY DEF Scripts
<1>2. BlockStart(q.at, q.opens) \in Events /\ BlockDelta(q.at) \in Events /\ << >> \in Seq(Events)
  BY <1>1, EventTypes, EmptySeq
<1>3. Opening(q) \in Seq(Events) /\ Fragment(q) \in Seq(Events) /\ Stops(q.stops) \in Seq(Events)
  BY <1>1, <1>2, Maybe, ScriptSeq DEF Opening, Fragment
<1>4. DeltaEvents(q) = Fragment(q)
  <2>1. EndEvents(q) = << >>
    BY Unfold
  <2> QED
    BY <1>3, <2>1, ConcatEmptySeq DEF DeltaEvents, Fragment
<1>5. FailEvents(q) = Stops(q.stops) \o (Opening(q) \o Fragment(q))
  BY <1>4, Unfold DEF StopEvents, OpenEvents, Opening
<1>6. Stops(q.stops) \o Opening(q) \o Fragment(q) = Stops(q.stops) \o (Opening(q) \o Fragment(q))
  BY <1>3, ConcatAssociative
<1> QED
  BY <1>5, <1>6

(***************************************************************************)
(* A chunk comes in whose events are those of script q.                    *)
(***************************************************************************)
Fed(q) ==
  /\ ~ q.fail /\ ~ q.ends /\ (q.begin <=> ~ started)
  /\ q.stops = << >> \/ (thinking_idx # 0 /\ q.stops = <<thinking_idx>>)
  /\ q.opens # "none" => q.at = next_block_idx
  /\ Feed(FailEvents(q))
  /\ next_block_idx' = next_block_idx + One(q.opens # "none")

LEMMA FedFacts ==
  ASSUME IInv, NEW q \in Scripts, Fed(q)
  PROVE  /\ out = << >> /\ ~ finished /\ chunks < MaxChunks /\ chunks' = chunks + 1
         /\ started' = TRUE /\ out' = Written(q)
         /\ expose_thinking' = expose_thinking /\ finished' = finished
         /\ phase' = phase /\ blocks' = blocks /\ failed' = failed
<1>1. /\ out = << >> /\ ~ finished /\ chunks < MaxChunks /\ chunks' = chunks + 1
      /\ started' = TRUE /\ out' = If(~ started, <<MessageStart>>) \o FailEvents(q)
      /\ expose_thinking' = expose_thinking /\ finished' = finished
      /\ phase' = phase /\ blocks' = blocks /\ failed' = failed
  BY DEF Fed, Feed, view
<1>2. If(~ started, <<MessageStart>>) = If(q.begin, <<MessageStart>>)
  BY DEF Fed, If
<1> QED
  BY <1>1, <1>2 DEF Written

\* The converter at rest, as the steps below use it.
AtRest ==
  /\ TypeOK /\ ConverterInv /\ Remembered(blocks)
  /\ DOMAIN blocks = Given /\ Len(blocks) = next_block_idx - 1
  /\ next_block_idx \in Nat \ {0} /\ Given = 1 .. next_block_idx - 1
  /\ \A x \in Given : blocks[x] \in Block

LEMMA RestFacts ==
  ASSUME IInv, out = << >>
  PROVE  AtRest
BY Settled, Sizes DEF AtRest

(***************************************************************************)
(* The final view after a chunk.                                           *)
(***************************************************************************)
Grows(q, cs) ==
  /\ \A x \in Given : /\ cs[x].kind = blocks[x].kind
                      /\ cs[x].open <=> blocks[x].open /\ x \notin Members(q.stops)
                      /\ cs[x].parts = blocks[x].parts + One(q.delta /\ q.at = x)
  /\ q.opens # "none" => cs[q.at].kind = q.opens /\ cs[q.at].open /\ cs[q.at].parts = One(q.delta)

LEMMA FedGiven ==
  ASSUME IInv, NEW q \in Scripts, Fed(q)
  PROVE  /\ q.opens # "none" => Given' = Given \cup {q.at} /\ q.at \notin Given
         /\ q.opens = "none" => Given' = Given
<1>1. AtRest
  BY FedFacts, RestFacts
<1>2. CASE q.opens # "none"
  <2>1. next_block_idx' = next_block_idx + 1 /\ q.at = next_block_idx
    BY <1>2 DEF Fed, One
  <2>2. Given' = 1 .. (next_block_idx + 1) - 1
    BY <2>1 DEF Given
  <2> QED
    BY <1>1, <1>2, <2>1, <2>2 DEF AtRest
<1>3. CASE q.opens = "none"
  <2>1. next_block_idx' = next_block_idx + 0
    BY <1>3 DEF Fed, One
  <2> QED
    BY <1>1, <1>3, <2>1 DEF AtRest, Given
<1> QED
  BY <1>2, <1>3

LEMMA FedFinal ==
  ASSUME IInv, NEW q \in Scripts, Fed(q)
  PROVE  Final(q)' \in [Given' -> Block] /\ Grows(q, Final(q)')
<1>1. AtRest /\ blocks' = blocks
  BY FedFacts, RestFacts
<1>2. q.opens \in {"none"} \cup BlockKinds
  BY DEF Scripts
<1> DEFINE F == [x \in Given' |-> FinalBlock(q, x)']
<1>3. Final(q)' = F
  BY DEF Final
<1>4. ASSUME NEW x \in Given
      PROVE  /\ FinalBlock(q, x)' \in Block
             /\ FinalBlock(q, x)'.kind = blocks[x].kind
             /\ FinalBlock(q, x)'.open <=> blocks[x].open /\ x \notin Members(q.stops)
             /\ FinalBlock(q, x)'.parts = blocks[x].parts + One(q.delta /\ q.at = x)
  <2>1. x \in DOMAIN blocks' /\ blocks'[x] = blocks[x] /\ blocks[x] \in Block
    BY <1>1 DEF AtRest
  <2>2. FinalBlock(q, x)' =
          [kind |-> blocks[x].kind, open |-> blocks[x].open /\ x \notin Members(q.stops),
           parts |-> blocks[x].parts + One(q.delta /\ q.at = x)]
    BY <2>1 DEF FinalBlock
  <2>3. (blocks[x].open /\ x \notin Members(q.stops)) \in BOOLEAN
        /\ One(q.delta /\ q.at = x) \in Nat
    BY DEF One
  <2>4. /\ FinalBlock(q, x)'.kind = blocks[x].kind
        /\ FinalBlock(q, x)'.open = (blocks[x].open /\ x \notin Members(q.stops))
        /\ FinalBlock(q, x)'.parts = blocks[x].parts + One(q.delta /\ q.at = x)
    BY <2>2, <2>3
  <2>5. FinalBlock(q, x)' \in Block
    BY <2>1, <2>2, <2>3 DEF Block
  <2> QED
    BY <2>4, <2>5
<1>5. ASSUME q.opens # "none"
      PROVE  /\ FinalBlock(q, q.at)' \in Block
             /\ FinalBlock(q, q.at)'.kind = q.opens /\ FinalBlock(q, q.at)'.open
             /\ FinalBlock(q, q.at)'.parts = One(q.delta)
  <2>1. q.at \notin DOMAIN blocks'
    BY <1>1, <1>5, FedGiven DEF AtRest
  <2>2. FinalBlock(q, q.at)' = [kind |-> q.opens, open |-> TRUE, parts |-> 0 + One(q.delta)]
    BY <2>1 DEF FinalBlock, One
  <2>3. One(q.delta) \in Nat
    BY DEF One
  <2> QED
    BY <1>2, <1>5, <2>2, <2>3 DEF Block
<1>6. F \in [Given' -> Block]
  BY <1>4, <1>5, FedGiven
<1>7. /\ \A x \in Given : F[x] = FinalBlock(q, x)'
      /\ q.opens # "none" => F[q.at] = FinalBlock(q, q.at)'
  BY FedGiven
<1> HIDE DEF F
<1>8. Grows(q, F)
  BY <1>4, <1>5, <1>7 DEF Grows
<1> QED
  BY <1>3, <1>6, <1>8

LEMMA FedCounts ==
  ASSUME IInv, NEW q \in Scripts, Fed(q), q.at \in Given',
         NEW kind, NEW n \in Nat, Counts(blocks, kind, n)
  PROVE  /\ q.delta /\ Final(q)'[q.at].kind = kind => Counts(Final(q)', kind, n + 1)
         /\ ~ (q.delta /\ Final(q)'[q.at].kind = kind) => Counts(Final(q)', kind, n)
<1> DEFINE j == q.at
           c == q.opens # "none"
           cs == Final(q)'
           k == Final(q)'[q.at].kind
<1>1. AtRest /\ Grows(q, cs) /\ DOMAIN cs = Given'
  BY FedFacts, RestFacts, FedFinal
<1>2. c \in BOOLEAN /\ q.delta \in BOOLEAN
  BY DEF Scripts
<1>3. DOMAIN cs = DOMAIN blocks \cup {j} /\ (c <=> j \notin DOMAIN blocks)
  BY <1>1, FedGiven DEF AtRest
<1> HIDE DEF cs
<1>4. \A x \in DOMAIN blocks : x # j => cs[x].kind = blocks[x].kind /\ cs[x].parts = blocks[x].parts
  <2>1. \A x \in DOMAIN blocks : blocks[x].parts \in Nat
    BY <1>1 DEF AtRest, Block
  <2> QED
    BY <1>1, <2>1 DEF Grows, One, AtRest
<1>5. ~ c => blocks[j].kind = k /\ blocks[j].parts \in Nat
  BY <1>1, <1>3 DEF Grows, AtRest, Block, cs
<1>6. cs[j].kind = k /\ cs[j].parts = (IF c THEN 0 ELSE blocks[j].parts) + One(q.delta)
  <2>1. One(q.delta) \in Nat
    BY DEF One
  <2>2. CASE c
    BY <1>1, <2>1, <2>2 DEF Grows, cs
  <2>3. CASE ~ c
    <3>1. j \in Given /\ One(q.delta /\ q.at = j) = One(q.delta)
      BY <1>1, <1>3, <2>3 DEF AtRest, One
    <3> QED
      BY <1>1, <2>3, <3>1 DEF Grows, cs
  <2> QED
    BY <2>2, <2>3
<1> HIDE DEF c, j, k
<1>7. Counts(cs, kind, n + One(q.delta /\ kind = k))
  BY <1>2, <1>3, <1>4, <1>5, <1>6, CountsGrow
<1>8. Counts(Final(q)', kind, n + One(q.delta /\ kind = k))
  BY <1>7 DEF cs
<1>9. k = Final(q)'[q.at].kind
  BY DEF k
<1> QED
  BY <1>8, <1>9 DEF One

LEMMA Single ==
  ASSUME NEW i
  PROVE  DOMAIN <<i>> = {1} /\ <<i>>[1] = i
OBVIOUS

(***************************************************************************)
(* The invariant after a chunk.                                            *)
(***************************************************************************)
FedInv ==
  /\ finishSeen \in BOOLEAN /\ thinking_accum \in Nat /\ text_accum \in Nat
  /\ thinking_idx \in {0} \cup Given /\ text_idx \in {0} \cup Given
  /\ DOMAIN tools \subseteq ToolIndexes /\ IsFiniteSet(DOMAIN tools)
  /\ \A t \in DOMAIN tools : tools[t] \in Slot /\ tools[t].block \in Given /\ tools[t].started

LEMMA AfterFeed ==
  ASSUME IInv, NEW q \in Scripts, Fed(q), FedInv', Remembered(Final(q))',
         q.opens # "none" \/ q.delta => /\ q.at \in Given' /\ q.at \in Held'
                                        /\ thinking_idx' \in {0, q.at},
         q.opens = "text" => text_idx' = q.at
  PROVE  IInv'
<1>1. /\ AtRest /\ TypeOK /\ ConverterInv /\ Len(blocks) = next_block_idx - 1
      /\ DOMAIN blocks = Given /\ next_block_idx \in Nat \ {0} /\ Remembered(blocks)
  BY FedFacts, RestFacts DEF AtRest
<1>2. /\ out = << >> /\ ~ finished /\ chunks < MaxChunks /\ chunks' = chunks + 1
      /\ started' = TRUE /\ out' = Written(q)
      /\ expose_thinking' = expose_thinking /\ finished' = finished
      /\ phase' = phase /\ blocks' = blocks /\ failed' = failed
  BY FedFacts
<1>3. phase = (IF started THEN "begun" ELSE "new") /\ failed = FALSE
  BY <1>2, Settled
<1>4. /\ ~ q.fail /\ ~ q.ends /\ (q.begin <=> ~ started)
      /\ q.stops = << >> \/ (thinking_idx # 0 /\ q.stops = <<thinking_idx>>)
      /\ q.opens # "none" => q.at = next_block_idx
      /\ next_block_idx' = next_block_idx + One(q.opens # "none")
  BY DEF Fed
<1>5. /\ chunks \in Nat /\ MaxChunks \in Nat /\ next_block_idx <= chunks + 1
      /\ One(q.opens # "none") \in {0, 1}
  BY <1>1, AnthropicAssumption DEF TypeOK, ConverterInv, One
<1>6. TypeOK'
  <2>1. next_block_idx' \in 1 .. MaxChunks + 1 /\ chunks' \in 0 .. MaxChunks
    BY <1>1, <1>2, <1>4, <1>5
  <2>2. phase' \in {"new", "begun", "over"} /\ failed' \in BOOLEAN /\ expose_thinking' \in BOOLEAN
        /\ finished' \in BOOLEAN
    BY <1>1, <1>2 DEF TypeOK
  <2> QED
    BY <1>1, <1>2, <2>1, <2>2 DEF TypeOK, FedInv
<1>7. ConverterInv'
  BY <1>1, <1>2, <1>4, <1>5 DEF ConverterInv, FedInv
<1>8. MessageAgrees(q)'
  BY <1>1, <1>2, <1>3, <1>4 DEF MessageAgrees, TypeOK
<1>9. BlocksAgree(q)'
  <2>1. Len(blocks') + One(q.opens # "none") = next_block_idx' - 1
    BY <1>1, <1>2, <1>4, <1>5
  <2>2. q.opens # "none" => q.at = Len(blocks') + 1
    BY <1>1, <1>2, <1>4
  <2> QED
    BY <1>2, <2>1, <2>2 DEF BlocksAgree
<1>10. StopsAgree(q)'
  <2>1. CASE q.stops = << >>
    BY <2>1 DEF StopsAgree
  <2>2. CASE thinking_idx # 0 /\ q.stops = <<thinking_idx>>
    <3>1. DOMAIN q.stops = {1} /\ q.stops[1] = thinking_idx
      BY <2>2, Single
    <3>2. thinking_idx \in Given /\ thinking_idx \in Held
      BY <1>1, <2>2 DEF TypeOK, Held
    <3>3. thinking_idx \in DOMAIN blocks /\ blocks[thinking_idx].open
      BY <1>1, <3>2 DEF Remembered, OpenAgrees
    <3> QED
      BY <1>2, <3>1, <3>3 DEF StopsAgree
  <2> QED
    BY <1>4, <2>1, <2>2
<1>11. Agrees(q)'
  BY <1>8, <1>9, <1>10 DEF Agrees
<1>12. DrainInv'
  <2>1. Written(q)' = Written(q)
    OBVIOUS
  <2> QED
    BY <1>2, <1>11, <2>1 DEF DrainInv
<1> QED
  BY <1>6, <1>7, <1>12 DEF IInv

\* What is held open after a chunk is what the final view has open.
LEMMA FedOpen ==
  ASSUME IInv, NEW q \in Scripts, Fed(q),
         \A x \in Given : x \in Held' <=> x \in Held /\ x \notin Members(q.stops),
         q.opens # "none" => q.at \in Held'
  PROVE  OpenAgrees(Final(q))'
<1>1. AtRest /\ Grows(q, Final(q)')
  BY FedFacts, RestFacts, FedFinal
<1>2. ASSUME NEW x \in Given'
      PROVE  Final(q)'[x].open <=> x \in Held'
  <2>1. CASE x \in Given
    <3>1. blocks[x].open <=> x \in Held
      BY <1>1, <2>1 DEF AtRest, Remembered, OpenAgrees
    <3>2. Final(q)'[x].open <=> blocks[x].open /\ x \notin Members(q.stops)
      BY <1>1, <2>1 DEF Grows
    <3> QED
      BY <2>1, <3>1, <3>2
  <2>2. CASE x \notin Given
    <3>1. q.opens # "none" /\ x = q.at
      BY <1>2, <2>2, FedGiven
    <3> QED
      BY <1>1, <3>1 DEF Grows
  <2> QED
    BY <2>1, <2>2
<1> QED
  BY <1>2 DEF OpenAgrees

\* A chunk without events of its own.
LEMMA IdleStep ==
  ASSUME IInv, Feed(<< >>), finishSeen' \in BOOLEAN,
         UNCHANGED <<next_block_idx, thinking_idx, text_idx, tools, text_accum>>,
         thinking_accum' \in Nat, expose_thinking => UNCHANGED thinking_accum
  PROVE  IInv'
<1>1. PICK q \in Scripts : /\ q.begin = ~ started /\ q.fail = FALSE /\ q.stops = << >>
                           /\ q.opens = "none" /\ q.delta = FALSE /\ q.ends = FALSE /\ q.at = 0
  <2> DEFINE q == [begin |-> ~ started, fail |-> FALSE, stops |-> << >>, opens |-> "none",
                   delta |-> FALSE, ends |-> FALSE, at |-> 0]
  <2>1. q \in Scripts
    BY EmptySeq DEF Scripts
  <2> QED
    BY <2>1
<1>2. out = << >> /\ ~ finished
  BY DEF Feed
<1>3. AtRest /\ TypeOK /\ ConverterInv
  BY <1>2, RestFacts DEF AtRest
<1>4. Fed(q)
  <2>1. FailEvents(q) = << >>
    BY <1>1, Unfold
  <2>2. next_block_idx' = next_block_idx + One(q.opens # "none")
    BY <1>1, <1>3 DEF One, AtRest
  <2> QED
    BY <1>1, <2>1, <2>2 DEF Fed
<1>5. Given' = Given /\ Final(q)' \in [Given' -> Block] /\ Grows(q, Final(q)')
      /\ expose_thinking' = expose_thinking
  BY <1>1, <1>4, FedGiven, FedFinal, FedFacts
<1>6. ASSUME NEW x \in Given
      PROVE  Final(q)'[x] = blocks[x]
  <2>1. Final(q)'[x] \in Block /\ blocks[x] \in Block
    BY <1>3, <1>5 DEF AtRest
  <2>2. x \notin Members(q.stops) /\ One(q.delta /\ q.at = x) = 0
    BY <1>1 DEF Members, One
  <2>3. /\ Final(q)'[x].kind = blocks[x].kind /\ (Final(q)'[x].open <=> blocks[x].open)
        /\ Final(q)'[x].parts = blocks[x].parts + 0
    BY <1>5, <2>2 DEF Grows
  <2> QED
    BY <2>1, <2>3 DEF Block
<1>7. Final(q)' = blocks
  BY <1>3, <1>5, <1>6 DEF AtRest, Remembered
<1>8. Remembered(Final(q))'
  <2>1. Remembered(blocks)
    BY <1>3 DEF AtRest
  <2>2. OpenAgrees(Final(q))'
    BY <1>5, <1>7, <2>1 DEF Remembered, OpenAgrees, Held, StartedSlots
  <2>3. KindsAgree(Final(q))'
    BY <1>7, <2>1 DEF Remembered, KindsAgree
  <2>4. (IF expose_thinking THEN thinking_accum ELSE 0)'
          = (IF expose_thinking THEN thinking_accum ELSE 0)
    BY <1>5
  <2>5. PartsAgree(Final(q))'
    BY <1>7, <2>1, <2>4 DEF Remembered, PartsAgree
  <2> QED
    BY <1>5, <2>2, <2>3, <2>5 DEF Remembered
<1>9. FedInv'
  BY <1>2, <1>3, <1>5 DEF FedInv, TypeOK, ConverterInv
<1> QED
  BY <1>1, <1>4, <1>8, <1>9, AfterFeed

LEMMA ReasoningStep ==
  ASSUME IInv, Reasoning
  PROVE  IInv'
<1> DEFINE i == IF ThinkingOpen THEN thinking_idx ELSE next_block_idx
<1>1. /\ expose_thinking
      /\ Feed(If(~ ThinkingOpen, <<BlockStart(i, "thinking")>>) \o <<BlockDelta(i)>>)
      /\ thinking_idx' = i
      /\ next_block_idx' = IF ThinkingOpen THEN next_block_idx ELSE next_block_idx + 1
      /\ thinking_accum' = thinking_accum + 1
      /\ UNCHANGED <<finishSeen, text_idx, tools, text_accum>>
  BY DEF Reasoning
<1>2. out = << >> /\ ~ finished
  BY <1>1 DEF Feed
<1>3. AtRest /\ TypeOK /\ ConverterInv
  BY <1>2, RestFacts DEF AtRest
<1>4. i \in Nat
  BY <1>3 DEF TypeOK, AtRest
<1>5. PICK q \in Scripts :
         /\ q.begin = ~ started /\ q.fail = FALSE /\ q.stops = << >>
         /\ q.opens = (IF ThinkingOpen THEN "none" ELSE "thinking")
         /\ q.delta = TRUE /\ q.ends = FALSE /\ q.at = i
  <2> DEFINE q == [begin |-> ~ started, fail |-> FALSE, stops |-> << >>,
                   opens |-> IF ThinkingOpen THEN "none" ELSE "thinking",
                   delta |-> TRUE, ends |-> FALSE, at |-> i]
  <2>1. << >> \in Seq(Nat)
    BY EmptySeq
  <2>2. q \in Scripts
    <3> HIDE DEF i
    <3> QED
      BY <1>4, <2>1 DEF Scripts, BlockKinds
  <2> QED
    BY <2>2
<1> HIDE DEF i
<1>6. Fed(q)
  <2>1. /\ If(~ ThinkingOpen, <<BlockStart(i, "thinking")>>) = Opening(q)
        /\ <<BlockDelta(i)>> = Fragment(q)
    BY <1>5 DEF Opening, Fragment, If
  <2>2. FailEvents(q) = Opening(q) \o Fragment(q)
    <3>1. << >> \in Seq(Events) /\ FailEvents(q) = OpenEvents(q) /\ EndEvents(q) = << >>
      BY <1>5, Unfold, EmptySeq
    <3>2. Fragment(q) \in Seq(Events)
      BY <1>4, <1>5, EventTypes DEF Fragment, If
    <3> QED
      BY <3>1, <3>2, ConcatEmptySeq DEF OpenEvents, DeltaEvents, Opening, Fragment
  <2>3. next_block_idx' = next_block_idx + One(q.opens # "none")
    BY <1>1, <1>3, <1>5 DEF One, AtRest
  <2>4. q.opens # "none" => q.at = next_block_idx
    BY <1>5 DEF i
  <2> QED
    BY <1>1, <1>5, <2>1, <2>2, <2>3, <2>4 DEF Fed
<1>7. /\ Final(q)' \in [Given' -> Block] /\ Grows(q, Final(q)')
      /\ expose_thinking' = expose_thinking
      /\ q.opens # "none" => Given' = Given \cup {q.at} /\ q.at \notin Given
      /\ q.opens = "none" => Given' = Given
  BY <1>6, FedGiven, FedFinal, FedFacts
<1>8. /\ q.at = i /\ i \in Given' /\ i # 0 /\ (thinking_idx # 0 => i = thinking_idx)
      /\ thinking_idx \in {0} \cup Given /\ text_idx \in {0} \cup Given /\ Given \subseteq Given'
      /\ 0 \notin Given
  BY <1>3, <1>5, <1>7 DEF i, ThinkingOpen, TypeOK, AtRest
<1>9. Held' = {i, text_idx} \cup {tools[t].block : t \in StartedSlots}
  BY <1>1 DEF Held, StartedSlots
<1>10. OpenAgrees(Final(q))'
  <2>1. \A x \in Given : x \notin Members(q.stops)
    BY <1>5 DEF Members
  <2>2. \A x \in Given : x \in Held' <=> x \in Held
    BY <1>5, <1>7, <1>8, <1>9 DEF Held, i, ThinkingOpen
  <2> QED
    BY <1>5, <1>6, <1>9, <2>1, <2>2, FedOpen
<1>11. /\ KindsAgree(blocks) /\ PartsAgree(blocks)
       /\ \A t \in DOMAIN tools : tools[t].block \in Given
  BY <1>3 DEF AtRest, Remembered, TypeOK
<1>12. Final(q)'[i].kind = "thinking"
  BY <1>5, <1>7, <1>8, <1>11 DEF Grows, KindsAgree, ThinkingOpen
<1>13. KindsAgree(Final(q))'
  <2>1. text_idx # 0 => Final(q)'[text_idx].kind = "text"
    BY <1>7, <1>8, <1>11 DEF Grows, KindsAgree
  <2>2. \A t \in DOMAIN tools : Final(q)'[tools[t].block].kind = "tool"
    BY <1>7, <1>11 DEF Grows, KindsAgree
  <2> QED
    BY <1>1, <1>12, <2>1, <2>2 DEF KindsAgree
<1>14. PartsAgree(Final(q))'
  <2>1. ASSUME NEW t \in DOMAIN tools
        PROVE  Final(q)'[tools[t].block].parts = tools[t].args
    <3>1. /\ tools[t].block \in Given /\ Final(q)'[tools[t].block].kind = "tool"
          /\ blocks[tools[t].block].parts \in Nat
          /\ blocks[tools[t].block].parts = tools[t].args
      BY <1>3, <1>7, <1>11 DEF Grows, KindsAgree, PartsAgree, AtRest, Block
    <3>2. tools[t].block # i
      BY <1>12, <3>1
    <3>3. One(q.delta /\ q.at = tools[t].block) = 0
      BY <1>8, <3>2 DEF One
    <3> QED
      BY <1>7, <3>1, <3>3 DEF Grows
  <2>2. Counts(Final(q)', "text", text_accum)
    <3>1. Counts(blocks, "text", text_accum) /\ text_accum \in Nat
      BY <1>3, <1>11 DEF PartsAgree, TypeOK
    <3> QED
      BY <1>6, <1>8, <1>12, <3>1, FedCounts
  <2>3. Counts(Final(q)', "thinking", thinking_accum + 1)
    <3>1. Counts(blocks, "thinking", thinking_accum) /\ thinking_accum \in Nat
      BY <1>1, <1>3, <1>11 DEF PartsAgree, TypeOK
    <3> QED
      BY <1>5, <1>6, <1>8, <1>12, <3>1, FedCounts
  <2> QED
    BY <1>1, <1>7, <1>11, <2>1, <2>2, <2>3 DEF PartsAgree
<1>15. Remembered(Final(q))'
  BY <1>7, <1>10, <1>13, <1>14 DEF Remembered
<1>16. FedInv'
  BY <1>1, <1>2, <1>3, <1>8 DEF FedInv, TypeOK, ConverterInv
<1> QED
  BY <1>1, <1>5, <1>6, <1>8, <1>9, <1>15, <1>16, AfterFeed

\* The open thinking block is neither the text block nor a tool's.
LEMMA ThinkingApart ==
  ASSUME AtRest, thinking_idx # 0
  PROVE  /\ thinking_idx \in Given /\ thinking_idx # text_idx
         /\ \A t \in DOMAIN tools : thinking_idx # tools[t].block
<1>1. thinking_idx \in Given /\ blocks[thinking_idx].kind = "thinking"
  BY DEF AtRest, TypeOK, Remembered, KindsAgree
<1>2. 0 \notin Given
  BY DEF AtRest
<1>3. text_idx # 0 => blocks[text_idx].kind = "text"
  BY DEF AtRest, Remembered, KindsAgree
<1>4. \A t \in DOMAIN tools : blocks[tools[t].block].kind = "tool"
  BY DEF AtRest, Remembered, KindsAgree
<1> QED
  BY <1>1, <1>2, <1>3, <1>4

LEMMA ShortMembers ==
  ASSUME NEW i, NEW x
  PROVE  x \notin Members(<< >>) /\ (x \in Members(<<i>>) <=> x = i)
<1>1. DOMAIN <<i>> = {1} /\ <<i>>[1] = i
  BY Single
<1> QED
  BY <1>1 DEF Members

\* A script that closes the thinking block first.
LEMMA ClosingEvents ==
  ASSUME AtRest, NEW q \in Scripts, ~ q.fail, ~ q.ends,
         q.stops = IF thinking_idx # 0 THEN <<thinking_idx>> ELSE << >>
  PROVE  /\ FailEvents(q) = CloseThinking \o Opening(q) \o Fragment(q)
         /\ \A x : x \in Members(q.stops) <=> thinking_idx # 0 /\ x = thinking_idx
<1>1. thinking_idx \in Nat
  BY DEF AtRest, TypeOK
<1>2. Stops(q.stops) = CloseThinking
  BY <1>1, StopsShort DEF CloseThinking, ThinkingOpen, If
<1>3. CASE thinking_idx # 0
  <2>1. q.stops = <<thinking_idx>>
    BY <1>3
  <2>2. \A x : x \in Members(q.stops) <=> x = thinking_idx
    BY <2>1, ShortMembers
  <2> QED
    BY <1>2, <1>3, <2>2, FedScript
<1>4. CASE thinking_idx = 0
  <2>1. q.stops = << >>
    BY <1>4
  <2>2. \A x : x \notin Members(q.stops)
    BY <2>1, ShortMembers
  <2> QED
    BY <1>2, <1>4, <2>2, FedScript
<1> QED
  BY <1>3, <1>4

LEMMA ContentStep ==
  ASSUME IInv, Content
  PROVE  IInv'
<1> DEFINE i == IF TextOpen THEN text_idx ELSE next_block_idx
<1>1. /\ Feed(CloseThinking \o If(~ TextOpen, <<BlockStart(i, "text")>>) \o <<BlockDelta(i)>>)
      /\ thinking_idx' = 0
      /\ text_idx' = i
      /\ next_block_idx' = IF TextOpen THEN next_block_idx ELSE next_block_idx + 1
      /\ text_accum' = text_accum + 1
      /\ UNCHANGED <<finishSeen, tools, thinking_accum>>
  BY DEF Content
<1>2. out = << >> /\ ~ finished
  BY <1>1 DEF Feed
<1>3. AtRest /\ TypeOK /\ ConverterInv
  BY <1>2, RestFacts DEF AtRest
<1>4. i \in Nat
  BY <1>3 DEF TypeOK, AtRest
<1>5. PICK q \in Scripts :
         /\ q.begin = ~ started /\ q.fail = FALSE
         /\ q.opens = (IF TextOpen THEN "none" ELSE "text")
         /\ q.stops = (IF thinking_idx # 0 THEN <<thinking_idx>> ELSE << >>)
         /\ q.delta = TRUE /\ q.ends = FALSE /\ q.at = i
  <2> DEFINE q == [begin |-> ~ started, fail |-> FALSE,
                   stops |-> IF thinking_idx # 0 THEN <<thinking_idx>> ELSE << >>,
                   opens |-> IF TextOpen THEN "none" ELSE "text",
                   delta |-> TRUE, ends |-> FALSE, at |-> i]
  <2>1. thinking_idx \in Nat
    BY <1>3 DEF AtRest, TypeOK
  <2>2. << >> \in Seq(Nat) /\ <<thinking_idx>> \in Seq(Nat)
    BY <2>1, EmptySeq
  <2>3. q \in Scripts
    <3> HIDE DEF i
    <3> QED
      BY <1>4, <2>2 DEF Scripts, BlockKinds
  <2> QED
    BY <2>3
<1> HIDE DEF i
<1>6. \A x : x \in Members(q.stops) <=> thinking_idx # 0 /\ x = thinking_idx
  BY <1>3, <1>5, ClosingEvents
<1>7. Fed(q)
  <2>1. /\ If(~ TextOpen, <<BlockStart(i, "text")>>) = Opening(q)
        /\ <<BlockDelta(i)>> = Fragment(q)
    BY <1>5 DEF Opening, Fragment, If
  <2>2. FailEvents(q) = CloseThinking \o Opening(q) \o Fragment(q)
    BY <1>3, <1>5, ClosingEvents
  <2>3. next_block_idx' = next_block_idx + One(q.opens # "none")
    BY <1>1, <1>3, <1>5 DEF One, AtRest
  <2>4. q.opens # "none" => q.at = next_block_idx
    BY <1>5 DEF i
  <2>5. q.stops = << >> \/ (thinking_idx # 0 /\ q.stops = <<thinking_idx>>)
    BY <1>5
  <2> QED
    BY <1>1, <1>5, <2>1, <2>2, <2>3, <2>4, <2>5 DEF Fed
<1>8. /\ Final(q)' \in [Given' -> Block] /\ Grows(q, Final(q)')
      /\ expose_thinking' = expose_thinking
      /\ q.opens # "none" => Given' = Given \cup {q.at} /\ q.at \notin Given
      /\ q.opens = "none" => Given' = Given
  BY <1>7, FedGiven, FedFinal, FedFacts
<1>9. /\ q.at = i /\ i \in Given' /\ i # 0 /\ (text_idx # 0 => i = text_idx)
      /\ thinking_idx \in {0} \cup Given /\ text_idx \in {0} \cup Given /\ Given \subseteq Given'
      /\ 0 \notin Given
  <2>1. 0 \notin Given /\ thinking_idx \in {0} \cup Given /\ text_idx \in {0} \cup Given
        /\ next_block_idx # 0
    BY <1>3 DEF TypeOK, AtRest
  <2>2. CASE TextOpen
    BY <1>5, <1>8, <2>1, <2>2 DEF i, TextOpen
  <2>3. CASE ~ TextOpen
    BY <1>5, <1>8, <2>1, <2>3 DEF i, TextOpen
  <2> QED
    BY <2>2, <2>3
<1>10. Held' = {0, i} \cup {tools[t].block : t \in StartedSlots}
  BY <1>1 DEF Held, StartedSlots
<1>11. OpenAgrees(Final(q))'
  <2>1. ASSUME NEW x \in Given
        PROVE  x \in Held' <=> x \in Held /\ x \notin Members(q.stops)
    <3>1. StartedSlots \subseteq DOMAIN tools
      BY DEF StartedSlots
    <3>2. CASE thinking_idx # 0 /\ x = thinking_idx
      <4>1. x # i
        BY <1>3, <1>5, <1>8, <3>2, ThinkingApart DEF i, TextOpen
      <4> QED
        BY <1>3, <1>6, <1>9, <1>10, <3>1, <3>2, <4>1, ThinkingApart
    <3>3. CASE ~ (thinking_idx # 0 /\ x = thinking_idx)
      <4>1. x # thinking_idx
        BY <1>9, <3>3
      <4>2. x = i <=> x = text_idx
        BY <1>5, <1>8, <1>9 DEF i, TextOpen
      <4> QED
        BY <1>6, <1>9, <1>10, <3>3, <4>1, <4>2 DEF Held
    <3> QED
      BY <3>2, <3>3
  <2> QED
    BY <1>7, <1>9, <1>10, <2>1, FedOpen
<1>12. /\ KindsAgree(blocks) /\ PartsAgree(blocks)
       /\ \A t \in DOMAIN tools : tools[t].block \in Given
  BY <1>3 DEF AtRest, Remembered, TypeOK
<1>13. Final(q)'[i].kind = "text"
  BY <1>5, <1>8, <1>9, <1>12 DEF Grows, KindsAgree, TextOpen
<1>14. KindsAgree(Final(q))'
  <2>1. \A t \in DOMAIN tools : Final(q)'[tools[t].block].kind = "tool"
    BY <1>8, <1>12 DEF Grows, KindsAgree
  <2> QED
    BY <1>1, <1>13, <2>1 DEF KindsAgree
<1>15. PartsAgree(Final(q))'
  <2>1. ASSUME NEW t \in DOMAIN tools
        PROVE  Final(q)'[tools[t].block].parts = tools[t].args
    <3>1. /\ tools[t].block \in Given /\ Final(q)'[tools[t].block].kind = "tool"
          /\ blocks[tools[t].block].parts \in Nat
          /\ blocks[tools[t].block].parts = tools[t].args
      BY <1>3, <1>8, <1>12 DEF Grows, KindsAgree, PartsAgree, AtRest, Block
    <3>2. tools[t].block # i
      BY <1>13, <3>1
    <3>3. One(q.delta /\ q.at = tools[t].block) = 0
      BY <1>9, <3>2 DEF One
    <3> QED
      BY <1>8, <3>1, <3>3 DEF Grows
  <2>2. Counts(Final(q)', "text", text_accum + 1)
    <3>1. Counts(blocks, "text", text_accum) /\ text_accum \in Nat
      BY <1>3, <1>12 DEF PartsAgree, TypeOK
    <3> QED
      BY <1>5, <1>7, <1>9, <1>13, <3>1, FedCounts
  <2>3. Counts(Final(q)', "thinking", IF expose_thinking THEN thinking_accum ELSE 0)
    <3> DEFINE n == IF expose_thinking THEN thinking_accum ELSE 0
    <3>1. Counts(blocks, "thinking", n) /\ n \in Nat
      BY <1>3, <1>12 DEF PartsAgree, TypeOK
    <3> HIDE DEF n
    <3>2. Counts(Final(q)', "thinking", n)
      BY <1>7, <1>9, <1>13, <3>1, FedCounts
    <3> QED
      BY <3>2 DEF n
  <2> QED
    BY <1>1, <1>8, <1>12, <2>1, <2>2, <2>3 DEF PartsAgree
<1>16. Remembered(Final(q))'
  BY <1>8, <1>11, <1>14, <1>15 DEF Remembered
<1>17. FedInv'
  BY <1>1, <1>2, <1>3, <1>9 DEF FedInv, TypeOK, ConverterInv
<1> QED
  BY <1>1, <1>5, <1>7, <1>9, <1>10, <1>16, <1>17, AfterFeed

LEMMA ToolCallStep ==
  ASSUME IInv, NEW t \in ToolIndexes, NEW args \in {0, 1}, ToolCall(t, args)
  PROVE  IInv'
<1> DEFINE new == t \notin DOMAIN tools
           i   == IF new THEN next_block_idx ELSE tools[t].block
           had == IF new THEN 0 ELSE tools[t].args
           slot == [block |-> i, started |-> TRUE, args |-> had + args]
<1>1. /\ Feed(CloseThinking \o If(new, <<BlockStart(i, "tool")>>)
              \o If(args = 1, <<BlockDelta(i)>>))
      /\ thinking_idx' = 0
      /\ tools' = WithSlot(t, slot)
      /\ next_block_idx' = IF new THEN next_block_idx + 1 ELSE next_block_idx
      /\ UNCHANGED <<finishSeen, text_idx, thinking_accum, text_accum>>
  BY DEF ToolCall
<1>2. out = << >> /\ ~ finished
  BY <1>1 DEF Feed
<1>3. AtRest /\ TypeOK /\ ConverterInv
  BY <1>2, RestFacts DEF AtRest
<1>4. i \in Nat /\ had \in Nat /\ (~ new => i \in Given)
  BY <1>3 DEF TypeOK, AtRest, Slot
<1>5. PICK q \in Scripts :
         /\ q.begin = ~ started /\ q.fail = FALSE
         /\ q.opens = (IF new THEN "tool" ELSE "none")
         /\ q.stops = (IF thinking_idx # 0 THEN <<thinking_idx>> ELSE << >>)
         /\ q.delta = (args = 1) /\ q.ends = FALSE /\ q.at = i
  <2> DEFINE q == [begin |-> ~ started, fail |-> FALSE,
                   stops |-> IF thinking_idx # 0 THEN <<thinking_idx>> ELSE << >>,
                   opens |-> IF new THEN "tool" ELSE "none",
                   delta |-> args = 1, ends |-> FALSE, at |-> i]
  <2>1. thinking_idx \in Nat
    BY <1>3 DEF AtRest, TypeOK
  <2>2. << >> \in Seq(Nat) /\ <<thinking_idx>> \in Seq(Nat)
    BY <2>1, EmptySeq
  <2>3. q \in Scripts
    <3> HIDE DEF i, new, had
    <3> QED
      BY <1>4, <2>2 DEF Scripts, BlockKinds
  <2> QED
    BY <2>3
<1>6. i \notin Given => new /\ i = next_block_idx
  BY <1>4
<1>7. new => i = next_block_idx
  OBVIOUS
<1>8. ~ new => i = tools[t].block /\ had = tools[t].args
  OBVIOUS
<1>9. new => had = 0
  OBVIOUS
<1>10. /\ DOMAIN tools' = DOMAIN tools \cup {t}
       /\ tools'[t] = slot
       /\ \A u \in DOMAIN tools : u # t => tools'[u] = tools[u]
  BY <1>1 DEF WithSlot
<1>11. slot.block = i /\ slot.started /\ slot.args = had + args /\ slot \in Slot
  BY <1>4 DEF Slot
<1>12. new <=> t \notin DOMAIN tools
  OBVIOUS
<1> HIDE DEF new, i, had, slot
<1>13. \A x : x \in Members(q.stops) <=> thinking_idx # 0 /\ x = thinking_idx
  BY <1>3, <1>5, ClosingEvents
<1>14. Fed(q)
  <2>1. If(new, <<BlockStart(i, "tool")>>) = Opening(q)
    BY <1>5 DEF Opening, If
  <2>2. If(args = 1, <<BlockDelta(i)>>) = Fragment(q)
    BY <1>5 DEF Fragment, If
  <2>3. FailEvents(q) = CloseThinking \o Opening(q) \o Fragment(q)
    BY <1>3, <1>5, ClosingEvents
  <2>4. next_block_idx' = next_block_idx + One(q.opens # "none")
    BY <1>1, <1>3, <1>5 DEF One, AtRest
  <2>5. q.opens # "none" => q.at = next_block_idx
    BY <1>5, <1>7
  <2>6. q.stops = << >> \/ (thinking_idx # 0 /\ q.stops = <<thinking_idx>>)
    BY <1>5
  <2> QED
    BY <1>1, <1>5, <2>1, <2>2, <2>3, <2>4, <2>5, <2>6 DEF Fed
<1>15. /\ Final(q)' \in [Given' -> Block] /\ Grows(q, Final(q)')
       /\ expose_thinking' = expose_thinking
       /\ q.opens # "none" => Given' = Given \cup {q.at} /\ q.at \notin Given
       /\ q.opens = "none" => Given' = Given
  BY <1>14, FedGiven, FedFinal, FedFacts
<1>16. (new <=> q.opens # "none") /\ q.at = i /\ (new => q.opens = "tool")
  BY <1>5
<1>17. i \in Given' /\ Given \subseteq Given' /\ 0 \notin Given /\ (new => i \notin Given)
  BY <1>3, <1>4, <1>15, <1>16 DEF AtRest
<1>18. /\ KindsAgree(blocks) /\ PartsAgree(blocks)
       /\ \A u \in DOMAIN tools : tools[u] \in Slot /\ tools[u].block \in Given /\ tools[u].started
       /\ text_idx \in {0} \cup Given /\ thinking_idx \in {0} \cup Given
  BY <1>2, <1>3 DEF AtRest, Remembered, TypeOK, ConverterInv
<1>19. \A u \in DOMAIN tools' : tools'[u] \in Slot /\ tools'[u].block \in Given' /\ tools'[u].started
  BY <1>10, <1>11, <1>17, <1>18
<1>20. Held = {thinking_idx, text_idx} \cup {tools[u].block : u \in DOMAIN tools}
  BY <1>18 DEF Held, StartedSlots
<1>21. Held' = {0, text_idx} \cup {tools'[u].block : u \in DOMAIN tools'}
  BY <1>1, <1>19 DEF Held, StartedSlots
<1>22. i \in Held'
  BY <1>10, <1>11, <1>21
<1>23. \A x \in Given : (\E u \in DOMAIN tools' : tools'[u].block = x)
                           <=> (\E u \in DOMAIN tools : tools[u].block = x)
  <2> SUFFICES ASSUME NEW x \in Given
               PROVE  (\E u \in DOMAIN tools' : tools'[u].block = x)
                           <=> (\E u \in DOMAIN tools : tools[u].block = x)
    OBVIOUS
  <2>1. ASSUME NEW u \in DOMAIN tools', tools'[u].block = x
        PROVE  \E v \in DOMAIN tools : tools[v].block = x
    <3>1. CASE u = t
      <4>1. x = i /\ ~ new
        BY <1>10, <1>11, <1>17, <2>1, <3>1
      <4> QED
        BY <1>8, <1>12, <4>1
    <3>2. CASE u # t
      BY <1>10, <2>1, <3>2
    <3> QED
      BY <3>1, <3>2
  <2>2. ASSUME NEW u \in DOMAIN tools, tools[u].block = x
        PROVE  \E v \in DOMAIN tools' : tools'[v].block = x
    <3>1. CASE u = t
      BY <1>8, <1>10, <1>11, <1>12, <2>2, <3>1
    <3>2. CASE u # t
      BY <1>10, <2>2, <3>2
    <3> QED
      BY <3>1, <3>2
  <2> QED
    BY <2>1, <2>2
<1>24. OpenAgrees(Final(q))'
  <2>1. ASSUME NEW x \in Given
        PROVE  x \in Held' <=> x \in Held /\ x \notin Members(q.stops)
    <3>1. x \in Held' <=> x = text_idx \/ \E u \in DOMAIN tools : tools[u].block = x
      BY <1>17, <1>21, <1>23
    <3>2. x \in Held <=> x = thinking_idx \/ x = text_idx
                          \/ \E u \in DOMAIN tools : tools[u].block = x
      BY <1>20
    <3>3. x = thinking_idx => x # text_idx /\ ~ \E u \in DOMAIN tools : tools[u].block = x
      BY <1>3, <1>17, ThinkingApart
    <3>4. x \in Members(q.stops) <=> x = thinking_idx
      BY <1>13, <1>17
    <3> QED
      BY <3>1, <3>2, <3>3, <3>4
  <2> QED
    BY <1>14, <1>16, <1>22, <2>1, FedOpen
<1>25. Final(q)'[i].kind = "tool"
  BY <1>4, <1>8, <1>12, <1>15, <1>16, <1>18 DEF Grows, KindsAgree
<1>26. KindsAgree(Final(q))'
  <2>1. text_idx # 0 => Final(q)'[text_idx].kind = "text"
    BY <1>15, <1>18 DEF Grows, KindsAgree
  <2>2. ASSUME NEW u \in DOMAIN tools'
        PROVE  Final(q)'[tools'[u].block].kind = "tool"
    <3>1. CASE u = t
      BY <1>10, <1>11, <1>25, <3>1
    <3>2. CASE u # t
      BY <1>10, <1>15, <1>18, <3>2 DEF Grows, KindsAgree
    <3> QED
      BY <3>1, <3>2
  <2> QED
    BY <1>1, <2>1, <2>2 DEF KindsAgree
<1>27. \A u, v \in DOMAIN tools' : tools'[u].block = tools'[v].block => u = v
  <2>1. ASSUME NEW u \in DOMAIN tools, u # t
        PROVE  tools[u].block # i
    BY <1>8, <1>12, <1>17, <1>18, <2>1 DEF PartsAgree
  <2> QED
    BY <1>10, <1>11, <1>18, <2>1 DEF PartsAgree
<1>28. PartsAgree(Final(q))'
  <2>1. ASSUME NEW u \in DOMAIN tools'
        PROVE  Final(q)'[tools'[u].block].parts = tools'[u].args
    <3>1. CASE u = t
      <4>1. One(q.delta) = args
        BY <1>5 DEF One
      <4>2. CASE new
        <5>1. Final(q)'[i].parts = args /\ had + args = args
          BY <1>9, <1>15, <1>16, <4>1, <4>2 DEF Grows
        <5> QED
          BY <1>10, <1>11, <3>1, <5>1
      <4>3. CASE ~ new
        <5>1. i \in Given /\ One(q.delta /\ q.at = i) = args
          BY <1>4, <1>16, <4>1, <4>3 DEF One
        <5>2. blocks[i].parts = had
          BY <1>8, <1>12, <1>18, <4>3 DEF PartsAgree
        <5>3. Final(q)'[i].parts = had + args
          BY <1>15, <5>1, <5>2 DEF Grows
        <5> QED
          BY <1>10, <1>11, <3>1, <5>3
      <4> QED
        BY <4>2, <4>3
    <3>2. CASE u # t
      <4>1. u \in DOMAIN tools /\ tools'[u] = tools[u] /\ tools'[u].block # i
        BY <1>10, <1>11, <1>27, <3>2
      <4>2. /\ tools[u].block \in Given /\ blocks[tools[u].block].parts = tools[u].args
            /\ blocks[tools[u].block].parts \in Nat
        BY <1>3, <1>18, <4>1 DEF PartsAgree, AtRest, Block
      <4>3. One(q.delta /\ q.at = tools[u].block) = 0
        BY <1>16, <4>1 DEF One
      <4> QED
        BY <1>15, <4>1, <4>2, <4>3 DEF Grows
    <3> QED
      BY <3>1, <3>2
  <2>2. Counts(Final(q)', "text", text_accum)
    <3>1. Counts(blocks, "text", text_accum) /\ text_accum \in Nat
      BY <1>3, <1>18 DEF PartsAgree, TypeOK
    <3> QED
      BY <1>14, <1>16, <1>17, <1>25, <3>1, FedCounts
  <2>3. Counts(Final(q)', "thinking", IF expose_thinking THEN thinking_accum ELSE 0)
    <3> DEFINE n == IF expose_thinking THEN thinking_accum ELSE 0
    <3>1. Counts(blocks, "thinking", n) /\ n \in Nat
      BY <1>3, <1>18 DEF PartsAgree, TypeOK
    <3> HIDE DEF n
    <3>2. Counts(Final(q)', "thinking", n)
      BY <1>14, <1>16, <1>17, <1>25, <3>1, FedCounts
    <3> QED
      BY <3>2 DEF n
  <2> QED
    BY <1>1, <1>15, <1>27, <2>1, <2>2, <2>3 DEF PartsAgree
<1>29. Remembered(Final(q))'
  BY <1>15, <1>24, <1>26, <1>28 DEF Remembered
<1>30. FedInv'
  <2>1. IsFiniteSet(DOMAIN tools') /\ DOMAIN tools' \subseteq ToolIndexes
    BY <1>3, <1>10, FS_AddElement DEF TypeOK, ConverterInv
  <2> QED
    BY <1>1, <1>3, <1>17, <1>18, <1>19, <2>1 DEF FedInv, TypeOK
<1> QED
  BY <1>1, <1>14, <1>16, <1>17, <1>22, <1>29, <1>30, AfterFeed

-----------------------------------------------------------------------------
(***************************************************************************)
(* The end: the script that closes what is open.                           *)
(***************************************************************************)
LEMMA Joined ==
  ASSUME NEW s \in Seq(Nat), NEW r \in Seq(Nat)
  PROVE  /\ s \o r \in Seq(Nat)
         /\ Members(s \o r) = Members(s) \cup Members(r)
         /\ Stops(s \o r) = Stops(s) \o Stops(r)
         /\ Distinct(s) /\ Distinct(r) /\ Members(s) \cap Members(r) = {} => Distinct(s \o r)
<1> DEFINE c == s \o r
           m == Len(s)
           n == Len(r)
<1>1. /\ c \in Seq(Nat) /\ Len(c) = m + n
      /\ \A i \in 1 .. m + n : c[i] = IF i <= m THEN s[i] ELSE r[i - m]
  BY ConcatProperties
<1>2. /\ m \in Nat /\ n \in Nat /\ DOMAIN s = 1 .. m /\ DOMAIN r = 1 .. n /\ DOMAIN c = 1 .. m + n
      /\ \A i \in 1 .. m : s[i] \in Nat
      /\ \A i \in 1 .. n : r[i] \in Nat
  BY <1>1
<1> HIDE DEF c, m, n
<1>3. /\ \A i \in 1 .. m : i \in 1 .. m + n /\ c[i] = s[i]
      /\ \A i \in 1 .. n : m + i \in 1 .. m + n /\ c[m + i] = r[i]
  <2>1. \A i \in 1 .. m : i \in 1 .. m + n /\ i <= m
    BY <1>2
  <2>2. \A i \in 1 .. n : m + i \in 1 .. m + n /\ ~ (m + i <= m) /\ (m + i) - m = i
    BY <1>2
  <2> QED
    BY <1>1, <2>1, <2>2
<1>4. \A k \in 1 .. m + n : k \in 1 .. m \/ \E i \in 1 .. n : k = m + i
  <2> SUFFICES ASSUME NEW k \in 1 .. m + n, k \notin 1 .. m
               PROVE  k - m \in 1 .. n /\ k = m + (k - m)
    OBVIOUS
  <2> QED
    BY <1>2
<1>5. Members(c) = Members(s) \cup Members(r)
  <2>1. ASSUME NEW x \in Members(c)
        PROVE  x \in Members(s) \cup Members(r)
    <3>1. PICK k \in 1 .. m + n : x = c[k]
      BY <1>2 DEF Members
    <3> QED
      BY <1>2, <1>3, <1>4, <3>1 DEF Members
  <2>2. ASSUME NEW x \in Members(s)
        PROVE  x \in Members(c)
    BY <1>2, <1>3 DEF Members
  <2>3. ASSUME NEW x \in Members(r)
        PROVE  x \in Members(c)
    BY <1>2, <1>3 DEF Members
  <2> QED
    BY <2>1, <2>2, <2>3
<1>6. Stops(c) = Stops(s) \o Stops(r)
  <2> DEFINE z == Stops(s) \o Stops(r)
  <2>1. /\ Stops(s) \in Seq(Events) /\ Stops(r) \in Seq(Events)
        /\ Stops(c) \in Seq(Events) /\ Len(Stops(c)) = m + n
        /\ Len(Stops(s)) = m /\ Len(Stops(r)) = n
    BY <1>1, StopsSeq DEF m, n
  <2>2. /\ z \in Seq(Events) /\ Len(z) = m + n
        /\ \A i \in 1 .. m + n : z[i] = IF i <= m THEN Stops(s)[i] ELSE Stops(r)[i - m]
    <3>1. /\ z \in Seq(Events) /\ Len(z) = Len(Stops(s)) + Len(Stops(r))
          /\ \A i \in 1 .. Len(Stops(s)) + Len(Stops(r)) :
               z[i] = IF i <= Len(Stops(s)) THEN Stops(s)[i] ELSE Stops(r)[i - Len(Stops(s))]
      BY <2>1, ConcatProperties
    <3> HIDE DEF z
    <3> QED
      BY <2>1, <3>1
  <2> HIDE DEF z
  <2>3. /\ \A i \in 1 .. m : Stops(s)[i] = BlockStop(s[i])
        /\ \A i \in 1 .. n : Stops(r)[i] = BlockStop(r[i])
        /\ \A i \in 1 .. m + n : Stops(c)[i] = BlockStop(c[i])
    BY <1>1, StopsSeq DEF m, n
  <2>4. ASSUME NEW i \in 1 .. m + n
        PROVE  Stops(c)[i] = z[i]
    <3>1. CASE i <= m
      <4>1. i \in 1 .. m
        BY <1>2, <3>1
      <4> QED
        BY <1>3, <2>2, <2>3, <3>1, <4>1
    <3>2. CASE ~ (i <= m)
      <4>1. i - m \in 1 .. n
        BY <1>2, <3>2
      <4> QED
        BY <1>1, <2>2, <2>3, <3>2, <4>1
    <3> QED
      BY <3>1, <3>2
  <2>5. Stops(c) = z
    BY <2>1, <2>2, <2>4, SeqEqual
  <2> QED
    BY <2>5 DEF z
<1>7. ASSUME Distinct(s), Distinct(r), Members(s) \cap Members(r) = {}
      PROVE  Distinct(c)
  <2> SUFFICES ASSUME NEW i \in 1 .. m + n, NEW j \in 1 .. m + n, c[i] = c[j]
               PROVE  i = j
    BY <1>2 DEF Distinct
  <2>1. CASE i \in 1 .. m /\ j \in 1 .. m
    BY <1>2, <1>3, <1>7, <2>1 DEF Distinct
  <2>2. CASE i \in 1 .. m /\ j \notin 1 .. m
    <3>1. PICK k \in 1 .. n : j = m + k
      BY <1>4, <2>2
    <3>2. c[i] \in Members(s) /\ c[j] \in Members(r)
      BY <1>2, <1>3, <2>2, <3>1 DEF Members
    <3> QED
      BY <1>7, <3>2
  <2>3. CASE i \notin 1 .. m /\ j \in 1 .. m
    <3>1. PICK k \in 1 .. n : i = m + k
      BY <1>4, <2>3
    <3>2. c[j] \in Members(s) /\ c[i] \in Members(r)
      BY <1>2, <1>3, <2>3, <3>1 DEF Members
    <3> QED
      BY <1>7, <3>2
  <2>4. CASE i \notin 1 .. m /\ j \notin 1 .. m
    <3>1. PICK k \in 1 .. n : i = m + k
      BY <1>4, <2>4
    <3>2. PICK l \in 1 .. n : j = m + l
      BY <1>4, <2>4
    <3>3. r[k] = r[l]
      BY <1>3, <3>1, <3>2
    <3> QED
      BY <1>2, <1>7, <3>1, <3>2, <3>3 DEF Distinct
  <2> QED
    BY <2>1, <2>2, <2>3, <2>4
<1> QED
  BY <1>1, <1>5, <1>6, <1>7 DEF c

LEMMA Alone ==
  ASSUME NEW i \in Nat
  PROVE  /\ If(i # 0, <<i>>) \in Seq(Nat) /\ Distinct(If(i # 0, <<i>>))
         /\ \A x : x \in Members(If(i # 0, <<i>>)) <=> x = i /\ x # 0
         /\ Stops(If(i # 0, <<i>>)) = If(i # 0, <<BlockStop(i)>>)
<1>1. CASE i # 0
  <2>1. If(i # 0, <<i>>) = <<i>> /\ If(i # 0, <<BlockStop(i)>>) = <<BlockStop(i)>>
    BY <1>1 DEF If
  <2>2. <<i>> \in Seq(Nat) /\ Distinct(<<i>>)
    BY Single DEF Distinct
  <2>3. \A x : x \in Members(<<i>>) <=> x = i
    BY ShortMembers
  <2> QED
    BY <1>1, <2>1, <2>2, <2>3, StopsShort
<1>2. CASE i = 0
  <2>1. If(i # 0, <<i>>) = << >> /\ If(i # 0, <<BlockStop(i)>>) = << >>
    BY <1>2 DEF If
  <2>2. << >> \in Seq(Nat) /\ Distinct(<< >>)
    BY EmptySeq DEF Distinct
  <2>3. \A x : x \notin Members(<< >>)
    BY ShortMembers
  <2> QED
    BY <1>2, <2>1, <2>2, <2>3, StopsShort
<1> QED
  BY <1>1, <1>2

\* The ends of the tools' blocks.
LEMMA ToolsClosed ==
  ASSUME AtRest
  PROVE  \E s \in Seq(Nat) : /\ Distinct(s) /\ Stops(s) = CloseTools
                             /\ Members(s) = {tools[t].block : t \in StartedSlots}
<1> DEFINE order == Enumerate(StartedSlots, MaxTools)
<1>1. /\ DOMAIN tools \subseteq 1 .. MaxTools /\ MaxTools \in Nat
      /\ \A t \in DOMAIN tools : tools[t].block \in Nat
      /\ \A t, u \in DOMAIN tools : tools[t].block = tools[u].block => t = u
  BY AnthropicAssumption DEF AtRest, TypeOK, ToolIndexes, Slot, Remembered, PartsAgree
<1>2. StartedSlots \in SUBSET (1 .. MaxTools) /\ StartedSlots \subseteq DOMAIN tools
  BY <1>1 DEF StartedSlots
<1>3. PICK m \in 0 .. MaxTools : /\ order \in [1 .. m -> StartedSlots]
                                   /\ Enumerates(order, StartedSlots)
  BY <1>1, <1>2, EnumerateIsOne
<1>4. CloseTools = [n \in DOMAIN order |-> BlockStop(tools[order[n]].block)]
  BY DEF CloseTools
<1> HIDE DEF order
<1>5. DOMAIN order = 1 .. m /\ m \in Nat /\ \A n \in 1 .. m : order[n] \in StartedSlots
  BY <1>1, <1>3
<1> DEFINE s == [n \in 1 .. m |-> tools[order[n]].block]
<1>6. s \in Seq(Nat) /\ DOMAIN s = 1 .. m
  <2>1. \A n \in 1 .. m : tools[order[n]].block \in Nat
    BY <1>1, <1>2, <1>5
  <2> QED
    BY <1>5, <2>1
<1>7. Members(s) = {tools[t].block : t \in StartedSlots}
  BY <1>3, <1>5 DEF Members, Enumerates
<1>8. Distinct(s)
  <2> SUFFICES ASSUME NEW i \in 1 .. m, NEW j \in 1 .. m, s[i] = s[j]
               PROVE  i = j
    BY DEF Distinct
  <2>1. order[i] = order[j]
    BY <1>1, <1>2, <1>5
  <2>2. \A k, l \in 1 .. m : k < l => order[k] < order[l]
    BY <1>3, <1>5 DEF Enumerates, IsIncreasing
  <2>3. order[i] \in Nat /\ order[j] \in Nat
    <3>1. \A t \in StartedSlots : t \in Nat
      BY <1>1, <1>2
    <3> QED
      BY <1>5, <3>1
  <2>4. ~ (order[i] < order[j]) /\ ~ (order[j] < order[i])
    BY <2>1, <2>3
  <2> QED
    BY <2>2, <2>4
<1>9. Stops(s) = CloseTools
  BY <1>4, <1>5 DEF Stops
<1> QED
  BY <1>6, <1>7, <1>8, <1>9

\* Appending is associative.
LEMMA Assoc ==
  ASSUME NEW x \in Seq(Events), NEW y \in Seq(Events), NEW z \in Seq(Events)
  PROVE  (x \o y) \o z = x \o (y \o z)
BY ConcatAssociative

AreEvents(s) == s \in Seq(Events)

\* The same, of sequences that are known by name only.
LEMMA AssocOf ==
  ASSUME NEW x, NEW y, NEW z, AreEvents(x), AreEvents(y), AreEvents(z)
  PROVE  (x \o y) \o z = x \o (y \o z)
BY Assoc DEF AreEvents

AllEvents(f, u, v, w, e) ==
  /\ f \in Seq(Events) /\ u \in Seq(Events) /\ v \in Seq(Events)
  /\ w \in Seq(Events) /\ e \in Seq(Events)

LEMMA Regrouped ==
  ASSUME NEW f, NEW u, NEW v, NEW w, NEW e, AllEvents(f, u, v, w, e)
  PROVE  f \o (((u \o v) \o w) \o e) = (((f \o u) \o v) \o w) \o e
<1>1. f \in Seq(Events) /\ u \in Seq(Events) /\ v \in Seq(Events)
  BY DEF AllEvents
<1>2. w \in Seq(Events) /\ e \in Seq(Events)
  BY DEF AllEvents
<1>3. (f \o u) \o v = f \o (u \o v) /\ u \o v \in Seq(Events)
  BY <1>1, Assoc, ConcatProperties
<1> DEFINE p == u \o v
<1>4. p \in Seq(Events)
  BY <1>3
<1> HIDE DEF p
<1>5. p \o w \in Seq(Events)
  BY <1>2, <1>4, ConcatProperties
<1>6. (f \o p) \o w = f \o (p \o w)
  <2>1. AreEvents(f) /\ AreEvents(p) /\ AreEvents(w)
    BY <1>1, <1>2, <1>4 DEF AreEvents
  <2> QED
    BY <2>1, AssocOf
<1> DEFINE r == p \o w
<1>7. r \in Seq(Events)
  BY <1>5
<1> HIDE DEF r
<1>8. (f \o r) \o e = f \o (r \o e)
  <2>1. AreEvents(f) /\ AreEvents(r) /\ AreEvents(e)
    BY <1>1, <1>2, <1>7 DEF AreEvents
  <2> QED
    BY <2>1, AssocOf
<1> QED
  BY <1>3, <1>6, <1>8 DEF p, r

LEMMA EndScript ==
  ASSUME AtRest, ~ finished
  PROVE  \E q \in Scripts :
           /\ q.begin = FALSE /\ q.fail = ~ finishSeen /\ q.opens = "none" /\ q.delta = FALSE
           /\ q.ends = TRUE
           /\ \A x : x \in Members(q.stops) <=> x \in Held /\ x # 0
           /\ Distinct(q.stops)
           /\ Written(q) = If(~ finishSeen, <<ErrorEvent>>) \o CloseThinking
                           \o If(TextOpen, <<BlockStop(text_idx)>>) \o CloseTools \o <<MessageStop>>
<1>1. /\ thinking_idx \in Nat /\ text_idx \in Nat /\ thinking_idx \in {0} \cup Given
      /\ text_idx \in {0} \cup Given /\ 0 \notin Given /\ finishSeen \in BOOLEAN
  BY DEF AtRest, TypeOK
<1>2. \A t \in StartedSlots : t \in DOMAIN tools /\ tools[t].block \in Given
  BY DEF AtRest, TypeOK, StartedSlots
<1>3. PICK r \in Seq(Nat) : /\ Distinct(r) /\ Stops(r) = CloseTools
                            /\ Members(r) = {tools[t].block : t \in StartedSlots}
  BY ToolsClosed
<1> DEFINE a == If(thinking_idx # 0, <<thinking_idx>>)
           b == If(text_idx # 0, <<text_idx>>)
<1>4. /\ a \in Seq(Nat) /\ Distinct(a) /\ Stops(a) = CloseThinking
      /\ \A x : x \in Members(a) <=> x = thinking_idx /\ x # 0
  BY <1>1, Alone DEF CloseThinking, ThinkingOpen
<1>5. /\ b \in Seq(Nat) /\ Distinct(b) /\ Stops(b) = If(TextOpen, <<BlockStop(text_idx)>>)
      /\ \A x : x \in Members(b) <=> x = text_idx /\ x # 0
  BY <1>1, Alone DEF TextOpen
<1>6. /\ thinking_idx # 0 => thinking_idx # text_idx /\ thinking_idx \notin Members(r)
      /\ text_idx # 0 => text_idx \notin Members(r)
  <2>1. text_idx # 0 => blocks[text_idx].kind = "text"
    BY DEF AtRest, Remembered, KindsAgree
  <2>2. \A t \in StartedSlots : blocks[tools[t].block].kind = "tool"
    BY <1>2 DEF AtRest, Remembered, KindsAgree
  <2>3. thinking_idx # 0 => blocks[thinking_idx].kind = "thinking"
    BY DEF AtRest, Remembered, KindsAgree
  <2> QED
    BY <1>3, <2>1, <2>2, <2>3
<1> HIDE DEF a, b
<1>7. /\ a \o b \in Seq(Nat) /\ Distinct(a \o b) /\ Members(a \o b) = Members(a) \cup Members(b)
      /\ Stops(a \o b) = Stops(a) \o Stops(b)
  <2>1. Members(a) \cap Members(b) = {}
    BY <1>4, <1>5, <1>6
  <2> QED
    BY <1>4, <1>5, <2>1, Joined
<1> DEFINE s == (a \o b) \o r
<1>8. /\ s \in Seq(Nat) /\ Distinct(s) /\ Members(s) = Members(a \o b) \cup Members(r)
      /\ Stops(s) = Stops(a \o b) \o Stops(r)
  <2>1. Members(a \o b) \cap Members(r) = {}
    BY <1>4, <1>5, <1>6, <1>7
  <2> QED
    BY <1>3, <1>7, <2>1, Joined
<1>9. \A x : x \in Members(s) <=> x \in Held /\ x # 0
  BY <1>1, <1>2, <1>3, <1>4, <1>5, <1>7, <1>8 DEF Held
<1> HIDE DEF s
<1> DEFINE q == [begin |-> FALSE, fail |-> ~ finishSeen, stops |-> s, opens |-> "none",
                 delta |-> FALSE, ends |-> TRUE, at |-> 0]
<1>10. q \in Scripts
  BY <1>8 DEF Scripts
<1>11. /\ q.begin = FALSE /\ q.fail = ~ finishSeen /\ q.stops = s /\ q.opens = "none"
       /\ q.delta = FALSE /\ q.ends = TRUE
  OBVIOUS
<1> HIDE DEF q
<1> DEFINE f == If(~ finishSeen, <<ErrorEvent>>)
           u == Stops(a)
           v == Stops(b)
           w == Stops(r)
           e == <<MessageStop>>
<1>12. Written(q) = f \o (((u \o v) \o w) \o e)
  <2>1. Written(q) = FailEvents(q) /\ OpenEvents(q) = EndEvents(q)
    BY <1>10, <1>11, Unfold
  <2>2. EndEvents(q) = e /\ Stops(q.stops) = (u \o v) \o w
    BY <1>7, <1>8, <1>11 DEF EndEvents, If
  <2>3. If(q.fail, <<ErrorEvent>>) = f
    BY <1>11 DEF If
  <2> QED
    BY <2>1, <2>2, <2>3 DEF FailEvents, StopEvents
<1>13. f \in Seq(Events) /\ u \in Seq(Events) /\ v \in Seq(Events) /\ w \in Seq(Events)
       /\ e \in Seq(Events)
  <2>1. << >> \in Seq(Events) /\ ErrorEvent \in Events /\ MessageStop \in Events
    BY EventTypes, EmptySeq
  <2>2. f \in Seq(Events)
    BY <2>1 DEF If
  <2>3. e \in Seq(Events)
    BY <2>1
  <2> QED
    BY <1>3, <1>4, <1>5, <2>2, <2>3, StopsSeq
<1> HIDE DEF f, u, v, w, e
<1>14. f \o (((u \o v) \o w) \o e) = (((f \o u) \o v) \o w) \o e
  <2>1. AllEvents(f, u, v, w, e)
    BY <1>13 DEF AllEvents
  <2> QED
    BY <2>1, Regrouped
<1>15. Written(q) = If(~ finishSeen, <<ErrorEvent>>) \o CloseThinking
                    \o If(TextOpen, <<BlockStop(text_idx)>>) \o CloseTools \o <<MessageStop>>
  BY <1>3, <1>4, <1>5, <1>12, <1>14 DEF f, u, v, w, e
<1> QED
  BY <1>8, <1>9, <1>10, <1>11, <1>15

LEMMA FinishStep ==
  ASSUME IInv, Finish
  PROVE  IInv'
<1>1. /\ out = << >> /\ ~ finished
      /\ finished' = TRUE /\ thinking_idx' = 0 /\ text_idx' = 0
      /\ tools' = [t \in DOMAIN tools |-> [tools[t] EXCEPT !.started = FALSE]]
      /\ UNCHANGED <<expose_thinking, started, finishSeen, next_block_idx, thinking_accum,
                     text_accum, chunks, view>>
  BY DEF Finish
<1>2. AtRest /\ TypeOK /\ ConverterInv /\ Remembered(blocks)
  BY <1>1, RestFacts DEF AtRest
<1>3. PICK q \in Scripts :
         /\ q.begin = FALSE /\ q.fail = ~ finishSeen /\ q.opens = "none" /\ q.delta = FALSE
         /\ q.ends = TRUE
         /\ \A x : x \in Members(q.stops) <=> x \in Held /\ x # 0
         /\ Distinct(q.stops)
         /\ Written(q) = If(~ finishSeen, <<ErrorEvent>>) \o CloseThinking
                         \o If(TextOpen, <<BlockStop(text_idx)>>) \o CloseTools \o <<MessageStop>>
  BY <1>1, <1>2, EndScript
<1>4. out' = Written(q)
  BY <1>3 DEF Finish
<1>5. /\ DOMAIN tools' = DOMAIN tools
      /\ \A t \in DOMAIN tools : /\ tools[t] \in Slot /\ tools[t].block \in Given
                                 /\ tools'[t] \in Slot /\ tools'[t].block = tools[t].block
                                 /\ ~ tools'[t].started /\ tools'[t].args = tools[t].args
  <2>1. \A t \in DOMAIN tools : tools[t] \in Slot /\ tools[t].block \in Given
    BY <1>2 DEF TypeOK
  <2> QED
    BY <1>1, <2>1 DEF Slot
<1>6. StartedSlots' = {} /\ Held' = {0}
  BY <1>1, <1>5 DEF StartedSlots, Held
<1>7. Given' = Given /\ blocks' = blocks /\ phase' = phase /\ failed' = failed
      /\ 0 \notin Given /\ DOMAIN blocks = Given /\ Len(blocks) = next_block_idx - 1
  BY <1>1, <1>2 DEF Given, view, AtRest
<1>8. TypeOK'
  BY <1>1, <1>2, <1>5, <1>7 DEF TypeOK
<1>9. ConverterInv'
  BY <1>1, <1>2, <1>5, <1>6 DEF ConverterInv
<1>10. MessageAgrees(q)'
  <2>1. phase = (IF started THEN "begun" ELSE "new") /\ failed = FALSE
    BY <1>1, Settled
  <2> QED
    BY <1>1, <1>2, <1>3, <1>7, <2>1 DEF MessageAgrees, TypeOK
<1>11. BlocksAgree(q)'
  <2>1. Len(blocks') + One(q.opens # "none") = next_block_idx' - 1
    BY <1>1, <1>2, <1>3, <1>7 DEF One, AtRest
  <2> QED
    BY <1>3, <2>1 DEF BlocksAgree
<1>12. StopsAgree(q)'
  <2>1. ASSUME NEW n \in DOMAIN q.stops
        PROVE  q.stops[n] \in DOMAIN blocks /\ blocks[q.stops[n]].open
    <3>1. q.stops[n] \in Held /\ q.stops[n] # 0
      BY <1>3 DEF Members
    <3>2. q.stops[n] \in Given
      BY <1>2, <3>1 DEF Held, StartedSlots, TypeOK
    <3> QED
      BY <1>2, <1>7, <3>1, <3>2 DEF Remembered, OpenAgrees
  <2>2. \A m, n \in DOMAIN q.stops : q.stops[m] = q.stops[n] => m = n
    BY <1>3 DEF Distinct
  <2> QED
    BY <1>3, <1>7, <2>1, <2>2 DEF StopsAgree
<1> DEFINE F == [x \in Given' |-> FinalBlock(q, x)']
<1>13. Final(q)' = F
  BY DEF Final
<1>14. ASSUME NEW x \in Given
       PROVE  /\ FinalBlock(q, x)' \in Block
              /\ FinalBlock(q, x)'.kind = blocks[x].kind /\ ~ FinalBlock(q, x)'.open
              /\ FinalBlock(q, x)'.parts = blocks[x].parts
  <2>1. x \in DOMAIN blocks' /\ blocks'[x] = blocks[x] /\ blocks[x] \in Block
    BY <1>2, <1>7 DEF AtRest
  <2>2. FinalBlock(q, x)' =
          [kind |-> blocks[x].kind, open |-> blocks[x].open /\ x \notin Members(q.stops),
           parts |-> blocks[x].parts + One(q.delta /\ q.at = x)]
    BY <2>1 DEF FinalBlock
  <2>3. One(q.delta /\ q.at = x) = 0
    BY <1>3 DEF One
  <2>4. ~ (blocks[x].open /\ x \notin Members(q.stops))
    BY <1>2, <1>3, <1>7 DEF Remembered, OpenAgrees
  <2>5. (blocks[x].open /\ x \notin Members(q.stops)) = FALSE
    BY <2>4
  <2>6. FinalBlock(q, x)' = [kind |-> blocks[x].kind, open |-> FALSE, parts |-> blocks[x].parts + 0]
    BY <2>2, <2>3, <2>5
  <2> QED
    BY <2>1, <2>6 DEF Block
<1>15. F \in [Given -> Block]
  BY <1>7, <1>14
<1>16. \A x \in Given : /\ F[x].kind = blocks[x].kind /\ ~ F[x].open
                        /\ F[x].parts = blocks[x].parts
  BY <1>7, <1>14
<1>17. DOMAIN F = DOMAIN blocks
  BY <1>7
<1> HIDE DEF F
<1>18. /\ Final(q)' \in [Given' -> Block] /\ DOMAIN Final(q)' = DOMAIN blocks
       /\ \A x \in Given : /\ Final(q)'[x].kind = blocks[x].kind /\ ~ Final(q)'[x].open
                            /\ Final(q)'[x].parts = blocks[x].parts
  BY <1>7, <1>13, <1>15, <1>16, <1>17
<1>19. Remembered(Final(q))'
  <2>1. OpenAgrees(Final(q))'
    BY <1>6, <1>7, <1>18 DEF OpenAgrees
  <2>2. KindsAgree(Final(q))'
    BY <1>1, <1>2, <1>5, <1>18 DEF KindsAgree, Remembered
  <2>3. ASSUME NEW kind, NEW n, Counts(blocks, kind, n)
        PROVE  Counts(Final(q)', kind, n)
    <3>1. ASSUME NEW z
          PROVE  z \in Fragments(Final(q)', kind) <=> z \in Fragments(blocks, kind)
      <4>1. /\ z \in Fragments(Final(q)', kind) <=>
                 \E x \in DOMAIN Final(q)', m \in Nat :
                    m \in 1 .. Final(q)'[x].parts /\ Final(q)'[x].kind = kind /\ z = <<x, m>>
            /\ z \in Fragments(blocks, kind) <=>
                 \E x \in DOMAIN blocks, m \in Nat :
                    m \in 1 .. blocks[x].parts /\ blocks[x].kind = kind /\ z = <<x, m>>
        BY FragmentsMembers
      <4> QED
        BY <1>7, <1>18, <4>1
    <3>2. Fragments(Final(q)', kind) = Fragments(blocks, kind)
      BY <3>1
    <3> QED
      BY <2>3, <3>2 DEF Counts
  <2>4. PartsAgree(Final(q))'
    BY <1>1, <1>2, <1>5, <1>18, <2>3 DEF PartsAgree, Remembered
  <2> QED
    BY <1>18, <2>1, <2>2, <2>4 DEF Remembered
<1>20. Agrees(q)'
  BY <1>10, <1>11, <1>12, <1>19 DEF Agrees
<1>21. DrainInv'
  <2>1. Written(q)' = Written(q)
    OBVIOUS
  <2> QED
    BY <1>4, <1>20, <2>1 DEF DrainInv
<1> QED
  BY <1>8, <1>9, <1>21 DEF IInv

-----------------------------------------------------------------------------
(***************************************************************************)
(* The invariant.                                                          *)
(***************************************************************************)
LEMMA Starts ==
  ASSUME Init
  PROVE  IInv
<1>1. StartedSlots = {} /\ DOMAIN tools = {} /\ Given = {} /\ Len(blocks) = 0
  BY DEF Init, StartedSlots, Given
<1>2. TypeOK
  <2>1. next_block_idx \in 1 .. MaxChunks + 1 /\ chunks \in 0 .. MaxChunks
    BY AnthropicAssumption DEF Init
  <2>2. blocks \in Seq([kind : {"thinking", "text", "tool"}, open : BOOLEAN, parts : Nat])
    BY EmptySeq DEF Init
  <2> QED
    BY <1>1, <2>1, <2>2 DEF Init, TypeOK
<1>3. ConverterInv
  BY <1>1, FS_EmptySet DEF Init, ConverterInv
<1> DEFINE q == [begin |-> FALSE, fail |-> FALSE, stops |-> << >>, opens |-> "none",
                 delta |-> FALSE, ends |-> FALSE, at |-> 0]
<1>4. q \in Scripts
  BY EmptySeq DEF Scripts
<1>5. /\ q.begin = FALSE /\ q.fail = FALSE /\ q.stops = << >> /\ q.opens = "none"
      /\ q.delta = FALSE /\ q.ends = FALSE
  OBVIOUS
<1> HIDE DEF q
<1>6. out = Written(q)
  BY <1>4, <1>5, Unfold DEF Init
<1>7. MessageAgrees(q) /\ BlocksAgree(q) /\ StopsAgree(q)
  <2>1. MessageAgrees(q)
    BY <1>5 DEF Init, MessageAgrees
  <2>2. BlocksAgree(q)
    BY <1>1, <1>5 DEF Init, BlocksAgree, One
  <2>3. StopsAgree(q)
    BY <1>5 DEF Init, StopsAgree
  <2> QED
    BY <2>1, <2>2, <2>3
<1>8. Final(q) = [i \in {} |-> FinalBlock(q, i)]
  BY <1>1 DEF Final
<1> DEFINE F == Final(q)
<1>9. F \in [Given -> Block] /\ DOMAIN F = {}
  BY <1>1, <1>8
<1> HIDE DEF F
<1>10. \A kind : Counts(F, kind, 0)
  <2> SUFFICES ASSUME NEW kind
               PROVE  Counts(F, kind, 0)
    OBVIOUS
  <2>1. Fragments(F, kind) = {}
    BY <1>9, FragmentsMembers
  <2> QED
    BY <2>1, FS_EmptySet DEF Counts
<1>11. OpenAgrees(F) /\ KindsAgree(F)
  BY <1>1 DEF Init, OpenAgrees, KindsAgree
<1>12. PartsAgree(F)
  BY <1>1, <1>10 DEF Init, PartsAgree
<1>13. Remembered(F)
  BY <1>9, <1>11, <1>12 DEF Remembered
<1>14. DrainInv
  BY <1>4, <1>6, <1>7, <1>13 DEF DrainInv, Agrees, F
<1> QED
  BY <1>2, <1>3, <1>14 DEF IInv

LEMMA Waits ==
  ASSUME IInv, UNCHANGED vars
  PROVE  IInv'
<1>1. TypeOK' /\ ConverterInv'
  BY DEF IInv, TypeOK, ConverterInv, vars, convVars, view, Given, StartedSlots
<1>2. PICK q \in Scripts : out = Written(q) /\ Agrees(q)
  BY DEF IInv, DrainInv
<1>3. TypeOK /\ ConverterInv
  BY DEF IInv
<1>4. Final(q)' = Final(q)
  BY FinalUnmoved DEF vars, convVars, view
<1>5. MessageAgrees(q)' /\ BlocksAgree(q)' /\ StopsAgree(q)'
  BY <1>2 DEF Agrees, MessageAgrees, BlocksAgree, StopsAgree, vars, convVars, view, Given, Held,
              StartedSlots, One
<1>6. Agrees(q)'
  BY <1>2, <1>4, <1>5, Carried DEF Agrees, vars
<1>7. Written(q)' = Written(q) /\ out' = out
  BY DEF vars
<1> QED
  BY <1>1, <1>2, <1>6, <1>7 DEF IInv, DrainInv

\* What is fed or ended is not yet read; a step of the client is one of the protocol.
LEMMA Steps ==
  ASSUME IInv, [Next]_vars
  PROVE  IInv' /\ [Protocol!Next]_(Protocol!vars)
<1>1. ASSUME NoDelta
      PROVE  IInv' /\ UNCHANGED view
  <2>1. out = << >>
    BY <1>1 DEF NoDelta, Feed
  <2>2. TypeOK
    BY DEF IInv
  <2> QED
    BY <1>1, <2>2, IdleStep DEF NoDelta, TypeOK, Feed
<1>2. ASSUME FinishReason
      PROVE  IInv' /\ UNCHANGED view
  <2>1. TypeOK
    BY DEF IInv
  <2> QED
    BY <1>2, <2>1, IdleStep DEF FinishReason, TypeOK, Feed
<1>3. ASSUME HiddenReasoning
      PROVE  IInv' /\ UNCHANGED view
  <2>1. TypeOK
    BY DEF IInv
  <2>2. thinking_accum' \in Nat /\ finishSeen' \in BOOLEAN
    BY <1>3, <2>1 DEF HiddenReasoning, TypeOK
  <2> QED
    BY <1>3, <2>2, IdleStep DEF HiddenReasoning, Feed
<1>4. ASSUME Reasoning
      PROVE  IInv' /\ UNCHANGED view
  BY <1>4, ReasoningStep DEF Reasoning, Feed
<1>5. ASSUME Content
      PROVE  IInv' /\ UNCHANGED view
  BY <1>5, ContentStep DEF Content, Feed
<1>6. ASSUME NEW t \in ToolIndexes, NEW args \in {0, 1}, ToolCall(t, args)
      PROVE  IInv' /\ UNCHANGED view
  <2>1. UNCHANGED view
    BY <1>6 DEF ToolCall, Feed
  <2> QED
    BY <1>6, <2>1, ToolCallStep
<1>7. ASSUME Finish
      PROVE  IInv' /\ UNCHANGED view
  BY <1>7, FinishStep DEF Finish
<1>8. ASSUME Complete \/ UNCHANGED vars
      PROVE  IInv' /\ UNCHANGED view
  BY <1>8, Waits DEF Complete, vars
<1>9. ASSUME ClientReads
      PROVE  IInv' /\ Protocol!Next
  BY <1>9, ReadingStep
<1>10. UNCHANGED view => UNCHANGED Protocol!vars
  BY DEF view, Protocol!vars
<1>11. CASE FeedChunk
  BY <1>1, <1>2, <1>3, <1>4, <1>5, <1>6, <1>10, <1>11 DEF FeedChunk
<1>12. CASE Finish \/ Complete \/ UNCHANGED vars
  BY <1>7, <1>8, <1>10, <1>12
<1>13. CASE ClientReads
  BY <1>9, <1>13
<1> QED
  BY <1>11, <1>12, <1>13 DEF Next

(***************************************************************************)
(* What feed_chunk remembers (block indexes, slots, accumulators) is what  *)
(* the client will have when it has read the events on their way.          *)
(***************************************************************************)
THEOREM Invariance == Spec => []IInv
<1>1. Init => IInv
  BY Starts
<1>2. IInv /\ [Next]_vars => IInv'
  BY Steps
<1> QED
  BY <1>1, <1>2, PTL DEF Spec

(***************************************************************************)
(* Between two chunks the client has every fragment that feed_chunk has    *)
(* accumulated, each in a block of its kind and each tool's in its block.  *)
(***************************************************************************)
THEOREM NothingIsLost == Spec => []NothingLost
<1>1. IInv => NothingLost
  <2> SUFFICES ASSUME IInv, out = << >>
               PROVE  /\ Cardinality(Fragments(blocks, "text")) = text_accum
                      /\ Cardinality(Fragments(blocks, "thinking")) =
                           (IF expose_thinking THEN thinking_accum ELSE 0)
                      /\ \A t \in DOMAIN tools : blocks[tools[t].block].parts = tools[t].args
    BY DEF NothingLost
  <2> QED
    BY Settled DEF Remembered, PartsAgree, Counts
<1> QED
  BY <1>1, Invariance, PTL

(***************************************************************************)
(* The events of feed_chunk and of finish, read one at a time, are a run   *)
(* of the protocol: consecutive blocks, opened once and closed once,       *)
(* fragments of open blocks only, thinking closed before text or a tool    *)
(* begins, nothing left open at the end.                                   *)
(***************************************************************************)
THEOREM KeepsProtocol == Spec => KeepsLifecycle
<1>1. Init => Protocol!Init
  BY DEF Init, Protocol!Init
<1>2. IInv /\ [Next]_vars => [Protocol!Next]_(Protocol!vars)
  BY Steps
<1> QED
  BY <1>1, <1>2, Invariance, PTL DEF Spec, KeepsLifecycle, Protocol!Spec
=============================================================================
