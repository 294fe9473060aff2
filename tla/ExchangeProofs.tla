--------------------------- MODULE ExchangeProofs ---------------------------
(***************************************************************************)
(* The two halves of an exchange.                                          *)
(*                                                                         *)
(* First the request that a conversation is sent as, for all histories of  *)
(* any length over any alphabet of messages or items: its tool calls are   *)
(* answered, a longer history begins with the bytes of the shorter one,    *)
(* and the reasoning in it is that of the current epoch.  The loops of the *)
(* converters are recursive functions: MessageRun and ItemRun are their    *)
(* sequences of states, and a set of positions that goes from one to the   *)
(* next (UpTo) takes the place of induction.                               *)
(*                                                                         *)
(* Then the pump that carries the answer: the two functions of the         *)
(* watchdog agree, for all limits and all times; and the safety of the     *)
(* pump, for every configuration of the timers that bounds silence, every  *)
(* capacity of the channel and any number of arrivals.                     *)
(***************************************************************************)
EXTENDS Pump, Requests, DequeProofs, SequenceTheorems


\* Induction up to a bound, for a set of numbers.
LEMMA UpTo ==
  ASSUME NEW N \in Nat, NEW T, 0 \in T, \A n \in 1 .. N : n - 1 \in T => n \in T
  PROVE  \A n \in 0 .. N : n \in T
<1> DEFINE R == {n \in 0 .. N : n \notin T}
<1> SUFFICES ASSUME NEW n \in R
             PROVE  FALSE
  OBVIOUS
<1>1. R \in SUBSET Nat
  OBVIOUS
<1>2. PICK m \in R : \A k \in R : m <= k
  <2> HIDE DEF R
  <2> QED
    BY <1>1, LeastNatural
<1>3. m \in 1 .. N /\ m \notin T
  BY <1>2
<1>4. m - 1 \in 0 .. N /\ ~ (m <= m - 1)
  BY <1>3
<1>5. m - 1 \in T
  BY <1>2, <1>4
<1> QED
  BY <1>3, <1>5

(***************************************************************************)
(* A loop that goes through N steps, each of which leads from one state in *)
(* S to the next, has a sequence of states.                                *)
(***************************************************************************)
LEMMA Iterates ==
  ASSUME NEW S, NEW b \in S, NEW N \in Nat, NEW F \in [1 .. N -> [S -> S]]
  PROVE  \E f \in [0 .. N -> S] : f[0] = b /\ \A n \in 1 .. N : f[n] = F[n][f[n - 1]]
<1> DEFINE Goes(f, m) == f[0] = b /\ \A n \in 1 .. m : f[n] = F[n][f[n - 1]]
           T == {m \in 0 .. N : \E f \in [0 .. m -> S] : Goes(f, m)}
<1>1. 0 \in T
  <2> DEFINE f == [n \in 0 .. 0 |-> b]
  <2>1. f \in [0 .. 0 -> S] /\ Goes(f, 0)
    OBVIOUS
  <2> HIDE DEF f, Goes
  <2>2. \E g \in [0 .. 0 -> S] : Goes(g, 0)
    BY <2>1
  <2> QED
    BY <2>2
<1>2. ASSUME NEW m \in 1 .. N, m - 1 \in T
      PROVE  m \in T
  <2>1. PICK k \in 0 .. N : k = m - 1
    OBVIOUS
  <2>2. PICK f \in [0 .. k -> S] : Goes(f, k)
    BY <1>2, <2>1
  <2>3. PICK y \in S : y = F[m][f[k]]
    <3>1. f[k] \in S /\ F[m] \in [S -> S]
      BY <2>1, <2>2
    <3> QED
      BY <3>1
  <2> DEFINE g == [n \in 0 .. m |-> IF n = m THEN y ELSE f[n]]
  <2>4. \A n \in 0 .. m : n # m => n \in 0 .. k
    BY <2>1
  <2>5. g \in [0 .. m -> S]
    BY <2>4
  <2>6. /\ g[m] = y
        /\ \A n \in 0 .. k : g[n] = f[n]
    BY <2>1
  <2> HIDE DEF g
  <2>7. g[0] = b
    BY <2>1, <2>2, <2>6
  <2>8. ASSUME NEW n \in 1 .. m
        PROVE  g[n] = F[n][g[n - 1]]
    <3>1. n - 1 \in 0 .. k
      BY <2>1
    <3>2. CASE n = m
      BY <2>1, <2>3, <2>6, <3>1, <3>2
    <3>3. CASE n # m
      <4>1. n \in 1 .. k /\ n \in 0 .. k
        BY <2>1, <3>3
      <4> QED
        BY <2>2, <2>6, <3>1, <4>1
    <3> QED
      BY <3>2, <3>3
  <2> QED
    BY <2>5, <2>7, <2>8
<1>3. N \in T
  <2> HIDE DEF T
  <2>1. \A n \in 0 .. N : n \in T
    BY <1>1, <1>2, UpTo
  <2> QED
    BY <2>1
<1> QED
  BY <1>3

-----------------------------------------------------------------------------
(***************************************************************************)
(* What the messages of a converted request are.                           *)
(***************************************************************************)
ChatMessages == [role : {"user", "assistant", "system", "tool"}, reasoning : BOOLEAN,
                 calls : Seq(CallIds), canonical : BOOLEAN, id : CallIds \cup {NoId}, src : Nat]

LEMMA PlainIs ==
  ASSUME NEW role \in {"user", "assistant", "system", "tool"}, NEW src \in Nat
  PROVE  /\ Plain(role, src) \in ChatMessages
         /\ Plain(role, src).role = role /\ Plain(role, src).calls = << >>
         /\ Plain(role, src).src = src /\ ~ Plain(role, src).reasoning
BY DEF Plain, Message, ChatMessages

LEMMA ToolIs ==
  ASSUME NEW id \in CallIds, NEW src \in Nat
  PROVE  /\ Tool(id, src) \in ChatMessages
         /\ Tool(id, src).role = "tool" /\ Tool(id, src).calls = << >>
         /\ Tool(id, src).id = id /\ Tool(id, src).src = src /\ ~ Tool(id, src).reasoning
BY DEF Tool, Message, ChatMessages

LEMMA AssistantIs ==
  ASSUME NEW r \in BOOLEAN, NEW calls \in Seq(CallIds), NEW src \in Nat
  PROVE  /\ Assistant(r, calls, src) \in ChatMessages
         /\ Assistant(r, calls, src).role = "assistant" /\ Assistant(r, calls, src).calls = calls
         /\ Assistant(r, calls, src).src = src /\ Assistant(r, calls, src).reasoning = r
BY DEF Assistant, Message, ChatMessages

\* The converters are instances and have the operators of Policy of their own.
LEMMA SameOperators ==
  /\ \A role, src : Anthropic!Plain(role, src) = Plain(role, src)
  /\ \A id, src : Anthropic!Tool(id, src) = Tool(id, src)
  /\ \A r, calls, src : Anthropic!Assistant(r, calls, src) = Assistant(r, calls, src)
  /\ \A ids : Anthropic!ToSet(ids) = ToSet(ids)
  /\ \A ids : Anthropic!IsInjective(ids) <=> IsInjective(ids)
  /\ \A role, src : Responses!Plain(role, src) = Plain(role, src)
  /\ \A id, src : Responses!Tool(id, src) = Tool(id, src)
  /\ \A r, calls, src : Responses!Assistant(r, calls, src) = Assistant(r, calls, src)
BY DEF Message, Plain, Tool, Assistant, ToSet, IsInjective, Anthropic!ToSet, Anthropic!IsInjective,
       Anthropic!Message, Anthropic!Plain, Anthropic!Tool, Anthropic!Assistant,
       Responses!Message, Responses!Plain, Responses!Tool, Responses!Assistant

-----------------------------------------------------------------------------
(***************************************************************************)
(* The states of the loop in convert_messages.                             *)
(***************************************************************************)
ClientMessages ==
  {m \in [role : {"user", "assistant", "system", "other"}, string : BOOLEAN,
          text : {"none", "some", "empty"}, results : Seq(CallIds),
          thinking : BOOLEAN, uses : Seq(CallIds)] :
     /\ m.role # "user" => ~ m.string /\ m.text = "none" /\ m.results = << >>
     /\ m.role # "assistant" => ~ m.thinking /\ m.uses = << >>
     /\ m.string => m.text # "none" /\ m.results = << >>}

MessageStates == [out : Seq(ChatMessages), pending : SUBSET CallIds, ok : BOOLEAN]

NoMessage == [out |-> << >>, pending |-> {}, ok |-> TRUE]

\* The results of a message, then what a human says with them.
Answering(ids, i) == [n \in DOMAIN ids |-> Tool(ids[n], i)]

\* What convert_messages makes of one message.
MessagePart(m, i) ==
  CASE m.role = "user"      -> Answering(m.results, i) \o If(Anthropic!HasText(m), <<Plain("user", i)>>)
    [] m.role = "assistant" -> <<Assistant(m.thinking, m.uses, i)>>
    [] m.role = "system"    -> <<Plain("user", i)>>
    [] m.role = "other"     -> << >>

LEMMA ConvertNextMessage ==
  ASSUME NEW s, NEW m \in ClientMessages, NEW i
  PROVE  Anthropic!ConvertNext(s, m, i) =
           [out     |-> s.out \o MessagePart(m, i),
            pending |-> (s.pending \ ToSet(m.results)) \cup ToSet(m.uses),
            ok      |-> /\ s.ok /\ m.role # "other"
                        /\ Anthropic!Settles(s.pending, m.results)
                        /\ Anthropic!Registers(s.pending, m.uses)]
<1> DEFINE part == CASE m.role = "user"      -> Anthropic!ConvertUserMessage(m, i)
                     [] m.role = "assistant" -> <<Anthropic!ConvertAssistantMessage(m, i)>>
                     [] m.role = "system"    -> <<Anthropic!Plain("user", i)>>
                     [] m.role = "other"     -> << >>
<1>1. m.role \in {"user", "assistant", "system", "other"}
  BY DEF ClientMessages
<1>2. ASSUME m.role = "user" PROVE part = MessagePart(m, i)
  <2>1. part = Anthropic!ConvertUserMessage(m, i)
    BY <1>2
  <2>2. MessagePart(m, i) = Answering(m.results, i) \o If(Anthropic!HasText(m), <<Plain("user", i)>>)
    BY <1>2 DEF MessagePart
  <2>3. Anthropic!ConvertUserMessage(m, i) = Answering(m.results, i) \o If(Anthropic!HasText(m), <<Plain("user", i)>>)
    BY SameOperators DEF Anthropic!ConvertUserMessage, Answering, If, Anthropic!If
  <2> QED
    BY <2>1, <2>2, <2>3
<1>3. ASSUME m.role = "assistant" PROVE part = MessagePart(m, i)
  <2>1. part = <<Assistant(m.thinking, m.uses, i)>>
    BY <1>3, SameOperators DEF Anthropic!ConvertAssistantMessage
  <2>2. MessagePart(m, i) = <<Assistant(m.thinking, m.uses, i)>>
    BY <1>3 DEF MessagePart
  <2> QED
    BY <2>1, <2>2
<1>4. ASSUME m.role = "system" PROVE part = MessagePart(m, i)
  <2>1. part = <<Plain("user", i)>>
    BY <1>4, SameOperators
  <2>2. MessagePart(m, i) = <<Plain("user", i)>>
    BY <1>4 DEF MessagePart
  <2> QED
    BY <2>1, <2>2
<1>5. ASSUME m.role = "other" PROVE part = MessagePart(m, i)
  <2>1. part = << >>
    BY <1>5
  <2>2. MessagePart(m, i) = << >>
    BY <1>5 DEF MessagePart
  <2> QED
    BY <2>1, <2>2
<1>6. part = MessagePart(m, i)
  <2> HIDE DEF part
  <2> QED
    BY <1>1, <1>2, <1>3, <1>4, <1>5
<1>7. Anthropic!ConvertNext(s, m, i) =
           [out     |-> s.out \o part,
            pending |-> (s.pending \ ToSet(m.results)) \cup ToSet(m.uses),
            ok      |-> /\ s.ok /\ m.role # "other"
                        /\ Anthropic!Settles(s.pending, m.results)
                        /\ Anthropic!Registers(s.pending, m.uses)]
  BY DEF Anthropic!ConvertNext, ToSet, Anthropic!ToSet
<1> HIDE DEF part
<1> QED
  BY <1>6, <1>7

\* Every result takes its id away, and every use needs one that is not pending.
LEMMA SettlesRegisters ==
  ASSUME NEW P, NEW ids
  PROVE  /\ Anthropic!Settles(P, ids) <=> IsInjective(ids) /\ ToSet(ids) \subseteq P
         /\ Anthropic!Registers(P, ids) <=> IsInjective(ids) /\ ToSet(ids) \cap P = {}
BY SameOperators DEF Anthropic!Settles, Anthropic!Registers

LEMMA ConcatIs ==
  ASSUME NEW S, NEW s \in Seq(S), NEW t \in Seq(S)
  PROVE  /\ s \o t \in Seq(S)
         /\ Len(s) \in Nat /\ Len(t) \in Nat /\ Len(s \o t) = Len(s) + Len(t)
         /\ DOMAIN s = 1 .. Len(s) /\ DOMAIN t = 1 .. Len(t)
         /\ DOMAIN (s \o t) = 1 .. Len(s) + Len(t)
         /\ \A n \in 1 .. Len(s) : (s \o t)[n] = s[n]
         /\ \A n \in 1 .. Len(t) : (s \o t)[Len(s) + n] = t[n]
         /\ \A n \in Len(s) + 1 .. Len(s) + Len(t) : n - Len(s) \in 1 .. Len(t) /\ (s \o t)[n] = t[n - Len(s)]
OBVIOUS

LEMMA AnsweringIs ==
  ASSUME NEW ids \in Seq(CallIds), NEW i \in Nat
  PROVE  /\ Answering(ids, i) \in Seq(ChatMessages)
         /\ Len(Answering(ids, i)) = Len(ids) /\ Len(ids) \in Nat
         /\ \A n \in 1 .. Len(ids) : Answering(ids, i)[n] = Tool(ids[n], i)
<1>1. Len(ids) \in Nat /\ DOMAIN ids = 1 .. Len(ids) /\ \A n \in 1 .. Len(ids) : ids[n] \in CallIds
  OBVIOUS
<1>2. \A n \in 1 .. Len(ids) : Tool(ids[n], i) \in ChatMessages
  BY <1>1, ToolIs
<1> QED
  BY <1>1, <1>2 DEF Answering

LEMMA MessagePartTypes ==
  ASSUME NEW m \in ClientMessages, NEW i \in Nat
  PROVE  MessagePart(m, i) \in Seq(ChatMessages)
<1>1. /\ m.role \in {"user", "assistant", "system", "other"}
      /\ m.results \in Seq(CallIds) /\ m.uses \in Seq(CallIds) /\ m.thinking \in BOOLEAN
  BY DEF ClientMessages
<1>2. Plain("user", i) \in ChatMessages /\ Assistant(m.thinking, m.uses, i) \in ChatMessages
  BY <1>1, PlainIs, AssistantIs
<1>3. /\ <<Plain("user", i)>> \in Seq(ChatMessages) /\ <<Assistant(m.thinking, m.uses, i)>> \in Seq(ChatMessages)
      /\ << >> \in Seq(ChatMessages)
  BY <1>2
<1>4. If(Anthropic!HasText(m), <<Plain("user", i)>>) \in Seq(ChatMessages)
  BY <1>3 DEF If
<1>5. Answering(m.results, i) \o If(Anthropic!HasText(m), <<Plain("user", i)>>) \in Seq(ChatMessages)
  <2>1. PICK t \in Seq(ChatMessages) : t = If(Anthropic!HasText(m), <<Plain("user", i)>>)
    BY <1>4
  <2>2. Answering(m.results, i) \in Seq(ChatMessages)
    BY <1>1, AnsweringIs
  <2> QED
    BY <2>1, <2>2
<1> QED
  BY <1>1, <1>3, <1>5 DEF MessagePart

LEMMA MessageStateTypes ==
  ASSUME NEW s \in MessageStates, NEW m \in ClientMessages, NEW i \in Nat
  PROVE  Anthropic!ConvertNext(s, m, i) \in MessageStates
<1>1. s.out \in Seq(ChatMessages) /\ s.pending \in SUBSET CallIds /\ s.ok \in BOOLEAN
  BY DEF MessageStates
<1>2. s.out \o MessagePart(m, i) \in Seq(ChatMessages)
  BY <1>1, MessagePartTypes
<1>3. (s.pending \ ToSet(m.results)) \cup ToSet(m.uses) \in SUBSET CallIds
  <2>1. m.uses \in Seq(CallIds)
    BY DEF ClientMessages
  <2> QED
    BY <1>1, <2>1 DEF ToSet
<1>4. (s.ok /\ m.role # "other" /\ Anthropic!Settles(s.pending, m.results)
          /\ Anthropic!Registers(s.pending, m.uses)) \in BOOLEAN
  OBVIOUS
<1>5. PICK o \in Seq(ChatMessages) : o = s.out \o MessagePart(m, i)
  BY <1>2
<1>6. PICK p \in SUBSET CallIds : p = (s.pending \ ToSet(m.results)) \cup ToSet(m.uses)
  BY <1>3
<1>7. PICK k \in BOOLEAN : k = (s.ok /\ m.role # "other" /\ Anthropic!Settles(s.pending, m.results)
                                  /\ Anthropic!Registers(s.pending, m.uses))
  BY <1>4
<1>8. Anthropic!ConvertNext(s, m, i) = [out |-> o, pending |-> p, ok |-> k]
  BY <1>5, <1>6, <1>7, ConvertNextMessage
<1> QED
  BY <1>8 DEF MessageStates

(***************************************************************************)
(* s is the sequence of states of convert_messages on ms.                  *)
(***************************************************************************)
MessageRun(s, ms) ==
  s = [n \in 0 .. Len(ms) |-> IF n = 0 THEN NoMessage
                             ELSE Anthropic!ConvertNext(s[n - 1], ms[n], n)]

LEMMA MessageRunExists ==
  ASSUME NEW ms \in Seq(ClientMessages)
  PROVE  \E s : MessageRun(s, ms)
<1>1. PICK N \in Nat : N = Len(ms)
  OBVIOUS
<1>2. NoMessage \in MessageStates
  BY DEF NoMessage, MessageStates
<1>3. PICK F \in [1 .. N -> [MessageStates -> MessageStates]] :
         \A n \in 1 .. N : \A x \in MessageStates : F[n][x] = Anthropic!ConvertNext(x, ms[n], n)
  <2> DEFINE F == [n \in 1 .. N |-> [x \in MessageStates |-> Anthropic!ConvertNext(x, ms[n], n)]]
  <2>1. \A n \in 1 .. N : ms[n] \in ClientMessages /\ n \in Nat
    BY <1>1
  <2>2. F \in [1 .. N -> [MessageStates -> MessageStates]]
    BY <2>1, MessageStateTypes
  <2>3. \A n \in 1 .. N : \A x \in MessageStates : F[n][x] = Anthropic!ConvertNext(x, ms[n], n)
    OBVIOUS
  <2> HIDE DEF F
  <2> QED
    BY <2>2, <2>3
<1>4. PICK f \in [0 .. N -> MessageStates] : f[0] = NoMessage /\ \A n \in 1 .. N : f[n] = F[n][f[n - 1]]
  BY <1>2, Iterates
<1>5. ASSUME NEW n \in 0 .. N
      PROVE  f[n] = IF n = 0 THEN NoMessage ELSE Anthropic!ConvertNext(f[n - 1], ms[n], n)
  <2>1. CASE n = 0
    BY <1>4, <2>1
  <2>2. CASE n # 0
    <3>1. n \in 1 .. N /\ n - 1 \in 0 .. N
      BY <2>2
    <3>2. f[n] = F[n][f[n - 1]] /\ f[n - 1] \in MessageStates
      BY <1>4, <3>1
    <3> QED
      BY <1>3, <2>2, <3>1, <3>2
  <2> QED
    BY <2>1, <2>2
<1>6. DOMAIN f = 0 .. N
  OBVIOUS
<1> QED
  BY <1>1, <1>5, <1>6 DEF MessageRun

\* What convert_messages returns is the last state of such a sequence.
LEMMA ConvertMessagesRuns ==
  ASSUME NEW ms \in Seq(ClientMessages)
  PROVE  \E s : MessageRun(s, ms) /\ Anthropic!ConvertMessages(ms) = s[Len(ms)]
<1> DEFINE run == CHOOSE s : MessageRun(s, ms)
<1>1. MessageRun(run, ms)
  BY MessageRunExists
<1>2. Anthropic!ConvertMessages(ms) = run[Len(ms)]
  BY DEF Anthropic!ConvertMessages, MessageRun, NoMessage
<1> QED
  BY <1>1, <1>2

LEMMA MessageRunStates ==
  ASSUME NEW ms \in Seq(ClientMessages), NEW s, MessageRun(s, ms)
  PROVE  /\ Len(ms) \in Nat /\ s[0] = NoMessage
         /\ \A n \in 1 .. Len(ms) : s[n] = Anthropic!ConvertNext(s[n - 1], ms[n], n)
         /\ \A n \in 0 .. Len(ms) : s[n] \in MessageStates
<1>1. PICK N \in Nat : N = Len(ms)
  OBVIOUS
<1>2. s[0] = NoMessage /\ \A n \in 1 .. N : s[n] = Anthropic!ConvertNext(s[n - 1], ms[n], n)
  BY <1>1 DEF MessageRun
<1> DEFINE T == {n \in 0 .. N : s[n] \in MessageStates}
<1>3. 0 \in T
  <2>1. NoMessage \in MessageStates
    BY DEF NoMessage, MessageStates
  <2> QED
    BY <1>2, <2>1
<1>4. ASSUME NEW n \in 1 .. N, n - 1 \in T
      PROVE  n \in T
  <2>1. ms[n] \in ClientMessages /\ n \in Nat
    BY <1>1
  <2> QED
    BY <1>2, <1>4, <2>1, MessageStateTypes
<1> HIDE DEF T
<1>5. \A n \in 0 .. N : n \in T
  BY <1>3, <1>4, UpTo
<1> QED
  BY <1>1, <1>2, <1>5 DEF T

\* One step of the loop, in terms of what it adds, and what it requires.
LEMMA MessageStep ==
  ASSUME NEW ms \in Seq(ClientMessages), NEW s, MessageRun(s, ms), NEW n \in 1 .. Len(ms)
  PROVE  /\ n \in Nat /\ n - 1 \in 0 .. Len(ms) /\ n \in 0 .. Len(ms) /\ ms[n] \in ClientMessages
         /\ s[n - 1].out \in Seq(ChatMessages) /\ s[n].out \in Seq(ChatMessages)
         /\ s[n - 1].pending \in SUBSET CallIds
         /\ MessagePart(ms[n], n) \in Seq(ChatMessages)
         /\ s[n].out = s[n - 1].out \o MessagePart(ms[n], n)
         /\ s[n].pending = (s[n - 1].pending \ ToSet(ms[n].results)) \cup ToSet(ms[n].uses)
         /\ s[n].ok => /\ s[n - 1].ok /\ ms[n].role # "other"
                       /\ IsInjective(ms[n].results) /\ ToSet(ms[n].results) \subseteq s[n - 1].pending
                       /\ IsInjective(ms[n].uses) /\ ToSet(ms[n].uses) \cap s[n - 1].pending = {}
<1>1. n \in Nat /\ n - 1 \in 0 .. Len(ms) /\ n \in 0 .. Len(ms) /\ ms[n] \in ClientMessages
  OBVIOUS
<1>2. PICK x \in MessageStates : x = s[n - 1]
  BY <1>1, MessageRunStates
<1>3. PICK y \in MessageStates : y = s[n]
  BY <1>1, MessageRunStates
<1>4. y = Anthropic!ConvertNext(x, ms[n], n)
  BY <1>2, <1>3, MessageRunStates
<1>5. PICK m \in ClientMessages : m = ms[n]
  BY <1>1
<1>6. /\ y.out = x.out \o MessagePart(m, n)
      /\ y.pending = (x.pending \ ToSet(m.results)) \cup ToSet(m.uses)
      /\ y.ok => /\ x.ok /\ m.role # "other"
                 /\ Anthropic!Settles(x.pending, m.results)
                 /\ Anthropic!Registers(x.pending, m.uses)
  <2>1. PICK k \in BOOLEAN : k = (/\ x.ok /\ m.role # "other"
                                /\ Anthropic!Settles(x.pending, m.results)
                                /\ Anthropic!Registers(x.pending, m.uses))
    OBVIOUS
  <2>2. y = [out     |-> x.out \o MessagePart(m, n),
             pending |-> (x.pending \ ToSet(m.results)) \cup ToSet(m.uses),
             ok      |-> k]
    BY <1>4, <1>5, <2>1, ConvertNextMessage
  <2> QED
    BY <2>1, <2>2
<1>7. x.out \in Seq(ChatMessages) /\ y.out \in Seq(ChatMessages) /\ x.pending \in SUBSET CallIds
  BY DEF MessageStates
<1>8. MessagePart(m, n) \in Seq(ChatMessages)
  BY <1>1, MessagePartTypes
<1>9. y.ok => /\ x.ok /\ m.role # "other"
              /\ IsInjective(m.results) /\ ToSet(m.results) \subseteq x.pending
              /\ IsInjective(m.uses) /\ ToSet(m.uses) \cap x.pending = {}
  BY <1>6, SettlesRegisters
<1> QED
  BY <1>1, <1>2, <1>3, <1>5, <1>6, <1>7, <1>8, <1>9

\* A longer history takes the loop through the same states first.
LEMMA MessageRunsAgree ==
  ASSUME NEW ms \in Seq(ClientMessages), NEW longer \in Seq(ClientMessages),
         Len(ms) <= Len(longer), \A n \in 1 .. Len(ms) : ms[n] = longer[n],
         NEW s, MessageRun(s, ms), NEW t, MessageRun(t, longer)
  PROVE  \A n \in 0 .. Len(ms) : s[n] = t[n]
<1>1. PICK N \in Nat : N = Len(ms)
  OBVIOUS
<1>2. PICK M \in Nat : M = Len(longer)
  OBVIOUS
<1>3. s[0] = NoMessage /\ \A n \in 1 .. N : s[n] = Anthropic!ConvertNext(s[n - 1], ms[n], n)
  BY <1>1, MessageRunStates
<1>4. t[0] = NoMessage /\ \A n \in 1 .. M : t[n] = Anthropic!ConvertNext(t[n - 1], longer[n], n)
  BY <1>2, MessageRunStates
<1> DEFINE T == {n \in 0 .. N : s[n] = t[n]}
<1>5. 0 \in T
  BY <1>3, <1>4
<1>6. ASSUME NEW n \in 1 .. N, n - 1 \in T
      PROVE  n \in T
  <2>1. s[n - 1] = t[n - 1] /\ ms[n] = longer[n] /\ n \in 1 .. M
    BY <1>1, <1>2, <1>6
  <2> QED
    BY <1>3, <1>4, <2>1
<1> HIDE DEF T
<1>7. \A n \in 0 .. N : n \in T
  BY <1>5, <1>6, UpTo
<1> QED
  BY <1>1, <1>7 DEF T

\* ms begins the longer sequence.
Begins(ms, longer) == Len(ms) <= Len(longer) /\ \A k \in 1 .. Len(ms) : longer[k] = ms[k]

LEMMA BeginsConcat ==
  ASSUME NEW ms \in Seq(ChatMessages), NEW a \in Seq(ChatMessages), NEW b \in Seq(ChatMessages),
         Begins(ms, a)
  PROVE  Begins(ms, a \o b)
<1>1. /\ Len(ms) \in Nat /\ Len(a) \in Nat /\ Len(a \o b) = Len(a) + Len(b) /\ Len(b) \in Nat
      /\ \A k \in 1 .. Len(a) : (a \o b)[k] = a[k]
  BY ConcatIs
<1> QED
  BY <1>1 DEF Begins

\* Nothing that has been written is taken back.
LEMMA OutGrows ==
  ASSUME NEW ms \in Seq(ClientMessages), NEW s, MessageRun(s, ms), NEW k \in 0 .. Len(ms)
  PROVE  \A n \in 0 .. Len(ms) : k <= n => Begins(s[k].out, s[n].out)
<1>1. PICK N \in Nat : N = Len(ms)
  OBVIOUS
<1> DEFINE T == {n \in 0 .. N : k <= n => Begins(s[k].out, s[n].out)}
<1>2. s[k] \in MessageStates
  BY MessageRunStates
<1>3. PICK o \in Seq(ChatMessages) : o = s[k].out
  BY <1>2 DEF MessageStates
<1>4. Begins(o, o)
  BY DEF Begins
<1>5. 0 \in T
  <2>1. k <= 0 => k = 0
    BY <1>1
  <2> QED
    BY <1>3, <1>4, <2>1
<1>6. ASSUME NEW n \in 1 .. N, n - 1 \in T
      PROVE  n \in T
  <2>1. /\ s[n - 1].out \in Seq(ChatMessages) /\ MessagePart(ms[n], n) \in Seq(ChatMessages)
        /\ s[n].out = s[n - 1].out \o MessagePart(ms[n], n)
    BY <1>1, MessageStep
  <2>2. CASE k <= n - 1
    <3>1. Begins(o, s[n - 1].out)
      BY <1>3, <1>6, <2>2
    <3>2. Begins(o, s[n].out)
      BY <2>1, <3>1, BeginsConcat
    <3> QED
      BY <1>3, <3>2
  <2>3. CASE ~ (k <= n - 1)
    <3>1. k <= n => k = n
      BY <1>1, <2>3
    <3> QED
      BY <1>3, <1>4, <3>1
  <2> QED
    BY <2>2, <2>3
<1> HIDE DEF T
<1>7. \A n \in 0 .. N : n \in T
  BY <1>5, <1>6, UpTo
<1> QED
  BY <1>1, <1>7 DEF T

-----------------------------------------------------------------------------
(***************************************************************************)
(* Sequences of messages that are paired but for the calls of P, which are *)
(* still to be answered: nothing has happened to them since.               *)
(***************************************************************************)
Waits(ms, n, id) == ~ Called(ms, n, Len(ms) + 1, id) /\ ~ Answered(ms, n, Len(ms) + 1, id)

Asked(ms, k) == \E n \in 1 .. k - 1 : ms[k].id \in CallsOf(ms[n]) /\ ~ Answered(ms, n, k, ms[k].id)

Met(ms, n, id) == \E k \in n + 1 .. Len(ms) : Answers(ms[k], id) /\ ~ Called(ms, n, k, id)

Open(ms, P) ==
  /\ \A n \in 1 .. Len(ms) : IsInjective(ms[n].calls)
  /\ \A k \in 1 .. Len(ms) : ms[k].role = "tool" => Asked(ms, k)
  /\ \A n \in 1 .. Len(ms) : \A id \in CallsOf(ms[n]) : Met(ms, n, id) \/ (id \in P /\ Waits(ms, n, id))
  /\ \A id \in P : \E n \in 1 .. Len(ms) : id \in CallsOf(ms[n]) /\ Waits(ms, n, id)

LEMMA OpenEmpty == Open(<< >>, {})
BY DEF Open

LEMMA ClosedIsPaired ==
  ASSUME NEW ms \in Seq(ChatMessages)
  PROVE  Open(ms, {}) <=> Paired(ms)
<1>1. DOMAIN ms = 1 .. Len(ms)
  OBVIOUS
<1> QED
  BY <1>1 DEF Open, Paired, Asked, Met

\* What is said of the messages so far stays true when some are added.
LEMMA StaysSo ==
  ASSUME NEW ms \in Seq(ChatMessages), NEW r \in Seq(ChatMessages), Begins(ms, r)
  PROVE  /\ \A n \in 1 .. Len(ms) : \A k \in 1 .. Len(ms) + 1 : \A id :
              /\ Called(r, n, k, id) <=> Called(ms, n, k, id)
              /\ Answered(r, n, k, id) <=> Answered(ms, n, k, id)
         /\ \A k \in 1 .. Len(ms) : Asked(ms, k) => Asked(r, k)
         /\ \A n \in 1 .. Len(ms) : \A id : Met(ms, n, id) => Met(r, n, id)
<1>1. /\ Len(ms) \in Nat /\ Len(r) \in Nat /\ Len(ms) <= Len(r)
      /\ \A n \in 1 .. Len(ms) : r[n] = ms[n]
  BY DEF Begins
<1>2. ASSUME NEW n \in 1 .. Len(ms), NEW k \in 1 .. Len(ms) + 1, NEW id
      PROVE  /\ Called(r, n, k, id) <=> Called(ms, n, k, id)
             /\ Answered(r, n, k, id) <=> Answered(ms, n, k, id)
  <2>1. \A j \in n + 1 .. k - 1 : r[j] = ms[j]
    BY <1>1
  <2> QED
    BY <2>1 DEF Called, Answered
<1>3. ASSUME NEW k \in 1 .. Len(ms), Asked(ms, k)
      PROVE  Asked(r, k)
  <2>1. PICK n \in 1 .. k - 1 : ms[k].id \in CallsOf(ms[n]) /\ ~ Answered(ms, n, k, ms[k].id)
    BY <1>3 DEF Asked
  <2>2. n \in 1 .. Len(ms) /\ k \in 1 .. Len(ms) + 1
    BY <1>1
  <2>3. r[n] = ms[n] /\ r[k] = ms[k] /\ ~ Answered(r, n, k, ms[k].id)
    BY <1>1, <1>2, <2>1, <2>2
  <2> QED
    BY <2>1, <2>3 DEF Asked
<1>4. ASSUME NEW n \in 1 .. Len(ms), NEW id, Met(ms, n, id)
      PROVE  Met(r, n, id)
  <2>1. PICK k \in n + 1 .. Len(ms) : Answers(ms[k], id) /\ ~ Called(ms, n, k, id)
    BY <1>4 DEF Met
  <2>2. k \in 1 .. Len(ms) /\ k \in 1 .. Len(ms) + 1 /\ k \in n + 1 .. Len(r)
    BY <1>1
  <2>3. r[k] = ms[k] /\ ~ Called(r, n, k, id)
    BY <1>1, <1>2, <2>1, <2>2
  <2> QED
    BY <2>1, <2>2, <2>3 DEF Met
<1> QED
  BY <1>2, <1>3, <1>4

\* A message that is no result: its calls are open then.
LEMMA CallsOpen ==
  ASSUME NEW ms \in Seq(ChatMessages), NEW m \in ChatMessages, NEW P,
         m.role # "tool", IsInjective(m.calls), CallsOf(m) \cap P = {}, Open(ms, P)
  PROVE  Open(ms \o <<m>>, P \cup CallsOf(m))
<1>1. PICK l \in Nat : l = Len(ms)
  OBVIOUS
<1>2. PICK r \in Seq(ChatMessages) : r = ms \o <<m>>
  <2>1. <<m>> \in Seq(ChatMessages)
    OBVIOUS
  <2>2. ms \o <<m>> \in Seq(ChatMessages)
    BY <2>1, ConcatIs
  <2> QED
    BY <2>2
<1>3. Len(r) = l + 1 /\ r[l + 1] = m /\ Begins(ms, r) /\ \A n \in 1 .. l : r[n] = ms[n]
  BY <1>1, <1>2 DEF Begins
<1>4. /\ \A n \in 1 .. l : \A k \in 1 .. l + 1 : \A id :
           /\ Called(r, n, k, id) <=> Called(ms, n, k, id)
           /\ Answered(r, n, k, id) <=> Answered(ms, n, k, id)
      /\ \A k \in 1 .. l : Asked(ms, k) => Asked(r, k)
      /\ \A n \in 1 .. l : \A id : Met(ms, n, id) => Met(r, n, id)
  BY <1>1, <1>3, StaysSo
<1>5. ASSUME NEW n \in 1 .. l, NEW id \in P, Waits(ms, n, id)
      PROVE  Waits(r, n, id)
  <2>1. ~ Called(r, n, l + 1, id) /\ ~ Answered(r, n, l + 1, id)
    BY <1>1, <1>4, <1>5 DEF Waits
  <2>2. id \notin CallsOf(r[l + 1]) /\ ~ Answers(r[l + 1], id)
    BY <1>3 DEF Answers
  <2>3. \A j \in n + 1 .. (l + 2) - 1 : j \in n + 1 .. (l + 1) - 1 \/ j = l + 1
    OBVIOUS
  <2>4. ~ Called(r, n, l + 2, id) /\ ~ Answered(r, n, l + 2, id)
    BY <2>1, <2>2, <2>3 DEF Called, Answered
  <2>5. Len(r) + 1 = l + 2
    BY <1>3
  <2> QED
    BY <2>4, <2>5 DEF Waits
<1>6. ASSUME NEW id \in CallsOf(m)
      PROVE  Waits(r, l + 1, id)
  <2>1. Len(r) + 1 = l + 2
    BY <1>3
  <2>2. ~ \E j \in l + 1 + 1 .. l + 2 - 1 : TRUE
    OBVIOUS
  <2> QED
    BY <2>1, <2>2 DEF Waits, Called, Answered
<1>7. \A n \in 1 .. l + 1 : n \in 1 .. l \/ n = l + 1
  OBVIOUS
<1>8. \A n \in 1 .. Len(r) : IsInjective(r[n].calls)
  BY <1>1, <1>3, <1>7 DEF Open
<1>9. \A k \in 1 .. Len(r) : r[k].role = "tool" => Asked(r, k)
  BY <1>1, <1>3, <1>4, <1>7 DEF Open
<1>10. ASSUME NEW n \in 1 .. Len(r), NEW id \in CallsOf(r[n])
       PROVE  Met(r, n, id) \/ (id \in P \cup CallsOf(m) /\ Waits(r, n, id))
  <2>1. CASE n \in 1 .. l
    <3>1. Met(ms, n, id) \/ (id \in P /\ Waits(ms, n, id))
      BY <1>1, <1>3, <2>1 DEF Open
    <3> QED
      BY <1>4, <1>5, <2>1, <3>1
  <2>2. CASE n = l + 1
    BY <1>3, <1>6, <2>2
  <2> QED
    BY <1>3, <1>7, <2>1, <2>2
<1>11. ASSUME NEW id \in P \cup CallsOf(m)
       PROVE  \E n \in 1 .. Len(r) : id \in CallsOf(r[n]) /\ Waits(r, n, id)
  <2>1. CASE id \in P
    <3>1. PICK n \in 1 .. l : id \in CallsOf(ms[n]) /\ Waits(ms, n, id)
      BY <1>1, <2>1 DEF Open
    <3> QED
      BY <1>3, <1>5, <2>1, <3>1
  <2>2. CASE id \in CallsOf(m)
    <3>1. l + 1 \in 1 .. Len(r)
      BY <1>3
    <3> QED
      BY <1>3, <1>6, <2>2, <3>1
  <2> QED
    BY <2>1, <2>2
<1> QED
  BY <1>2, <1>8, <1>9, <1>10, <1>11 DEF Open

\* A number of results, no two of the same call: these calls are answered then.
LEMMA AnswersClose ==
  ASSUME NEW ms \in Seq(ChatMessages), NEW ids \in Seq(CallIds), NEW i \in Nat, NEW P,
         IsInjective(ids), ToSet(ids) \subseteq P, Open(ms, P)
  PROVE  Open(ms \o Answering(ids, i), P \ ToSet(ids))
<1>1. PICK l \in Nat : l = Len(ms)
  OBVIOUS
<1>2. PICK t \in Seq(ChatMessages) : t = Answering(ids, i)
  BY AnsweringIs
<1>3. PICK r \in Seq(ChatMessages) : r = ms \o t
  <2>1. ms \o t \in Seq(ChatMessages)
    BY ConcatIs
  <2> QED
    BY <2>1
<1>4. PICK q \in Nat : q = Len(ids)
  OBVIOUS
<1>5. /\ DOMAIN ids = 1 .. q /\ \A n \in 1 .. q : ids[n] \in CallIds
      /\ Len(t) = q /\ \A n \in 1 .. q : t[n] = Tool(ids[n], i)
  BY <1>2, <1>4, AnsweringIs
<1>6. /\ Len(r) = l + q /\ \A n \in 1 .. l : r[n] = ms[n]
      /\ \A n \in l + 1 .. l + q : n - l \in 1 .. q /\ r[n] = Tool(ids[n - l], i)
  <2>1. Len(t) = q
    BY <1>5
  <2>2. /\ Len(r) = l + q /\ \A n \in 1 .. l : r[n] = ms[n]
        /\ \A n \in l + 1 .. l + q : n - l \in 1 .. q /\ r[n] = t[n - l]
    BY <1>1, <1>3, <2>1
  <2> QED
    BY <1>5, <2>2
<1>7. \A n \in l + 1 .. l + q : /\ r[n].role = "tool" /\ r[n].id = ids[n - l]
                                /\ r[n].calls = << >> /\ CallsOf(r[n]) = {}
  <2> SUFFICES ASSUME NEW n \in l + 1 .. l + q
               PROVE  /\ r[n].role = "tool" /\ r[n].id = ids[n - l]
                      /\ r[n].calls = << >> /\ CallsOf(r[n]) = {}
    OBVIOUS
  <2>1. PICK id \in CallIds : id = ids[n - l]
    BY <1>5, <1>6
  <2>2. r[n] = Tool(id, i)
    BY <1>6, <2>1
  <2> QED
    BY <2>1, <2>2, ToolIs DEF CallsOf, ToSet
<1>8. Begins(ms, r)
  BY <1>1, <1>6 DEF Begins
<1>9. /\ \A n \in 1 .. l : \A k \in 1 .. l + 1 : \A id :
           /\ Called(r, n, k, id) <=> Called(ms, n, k, id)
           /\ Answered(r, n, k, id) <=> Answered(ms, n, k, id)
      /\ \A k \in 1 .. l : Asked(ms, k) => Asked(r, k)
      /\ \A n \in 1 .. l : \A id : Met(ms, n, id) => Met(r, n, id)
  BY <1>1, <1>8, StaysSo
<1>10. ASSUME NEW n \in 1 .. l, NEW id, NEW k \in l + 1 .. l + q + 1, Waits(ms, n, id),
              \A j \in l + 1 .. k - 1 : ids[j - l] # id
       PROVE  ~ Called(r, n, k, id) /\ ~ Answered(r, n, k, id)
  <2>1. ~ Called(r, n, l + 1, id) /\ ~ Answered(r, n, l + 1, id)
    BY <1>1, <1>9, <1>10 DEF Waits
  <2>2. \A j \in n + 1 .. k - 1 : j \in n + 1 .. (l + 1) - 1 \/ j \in l + 1 .. k - 1
    OBVIOUS
  <2>3. \A j \in l + 1 .. k - 1 : j \in l + 1 .. l + q
    OBVIOUS
  <2>4. \A j \in l + 1 .. k - 1 : id \notin CallsOf(r[j]) /\ ~ Answers(r[j], id)
    BY <1>7, <1>10, <2>3 DEF Answers
  <2> QED
    BY <2>1, <2>2, <2>4 DEF Called, Answered
<1>11. \A a, b \in 1 .. q : ids[a] = ids[b] => a = b
  BY <1>5 DEF IsInjective
<1>12. \A n \in 1 .. l + q : n \in 1 .. l \/ n \in l + 1 .. l + q
  OBVIOUS
<1>13. \A n \in 1 .. Len(r) : IsInjective(r[n].calls)
  <2>1. \A n \in 1 .. l : IsInjective(r[n].calls)
    BY <1>1, <1>6 DEF Open
  <2>2. IsInjective(<< >>)
    BY DEF IsInjective
  <2>3. \A n \in l + 1 .. l + q : IsInjective(r[n].calls)
    BY <1>7, <2>2
  <2> QED
    BY <1>6, <1>12, <2>1, <2>3
<1>14. ASSUME NEW k \in 1 .. Len(r), r[k].role = "tool"
       PROVE  Asked(r, k)
  <2>1. CASE k \in 1 .. l
    BY <1>1, <1>6, <1>9, <1>14, <2>1 DEF Open
  <2>2. CASE k \in l + 1 .. l + q
    <3>1. PICK id \in P : id = ids[k - l]
      BY <1>5, <1>6, <2>2 DEF ToSet
    <3>2. PICK n \in 1 .. l : id \in CallsOf(ms[n]) /\ Waits(ms, n, id)
      BY <1>1 DEF Open
    <3>3. \A j \in l + 1 .. k - 1 : ids[j - l] # id
      <4> SUFFICES ASSUME NEW j \in l + 1 .. k - 1
                   PROVE  ids[j - l] # id
        OBVIOUS
      <4>1. j - l \in 1 .. q /\ k - l \in 1 .. q /\ j - l # k - l
        BY <2>2
      <4> QED
        BY <1>11, <3>1, <4>1
    <3>4. k \in l + 1 .. l + q + 1
      BY <2>2
    <3>5. ~ Answered(r, n, k, id)
      BY <1>10, <3>2, <3>3, <3>4
    <3>6. n \in 1 .. k - 1 /\ r[n] = ms[n] /\ r[k].id = id
      BY <1>6, <1>7, <2>2, <3>1
    <3> QED
      BY <3>2, <3>5, <3>6 DEF Asked
  <2> QED
    BY <1>6, <1>12, <2>1, <2>2
<1>15. ASSUME NEW n \in 1 .. l, NEW id \in P \ ToSet(ids), Waits(ms, n, id)
       PROVE  Waits(r, n, id)
  <2>1. l + q + 1 \in l + 1 .. l + q + 1 /\ l + q + 1 = Len(r) + 1
    BY <1>6
  <2>2. \A j \in l + 1 .. (l + q + 1) - 1 : ids[j - l] # id
    <3> SUFFICES ASSUME NEW j \in l + 1 .. (l + q + 1) - 1
                 PROVE  ids[j - l] # id
      OBVIOUS
    <3>1. j - l \in DOMAIN ids
      BY <1>5
    <3> QED
      BY <1>15, <3>1 DEF ToSet
  <2>3. ~ Called(r, n, l + q + 1, id) /\ ~ Answered(r, n, l + q + 1, id)
    BY <1>10, <1>15, <2>1, <2>2
  <2> QED
    BY <2>1, <2>3 DEF Waits
<1>16. ASSUME NEW n \in 1 .. l, NEW id \in ToSet(ids), Waits(ms, n, id)
       PROVE  Met(r, n, id)
  <2>1. PICK a \in 1 .. q : id = ids[a]
    BY <1>5, <1>16 DEF ToSet
  <2>2. PICK k \in l + 1 .. l + q : k = l + a
    OBVIOUS
  <2>3. \A j \in l + 1 .. k - 1 : ids[j - l] # id
    <3> SUFFICES ASSUME NEW j \in l + 1 .. k - 1
                 PROVE  ids[j - l] # id
      OBVIOUS
    <3>1. j - l \in 1 .. q /\ j - l # a
      BY <2>2
    <3> QED
      BY <1>11, <2>1, <3>1
  <2>4. ~ Called(r, n, k, id)
    <3>1. k \in l + 1 .. l + q + 1
      OBVIOUS
    <3> QED
      BY <1>10, <1>16, <2>3, <3>1
  <2>5. Answers(r[k], id)
    <3>1. k - l = a
      BY <2>2
    <3> QED
      BY <1>7, <2>1, <3>1 DEF Answers
  <2>6. k \in n + 1 .. Len(r)
    BY <1>6
  <2> QED
    BY <2>4, <2>5, <2>6 DEF Met
<1>17. ASSUME NEW n \in 1 .. Len(r), NEW id \in CallsOf(r[n])
       PROVE  Met(r, n, id) \/ (id \in P \ ToSet(ids) /\ Waits(r, n, id))
  <2>1. n \in 1 .. l
    BY <1>6, <1>7, <1>12
  <2>2. Met(ms, n, id) \/ (id \in P /\ Waits(ms, n, id))
    BY <1>1, <1>6, <2>1 DEF Open
  <2> QED
    BY <1>9, <1>15, <1>16, <2>1, <2>2
<1>18. ASSUME NEW id \in P \ ToSet(ids)
       PROVE  \E n \in 1 .. Len(r) : id \in CallsOf(r[n]) /\ Waits(r, n, id)
  <2>1. PICK n \in 1 .. l : id \in CallsOf(ms[n]) /\ Waits(ms, n, id)
    BY <1>1 DEF Open
  <2>2. n \in 1 .. l + q
    OBVIOUS
  <2>3. Len(r) = l + q /\ \A h \in 1 .. l : r[h] = ms[h]
    BY <1>6
  <2>4. n \in 1 .. Len(r) /\ r[n] = ms[n]
    BY <2>2, <2>3
  <2> QED
    BY <1>15, <2>1, <2>4
<1> QED
  BY <1>2, <1>3, <1>13, <1>14, <1>17, <1>18 DEF Open

LEMMA MessageFields ==
  ASSUME NEW m \in ClientMessages
  PROVE  /\ m.role \in {"user", "assistant", "system", "other"}
         /\ m.results \in Seq(CallIds) /\ m.uses \in Seq(CallIds) /\ m.thinking \in BOOLEAN
         /\ m.role # "user" => ~ m.string /\ m.text = "none" /\ m.results = << >>
         /\ m.role # "assistant" => ~ m.thinking /\ m.uses = << >>
BY DEF ClientMessages

LEMMA NothingIn == ToSet(<< >>) = {}
BY DEF ToSet

\* One message takes the pairing along.
LEMMA PartPairs ==
  ASSUME NEW o \in Seq(ChatMessages), NEW P \in SUBSET CallIds, NEW m \in ClientMessages, NEW i \in Nat,
         Open(o, P),
         m.role # "other", IsInjective(m.results), ToSet(m.results) \subseteq P,
         IsInjective(m.uses), ToSet(m.uses) \cap P = {}
  PROVE  Open(o \o MessagePart(m, i), (P \ ToSet(m.results)) \cup ToSet(m.uses))
<1>1. IsInjective(<< >>)
  BY DEF IsInjective
<1>2. PICK u \in ChatMessages : u = Plain("user", i)
  BY PlainIs
<1>3. u.role = "user" /\ u.calls = << >> /\ CallsOf(u) = {}
  BY <1>2, PlainIs, NothingIn DEF CallsOf
<1>4. CASE m.role = "user"
  <2>1. m.results \in Seq(CallIds) /\ ToSet(m.uses) = {}
    BY <1>4, MessageFields, NothingIn
  <2>2. PICK t \in Seq(ChatMessages) : t = Answering(m.results, i)
    BY <2>1, AnsweringIs
  <2>3. PICK x \in Seq(ChatMessages) : x = o \o t
    <3>1. o \o t \in Seq(ChatMessages)
      BY ConcatIs
    <3> QED
      BY <3>1
  <2>4. PICK Q : Q = P \ ToSet(m.results)
    OBVIOUS
  <2>5. Open(x, Q)
    BY <2>1, <2>2, <2>3, <2>4, AnswersClose
  <2>6. MessagePart(m, i) = t \o If(Anthropic!HasText(m), <<u>>)
    BY <1>2, <1>4, <2>2 DEF MessagePart
  <2>7. CASE Anthropic!HasText(m)
    <3>1. Open(x \o <<u>>, Q \cup {})
      BY <1>1, <1>3, <2>5, CallsOpen
    <3>2. o \o (t \o <<u>>) = x \o <<u>>
      BY <2>3
    <3>3. MessagePart(m, i) = t \o <<u>>
      BY <2>6, <2>7 DEF If
    <3> QED
      BY <2>1, <2>4, <3>1, <3>2, <3>3
  <2>8. CASE ~ Anthropic!HasText(m)
    <3>1. MessagePart(m, i) = t
      BY <2>6, <2>8 DEF If
    <3> QED
      BY <2>1, <2>3, <2>4, <2>5, <3>1
  <2> QED
    BY <2>7, <2>8
<1>5. CASE m.role = "assistant"
  <2>1. m.uses \in Seq(CallIds) /\ m.thinking \in BOOLEAN /\ ToSet(m.results) = {}
    BY <1>5, MessageFields, NothingIn
  <2>2. PICK a \in ChatMessages : a = Assistant(m.thinking, m.uses, i)
    BY <2>1, AssistantIs
  <2>3. a.role = "assistant" /\ a.calls = m.uses /\ CallsOf(a) = ToSet(m.uses)
    BY <2>1, <2>2, AssistantIs DEF CallsOf
  <2>4. MessagePart(m, i) = <<a>>
    BY <1>5, <2>2 DEF MessagePart
  <2>5. Open(o \o <<a>>, P \cup CallsOf(a))
    BY <2>3, CallsOpen
  <2> QED
    BY <2>1, <2>3, <2>4, <2>5
<1>6. CASE m.role = "system"
  <2>1. ToSet(m.results) = {} /\ ToSet(m.uses) = {}
    BY <1>6, MessageFields, NothingIn
  <2>2. MessagePart(m, i) = <<u>>
    BY <1>2, <1>6 DEF MessagePart
  <2>3. Open(o \o <<u>>, P \cup {})
    BY <1>1, <1>3, CallsOpen
  <2> QED
    BY <2>1, <2>2, <2>3
<1> QED
  BY <1>4, <1>5, <1>6, MessageFields

LEMMA MessageRunPairs ==
  ASSUME NEW ms \in Seq(ClientMessages), NEW s, MessageRun(s, ms)
  PROVE  \A n \in 0 .. Len(ms) : s[n].ok => Open(s[n].out, s[n].pending)
<1>1. PICK N \in Nat : N = Len(ms)
  OBVIOUS
<1> DEFINE T == {n \in 0 .. N : s[n].ok => Open(s[n].out, s[n].pending)}
<1>2. 0 \in T
  <2>1. s[0].out = << >> /\ s[0].pending = {}
    BY MessageRunStates DEF NoMessage
  <2>2. Open(s[0].out, s[0].pending)
    BY <2>1, OpenEmpty
  <2> QED
    BY <2>2
<1>3. ASSUME NEW n \in 1 .. N, n - 1 \in T, s[n].ok
      PROVE  Open(s[n].out, s[n].pending)
  <2>1. n \in 1 .. Len(ms)
    BY <1>1
  <2>2. PICK m \in ClientMessages : m = ms[n]
    BY <2>1
  <2>3. PICK o \in Seq(ChatMessages) : o = s[n - 1].out
    BY <2>1, MessageStep
  <2>4. PICK P \in SUBSET CallIds : P = s[n - 1].pending
    BY <2>1, MessageStep
  <2>5. /\ s[n].out = o \o MessagePart(m, n)
        /\ s[n].pending = (P \ ToSet(m.results)) \cup ToSet(m.uses)
        /\ s[n - 1].ok /\ m.role # "other"
        /\ IsInjective(m.results) /\ ToSet(m.results) \subseteq P
        /\ IsInjective(m.uses) /\ ToSet(m.uses) \cap P = {}
    BY <1>3, <2>1, <2>2, <2>3, <2>4, MessageStep
  <2>6. Open(o, P)
    BY <1>3, <2>3, <2>4, <2>5
  <2>7. Open(o \o MessagePart(m, n), (P \ ToSet(m.results)) \cup ToSet(m.uses))
    BY <2>5, <2>6, PartPairs
  <2> QED
    BY <2>5, <2>7
<1>4. \A n \in 1 .. N : n - 1 \in T => n \in T
  BY <1>3
<1> HIDE DEF T
<1>5. \A n \in 0 .. N : n \in T
  BY <1>2, <1>4, UpTo
<1> QED
  BY <1>1, <1>5 DEF T

\* The calls of a history that is not refused are answered.
LEMMA MessagesPaired ==
  ASSUME NEW ms \in Seq(ClientMessages), ~ Anthropic!Refuses(ms)
  PROVE  /\ Anthropic!ConvertMessages(ms).out \in Seq(ChatMessages)
         /\ Paired(Anthropic!ConvertMessages(ms).out)
<1>1. PICK s : MessageRun(s, ms) /\ Anthropic!ConvertMessages(ms) = s[Len(ms)]
  BY ConvertMessagesRuns
<1>2. PICK y \in MessageStates : y = s[Len(ms)]
  BY <1>1, MessageRunStates
<1>3. y.ok /\ y.pending = {} /\ y.out \in Seq(ChatMessages)
  BY <1>1, <1>2 DEF Anthropic!Refuses, MessageStates
<1>4. Open(y.out, y.pending)
  <2>1. Len(ms) \in 0 .. Len(ms)
    OBVIOUS
  <2> QED
    BY <1>1, <1>2, <1>3, <2>1, MessageRunPairs
<1> QED
  BY <1>1, <1>2, <1>3, <1>4, ClosedIsPaired

-----------------------------------------------------------------------------
(***************************************************************************)
(* The policy.                                                             *)
(***************************************************************************)
LEMMA BoundedMax ==
  ASSUME NEW N \in Nat, NEW I \in SUBSET (1 .. N), I # {}
  PROVE  Max(I) \in I /\ \A k \in I : k <= Max(I)
<1> DEFINE T == {j \in Nat : \E k \in I : k + j = N}
<1>1. T \in SUBSET Nat
  OBVIOUS
<1>2. PICK k \in I : TRUE
  OBVIOUS
<1>3. N - k \in T
  <2>1. k \in 1 .. N
    OBVIOUS
  <2> QED
    BY <2>1
<1>4. PICK j \in T : \A h \in T : j <= h
  <2> HIDE DEF T
  <2> QED
    BY <1>1, <1>3, LeastNatural
<1>5. PICK l \in I : l + j = N
  BY <1>4
<1>6. ASSUME NEW x \in I
      PROVE  x <= l
  <2>1. x \in 1 .. N /\ l \in 1 .. N
    OBVIOUS
  <2>2. N - x \in T
    BY <2>1
  <2>3. j <= N - x /\ j \in Nat
    BY <1>4, <2>2
  <2> QED
    BY <1>5, <2>1, <2>3
<1>7. \E x \in I : \A y \in I : x >= y
  <2>1. \A y \in I : l >= y
    BY <1>6
  <2> QED
    BY <2>1
<1>8. Max(I) \in I /\ \A y \in I : Max(I) >= y
  BY <1>7 DEF Max
<1> QED
  BY <1>8

\* The last of the positions in ms that have a role of a set, or 0.
IsLast(ms, roles, b) ==
  \/ b = 0 /\ \A n \in 1 .. Len(ms) : ms[n].role \notin roles
  \/ b \in 1 .. Len(ms) /\ ms[b].role \in roles /\ \A n \in b + 1 .. Len(ms) : ms[n].role \notin roles

LEMMA EpochBoundaryIs ==
  ASSUME NEW ms \in Seq(ChatMessages)
  PROVE  \E b \in 0 .. Len(ms) : /\ IsLast(ms, {"user"}, b)
                                 /\ EpochBoundary(ms) = IF b = 0 THEN Len(ms) + 1 ELSE b
<1>1. PICK N \in Nat : N = Len(ms)
  OBVIOUS
<1>2. PICK I \in SUBSET (1 .. N) : I = {n \in 1 .. N : ms[n].role = "user"}
  OBVIOUS
<1>3. PICK b : b = IF I # {} THEN Max(I) ELSE 0
  OBVIOUS
<1>4. EpochBoundary(ms) = IF b = 0 THEN N + 1 ELSE b
  BY <1>1, <1>2, <1>3 DEF EpochBoundary, SelectLastInSeq
<1>5. b \in 0 .. N /\ IsLast(ms, {"user"}, b)
  <2>1. CASE I = {}
    BY <1>1, <1>2, <1>3, <2>1 DEF IsLast
  <2>2. CASE I # {}
    <3>1. b \in I /\ \A k \in I : k <= b
      BY <1>3, <2>2, BoundedMax
    <3>2. b \in 1 .. N /\ ms[b].role = "user"
      BY <1>2, <3>1
    <3>3. \A n \in b + 1 .. N : n \in 1 .. N /\ ~ (n <= b)
      BY <3>2
    <3>4. \A n \in b + 1 .. N : ms[n].role # "user"
      BY <1>2, <3>1, <3>3
    <3> QED
      BY <1>1, <3>2, <3>4 DEF IsLast
  <2> QED
    BY <2>1, <2>2
<1> QED
  BY <1>1, <1>4, <1>5

LEMMA LastActionIs ==
  ASSUME NEW ms \in Seq(ChatMessages)
  PROVE  /\ LastAction(ms) \in 0 .. Len(ms)
         /\ IsLast(ms, {"user", "tool"}, LastAction(ms))
<1>1. PICK N \in Nat : N = Len(ms)
  OBVIOUS
<1>2. PICK I \in SUBSET (1 .. N) : I = {n \in 1 .. N : ms[n].role \in {"user", "tool"}}
  OBVIOUS
<1>3. PICK b : b = IF I # {} THEN Max(I) ELSE 0
  OBVIOUS
<1>4. LastAction(ms) = b
  BY <1>1, <1>2, <1>3 DEF LastAction, SelectLastInSeq
<1>5. b \in 0 .. N /\ IsLast(ms, {"user", "tool"}, b)
  <2>1. CASE I = {}
    BY <1>1, <1>2, <1>3, <2>1 DEF IsLast
  <2>2. CASE I # {}
    <3>1. b \in I /\ \A k \in I : k <= b
      BY <1>3, <2>2, BoundedMax
    <3>2. b \in 1 .. N /\ ms[b].role \in {"user", "tool"}
      BY <1>2, <3>1
    <3>3. \A n \in b + 1 .. N : n \in 1 .. N /\ ~ (n <= b)
      BY <3>2
    <3>4. \A n \in b + 1 .. N : ms[n].role \notin {"user", "tool"}
      BY <1>2, <3>1, <3>3
    <3> QED
      BY <1>1, <3>2, <3>4 DEF IsLast
  <2> QED
    BY <2>1, <2>2
<1> QED
  BY <1>1, <1>4, <1>5

\* What the shadow's answers change.
LEMMA RestoredIs ==
  ASSUME NEW ms \in Seq(ChatMessages), NEW found
  PROVE  /\ Restored(ms, found) \in Seq(ChatMessages) /\ Len(Restored(ms, found)) = Len(ms)
         /\ \A n \in 1 .. Len(ms) :
              /\ Restored(ms, found)[n].role = ms[n].role /\ Restored(ms, found)[n].calls = ms[n].calls
              /\ Restored(ms, found)[n].id = ms[n].id /\ Restored(ms, found)[n].src = ms[n].src
              /\ Restored(ms, found)[n].canonical = ms[n].canonical
              /\ Restored(ms, found)[n].reasoning <=> ms[n].reasoning \/ n \in found
<1>1. PICK N \in Nat : N = Len(ms)
  OBVIOUS
<1>2. DOMAIN ms = 1 .. N /\ \A n \in 1 .. N : ms[n] \in ChatMessages
  BY <1>1
<1> DEFINE x == Restored(ms, found)
<1>3. DOMAIN x = 1 .. N
  BY <1>2 DEF Restored
<1>4. ASSUME NEW n \in 1 .. N
      PROVE  /\ x[n] \in ChatMessages
             /\ x[n].role = ms[n].role /\ x[n].calls = ms[n].calls
             /\ x[n].id = ms[n].id /\ x[n].src = ms[n].src /\ x[n].canonical = ms[n].canonical
             /\ x[n].reasoning <=> ms[n].reasoning \/ n \in found
  <2>1. PICK m \in ChatMessages : m = ms[n]
    BY <1>2
  <2>2. x[n] = IF n \in found THEN [m EXCEPT !.reasoning = TRUE] ELSE m
    BY <1>2, <2>1 DEF Restored
  <2>3. CASE n \in found
    <3>1. x[n] = [m EXCEPT !.reasoning = TRUE]
      BY <2>2, <2>3
    <3> QED
      BY <2>1, <2>3, <3>1 DEF ChatMessages
  <2>4. CASE n \notin found
    BY <2>1, <2>2, <2>4
  <2> QED
    BY <2>3, <2>4
<1>5. x \in Seq(ChatMessages) /\ Len(x) = N
  <2>1. x = [n \in 1 .. N |-> x[n]]
    BY <1>2 DEF Restored
  <2> HIDE DEF x
  <2> QED
    BY <1>3, <1>4, <2>1
<1> QED
  BY <1>1, <1>4, <1>5

\* The boundary and the last action depend on the roles only.
LEMMA SameRoles ==
  ASSUME NEW a \in Seq(ChatMessages), NEW b \in Seq(ChatMessages), Len(a) = Len(b),
         \A n \in 1 .. Len(a) : a[n].role = b[n].role
  PROVE  EpochBoundary(a) = EpochBoundary(b) /\ LastAction(a) = LastAction(b)
<1>1. {n \in 1 .. Len(a) : a[n].role \in {"user", "tool"}} = {n \in 1 .. Len(b) : b[n].role \in {"user", "tool"}}
  OBVIOUS
<1>2. LastAction(a) = LastAction(b)
  BY <1>1 DEF LastAction, SelectLastInSeq
<1>3. PICK I : I = {n \in 1 .. Len(a) : a[n].role = "user"}
  OBVIOUS
<1>4. I = {n \in 1 .. Len(b) : b[n].role = "user"}
  BY <1>3
<1>5. PICK last : last = IF I # {} THEN Max(I) ELSE 0
  OBVIOUS
<1>6. EpochBoundary(a) = IF last = 0 THEN Len(a) + 1 ELSE last
  BY <1>3, <1>5 DEF EpochBoundary, SelectLastInSeq
<1>7. EpochBoundary(b) = IF last = 0 THEN Len(b) + 1 ELSE last
  BY <1>4, <1>5 DEF EpochBoundary, SelectLastInSeq
<1> QED
  BY <1>2, <1>6, <1>7

\* What the policy leaves of a message, and what it changes.
Cleaned(ms) == CanonicalizeToolArguments(StripHistoricalReasoning(ms))

LEMMA CleanedIs ==
  ASSUME NEW ms \in Seq(ChatMessages)
  PROVE  /\ Cleaned(ms) \in Seq(ChatMessages) /\ Len(Cleaned(ms)) = Len(ms)
         /\ \A n \in 1 .. Len(ms) :
              /\ Cleaned(ms)[n].role = ms[n].role /\ Cleaned(ms)[n].calls = ms[n].calls
              /\ Cleaned(ms)[n].id = ms[n].id /\ Cleaned(ms)[n].src = ms[n].src
              /\ Cleaned(ms)[n].reasoning <=>
                   ms[n].reasoning /\ ~ (n < EpochBoundary(ms) /\ ms[n].role = "assistant")
              /\ Cleaned(ms)[n].canonical <=>
                   ms[n].canonical \/ (n < LastAction(ms) /\ ms[n].calls # << >>)
<1>1. PICK N \in Nat : N = Len(ms)
  OBVIOUS
<1>2. \A n \in 1 .. N : ms[n] \in ChatMessages
  BY <1>1
<1>3. DOMAIN ms = 1 .. N
  BY <1>1
<1> DEFINE x == StripHistoricalReasoning(ms)
<1>4. DOMAIN x = 1 .. N
  BY <1>3 DEF StripHistoricalReasoning
<1>5. ASSUME NEW n \in 1 .. N
      PROVE  /\ x[n] \in ChatMessages
             /\ x[n].role = ms[n].role /\ x[n].calls = ms[n].calls
             /\ x[n].id = ms[n].id /\ x[n].src = ms[n].src /\ x[n].canonical = ms[n].canonical
             /\ x[n].reasoning <=>
                   ms[n].reasoning /\ ~ (n < EpochBoundary(ms) /\ ms[n].role = "assistant")
  <2>1. PICK m \in ChatMessages : m = ms[n]
    BY <1>2
  <2>2. x[n] = IF n < EpochBoundary(ms) /\ m.role = "assistant" THEN [m EXCEPT !.reasoning = FALSE] ELSE m
    BY <1>3, <2>1 DEF StripHistoricalReasoning
  <2>3. CASE n < EpochBoundary(ms) /\ m.role = "assistant"
    <3>1. x[n] = [m EXCEPT !.reasoning = FALSE]
      BY <2>2, <2>3
    <3> QED
      BY <2>1, <2>3, <3>1 DEF ChatMessages
  <2>4. CASE ~ (n < EpochBoundary(ms) /\ m.role = "assistant")
    BY <2>1, <2>2, <2>4
  <2> QED
    BY <2>3, <2>4
<1> HIDE DEF x
<1>6. x \in Seq(ChatMessages) /\ Len(x) = N
  <2>1. x = [n \in 1 .. N |-> x[n]]
    BY <1>4 DEF x, StripHistoricalReasoning
  <2> QED
    BY <1>5, <2>1
<1>7. LastAction(x) = LastAction(ms)
  <2>1. Len(x) = Len(ms) /\ \A n \in 1 .. Len(x) : x[n].role = ms[n].role
    BY <1>1, <1>5, <1>6
  <2>2. {n \in 1 .. Len(x) : x[n].role \in {"user", "tool"}} = {n \in 1 .. Len(ms) : ms[n].role \in {"user", "tool"}}
    BY <2>1
  <2> QED
    BY <2>2 DEF LastAction, SelectLastInSeq
<1> DEFINE y == CanonicalizeToolArguments(x)
<1>8. Cleaned(ms) = y
  BY DEF Cleaned, x
<1>9. ASSUME NEW n \in 1 .. N
      PROVE  /\ y[n] \in ChatMessages
             /\ y[n].role = x[n].role /\ y[n].calls = x[n].calls
             /\ y[n].id = x[n].id /\ y[n].src = x[n].src /\ y[n].reasoning = x[n].reasoning
             /\ y[n].canonical <=> x[n].canonical \/ (n < LastAction(ms) /\ x[n].calls # << >>)
  <2>1. PICK m \in ChatMessages : m = x[n]
    BY <1>5
  <2>2. y[n] = IF n < LastAction(ms) /\ m.calls # << >> THEN [m EXCEPT !.canonical = TRUE] ELSE m
    BY <1>4, <1>7, <2>1 DEF CanonicalizeToolArguments
  <2>3. CASE n < LastAction(ms) /\ m.calls # << >>
    <3>1. y[n] = [m EXCEPT !.canonical = TRUE]
      BY <2>2, <2>3
    <3> QED
      BY <2>1, <2>3, <3>1 DEF ChatMessages
  <2>4. CASE ~ (n < LastAction(ms) /\ m.calls # << >>)
    BY <2>1, <2>2, <2>4
  <2> QED
    BY <2>3, <2>4
<1>10. y \in Seq(ChatMessages) /\ Len(y) = N
  <2>1. DOMAIN y = 1 .. N /\ y = [n \in 1 .. N |-> y[n]]
    BY <1>4 DEF CanonicalizeToolArguments
  <2> QED
    BY <1>9, <2>1
<1> HIDE DEF y
<1>11. \A n \in 1 .. N :
              /\ y[n].role = ms[n].role /\ y[n].calls = ms[n].calls
              /\ y[n].id = ms[n].id /\ y[n].src = ms[n].src
              /\ y[n].reasoning <=>
                   ms[n].reasoning /\ ~ (n < EpochBoundary(ms) /\ ms[n].role = "assistant")
              /\ y[n].canonical <=>
                   ms[n].canonical \/ (n < LastAction(ms) /\ ms[n].calls # << >>)
  BY <1>5, <1>9
<1> QED
  BY <1>1, <1>8, <1>10, <1>11

LEMMA AppliedIs ==
  ASSUME NEW ms \in Seq(ChatMessages), NEW found
  PROVE  /\ Applied(ms, found) \in Seq(ChatMessages) /\ Len(Applied(ms, found)) = Len(ms)
         /\ \A n \in 1 .. Len(ms) :
              /\ Applied(ms, found)[n].role = ms[n].role /\ Applied(ms, found)[n].calls = ms[n].calls
              /\ Applied(ms, found)[n].id = ms[n].id /\ Applied(ms, found)[n].src = ms[n].src
              /\ Applied(ms, found)[n].reasoning <=>
                   (ms[n].reasoning \/ n \in found) /\ ~ (n < EpochBoundary(ms) /\ ms[n].role = "assistant")
              /\ Applied(ms, found)[n].canonical <=>
                   ms[n].canonical \/ (n < LastAction(ms) /\ ms[n].calls # << >>)
<1>1. PICK x \in Seq(ChatMessages) : x = Restored(ms, found)
  BY RestoredIs
<1>2. /\ Len(x) = Len(ms)
      /\ \A n \in 1 .. Len(ms) :
           /\ x[n].role = ms[n].role /\ x[n].calls = ms[n].calls
           /\ x[n].id = ms[n].id /\ x[n].src = ms[n].src /\ x[n].canonical = ms[n].canonical
           /\ x[n].reasoning <=> ms[n].reasoning \/ n \in found
  BY <1>1, RestoredIs
<1>3. EpochBoundary(x) = EpochBoundary(ms) /\ LastAction(x) = LastAction(ms)
  BY <1>2, SameRoles
<1>4. PICK y \in Seq(ChatMessages) : y = Cleaned(x)
  BY CleanedIs
<1>5. /\ Len(y) = Len(x)
      /\ \A n \in 1 .. Len(x) :
           /\ y[n].role = x[n].role /\ y[n].calls = x[n].calls
           /\ y[n].id = x[n].id /\ y[n].src = x[n].src
           /\ y[n].reasoning <=> x[n].reasoning /\ ~ (n < EpochBoundary(x) /\ x[n].role = "assistant")
           /\ y[n].canonical <=> x[n].canonical \/ (n < LastAction(x) /\ x[n].calls # << >>)
  BY <1>4, CleanedIs
<1>6. Applied(ms, found) = y
  BY <1>1, <1>4 DEF Applied, Cleaned
<1>7. \A n \in 1 .. Len(ms) :
        /\ y[n].role = ms[n].role /\ y[n].calls = ms[n].calls
        /\ y[n].id = ms[n].id /\ y[n].src = ms[n].src
  BY <1>2, <1>5
<1>8. \A n \in 1 .. Len(ms) :
        y[n].reasoning <=>
          (ms[n].reasoning \/ n \in found) /\ ~ (n < EpochBoundary(ms) /\ ms[n].role = "assistant")
  BY <1>2, <1>3, <1>5
<1>9. \A n \in 1 .. Len(ms) :
        y[n].canonical <=> ms[n].canonical \/ (n < LastAction(ms) /\ ms[n].calls # << >>)
  BY <1>2, <1>3, <1>5
<1> QED
  BY <1>2, <1>5, <1>6, <1>7, <1>8, <1>9

LEMMA AppliedPaired ==
  ASSUME NEW ms \in Seq(ChatMessages), Paired(ms), NEW found
  PROVE  Paired(Applied(ms, found))
<1>1. PICK N \in Nat : N = Len(ms)
  OBVIOUS
<1>2. PICK r \in Seq(ChatMessages) : r = Applied(ms, found)
  BY AppliedIs
<1>3. /\ Len(r) = N /\ DOMAIN r = 1 .. N /\ DOMAIN ms = 1 .. N
      /\ \A n \in 1 .. N : r[n].role = ms[n].role /\ r[n].calls = ms[n].calls /\ r[n].id = ms[n].id
  BY <1>1, <1>2, AppliedIs
<1>4. \A n \in 1 .. N : CallsOf(r[n]) = CallsOf(ms[n]) /\ \A id : Answers(r[n], id) <=> Answers(ms[n], id)
  BY <1>3 DEF CallsOf, Answers
<1>5. ASSUME NEW n \in 1 .. N, NEW k \in 1 .. N + 1, NEW id
      PROVE  (Called(r, n, k, id) <=> Called(ms, n, k, id)) /\ (Answered(r, n, k, id) <=> Answered(ms, n, k, id))
  <2>1. \A j \in n + 1 .. k - 1 : j \in 1 .. N
    OBVIOUS
  <2> QED
    BY <1>4, <2>1 DEF Called, Answered
<1>6. \A n \in DOMAIN r : IsInjective(r[n].calls)
  BY <1>3 DEF Paired
<1>7. ASSUME NEW k \in DOMAIN r, r[k].role = "tool"
      PROVE  \E n \in 1 .. k - 1 : r[k].id \in CallsOf(r[n]) /\ ~ Answered(r, n, k, r[k].id)
  <2>1. PICK n \in 1 .. k - 1 : ms[k].id \in CallsOf(ms[n]) /\ ~ Answered(ms, n, k, ms[k].id)
    BY <1>3, <1>7 DEF Paired
  <2>2. n \in 1 .. N /\ k \in 1 .. N + 1 /\ k \in 1 .. N
    BY <1>3
  <2> QED
    BY <1>3, <1>4, <1>5, <2>1, <2>2
<1>8. ASSUME NEW n \in DOMAIN r, NEW id \in CallsOf(r[n])
      PROVE  \E k \in n + 1 .. Len(r) : Answers(r[k], id) /\ ~ Called(r, n, k, id)
  <2>1. PICK k \in n + 1 .. N : Answers(ms[k], id) /\ ~ Called(ms, n, k, id)
    BY <1>1, <1>3, <1>4 DEF Paired
  <2>2. n \in 1 .. N /\ k \in 1 .. N + 1 /\ k \in 1 .. N
    BY <1>3
  <2> QED
    BY <1>3, <1>4, <1>5, <2>1, <2>2
<1> QED
  BY <1>2, <1>6, <1>7, <1>8 DEF Paired

LEMMA SameBoundary ==
  ASSUME NEW ms \in Seq(ChatMessages), NEW found
  PROVE  EpochBoundary(Applied(ms, found)) = EpochBoundary(ms)
<1>1. PICK r \in Seq(ChatMessages) : r = Applied(ms, found)
  BY AppliedIs
<1>2. Len(r) = Len(ms) /\ \A n \in 1 .. Len(r) : r[n].role = ms[n].role
  BY <1>1, AppliedIs
<1> QED
  BY <1>1, <1>2, SameRoles

\* A call of a paired sequence has a tool message behind it.
LEMMA CallsBeforeLastAction ==
  ASSUME NEW a \in Seq(ChatMessages), NEW b \in Seq(ChatMessages), Begins(a, b), Paired(a),
         NEW n \in 1 .. Len(a), a[n].calls # << >>
  PROVE  n < LastAction(b)
<1>1. PICK m \in ChatMessages : m = a[n]
  OBVIOUS
<1>2. m.calls \in Seq(CallIds) /\ m.calls # << >>
  BY <1>1 DEF ChatMessages
<1>3. PICK id : id \in CallsOf(a[n])
  <2>1. 1 \in DOMAIN m.calls
    BY <1>2
  <2> QED
    BY <1>1, <2>1 DEF CallsOf, ToSet
<1>4. DOMAIN a = 1 .. Len(a)
  OBVIOUS
<1>5. PICK k \in n + 1 .. Len(a) : Answers(a[k], id)
  BY <1>3, <1>4 DEF Paired
<1>6. PICK N \in Nat : N = Len(a)
  OBVIOUS
<1>7. PICK M \in Nat : M = Len(b) /\ N <= M
  BY <1>6 DEF Begins
<1>8. k \in 1 .. M /\ b[k].role = "tool" /\ n < k
  BY <1>5, <1>6, <1>7 DEF Begins, Answers
<1>9. PICK l \in 0 .. M : l = LastAction(b) /\ IsLast(b, {"user", "tool"}, l)
  BY <1>7, LastActionIs
<1>10. ~ (l < k)
  <2> SUFFICES ASSUME l < k
               PROVE  FALSE
    OBVIOUS
  <2>1. k \in l + 1 .. M
    BY <1>8
  <2> QED
    BY <1>7, <1>8, <1>9, <2>1 DEF IsLast
<1> QED
  BY <1>6, <1>8, <1>9, <1>10

\* What is restored had no reasoning and is in the epoch.
LEMMA RestorableIs ==
  ASSUME NEW ms \in Seq(ChatMessages), NEW found \in SUBSET Restorable(ms), NEW n \in found
  PROVE  /\ n \in 1 .. Len(ms) /\ ~ (n < EpochBoundary(ms)) /\ ms[n].role = "assistant"
         /\ ms[n].calls # << >> /\ ~ ms[n].reasoning
<1>1. n \in Restorable(ms)
  OBVIOUS
<1>2. PICK e \in Nat : e = EpochBoundary(ms)
  <2>1. PICK b \in 0 .. Len(ms) : EpochBoundary(ms) = IF b = 0 THEN Len(ms) + 1 ELSE b
    BY EpochBoundaryIs
  <2> QED
    BY <2>1
<1>3. /\ n \in DOMAIN ms /\ n >= e /\ ms[n].role = "assistant"
      /\ ms[n].calls # << >> /\ ~ ms[n].reasoning
  BY <1>1, <1>2 DEF Restorable
<1> QED
  BY <1>2, <1>3

LEMMA ButIs ==
  ASSUME NEW v \in ChatMessages, NEW g \in BOOLEAN
  PROVE  But(v, g) = [role |-> v.role, reasoning |-> g, calls |-> v.calls,
                      canonical |-> v.canonical, id |-> v.id, src |-> v.src]
<1>1. PICK b : b = But(v, g)
  OBVIOUS
<1>2. b = [v EXCEPT !.reasoning = g]
  BY <1>1 DEF But
<1>3. b \in ChatMessages /\ b.role = v.role /\ b.reasoning = g /\ b.calls = v.calls
      /\ b.canonical = v.canonical /\ b.id = v.id /\ b.src = v.src
  BY <1>2 DEF ChatMessages
<1>4. b = [role |-> b.role, reasoning |-> b.reasoning, calls |-> b.calls,
           canonical |-> b.canonical, id |-> b.id, src |-> b.src]
  BY <1>3 DEF ChatMessages
<1> QED
  BY <1>1, <1>3, <1>4

\* Within an epoch a message is sent again as it was, but for what the shadow had of it.
Again(x, y, F, G, n) == IF (n \in F) = (n \in G) THEN y[n] = x[n] ELSE y[n] = But(x[n], n \in G)

LEMMA AppliedBegins ==
  ASSUME NEW a \in Seq(ChatMessages), NEW b \in Seq(ChatMessages), Begins(a, b), Paired(a),
         EpochBoundary(a) = EpochBoundary(b),
         NEW F \in SUBSET Restorable(a), NEW G \in SUBSET Restorable(b)
  PROVE  /\ Len(Applied(a, F)) <= Len(Applied(b, G))
         /\ \A n \in 1 .. Len(Applied(a, F)) : Again(Applied(a, F), Applied(b, G), F, G, n)
<1>1. PICK x \in Seq(ChatMessages) : x = Applied(a, F)
  BY AppliedIs
<1>2. PICK y \in Seq(ChatMessages) : y = Applied(b, G)
  BY AppliedIs
<1>3. Len(x) = Len(a) /\ Len(y) = Len(b) /\ Len(a) \in Nat /\ Len(b) \in Nat /\ Len(a) <= Len(b)
  BY <1>1, <1>2, AppliedIs DEF Begins
<1>4. ASSUME NEW n \in 1 .. Len(a)
      PROVE  Again(x, y, F, G, n)
  <2>1. n \in 1 .. Len(b) /\ b[n] = a[n]
    BY <1>3 DEF Begins
  <2>2. PICK m \in ChatMessages : m = a[n]
    OBVIOUS
  <2>3. PICK v \in ChatMessages : v = x[n]
    BY <1>3
  <2>4. PICK w \in ChatMessages : w = y[n]
    BY <1>3, <2>1
  <2> DEFINE old == n < EpochBoundary(a) /\ m.role = "assistant"
             f   == n \in F
             g   == n \in G
  <2>5. /\ v.role = m.role /\ v.calls = m.calls /\ v.id = m.id /\ v.src = m.src
        /\ v.reasoning <=> (m.reasoning \/ f) /\ ~ old
        /\ v.canonical <=> m.canonical \/ (n < LastAction(a) /\ m.calls # << >>)
    BY <1>1, <2>2, <2>3, AppliedIs
  <2>6. /\ w.role = m.role /\ w.calls = m.calls /\ w.id = m.id /\ w.src = m.src
        /\ w.reasoning <=> (m.reasoning \/ g) /\ ~ old
        /\ w.canonical <=> m.canonical \/ (n < LastAction(b) /\ m.calls # << >>)
    BY <1>2, <2>1, <2>2, <2>4, AppliedIs
  <2>7. m.calls # << >> => n < LastAction(a) /\ n < LastAction(b)
    <3>1. Begins(a, a)
      BY DEF Begins
    <3> QED
      BY <2>2, <3>1, CallsBeforeLastAction
  <2>8. /\ v.reasoning \in BOOLEAN /\ w.reasoning \in BOOLEAN
        /\ v.canonical \in BOOLEAN /\ w.canonical \in BOOLEAN
    BY DEF ChatMessages
  <2>9. v.canonical = w.canonical
    BY <2>5, <2>6, <2>7, <2>8
  <2>10. (f => ~ old /\ ~ m.reasoning) /\ (g => ~ old /\ ~ m.reasoning)
    <3>1. f => ~ (n < EpochBoundary(a)) /\ ~ m.reasoning
      BY <2>2, RestorableIs
    <3>2. g => ~ (n < EpochBoundary(b)) /\ ~ m.reasoning
      BY <2>1, <2>2, RestorableIs
    <3> QED
      BY <3>1, <3>2
  <2>11. f \in BOOLEAN /\ g \in BOOLEAN
    OBVIOUS
  <2>12. \A z \in ChatMessages : z = [role |-> z.role, reasoning |-> z.reasoning, calls |-> z.calls,
                                      canonical |-> z.canonical, id |-> z.id, src |-> z.src]
    BY DEF ChatMessages
  <2>13. /\ v = [role |-> v.role, reasoning |-> v.reasoning, calls |-> v.calls,
                 canonical |-> v.canonical, id |-> v.id, src |-> v.src]
         /\ w = [role |-> w.role, reasoning |-> w.reasoning, calls |-> w.calls,
                 canonical |-> w.canonical, id |-> w.id, src |-> w.src]
    BY <2>12
  <2>14. v.role = w.role /\ v.calls = w.calls /\ v.id = w.id /\ v.src = w.src
    BY <2>5, <2>6
  <2>15. f = g => v.reasoning = w.reasoning
    BY <2>5, <2>6, <2>8
  <2>16. f # g => w.reasoning = g
    BY <2>6, <2>8, <2>10, <2>11
  <2> HIDE DEF f, g, old
  <2>17. f = g => w = v
    BY <2>9, <2>13, <2>14, <2>15
  <2>18. w.reasoning = g => w = But(v, g)
    <3>1. But(v, g) = [role |-> v.role, reasoning |-> g, calls |-> v.calls,
                       canonical |-> v.canonical, id |-> v.id, src |-> v.src]
      BY <2>11, ButIs
    <3> QED
      BY <2>9, <2>13, <2>14, <3>1
  <2>19. IF f = g THEN w = v ELSE w = But(v, g)
    BY <2>16, <2>17, <2>18
  <2> USE DEF f, g
  <2> QED
    BY <2>3, <2>4, <2>19 DEF Again
<1> QED
  BY <1>1, <1>2, <1>3, <1>4

-----------------------------------------------------------------------------
(***************************************************************************)
(* Where the messages of a converted history come from.                    *)
(***************************************************************************)
IsHuman(m) == m.role = "system" \/ (m.role = "user" /\ Anthropic!HasText(m))

\* What a message of the upstream is to the client's message it is made from.
MadeFrom(x, m) ==
  /\ x.role = "user" => IsHuman(m)
  /\ x.role = "assistant" <=> m.role = "assistant"
  /\ m.role = "assistant" => x.calls = m.uses
  /\ x.calls # << >> => m.role = "assistant"
  /\ x.reasoning <=> m.thinking

\* o was made from the first i messages of ms, in their order.
Traced(o, ms, i) ==
  /\ \A k \in 1 .. Len(o) : o[k].src \in 1 .. i /\ MadeFrom(o[k], ms[o[k].src])
  /\ \A j, k \in 1 .. Len(o) : j < k => o[j].src <= o[k].src
  /\ \A j, k \in 1 .. Len(o) : o[j].src = o[k].src /\ o[j].role = "assistant" => j = k
  /\ \A n \in 1 .. i : ms[n].role = "assistant" => \E k \in 1 .. Len(o) : o[k].src = n
  /\ \A n \in 1 .. i : IsHuman(ms[n]) => \E k \in 1 .. Len(o) : o[k].src = n /\ o[k].role = "user"

\* Every message that is made of one is made from it.
LEMMA PartIs ==
  ASSUME NEW m \in ClientMessages, NEW i \in Nat
  PROVE  /\ \A k \in 1 .. Len(MessagePart(m, i)) :
              MessagePart(m, i)[k].src = i /\ MadeFrom(MessagePart(m, i)[k], m)
         /\ m.role = "assistant" => /\ Len(MessagePart(m, i)) = 1
                                    /\ MessagePart(m, i)[1].src = i
         /\ IsHuman(m) => \E k \in 1 .. Len(MessagePart(m, i)) :
                             MessagePart(m, i)[k].src = i /\ MessagePart(m, i)[k].role = "user"
         /\ \A k \in 1 .. Len(m.results) : /\ k \in 1 .. Len(MessagePart(m, i))
                                           /\ MessagePart(m, i)[k].role = "tool"
<1>1. /\ m.role \in {"user", "assistant", "system", "other"}
      /\ m.results \in Seq(CallIds) /\ m.uses \in Seq(CallIds) /\ m.thinking \in BOOLEAN
      /\ m.role # "user" => m.results = << >>
      /\ m.role # "assistant" => ~ m.thinking /\ m.uses = << >>
  BY MessageFields
<1>2. PICK p \in Seq(ChatMessages) : p = MessagePart(m, i)
  BY MessagePartTypes
<1>3. PICK u \in ChatMessages : u = Plain("user", i)
  BY PlainIs
<1>4. u.role = "user" /\ u.calls = << >> /\ u.src = i /\ ~ u.reasoning
  BY <1>3, PlainIs
<1>5. CASE m.role = "user"
  <2>1. PICK q \in Nat : q = Len(m.results)
    BY <1>1
  <2>2. PICK t \in Seq(ChatMessages) : t = Answering(m.results, i)
    BY <1>1, AnsweringIs
  <2>3. Len(t) = q /\ \A k \in 1 .. q : t[k].role = "tool" /\ t[k].calls = << >> /\ t[k].src = i /\ ~ t[k].reasoning
    <3>1. Len(t) = q /\ \A k \in 1 .. q : t[k] = Tool(m.results[k], i)
      BY <1>1, <2>1, <2>2, AnsweringIs
    <3>2. \A k \in 1 .. q : m.results[k] \in CallIds
      BY <1>1, <2>1
    <3> QED
      BY <3>1, <3>2, ToolIs
  <2>4. p = t \o If(Anthropic!HasText(m), <<u>>)
    BY <1>2, <1>3, <1>5, <2>2 DEF MessagePart
  <2>5. CASE Anthropic!HasText(m)
    <3>1. p = t \o <<u>>
      BY <2>4, <2>5 DEF If
    <3>2. Len(p) = q + 1 /\ p[q + 1] = u /\ \A k \in 1 .. q : p[k] = t[k]
      BY <2>3, <3>1
    <3>3. \A k \in 1 .. q + 1 : k \in 1 .. q \/ k = q + 1
      OBVIOUS
    <3>4. IsHuman(m)
      BY <1>5, <2>5 DEF IsHuman
    <3>5. \A k \in 1 .. Len(p) : p[k].src = i /\ MadeFrom(p[k], m)
      BY <1>1, <1>4, <1>5, <2>3, <3>2, <3>3, <3>4 DEF MadeFrom
    <3>6. \E k \in 1 .. Len(p) : p[k].src = i /\ p[k].role = "user"
      <4>1. q + 1 \in 1 .. Len(p)
        BY <3>2
      <4> QED
        BY <1>4, <3>2, <4>1
    <3>7. \A k \in 1 .. q : k \in 1 .. Len(p) /\ p[k].role = "tool"
      BY <2>3, <3>2
    <3> QED
      BY <1>2, <1>5, <2>1, <3>5, <3>6, <3>7
  <2>6. CASE ~ Anthropic!HasText(m)
    <3>1. p = t
      BY <2>4, <2>6 DEF If
    <3>2. ~ IsHuman(m)
      BY <1>5, <2>6 DEF IsHuman
    <3>3. \A k \in 1 .. Len(p) : p[k].src = i /\ MadeFrom(p[k], m)
      BY <1>1, <1>5, <2>3, <3>1 DEF MadeFrom
    <3>4. \A k \in 1 .. q : k \in 1 .. Len(p) /\ p[k].role = "tool"
      BY <2>3, <3>1
    <3> QED
      BY <1>2, <1>5, <2>1, <3>2, <3>3, <3>4
  <2> QED
    BY <2>5, <2>6
<1>6. CASE m.role = "assistant"
  <2>1. PICK a \in ChatMessages : a = Assistant(m.thinking, m.uses, i)
    BY <1>1, AssistantIs
  <2>2. a.role = "assistant" /\ a.calls = m.uses /\ a.src = i /\ a.reasoning = m.thinking
    BY <1>1, <2>1, AssistantIs
  <2>3. p = <<a>>
    BY <1>2, <1>6, <2>1 DEF MessagePart
  <2>4. Len(p) = 1 /\ p[1] = a /\ Len(m.results) = 0
    BY <1>1, <1>6, <2>3
  <2>5. ~ IsHuman(m)
    BY <1>6 DEF IsHuman
  <2>6. MadeFrom(a, m)
    BY <1>6, <2>2 DEF MadeFrom
  <2> QED
    BY <1>2, <2>2, <2>4, <2>5, <2>6
<1>7. CASE m.role = "system"
  <2>1. p = <<u>>
    BY <1>2, <1>3, <1>7 DEF MessagePart
  <2>2. Len(p) = 1 /\ p[1] = u /\ Len(m.results) = 0
    BY <1>1, <1>7, <2>1
  <2>3. MadeFrom(u, m)
    BY <1>1, <1>4, <1>7 DEF MadeFrom, IsHuman
  <2> QED
    BY <1>2, <1>4, <1>7, <2>2, <2>3
<1>8. CASE m.role = "other"
  <2>1. p = << >>
    BY <1>2, <1>8 DEF MessagePart
  <2>2. Len(p) = 0 /\ Len(m.results) = 0 /\ ~ IsHuman(m)
    BY <1>1, <1>8, <2>1 DEF IsHuman
  <2> QED
    BY <1>2, <1>8, <2>2
<1> QED
  BY <1>1, <1>5, <1>6, <1>7, <1>8

LEMMA TracedStep ==
  ASSUME NEW ms \in Seq(ClientMessages), NEW i \in 1 .. Len(ms), NEW o \in Seq(ChatMessages),
         Traced(o, ms, i - 1)
  PROVE  Traced(o \o MessagePart(ms[i], i), ms, i)
<1>1. i \in Nat /\ i - 1 \in Nat /\ ms[i] \in ClientMessages
  OBVIOUS
<1>2. PICK m \in ClientMessages : m = ms[i]
  BY <1>1
<1>3. PICK p \in Seq(ChatMessages) : p = MessagePart(m, i)
  BY <1>1, MessagePartTypes
<1>4. PICK l \in Nat : l = Len(o)
  OBVIOUS
<1>5. PICK q \in Nat : q = Len(p)
  OBVIOUS
<1>6. PICK r : r = o \o p
  OBVIOUS
<1>7. /\ Len(r) = l + q /\ \A n \in 1 .. l : r[n] = o[n]
      /\ \A n \in l + 1 .. l + q : n - l \in 1 .. q /\ r[n] = p[n - l]
  BY <1>4, <1>5, <1>6
<1>8. /\ \A k \in 1 .. q : p[k].src = i /\ MadeFrom(p[k], m)
      /\ m.role = "assistant" => q = 1 /\ p[1].src = i
      /\ IsHuman(m) => \E k \in 1 .. q : p[k].src = i /\ p[k].role = "user"
  <2>1. i \in Nat
    BY <1>1
  <2>2. PICK v : v = MessagePart(m, i)
    OBVIOUS
  <2>3. /\ \A k \in 1 .. Len(v) : v[k].src = i /\ MadeFrom(v[k], m)
        /\ m.role = "assistant" => Len(v) = 1 /\ v[1].src = i
    BY <2>1, <2>2, PartIs
  <2>4. IsHuman(m) => \E k \in 1 .. Len(v) : v[k].src = i /\ v[k].role = "user"
    BY <2>1, <2>2, PartIs
  <2>5. v = p /\ Len(v) = q
    BY <1>3, <1>5, <2>2
  <2> QED
    BY <2>3, <2>4, <2>5
<1>9. \A k \in 1 .. l : o[k].src \in 1 .. i - 1 /\ MadeFrom(o[k], ms[o[k].src])
  BY <1>4 DEF Traced
<1>10. \A k \in 1 .. l + q : k \in 1 .. l \/ k \in l + 1 .. l + q
  OBVIOUS
<1>11. \A k \in l + 1 .. l + q : r[k].src = i /\ MadeFrom(r[k], m)
  BY <1>7, <1>8
<1>12. \A k \in 1 .. l : r[k].src \in 1 .. i - 1 /\ r[k].src \in 1 .. i /\ MadeFrom(r[k], ms[r[k].src])
  BY <1>1, <1>7, <1>9
<1>13. \A k \in 1 .. Len(r) : r[k].src \in 1 .. i /\ MadeFrom(r[k], ms[r[k].src])
  <2>1. \A k \in l + 1 .. l + q : r[k].src \in 1 .. i /\ MadeFrom(r[k], ms[r[k].src])
    BY <1>1, <1>2, <1>11
  <2> QED
    BY <1>7, <1>10, <1>12, <2>1
<1>14. ASSUME NEW j \in 1 .. Len(r), NEW k \in 1 .. Len(r), j < k
       PROVE  r[j].src <= r[k].src
  <2>1. CASE k \in 1 .. l
    <3>1. j \in 1 .. l
      BY <1>4, <1>7, <1>14, <2>1
    <3> QED
      BY <1>4, <1>7, <1>14, <2>1, <3>1 DEF Traced
  <2>2. CASE k \in l + 1 .. l + q
    <3>1. r[k].src = i
      BY <1>11, <2>2
    <3>2. r[j].src \in 1 .. i
      BY <1>13
    <3> QED
      BY <1>1, <3>1, <3>2
  <2> QED
    BY <1>7, <1>10, <2>1, <2>2
<1>15. ASSUME NEW j \in 1 .. Len(r), NEW k \in 1 .. Len(r), r[j].src = r[k].src, r[j].role = "assistant"
       PROVE  j = k
  <2>1. i \notin 1 .. i - 1
    BY <1>1
  <2>2. CASE j \in 1 .. l
    <3>1. k \in 1 .. l
      BY <1>7, <1>10, <1>11, <1>12, <1>15, <2>1, <2>2
    <3> QED
      BY <1>4, <1>7, <1>15, <2>2, <3>1 DEF Traced
  <2>3. CASE j \in l + 1 .. l + q
    <3>1. k \in l + 1 .. l + q
      BY <1>7, <1>10, <1>11, <1>12, <1>15, <2>1, <2>3
    <3>2. m.role = "assistant"
      BY <1>11, <1>15, <2>3 DEF MadeFrom
    <3>3. q = 1
      BY <1>8, <3>2
    <3> QED
      BY <2>3, <3>1, <3>3
  <2> QED
    BY <1>7, <1>10, <2>2, <2>3
<1>16. ASSUME NEW n \in 1 .. i, ms[n].role = "assistant"
       PROVE  \E k \in 1 .. Len(r) : r[k].src = n
  <2>1. CASE n = i
    <3>1. q = 1 /\ p[1].src = i
      BY <1>2, <1>8, <1>16, <2>1
    <3>2. l + 1 \in 1 .. Len(r) /\ l + 1 \in l + 1 .. l + q
      BY <1>7, <3>1
    <3> QED
      BY <1>11, <2>1, <3>2
  <2>2. CASE n # i
    <3>1. n \in 1 .. i - 1
      BY <1>1, <2>2
    <3>2. PICK k \in 1 .. l : o[k].src = n
      BY <1>4, <1>16, <3>1 DEF Traced
    <3>3. k \in 1 .. Len(r)
      BY <1>7
    <3> QED
      BY <1>7, <3>2, <3>3
  <2> QED
    BY <2>1, <2>2
<1>17. ASSUME NEW n \in 1 .. i, IsHuman(ms[n])
       PROVE  \E k \in 1 .. Len(r) : r[k].src = n /\ r[k].role = "user"
  <2>1. CASE n = i
    <3>1. PICK k \in 1 .. q : p[k].src = i /\ p[k].role = "user"
      BY <1>2, <1>8, <1>17, <2>1
    <3>2. PICK h \in l + 1 .. l + q : h = l + k
      OBVIOUS
    <3>3. r[h] = p[k] /\ h \in 1 .. Len(r)
      <4>1. h - l = k
        BY <3>2
      <4> QED
        BY <1>7, <4>1
    <3> QED
      BY <2>1, <3>1, <3>3
  <2>2. CASE n # i
    <3>1. n \in 1 .. i - 1
      BY <1>1, <2>2
    <3>2. PICK k \in 1 .. l : o[k].src = n /\ o[k].role = "user"
      BY <1>4, <1>17, <3>1 DEF Traced
    <3>3. k \in 1 .. Len(r)
      BY <1>7
    <3> QED
      BY <1>7, <3>2, <3>3
  <2> QED
    BY <2>1, <2>2
<1>18. Traced(r, ms, i)
  BY <1>13, <1>14, <1>15, <1>16, <1>17 DEF Traced
<1> QED
  BY <1>2, <1>3, <1>6, <1>18

LEMMA MessageRunTraced ==
  ASSUME NEW ms \in Seq(ClientMessages), NEW s, MessageRun(s, ms)
  PROVE  \A n \in 0 .. Len(ms) : Traced(s[n].out, ms, n)
<1>1. PICK N \in Nat : N = Len(ms)
  OBVIOUS
<1> DEFINE T == {n \in 0 .. N : Traced(s[n].out, ms, n)}
<1>2. 0 \in T
  <2>1. s[0].out = << >>
    BY MessageRunStates DEF NoMessage
  <2>2. Traced(<< >>, ms, 0)
    BY DEF Traced
  <2> QED
    BY <2>1, <2>2
<1>3. ASSUME NEW n \in 1 .. N, n - 1 \in T
      PROVE  n \in T
  <2>1. n \in 1 .. Len(ms)
    BY <1>1
  <2>2. PICK o \in Seq(ChatMessages) : o = s[n - 1].out
    BY <2>1, MessageStep
  <2>3. Traced(o, ms, n - 1)
    BY <1>3, <2>2
  <2>4. Traced(o \o MessagePart(ms[n], n), ms, n)
    BY <2>1, <2>3, TracedStep
  <2>5. s[n].out = o \o MessagePart(ms[n], n)
    BY <2>1, <2>2, MessageStep
  <2>6. Traced(s[n].out, ms, n)
    BY <2>4, <2>5
  <2> QED
    BY <2>6
<1> HIDE DEF T
<1>4. \A n \in 0 .. N : n \in T
  BY <1>2, <1>3, UpTo
<1> QED
  BY <1>1, <1>4 DEF T

\* As many results as calls, if they are of the same calls.
LEMMA SameLength ==
  ASSUME NEW f \in Seq(CallIds), NEW g \in Seq(CallIds), IsInjective(f), IsInjective(g), ToSet(f) = ToSet(g)
  PROVE  Len(f) = Len(g)
<1>1. ASSUME NEW h \in Seq(CallIds), IsInjective(h)
      PROVE  Cardinality(ToSet(h)) = Len(h)
  <2>1. PICK l \in Nat : l = Len(h)
    OBVIOUS
  <2>2. h \in [1 .. l -> ToSet(h)] /\ \A x \in ToSet(h) : \E n \in 1 .. l : h[n] = x
    BY <2>1 DEF ToSet
  <2>3. h \in Surjection(1 .. l, ToSet(h)) /\ h \in Injection(1 .. l, ToSet(h))
    BY <1>1, <2>2 DEF Surjection, Injection
  <2>4. IsFiniteSet(1 .. l) /\ Cardinality(1 .. l) = l
    BY FS_Interval
  <2>5. Cardinality(ToSet(h)) = Cardinality(1 .. l)
    BY <2>3, <2>4, FS_Surjection
  <2> QED
    BY <2>1, <2>4, <2>5
<1> QED
  BY <1>1

(***************************************************************************)
(* Results that are given in the message after the uses stand right behind *)
(* the calls.                                                              *)
(***************************************************************************)
LEMMA ResultsBehind ==
  ASSUME NEW ms \in Seq(ClientMessages), ~ Anthropic!Refuses(ms),
         NEW o, o = Anthropic!ConvertMessages(ms).out,
         NEW n \in 1 .. Len(o), o[n].src < Len(ms), o[n].calls # << >>,
         ToSet(ms[o[n].src + 1].results) = CallsOf(o[n])
  PROVE  \A k \in n + 1 .. n + Len(o[n].calls) : k \in 1 .. Len(o) /\ o[k].role = "tool"
<1>1. PICK s : MessageRun(s, ms) /\ Anthropic!ConvertMessages(ms) = s[Len(ms)]
  BY ConvertMessagesRuns
<1>2. PICK N \in Nat : N = Len(ms)
  OBVIOUS
<1>3. o = s[N].out /\ s[N].ok /\ s[N].pending = {} /\ o \in Seq(ChatMessages)
  <2>1. s[N] \in MessageStates
    BY <1>1, <1>2, MessageRunStates
  <2> QED
    BY <1>1, <1>2, <2>1 DEF Anthropic!Refuses, MessageStates
<1>4. Traced(o, ms, N)
  BY <1>1, <1>2, <1>3, MessageRunTraced
<1>5. PICK i \in 1 .. N : i = o[n].src
  BY <1>2, <1>4 DEF Traced
<1>6. MadeFrom(o[n], ms[i])
  BY <1>4, <1>5 DEF Traced
<1>7. PICK m \in ClientMessages : m = ms[i]
  BY <1>2
<1>8. m.role = "assistant" /\ o[n].calls = m.uses /\ o[n].role = "assistant"
  BY <1>6, <1>7 DEF MadeFrom
<1>9. PICK j \in 1 .. N : j = i + 1
  BY <1>2, <1>5
<1>10. PICK w \in ClientMessages : w = ms[j]
  BY <1>2
<1>11. ToSet(w.results) = ToSet(m.uses) /\ w.results \in Seq(CallIds) /\ m.uses \in Seq(CallIds)
  BY <1>5, <1>8, <1>9, <1>10, <1>7, MessageFields DEF CallsOf
<1>12. ASSUME NEW k \in 1 .. N
       PROVE  s[k].ok
  <2> DEFINE T == {h \in 0 .. N : N - h \in 0 .. N /\ s[N - h].ok}
  <2>1. 0 \in T
    BY <1>3
  <2>2. ASSUME NEW h \in 1 .. N, h - 1 \in T
        PROVE  h \in T
    <3>1. PICK g \in 1 .. N : g = N - (h - 1)
      OBVIOUS
    <3>2. s[g].ok
      BY <2>2, <3>1
    <3>3. s[g - 1].ok
      BY <1>1, <1>2, <3>2, MessageStep
    <3>4. g - 1 = N - h /\ N - h \in 0 .. N
      BY <3>1
    <3> QED
      BY <3>3, <3>4
  <2> HIDE DEF T
  <2>3. \A h \in 0 .. N : h \in T
    BY <2>1, <2>2, UpTo
  <2>4. N - k \in 0 .. N /\ N - (N - k) = k
    OBVIOUS
  <2>5. N - k \in T
    BY <2>3, <2>4
  <2> QED
    BY <2>4, <2>5 DEF T
<1>13. IsInjective(m.uses) /\ IsInjective(w.results)
  <2>1. s[i].ok /\ s[j].ok /\ i \in 1 .. Len(ms) /\ j \in 1 .. Len(ms)
    BY <1>2, <1>12
  <2> QED
    BY <1>1, <1>7, <1>10, <2>1, MessageStep
<1>14. Len(m.uses) = Len(w.results)
  BY <1>11, <1>13, SameLength
\* The turn is the last message made by then.
<1>15. PICK a \in Seq(ChatMessages) : a = s[i].out
  BY <1>1, <1>2, MessageStep
<1>16. PICK b \in Seq(ChatMessages) : b = s[j].out
  BY <1>1, <1>2, MessageStep
<1>17. PICK p \in Seq(ChatMessages) : p = MessagePart(w, j)
  BY <1>2, MessagePartTypes
<1>18. b = a \o p
  <2>1. j \in 1 .. Len(ms) /\ j - 1 = i
    BY <1>2, <1>9
  <2> QED
    BY <1>1, <1>10, <1>15, <1>16, <1>17, <2>1, MessageStep
<1>19. Begins(a, o) /\ Begins(b, o)
  <2>1. i \in 0 .. Len(ms) /\ j \in 0 .. Len(ms) /\ N \in 0 .. Len(ms) /\ i <= N /\ j <= N
    BY <1>2
  <2>2. MessageRun(s, ms)
    BY <1>1
  <2>3. Begins(s[i].out, s[N].out)
    BY <2>1, <2>2, OutGrows
  <2>4. Begins(s[j].out, s[N].out)
    BY <2>1, <2>2, OutGrows
  <2>5. o = s[N].out
    BY <1>3
  <2> QED
    BY <1>15, <1>16, <2>3, <2>4, <2>5
<1>20. PICK l \in Nat : l = Len(a)
  OBVIOUS
<1>21. n = l
  <2>1. Traced(a, ms, i)
    BY <1>1, <1>2, <1>15, MessageRunTraced
  <2>2. PICK h \in 1 .. l : a[h].src = i
    BY <1>7, <1>8, <1>20, <2>1 DEF Traced
  <2>3. h \in 1 .. Len(o) /\ o[h].src = i
    <3>1. l <= Len(o) /\ \A k \in 1 .. l : o[k] = a[k]
      BY <1>19, <1>20 DEF Begins
    <3>2. Len(o) \in Nat
      BY <1>3
    <3>3. h \in 1 .. l /\ a[h].src = i
      BY <2>2
    <3>4. o[h] = a[h]
      BY <3>1, <3>3
    <3>5. l <= Len(o)
      BY <3>1
    <3>6. h \in 1 .. Len(o)
      BY <3>2, <3>3, <3>5
    <3>7. o[h].src = i
      BY <3>3, <3>4
    <3> QED
      BY <3>6, <3>7
  <2>4. n = h
    BY <1>4, <1>5, <1>8, <2>3 DEF Traced
  <2>5. a[h].role = "assistant"
    BY <1>8, <1>19, <1>20, <2>2, <2>4 DEF Begins
  \* It alone was added for the turn.
  <2>6. PICK c \in Seq(ChatMessages) : c = s[i - 1].out
    BY <1>1, <1>2, MessageStep
  <2>7. PICK v \in Seq(ChatMessages) : v = MessagePart(m, i)
    BY <1>2, MessagePartTypes
  <2>8. a = c \o v
    BY <1>1, <1>2, <1>7, <1>15, <2>6, <2>7, MessageStep
  <2>9. Len(v) = 1 /\ v[1].src = i
    <3>1. i \in Nat
      OBVIOUS
    <3>2. Len(MessagePart(m, i)) = 1 /\ MessagePart(m, i)[1].src = i
      BY <1>8, <3>1, PartIs
    <3> QED
      BY <2>7, <3>2
  <2>10. PICK g \in Nat : g = Len(c)
    OBVIOUS
  <2>11. l = g + 1 /\ a[g + 1] = v[1]
    <3>1. 1 \in 1 .. Len(v)
      BY <2>9
    <3>2. Len(c \o v) = Len(c) + Len(v) /\ (c \o v)[Len(c) + 1] = v[1]
      BY <3>1, ConcatIs
    <3> QED
      BY <1>20, <2>8, <2>9, <2>10, <3>2
  <2>12. a[l].src = i /\ l \in 1 .. l
    BY <2>9, <2>11
  <2>13. h = l
    BY <1>20, <2>1, <2>2, <2>5, <2>12 DEF Traced
  <2> QED
    BY <2>4, <2>13
<1>22. PICK q \in Nat : q = Len(p)
  OBVIOUS
<1>23. \A k \in 1 .. Len(w.results) : k \in 1 .. q /\ p[k].role = "tool"
  BY <1>2, <1>17, <1>22, PartIs
<1>24. PICK u \in Nat : u = Len(m.uses)
  BY <1>11
<1>25. ASSUME NEW k \in n + 1 .. n + u
       PROVE  k \in 1 .. Len(o) /\ o[k].role = "tool"
  <2>1. PICK h \in 1 .. u : h = k - l
    BY <1>21
  <2>2. h \in 1 .. q /\ p[h].role = "tool"
    BY <1>14, <1>23, <1>24
  <2>3. k = l + h /\ Len(b) = l + q /\ b[l + h] = p[h]
    BY <1>18, <1>20, <1>21, <1>22, <2>1, <2>2
  <2>4. k = l + h /\ Len(b) = l + q
    BY <2>3
  <2>5. h \in 1 .. q
    BY <2>2
  <2>6. k \in 1 .. Len(b)
    BY <2>4, <2>5
  <2>7. Len(b) <= Len(o) /\ \A g \in 1 .. Len(b) : o[g] = b[g]
    BY <1>19 DEF Begins
  <2>8. Len(o) \in Nat /\ Len(b) \in Nat
    BY <1>3
  <2>9. b[k] = p[h]
    BY <2>3
  <2>10. k \in 1 .. Len(o) /\ o[k] = b[k]
    BY <2>6, <2>7, <2>8
  <2> QED
    BY <2>2, <2>9, <2>10
<1> QED
  BY <1>8, <1>24, <1>25

-----------------------------------------------------------------------------
(***************************************************************************)
(* The reasoning of the epoch.                                             *)
(***************************************************************************)
LEMMA MaxOrZero ==
  ASSUME NEW N \in Nat, NEW I \in SUBSET (1 .. N), NEW b, b = IF I # {} THEN Max(I) ELSE 0
  PROVE  \/ b = 0 /\ I = {}
         \/ b \in 1 .. N /\ b \in I /\ \A k \in I : k <= b
<1>1. CASE I = {}
  BY <1>1
<1>2. CASE I # {}
  BY <1>2, BoundedMax
<1> QED
  BY <1>1, <1>2

LEMMA LastHumanIs ==
  ASSUME NEW ms \in Seq(ClientMessages), ms = Accepted
  PROVE  \/ LastHuman = 0 /\ \A n \in 1 .. Len(ms) : ~ IsHuman(ms[n])
         \/ /\ LastHuman \in 1 .. Len(ms) /\ IsHuman(ms[LastHuman])
            /\ \A n \in 1 .. Len(ms) : IsHuman(ms[n]) => n <= LastHuman
<1>1. PICK N \in Nat : N = Len(ms)
  OBVIOUS
<1>2. PICK I \in SUBSET (1 .. N) : I = {n \in 1 .. N : IsHuman(ms[n])}
  OBVIOUS
<1>3. PICK b : b = IF I # {} THEN Max(I) ELSE 0
  OBVIOUS
<1>4. I = {n \in 1 .. Len(ms) : ms[n].role = "system" \/ (ms[n].role = "user" /\ Anthropic!HasText(ms[n]))}
  BY <1>1, <1>2 DEF IsHuman
<1>5. LastHuman = b
  BY <1>3, <1>4 DEF LastHuman, SelectLastInSeq
<1>6. \/ b = 0 /\ I = {}
      \/ b \in 1 .. N /\ b \in I /\ \A k \in I : k <= b
  BY <1>3, MaxOrZero
<1> QED
  BY <1>1, <1>2, <1>5, <1>6

\* What count_tokens takes for a human message.
Speaks(m) == m.role = "user" /\ IF m.string THEN m.text = "some" ELSE m.text # "none"

LEMMA CountBoundaryIs ==
  ASSUME NEW ms \in Seq(ClientMessages)
  PROVE  \/ Anthropic!CountBoundary(ms) = Len(ms) + 1 /\ \A n \in 1 .. Len(ms) : ~ Speaks(ms[n])
         \/ /\ Anthropic!CountBoundary(ms) \in 1 .. Len(ms) /\ Speaks(ms[Anthropic!CountBoundary(ms)])
            /\ \A n \in 1 .. Len(ms) : Speaks(ms[n]) => n <= Anthropic!CountBoundary(ms)
<1>1. PICK N \in Nat : N = Len(ms)
  OBVIOUS
<1>2. PICK I \in SUBSET (1 .. N) : I = {n \in 1 .. N : Speaks(ms[n])}
  OBVIOUS
<1>3. PICK b : b = IF I # {} THEN Max(I) ELSE 0
  OBVIOUS
<1>4. I = {n \in 1 .. Len(ms) : ms[n].role = "user" /\ IF ms[n].string THEN ms[n].text = "some" ELSE ms[n].text # "none"}
  BY <1>1, <1>2 DEF Speaks
<1>5. Anthropic!Max(I) = Max(I)
  BY DEF Max, Anthropic!Max
<1>6. b = IF I # {} THEN Anthropic!Max(I) ELSE 0
  BY <1>3, <1>5
<1>7. Anthropic!CountBoundary(ms) = IF b = 0 THEN Len(ms) + 1 ELSE b
  BY <1>4, <1>6 DEF Anthropic!CountBoundary, Anthropic!SelectLastInSeq
<1>8. \/ b = 0 /\ I = {}
      \/ b \in 1 .. N /\ b \in I /\ \A k \in I : k <= b
  BY <1>3, MaxOrZero
<1>9. CASE b = 0
  BY <1>1, <1>2, <1>7, <1>8, <1>9
<1>10. CASE b # 0
  BY <1>1, <1>2, <1>7, <1>8, <1>10
<1> QED
  BY <1>9, <1>10

\* The turns whose own reasoning is left by the policy.
Kept(o) == {o[n].src : n \in {k \in DOMAIN o : o[k].reasoning /\ ~ (k < EpochBoundary(o))}}


LEMMA ReasoningSince ==
  ASSUME NEW ms \in Seq(ClientMessages), NEW o \in Seq(ChatMessages), Traced(o, ms, Len(ms)), NEW L,
         \/ L = 0 /\ \A n \in 1 .. Len(ms) : ~ IsHuman(ms[n])
         \/ /\ L \in 1 .. Len(ms) /\ IsHuman(ms[L])
            /\ \A n \in 1 .. Len(ms) : IsHuman(ms[n]) => n <= L
  PROVE  Kept(o) = IF L = 0 THEN {} ELSE {i \in L .. Len(ms) : i > 0 /\ ms[i].thinking}
<1>1. PICK N \in Nat : N = Len(ms)
  OBVIOUS
<1>2. PICK l \in Nat : l = Len(o)
  OBVIOUS
<1>4. DOMAIN o = 1 .. l
  BY <1>2
<1>5. PICK b \in 0 .. l : IsLast(o, {"user"}, b) /\ EpochBoundary(o) = IF b = 0 THEN l + 1 ELSE b
  BY <1>2, EpochBoundaryIs
<1>7. \A k \in 1 .. l : o[k].src \in 1 .. N /\ MadeFrom(o[k], ms[o[k].src])
  BY <1>1, <1>2 DEF Traced
<1>8. \A i \in 1 .. N : ms[i].thinking => ms[i].role = "assistant"
  <2>1. \A i \in 1 .. N : ms[i] \in ClientMessages
    BY <1>1
  <2> QED
    BY <2>1, MessageFields
<1>9. \A k \in 1 .. l : o[k].reasoning => o[k].role = "assistant" /\ ms[o[k].src].thinking
  BY <1>7, <1>8 DEF MadeFrom
<1>11. CASE L = 0
  <2>1. \A k \in 1 .. l : o[k].role # "user"
    BY <1>1, <1>7, <1>11 DEF MadeFrom
  <2>2. b = 0
    BY <1>2, <1>5, <2>1 DEF IsLast
  <2>3. \A k \in 1 .. l : k < EpochBoundary(o)
    BY <1>5, <2>2
  <2>4. Kept(o) = {}
    BY <1>4, <2>3 DEF Kept
  <2> QED
    BY <1>11, <2>4
<1>12. CASE L # 0
  <2>1. L \in 1 .. N /\ IsHuman(ms[L]) /\ \A n \in 1 .. N : IsHuman(ms[n]) => n <= L
    BY <1>1, <1>12
  <2>2. PICK h \in 1 .. l : o[h].src = L /\ o[h].role = "user"
    BY <1>1, <1>2, <2>1 DEF Traced
  <2>3. b \in 1 .. l /\ o[b].role = "user" /\ h <= b
    <3>1. b # 0
      BY <1>2, <1>5, <2>2 DEF IsLast
    <3>2. b \in 1 .. l /\ o[b].role = "user" /\ h \notin b + 1 .. l
      BY <1>2, <1>5, <2>2, <3>1 DEF IsLast
    <3> QED
      BY <3>2
  <2>4. EpochBoundary(o) = b
    BY <1>5, <2>3
  <2>5. \A j, k \in 1 .. l : j <= k => o[j].src <= o[k].src
    <3>1. \A j, k \in 1 .. l : j < k => o[j].src <= o[k].src
      BY <1>2 DEF Traced
    <3> QED
      BY <1>7, <3>1
  <2>6. o[b].src = L
    <3>1. IsHuman(ms[o[b].src]) /\ o[b].src \in 1 .. N
      BY <1>7, <2>3 DEF MadeFrom
    <3>2. o[b].src <= L
      BY <2>1, <3>1
    <3>3. L <= o[b].src
      BY <2>2, <2>3, <2>5
    <3> QED
      BY <2>1, <3>1, <3>2, <3>3
  <2>7. ms[L].role # "assistant"
    BY <2>1 DEF IsHuman
  <2> DEFINE E == {i \in L .. Len(ms) : i > 0 /\ ms[i].thinking}
  <2>8. ASSUME NEW k \in 1 .. l, o[k].reasoning, ~ (k < b)
        PROVE  o[k].src \in E
    <3>1. ~ (k < b) /\ o[k].reasoning
      BY <2>8
    <3>2. o[k].src >= L /\ o[k].src \in 1 .. N
      BY <1>7, <2>3, <2>5, <2>6, <3>1
    <3>3. ms[o[k].src].thinking
      BY <1>9, <3>1
    <3> QED
      BY <1>1, <2>1, <3>1, <3>2, <3>3
  <2>9. ASSUME NEW i \in E
        PROVE  \E k \in 1 .. l : o[k].reasoning /\ ~ (k < b) /\ o[k].src = i
    <3>1. i \in 1 .. N /\ i >= L /\ ms[i].thinking /\ ms[i].role = "assistant"
      BY <1>1, <1>8, <2>1
    <3>2. PICK k \in 1 .. l : o[k].src = i
      BY <1>1, <1>2, <3>1 DEF Traced
    <3>3. o[k].reasoning
      BY <1>7, <3>1, <3>2 DEF MadeFrom
    <3>4. ~ (k < b)
      <4> SUFFICES ASSUME k < b
                   PROVE  FALSE
        OBVIOUS
      <4>1. o[k].src <= o[b].src
        BY <2>3, <2>5
      <4>2. i = L
        BY <2>1, <2>6, <3>1, <3>2, <4>1
      <4> QED
        BY <2>7, <3>1, <4>2
    <3> QED
      BY <3>2, <3>3, <3>4
  <2> HIDE DEF E
  <2>10. Kept(o) = E
    BY <1>4, <2>4, <2>8, <2>9 DEF Kept
  <2> QED
    BY <1>12, <2>10 DEF E
<1> QED
  BY <1>11, <1>12

\* Only turns of the assistant have reasoning.
LEMMA ThinkersAre ==
  ASSUME NEW ms \in Seq(ClientMessages), NEW o \in Seq(ChatMessages), Traced(o, ms, Len(ms))
  PROVE  \A k \in 1 .. Len(o) : o[k].reasoning => o[k].role = "assistant"
<1>1. \A i \in 1 .. Len(ms) : ms[i] \in ClientMessages
  OBVIOUS
<1>2. \A i \in 1 .. Len(ms) : ms[i].thinking => ms[i].role = "assistant"
  BY <1>1, MessageFields
<1>3. \A k \in 1 .. Len(o) : o[k].src \in 1 .. Len(ms) /\ MadeFrom(o[k], ms[o[k].src])
  BY DEF Traced
<1> QED
  BY <1>2, <1>3 DEF MadeFrom

\* What is on the wire is that and what the shadow had.
LEMMA ReasoningIs ==
  ASSUME NEW o \in Seq(ChatMessages), \A k \in 1 .. Len(o) : o[k].reasoning => o[k].role = "assistant",
         NEW F \in SUBSET Restorable(o), NEW w, w = Applied(o, F)
  PROVE  /\ {w[n].src : n \in {k \in DOMAIN w : w[k].reasoning}} = Kept(o) \cup {w[n].src : n \in F}
         /\ \A k \in F : k \in DOMAIN w /\ w[k].src = o[k].src
<1>1. PICK l \in Nat : l = Len(o)
  OBVIOUS
<1>2. DOMAIN o = 1 .. l
  BY <1>1
<1>3. DOMAIN w = 1 .. l
  <2>1. w \in Seq(ChatMessages) /\ Len(w) = l
    BY <1>1, AppliedIs
  <2> QED
    BY <2>1
<1>4. \A k \in 1 .. l :
        /\ w[k].src = o[k].src
        /\ w[k].reasoning <=> (o[k].reasoning \/ k \in F) /\ ~ (k < EpochBoundary(o) /\ o[k].role = "assistant")
  BY <1>1, AppliedIs
<1>5. \A k \in F : k \in 1 .. l /\ ~ (k < EpochBoundary(o))
  BY <1>1, RestorableIs
<1>6. \A k \in 1 .. l : o[k].reasoning => o[k].role = "assistant"
  BY <1>1
<1>7. \A k \in 1 .. l : w[k].reasoning <=> (o[k].reasoning /\ ~ (k < EpochBoundary(o))) \/ k \in F
  BY <1>4, <1>5, <1>6
<1> QED
  BY <1>2, <1>3, <1>4, <1>5, <1>7 DEF Kept

\* The shadow has turns of the epoch, with calls and without thinking.
LEMMA RestoredSince ==
  ASSUME NEW ms \in Seq(ClientMessages), NEW o \in Seq(ChatMessages), Traced(o, ms, Len(ms)), NEW L,
         \/ L = 0 /\ \A n \in 1 .. Len(ms) : ~ IsHuman(ms[n])
         \/ /\ L \in 1 .. Len(ms) /\ IsHuman(ms[L])
            /\ \A n \in 1 .. Len(ms) : IsHuman(ms[n]) => n <= L,
         NEW F \in SUBSET Restorable(o), NEW k \in F
  PROVE  /\ L # 0 /\ o[k].src \in L .. Len(ms)
         /\ ~ ms[o[k].src].thinking /\ ms[o[k].src].uses # << >>
<1>1. PICK N \in Nat : N = Len(ms)
  OBVIOUS
<1>2. PICK l \in Nat : l = Len(o)
  OBVIOUS
<1>3. PICK b \in 0 .. l : IsLast(o, {"user"}, b) /\ EpochBoundary(o) = IF b = 0 THEN l + 1 ELSE b
  BY <1>2, EpochBoundaryIs
<1>4. /\ k \in 1 .. l /\ ~ (k < EpochBoundary(o)) /\ o[k].role = "assistant"
      /\ o[k].calls # << >> /\ ~ o[k].reasoning
  BY <1>2, RestorableIs
<1>5. \A i \in 1 .. l : o[i].src \in 1 .. N /\ MadeFrom(o[i], ms[o[i].src])
  BY <1>1, <1>2 DEF Traced
<1>6. ~ ms[o[k].src].thinking /\ ms[o[k].src].uses # << >>
  BY <1>4, <1>5 DEF MadeFrom
<1>7. b \in 1 .. l /\ o[b].role = "user" /\ b <= k
  <2>1. b # 0
    BY <1>3, <1>4
  <2> QED
    BY <1>2, <1>3, <1>4, <2>1 DEF IsLast
<1>8. b < k
  BY <1>4, <1>7
<1>9. IsHuman(ms[o[b].src]) /\ o[b].src \in 1 .. N
  BY <1>5, <1>7 DEF MadeFrom
<1>10. L \in 1 .. N /\ IsHuman(ms[L]) /\ \A n \in 1 .. N : IsHuman(ms[n]) => n <= L
  BY <1>1, <1>9
<1>11. PICK h \in 1 .. l : o[h].src = L /\ o[h].role = "user"
  BY <1>1, <1>2, <1>10 DEF Traced
<1>12. h <= b
  BY <1>2, <1>3, <1>7, <1>11 DEF IsLast
<1>13. \A i, j \in 1 .. l : i < j => o[i].src <= o[j].src
  BY <1>2 DEF Traced
<1>14. L <= o[k].src
  BY <1>4, <1>7, <1>8, <1>11, <1>12, <1>13
<1> QED
  BY <1>1, <1>4, <1>5, <1>6, <1>10, <1>14

\* With no reminders and no empty texts, count_tokens finds the same turns.
LEMMA CountedAlike ==
  ASSUME NEW ms \in Seq(ClientMessages), \A i \in 1 .. Len(ms) : Alike(ms[i]), NEW L,
         \/ L = 0 /\ \A n \in 1 .. Len(ms) : ~ IsHuman(ms[n])
         \/ /\ L \in 1 .. Len(ms) /\ IsHuman(ms[L])
            /\ \A n \in 1 .. Len(ms) : IsHuman(ms[n]) => n <= L
  PROVE  Anthropic!Counted(ms) = IF L = 0 THEN {} ELSE {i \in L .. Len(ms) : i > 0 /\ ms[i].thinking}
<1>1. PICK N \in Nat : N = Len(ms)
  OBVIOUS
<1>2. ASSUME NEW n \in 1 .. N
      PROVE  IsHuman(ms[n]) <=> Speaks(ms[n])
  <2>1. PICK m \in ClientMessages : m = ms[n] /\ Alike(m)
    BY <1>1
  <2>2. m.role # "system" /\ m.text \in {"none", "some", "empty"} /\ m.text # "empty"
    BY <2>1 DEF Alike, ClientMessages
  <2>3. m.string \in BOOLEAN /\ (m.string => m.text # "none")
    BY <2>1 DEF ClientMessages
  <2>4. m.text # "none" <=> m.text = "some"
    BY <2>2
  <2> QED
    BY <2>1, <2>2, <2>3, <2>4 DEF IsHuman, Speaks, Anthropic!HasText
<1>3. DOMAIN ms = 1 .. N
  BY <1>1
<1>4. PICK c : c = Anthropic!CountBoundary(ms)
  OBVIOUS
<1>5. Anthropic!Counted(ms) = {i \in 1 .. N : ms[i].thinking /\ i >= c}
  BY <1>3, <1>4 DEF Anthropic!Counted
<1>6. \/ c = N + 1 /\ \A n \in 1 .. N : ~ Speaks(ms[n])
      \/ c \in 1 .. N /\ Speaks(ms[c]) /\ \A n \in 1 .. N : Speaks(ms[n]) => n <= c
  BY <1>1, <1>4, CountBoundaryIs
<1>7. CASE L = 0
  <2>1. c = N + 1
    BY <1>1, <1>2, <1>6, <1>7
  <2>2. \A i \in 1 .. N : ~ (i >= c)
    BY <2>1
  <2> QED
    BY <1>5, <1>7, <2>2
<1>8. CASE L # 0
  <2>1. L \in 1 .. N /\ IsHuman(ms[L]) /\ \A n \in 1 .. N : IsHuman(ms[n]) => n <= L
    BY <1>1, <1>8
  <2>2. c \in 1 .. N /\ Speaks(ms[c])
    BY <1>2, <1>6, <2>1
  <2>3. c <= L /\ L <= c
    BY <1>2, <1>6, <2>1, <2>2
  <2>4. c = L
    BY <2>1, <2>2, <2>3
  <2>5. \A i : (i \in 1 .. N /\ i >= c) <=> (i \in L .. N /\ i > 0)
    BY <2>1, <2>4
  <2> QED
    BY <1>1, <1>5, <1>8, <2>5
<1> QED
  BY <1>7, <1>8

-----------------------------------------------------------------------------
(***************************************************************************)
(* The states of the loop in convert_input_items.                          *)
(***************************************************************************)
ClientItems ==
  {item \in [kind : {"message", "function_call", "function_call_output", "reasoning", "other"},
             role : {"user", "assistant", "system", ""}, id : CallIds \cup {NoId}] :
     /\ item.kind = "message" => item.role # ""
     /\ item.kind \in {"function_call", "function_call_output"} => item.id # NoId}

LEMMA ItemFields ==
  ASSUME NEW item \in ClientItems
  PROVE  /\ item.kind \in {"message", "function_call", "function_call_output", "reasoning", "other"}
         /\ item.kind = "message" => item.role \in {"user", "assistant", "system"}
         /\ item.kind \in {"function_call", "function_call_output"} => item.id \in CallIds
BY DEF ClientItems

ItemStates == [out : Seq(ChatMessages), calls : Seq(CallIds), first : Nat, ok : BOOLEAN]

NoItem == [out |-> << >>, calls |-> << >>, first |-> 0, ok |-> TRUE]

Flushed(s) == s.out \o If(s.calls # << >>, <<Assistant(FALSE, s.calls, s.first)>>)

\* The messages that an item becomes by itself.
Placed(item, i) ==
  CASE item.kind = "message"              -> <<Plain(item.role, i)>>
    [] item.kind = "function_call_output" -> <<Tool(item.id, i)>>
    [] OTHER                              -> << >>

LEMMA FlushedTypes ==
  ASSUME NEW s \in ItemStates
  PROVE  /\ s.out \in Seq(ChatMessages) /\ Flushed(s) \in Seq(ChatMessages) /\ Begins(s.out, Flushed(s))
         /\ Responses!FlushCalls(s) = Flushed(s)
         /\ s.calls = << >> => Flushed(s) = s.out
         /\ s.calls # << >> => /\ Assistant(FALSE, s.calls, s.first) \in ChatMessages
                               /\ Flushed(s) = s.out \o <<Assistant(FALSE, s.calls, s.first)>>
<1>1. s.out \in Seq(ChatMessages) /\ s.calls \in Seq(CallIds) /\ s.first \in Nat
  BY DEF ItemStates
<1>2. Responses!FlushCalls(s) = Flushed(s)
  BY SameOperators DEF Responses!FlushCalls, Flushed, If, Responses!If
<1>3. PICK a \in ChatMessages : a = Assistant(FALSE, s.calls, s.first)
  BY <1>1, AssistantIs
<1>4. PICK o \in Seq(ChatMessages) : o = s.out
  BY <1>1
<1>5. CASE s.calls = << >>
  <2>1. Flushed(s) = o \o << >>
    BY <1>4, <1>5 DEF Flushed, If
  <2>2. o \o << >> = o
    OBVIOUS
  <2>3. Begins(o, o)
    BY DEF Begins
  <2> QED
    BY <1>2, <1>4, <1>5, <2>1, <2>2, <2>3
<1>6. CASE s.calls # << >>
  <2>1. Flushed(s) = o \o <<a>>
    BY <1>3, <1>4, <1>6 DEF Flushed, If
  <2>2. <<a>> \in Seq(ChatMessages)
    OBVIOUS
  <2>3. o \o <<a>> \in Seq(ChatMessages)
    BY <2>2, ConcatIs
  <2>4. Begins(o, o)
    BY DEF Begins
  <2>5. Begins(o, o \o <<a>>)
    BY <2>2, <2>4, BeginsConcat
  <2> QED
    BY <1>2, <1>3, <1>4, <1>6, <2>1, <2>3, <2>5
<1> QED
  BY <1>5, <1>6

LEMMA PlacedIs ==
  ASSUME NEW item \in ClientItems, NEW i \in Nat
  PROVE  /\ Placed(item, i) \in Seq(ChatMessages)
         /\ item.kind = "message" => Placed(item, i) = <<Plain(item.role, i)>>
         /\ item.kind = "function_call_output" => Placed(item, i) = <<Tool(item.id, i)>>
         /\ item.kind \notin {"message", "function_call_output"} => Placed(item, i) = << >>
         /\ Responses!Converted(item, i) = Placed(item, i)
<1>1. CASE item.kind = "message"
  <2>1. Plain(item.role, i) \in ChatMessages
    BY <1>1, ItemFields, PlainIs
  <2>2. Placed(item, i) = <<Plain(item.role, i)>>
    BY <1>1 DEF Placed
  <2>3. Responses!Converted(item, i) = <<Plain(item.role, i)>>
    BY <1>1, SameOperators DEF Responses!Converted
  <2> QED
    BY <1>1, <2>1, <2>2, <2>3
<1>2. CASE item.kind = "function_call_output"
  <2>1. Tool(item.id, i) \in ChatMessages
    BY <1>2, ItemFields, ToolIs
  <2>2. Placed(item, i) = <<Tool(item.id, i)>>
    BY <1>2 DEF Placed
  <2>3. Responses!Converted(item, i) = <<Tool(item.id, i)>>
    BY <1>2, SameOperators DEF Responses!Converted
  <2> QED
    BY <1>2, <2>1, <2>2, <2>3
<1>3. CASE item.kind \notin {"message", "function_call_output"}
  <2>1. Placed(item, i) = << >> /\ Responses!Converted(item, i) = << >>
    BY <1>3 DEF Placed, Responses!Converted
  <2> QED
    BY <1>3, <2>1
<1> QED
  BY <1>1, <1>2, <1>3

\* What one item does to the messages and to the calls that are put off.
Moves(s, item, i, y) ==
  /\ item.kind = "message" => y.out = s.out \o <<Plain(item.role, i)>> /\ y.calls = s.calls
  /\ item.kind = "function_call" => y.out = s.out /\ y.calls = s.calls \o <<item.id>>
  /\ item.kind = "function_call_output" => y.out = Flushed(s) \o <<Tool(item.id, i)>> /\ y.calls = << >>
  /\ item.kind \in {"reasoning", "other"} => y.out = Flushed(s) /\ y.calls = << >>

LEMMA ConvertNextItem ==
  ASSUME NEW s \in ItemStates, NEW item \in ClientItems, NEW i \in Nat, NEW y,
         y = Responses!ConvertNext(s, item, i)
  PROVE  y \in ItemStates /\ Moves(s, item, i, y)
<1>1. s.out \in Seq(ChatMessages) /\ s.calls \in Seq(CallIds) /\ s.first \in Nat /\ s.ok \in BOOLEAN
  BY DEF ItemStates
<1>2. PICK f \in Seq(ChatMessages) : f = Flushed(s) /\ f = Responses!FlushCalls(s)
  BY FlushedTypes
<1>3. PICK p \in Seq(ChatMessages) : p = Placed(item, i) /\ p = Responses!Converted(item, i)
  BY PlacedIs
<1>4. PICK b \in BOOLEAN : b = (s.ok /\ item.kind # "other")
  OBVIOUS
<1>5. PICK kept \in Seq(CallIds) : kept = IF Responses!Keeps(item) THEN s.calls ELSE << >>
  <2>1. << >> \in Seq(CallIds)
    OBVIOUS
  <2>2. CASE Responses!Keeps(item)
    BY <1>1, <2>2
  <2>3. CASE ~ Responses!Keeps(item)
    BY <2>1, <2>3
  <2> QED
    BY <2>2, <2>3
<1>6. PICK added \in Seq(CallIds) : added = Responses!If(item.kind = "function_call", <<item.id>>)
  <2>1. << >> \in Seq(CallIds)
    OBVIOUS
  <2>2. CASE item.kind = "function_call"
    <3>1. item.id \in CallIds
      BY <2>2, ItemFields
    <3>2. <<item.id>> \in Seq(CallIds)
      BY <3>1
    <3> QED
      BY <2>2, <3>2 DEF Responses!If
  <2>3. CASE item.kind # "function_call"
    BY <2>1, <2>3 DEF Responses!If
  <2> QED
    BY <2>2, <2>3
<1>7. PICK first \in Nat : first = IF kept = << >> THEN i ELSE s.first
  BY <1>1
<1>8. PICK base \in Seq(ChatMessages) : base = IF Responses!Keeps(item) THEN s.out ELSE f
  BY <1>1
<1>9. y = [out |-> base \o p, calls |-> kept \o added, first |-> first, ok |-> b]
  BY <1>2, <1>3, <1>4, <1>5, <1>6, <1>7, <1>8 DEF Responses!ConvertNext
<1>10. base \o p \in Seq(ChatMessages) /\ kept \o added \in Seq(CallIds)
  BY ConcatIs
<1>11. y \in ItemStates
  BY <1>9, <1>10 DEF ItemStates
<1>12. y.out = base \o p /\ y.calls = kept \o added
  BY <1>9
<1>13. ASSUME item.kind = "message"
       PROVE  y.out = s.out \o <<Plain(item.role, i)>> /\ y.calls = s.calls
  <2>1. base = s.out /\ kept = s.calls /\ added = << >>
    BY <1>5, <1>6, <1>8, <1>13 DEF Responses!Keeps, Responses!If
  <2>2. p = <<Plain(item.role, i)>>
    BY <1>3, <1>13, PlacedIs
  <2>3. s.calls \o << >> = s.calls
    BY <1>1
  <2> QED
    BY <1>12, <2>1, <2>2, <2>3
<1>14. ASSUME item.kind = "function_call"
       PROVE  y.out = s.out /\ y.calls = s.calls \o <<item.id>>
  <2>1. base = s.out /\ kept = s.calls /\ added = <<item.id>>
    BY <1>5, <1>6, <1>8, <1>14 DEF Responses!Keeps, Responses!If
  <2>2. p = << >>
    BY <1>3, <1>14, PlacedIs
  <2>3. s.out \o << >> = s.out
    BY <1>1
  <2> QED
    BY <1>12, <2>1, <2>2, <2>3
<1>15. ASSUME item.kind \in {"function_call_output", "reasoning", "other"}
       PROVE  y.out = f \o p /\ y.calls = << >>
  <2>1. base = f /\ kept = << >> /\ added = << >>
    BY <1>5, <1>6, <1>8, <1>15 DEF Responses!Keeps, Responses!If
  <2>2. << >> \o << >> = << >>
    OBVIOUS
  <2> QED
    BY <1>12, <2>1, <2>2
<1>16. item.kind = "function_call_output" => p = <<Tool(item.id, i)>>
  BY <1>3, PlacedIs
<1>17. item.kind \in {"reasoning", "other"} => p = << >>
  BY <1>3, PlacedIs
<1>18. f \o << >> = f
  OBVIOUS
<1> QED
  BY <1>2, <1>11, <1>13, <1>14, <1>15, <1>16, <1>17, <1>18 DEF Moves

\* s is the sequence of states of convert_input_items on items.
ItemRun(s, items) ==
  s = [n \in 0 .. Len(items) |-> IF n = 0 THEN NoItem
                                ELSE Responses!ConvertNext(s[n - 1], items[n], n)]

LEMMA ItemRunExists ==
  ASSUME NEW items \in Seq(ClientItems)
  PROVE  \E s : ItemRun(s, items)
<1>1. PICK N \in Nat : N = Len(items)
  OBVIOUS
<1>2. NoItem \in ItemStates
  BY DEF NoItem, ItemStates
<1>3. PICK F \in [1 .. N -> [ItemStates -> ItemStates]] :
         \A n \in 1 .. N : \A x \in ItemStates : F[n][x] = Responses!ConvertNext(x, items[n], n)
  <2> DEFINE F == [n \in 1 .. N |-> [x \in ItemStates |-> Responses!ConvertNext(x, items[n], n)]]
  <2>1. \A n \in 1 .. N : items[n] \in ClientItems /\ n \in Nat
    BY <1>1
  <2>2. F \in [1 .. N -> [ItemStates -> ItemStates]]
    BY <2>1, ConvertNextItem
  <2>3. \A n \in 1 .. N : \A x \in ItemStates : F[n][x] = Responses!ConvertNext(x, items[n], n)
    OBVIOUS
  <2> HIDE DEF F
  <2> QED
    BY <2>2, <2>3
<1>4. PICK f \in [0 .. N -> ItemStates] : f[0] = NoItem /\ \A n \in 1 .. N : f[n] = F[n][f[n - 1]]
  BY <1>2, Iterates
<1>5. ASSUME NEW n \in 0 .. N
      PROVE  f[n] = IF n = 0 THEN NoItem ELSE Responses!ConvertNext(f[n - 1], items[n], n)
  <2>1. CASE n = 0
    BY <1>4, <2>1
  <2>2. CASE n # 0
    <3>1. n \in 1 .. N /\ n - 1 \in 0 .. N
      BY <2>2
    <3>2. f[n] = F[n][f[n - 1]] /\ f[n - 1] \in ItemStates
      BY <1>4, <3>1
    <3> QED
      BY <1>3, <2>2, <3>1, <3>2
  <2> QED
    BY <2>1, <2>2
<1>6. DOMAIN f = 0 .. N
  OBVIOUS
<1> QED
  BY <1>1, <1>5, <1>6 DEF ItemRun

LEMMA ItemRunStates ==
  ASSUME NEW items \in Seq(ClientItems), NEW s, ItemRun(s, items)
  PROVE  /\ Len(items) \in Nat /\ s[0] = NoItem
         /\ \A n \in 1 .. Len(items) : s[n] = Responses!ConvertNext(s[n - 1], items[n], n)
         /\ \A n \in 0 .. Len(items) : s[n] \in ItemStates
<1>1. PICK N \in Nat : N = Len(items)
  OBVIOUS
<1>2. s[0] = NoItem /\ \A n \in 1 .. N : s[n] = Responses!ConvertNext(s[n - 1], items[n], n)
  BY <1>1 DEF ItemRun
<1> DEFINE T == {n \in 0 .. N : s[n] \in ItemStates}
<1>3. 0 \in T
  <2>1. NoItem \in ItemStates
    BY DEF NoItem, ItemStates
  <2> QED
    BY <1>2, <2>1
<1>4. ASSUME NEW n \in 1 .. N, n - 1 \in T
      PROVE  n \in T
  <2>1. items[n] \in ClientItems /\ n \in Nat
    BY <1>1
  <2>2. PICK x \in ItemStates : x = s[n - 1]
    BY <1>4
  <2>3. PICK y : y = Responses!ConvertNext(x, items[n], n)
    OBVIOUS
  <2>4. y \in ItemStates
    BY <2>1, <2>3, ConvertNextItem
  <2>5. y = s[n]
    BY <1>2, <2>2, <2>3
  <2> QED
    BY <2>4, <2>5
<1> HIDE DEF T
<1>5. \A n \in 0 .. N : n \in T
  BY <1>3, <1>4, UpTo
<1> QED
  BY <1>1, <1>2, <1>5 DEF T

\* What convert_input_items returns is the last state, flushed.
LEMMA ConvertItemsRuns ==
  ASSUME NEW items \in Seq(ClientItems)
  PROVE  \E s : /\ ItemRun(s, items)
                /\ Responses!ConvertInputItems(items).out = Flushed(s[Len(items)])
<1> DEFINE run == CHOOSE s : ItemRun(s, items)
<1>1. ItemRun(run, items)
  BY ItemRunExists
<1>2. Responses!ConvertInputItems(items).out = Responses!FlushCalls(run[Len(items)])
  BY DEF Responses!ConvertInputItems, ItemRun, NoItem
<1> HIDE DEF run
<1>3. run[Len(items)] \in ItemStates
  BY <1>1, ItemRunStates
<1> QED
  BY <1>1, <1>2, <1>3, FlushedTypes

LEMMA ItemRunsAgree ==
  ASSUME NEW items \in Seq(ClientItems), NEW longer \in Seq(ClientItems),
         Len(items) <= Len(longer), \A n \in 1 .. Len(items) : items[n] = longer[n],
         NEW s, ItemRun(s, items), NEW t, ItemRun(t, longer)
  PROVE  \A n \in 0 .. Len(items) : s[n] = t[n]
<1>1. PICK N \in Nat : N = Len(items)
  OBVIOUS
<1>2. PICK M \in Nat : M = Len(longer)
  OBVIOUS
<1>3. s[0] = NoItem /\ \A n \in 1 .. N : s[n] = Responses!ConvertNext(s[n - 1], items[n], n)
  BY <1>1, ItemRunStates
<1>4. t[0] = NoItem /\ \A n \in 1 .. M : t[n] = Responses!ConvertNext(t[n - 1], longer[n], n)
  BY <1>2, ItemRunStates
<1> DEFINE T == {n \in 0 .. N : s[n] = t[n]}
<1>5. 0 \in T
  BY <1>3, <1>4
<1>6. ASSUME NEW n \in 1 .. N, n - 1 \in T
      PROVE  n \in T
  <2>1. s[n - 1] = t[n - 1] /\ items[n] = longer[n] /\ n \in 1 .. M
    BY <1>1, <1>2, <1>6
  <2> QED
    BY <1>3, <1>4, <2>1
<1> HIDE DEF T
<1>7. \A n \in 0 .. N : n \in T
  BY <1>5, <1>6, UpTo
<1> QED
  BY <1>1, <1>7 DEF T

\* One step of the loop, in terms of what it adds.
LEMMA ItemStep ==
  ASSUME NEW items \in Seq(ClientItems), NEW s, ItemRun(s, items), NEW n \in 1 .. Len(items)
  PROVE  \E x \in ItemStates : \E y \in ItemStates :
            x = s[n - 1] /\ y = s[n] /\ Moves(x, items[n], n, y)
<1>1. n \in Nat /\ n - 1 \in 0 .. Len(items) /\ items[n] \in ClientItems
  OBVIOUS
<1>2. PICK x \in ItemStates : x = s[n - 1]
  BY <1>1, ItemRunStates
<1>3. PICK item \in ClientItems : item = items[n]
  BY <1>1
<1>4. PICK y : y = Responses!ConvertNext(x, item, n)
  OBVIOUS
<1>5. y = s[n]
  BY <1>2, <1>3, <1>4, ItemRunStates
<1>6. y \in ItemStates /\ Moves(x, item, n, y)
  BY <1>1, <1>4, ConvertNextItem
<1> QED
  BY <1>2, <1>3, <1>5, <1>6

LEMMA ItemStepGrows ==
  ASSUME NEW items \in Seq(ClientItems), NEW s, ItemRun(s, items), NEW n \in 1 .. Len(items)
  PROVE  \E p \in Seq(ChatMessages) : \E o \in Seq(ChatMessages) :
            Begins(s[n - 1].out, o) /\ s[n].out = o \o p
<1>1. PICK item \in ClientItems : item = items[n]
  OBVIOUS
<1>2. PICK x \in ItemStates : \E y \in ItemStates : x = s[n - 1] /\ y = s[n] /\ Moves(x, items[n], n, y)
  BY ItemStep
<1>3. PICK y \in ItemStates : x = s[n - 1] /\ y = s[n] /\ Moves(x, items[n], n, y)
  BY <1>2
<1>4. Moves(x, item, n, y) /\ n \in Nat
  BY <1>1, <1>3
<1>5. PICK o \in Seq(ChatMessages) : o = x.out
  BY DEF ItemStates
<1>6. PICK f \in Seq(ChatMessages) : f = Flushed(x) /\ Begins(o, f)
  BY <1>5, FlushedTypes
<1>7. Begins(o, o)
  BY DEF Begins
<1>8. << >> \in Seq(ChatMessages) /\ o \o << >> = o /\ f \o << >> = f
  OBVIOUS
<1>9. CASE item.kind = "message"
  <2>1. PICK u \in ChatMessages : u = Plain(item.role, n)
    BY <1>4, <1>9, ItemFields, PlainIs
  <2>2. <<u>> \in Seq(ChatMessages)
    OBVIOUS
  <2>3. y.out = o \o <<u>>
    BY <1>4, <1>5, <1>9, <2>1 DEF Moves
  <2> QED
    BY <1>3, <1>5, <1>7, <2>2, <2>3
<1>10. CASE item.kind = "function_call_output"
  <2>1. PICK u \in ChatMessages : u = Tool(item.id, n)
    BY <1>4, <1>10, ItemFields, ToolIs
  <2>2. <<u>> \in Seq(ChatMessages)
    OBVIOUS
  <2>3. y.out = f \o <<u>>
    BY <1>4, <1>6, <1>10, <2>1 DEF Moves
  <2> QED
    BY <1>3, <1>5, <1>6, <2>2, <2>3
<1>11. CASE item.kind = "function_call"
  <2>1. y.out = o \o << >>
    BY <1>4, <1>5, <1>8, <1>11 DEF Moves
  <2> QED
    BY <1>3, <1>5, <1>7, <1>8, <2>1
<1>12. CASE item.kind \in {"reasoning", "other"}
  <2>1. y.out = f \o << >>
    BY <1>4, <1>6, <1>8, <1>12 DEF Moves
  <2> QED
    BY <1>3, <1>5, <1>6, <1>8, <2>1
<1> QED
  BY <1>9, <1>10, <1>11, <1>12, ItemFields

LEMMA BeginsTransitive ==
  ASSUME NEW a \in Seq(ChatMessages), NEW b \in Seq(ChatMessages), NEW c \in Seq(ChatMessages),
         Begins(a, b), Begins(b, c)
  PROVE  Begins(a, c)
BY DEF Begins

LEMMA ItemOutGrows ==
  ASSUME NEW items \in Seq(ClientItems), NEW s, ItemRun(s, items), NEW k \in 0 .. Len(items)
  PROVE  \A n \in 0 .. Len(items) : k <= n => Begins(s[k].out, s[n].out)
<1>1. PICK N \in Nat : N = Len(items)
  OBVIOUS
<1> DEFINE T == {n \in 0 .. N : k <= n => Begins(s[k].out, s[n].out)}
<1>2. s[k] \in ItemStates
  BY ItemRunStates
<1>3. PICK o \in Seq(ChatMessages) : o = s[k].out
  BY <1>2 DEF ItemStates
<1>4. Begins(o, o)
  BY DEF Begins
<1>5. 0 \in T
  <2>1. k <= 0 => k = 0
    BY <1>1
  <2> QED
    BY <1>3, <1>4, <2>1
<1>6. ASSUME NEW n \in 1 .. N, n - 1 \in T
      PROVE  n \in T
  <2>1. PICK p \in Seq(ChatMessages) : \E b \in Seq(ChatMessages) :
           Begins(s[n - 1].out, b) /\ s[n].out = b \o p
    BY <1>1, ItemStepGrows
  <2>2. PICK b \in Seq(ChatMessages) : Begins(s[n - 1].out, b) /\ s[n].out = b \o p
    BY <2>1
  <2>3. PICK a \in Seq(ChatMessages) : a = s[n - 1].out
    <3>1. n - 1 \in 0 .. Len(items)
      BY <1>1
    <3>2. s[n - 1] \in ItemStates
      BY <3>1, ItemRunStates
    <3> QED
      BY <3>2 DEF ItemStates
  <2>4. CASE k <= n - 1
    <3>1. Begins(o, a)
      BY <1>3, <1>6, <2>3, <2>4
    <3>2. Begins(o, b)
      BY <2>2, <2>3, <3>1, BeginsTransitive
    <3>3. Begins(o, b \o p)
      BY <3>2, BeginsConcat
    <3>4. Begins(o, s[n].out)
      BY <2>2, <3>3
    <3> QED
      BY <1>3, <3>4
  <2>5. CASE ~ (k <= n - 1)
    <3>1. k <= n => k = n
      BY <1>1, <2>5
    <3> QED
      BY <1>3, <1>4, <3>1
  <2> QED
    BY <2>4, <2>5
<1> HIDE DEF T
<1>7. \A n \in 0 .. N : n \in T
  BY <1>5, <1>6, UpTo
<1> QED
  BY <1>1, <1>7 DEF T

-----------------------------------------------------------------------------
(***************************************************************************)
(* A Responses history whose calls are answered.                           *)
(***************************************************************************)
IsCall(items, n, id)   == items[n].kind = "function_call" /\ items[n].id = id
IsOutput(items, n, id) == items[n].kind = "function_call_output" /\ items[n].id = id

\* The calls without an output among the first n items.
Unanswered(items, n) ==
  {id \in CallIds : \E i \in 1 .. n : IsCall(items, i, id) /\ \A j \in i + 1 .. n : ~ IsOutput(items, j, id)}

\* Paired, for a history of items.
ItemsPaired(items) ==
  /\ \A k \in 1 .. Len(items) : items[k].kind = "function_call_output" =>
       \E n \in 1 .. k - 1 : /\ IsCall(items, n, items[k].id)
                             /\ \A j \in n + 1 .. k - 1 : ~ IsOutput(items, j, items[k].id)
  /\ \A n \in 1 .. Len(items) : items[n].kind = "function_call" =>
       \E k \in n + 1 .. Len(items) : /\ IsOutput(items, k, items[n].id)
                                      /\ \A j \in n + 1 .. k - 1 : ~ IsCall(items, j, items[n].id)

LEMMA PairedAsItems ==
  ASSUME NEW items \in Seq(ClientItems), Paired(AsMessages(items))
  PROVE  ItemsPaired(items)
<1>1. PICK N \in Nat : N = Len(items)
  OBVIOUS
<1>2. DOMAIN items = 1 .. N /\ \A n \in 1 .. N : items[n] \in ClientItems
  BY <1>1
<1>3. PICK r : r = AsMessages(items)
  OBVIOUS
<1>4. DOMAIN r = 1 .. N /\ Len(r) = N
  <2>1. r = [n \in 1 .. N |-> r[n]]
    BY <1>2, <1>3 DEF AsMessages
  <2> QED
    BY <2>1
<1>5. ASSUME NEW n \in 1 .. N
      PROVE  /\ r[n].role = "tool" <=> items[n].kind = "function_call_output"
             /\ items[n].kind = "function_call_output" => r[n].id = items[n].id
             /\ \A id : id \in CallsOf(r[n]) <=> IsCall(items, n, id)
             /\ \A id : Answers(r[n], id) <=> IsOutput(items, n, id)
  <2>1. CASE items[n].kind = "function_call"
    <3>1. r[n] = Assistant(FALSE, <<items[n].id>>, n)
      BY <1>2, <1>3, <2>1 DEF AsMessages
    <3>2. r[n].role = "assistant" /\ r[n].calls = <<items[n].id>>
      BY <3>1 DEF Assistant, Message
    <3>3. CallsOf(r[n]) = {items[n].id}
      BY <3>2 DEF CallsOf, ToSet
    <3> QED
      BY <2>1, <3>2, <3>3 DEF IsCall, IsOutput, Answers
  <2>2. CASE items[n].kind = "function_call_output"
    <3>1. r[n] = Tool(items[n].id, n)
      BY <1>2, <1>3, <2>2 DEF AsMessages
    <3>2. r[n].role = "tool" /\ r[n].calls = << >> /\ r[n].id = items[n].id
      BY <3>1 DEF Tool, Message
    <3>3. CallsOf(r[n]) = {}
      BY <3>2, NothingIn DEF CallsOf
    <3> QED
      BY <2>2, <3>2, <3>3 DEF IsCall, IsOutput, Answers
  <2>3. CASE items[n].kind \notin {"function_call", "function_call_output"}
    <3>1. r[n] = Plain("other", n)
      BY <1>2, <1>3, <2>3 DEF AsMessages
    <3>2. r[n].role = "other" /\ r[n].calls = << >>
      BY <3>1 DEF Plain, Message
    <3>3. CallsOf(r[n]) = {}
      BY <3>2, NothingIn DEF CallsOf
    <3> QED
      BY <2>3, <3>2, <3>3 DEF IsCall, IsOutput, Answers
  <2> QED
    BY <2>1, <2>2, <2>3
<1>6. Paired(r)
  BY <1>3
<1>7. ASSUME NEW k \in 1 .. N, items[k].kind = "function_call_output"
      PROVE  \E n \in 1 .. k - 1 : /\ IsCall(items, n, items[k].id)
                                   /\ \A j \in n + 1 .. k - 1 : ~ IsOutput(items, j, items[k].id)
  <2>1. r[k].role = "tool" /\ r[k].id = items[k].id
    BY <1>5, <1>7
  <2>2. PICK n \in 1 .. k - 1 : r[k].id \in CallsOf(r[n]) /\ ~ Answered(r, n, k, r[k].id)
    BY <1>4, <1>6, <2>1 DEF Paired
  <2>3. n \in 1 .. N /\ \A j \in n + 1 .. k - 1 : j \in 1 .. N
    OBVIOUS
  <2>4. \A j \in n + 1 .. k - 1 : ~ Answers(r[j], items[k].id)
    BY <2>1, <2>2 DEF Answered
  <2> QED
    BY <1>5, <2>1, <2>2, <2>3, <2>4
<1>8. ASSUME NEW n \in 1 .. N, items[n].kind = "function_call"
      PROVE  \E k \in n + 1 .. N : /\ IsOutput(items, k, items[n].id)
                                   /\ \A j \in n + 1 .. k - 1 : ~ IsCall(items, j, items[n].id)
  <2>1. items[n].id \in CallsOf(r[n])
    BY <1>5, <1>8 DEF IsCall
  <2>2. PICK k \in n + 1 .. N : Answers(r[k], items[n].id) /\ ~ Called(r, n, k, items[n].id)
    BY <1>4, <1>6, <2>1 DEF Paired
  <2>3. k \in 1 .. N /\ \A j \in n + 1 .. k - 1 : j \in 1 .. N
    OBVIOUS
  <2>4. \A j \in n + 1 .. k - 1 : items[n].id \notin CallsOf(r[j])
    BY <2>2 DEF Called
  <2> QED
    BY <1>5, <2>2, <2>3, <2>4
<1> QED
  BY <1>1, <1>7, <1>8 DEF ItemsPaired

LEMMA UnansweredStep ==
  ASSUME NEW items \in Seq(ClientItems), ItemsPaired(items), NEW n \in 1 .. Len(items),
         NEW item, item = items[n]
  PROVE  /\ item.kind = "function_call" => /\ item.id \notin Unanswered(items, n - 1)
                                           /\ Unanswered(items, n) = Unanswered(items, n - 1) \cup {item.id}
         /\ item.kind = "function_call_output" => /\ item.id \in Unanswered(items, n - 1)
                                                  /\ Unanswered(items, n) = Unanswered(items, n - 1) \ {item.id}
         /\ item.kind \notin {"function_call", "function_call_output"} =>
              Unanswered(items, n) = Unanswered(items, n - 1)
<1>1. PICK N \in Nat : N = Len(items)
  OBVIOUS
<1>2. n \in 1 .. N /\ n - 1 \in 0 .. N /\ item \in ClientItems
  BY <1>1
<1>3. \A i \in 1 .. n : i \in 1 .. n - 1 \/ i = n
  OBVIOUS
<1>4. \A i \in 1 .. n - 1 : /\ i \in 1 .. n /\ i # n /\ n \in i + 1 .. n
                            /\ \A j \in i + 1 .. n - 1 : j \in i + 1 .. n
                            /\ \A j \in i + 1 .. n : j \in i + 1 .. n - 1 \/ j = n
  OBVIOUS
<1>5. \A j \in n + 1 .. n : FALSE
  OBVIOUS
<1>6. ASSUME item.kind = "function_call"
      PROVE  /\ item.id \notin Unanswered(items, n - 1)
             /\ Unanswered(items, n) = Unanswered(items, n - 1) \cup {item.id}
  <2>1. item.id \in CallIds
    BY <1>2, <1>6, ItemFields
  <2>2. \A id : ~ IsOutput(items, n, id) /\ (IsCall(items, n, id) <=> id = item.id)
    BY <1>6 DEF IsOutput, IsCall
  <2>3. ASSUME item.id \in Unanswered(items, n - 1)
        PROVE  FALSE
    <3>1. PICK i \in 1 .. n - 1 : /\ IsCall(items, i, item.id)
                                  /\ \A j \in i + 1 .. n - 1 : ~ IsOutput(items, j, item.id)
      BY <2>3 DEF Unanswered
    <3>2. i \in 1 .. N /\ items[i].kind = "function_call" /\ items[i].id = item.id
      BY <1>2, <3>1 DEF IsCall
    <3>3. PICK k \in i + 1 .. N : /\ IsOutput(items, k, item.id)
                                  /\ \A j \in i + 1 .. k - 1 : ~ IsCall(items, j, item.id)
      BY <1>1, <3>2 DEF ItemsPaired
    <3>4. k \notin i + 1 .. n - 1 /\ k # n
      BY <2>2, <3>1, <3>3
    <3>5. n \in i + 1 .. k - 1
      BY <1>2, <3>4
    <3> QED
      BY <2>2, <3>3, <3>5
  <2>4. ASSUME NEW id \in Unanswered(items, n)
        PROVE  id \in Unanswered(items, n - 1) \cup {item.id}
    <3>1. PICK i \in 1 .. n : IsCall(items, i, id) /\ \A j \in i + 1 .. n : ~ IsOutput(items, j, id)
      BY <2>4 DEF Unanswered
    <3>2. id \in CallIds
      BY <2>4 DEF Unanswered
    <3>3. CASE i = n
      BY <2>2, <3>1, <3>3
    <3>4. CASE i \in 1 .. n - 1
      BY <1>4, <3>1, <3>2, <3>4 DEF Unanswered
    <3> QED
      BY <1>3, <3>3, <3>4
  <2>5. ASSUME NEW id \in Unanswered(items, n - 1)
        PROVE  id \in Unanswered(items, n)
    <3>1. PICK i \in 1 .. n - 1 : IsCall(items, i, id) /\ \A j \in i + 1 .. n - 1 : ~ IsOutput(items, j, id)
      BY <2>5 DEF Unanswered
    <3>2. id \in CallIds
      BY <2>5 DEF Unanswered
    <3>3. \A j \in i + 1 .. n : ~ IsOutput(items, j, id)
      BY <1>4, <2>2, <3>1
    <3> QED
      BY <1>4, <3>1, <3>2, <3>3 DEF Unanswered
  <2>6. item.id \in Unanswered(items, n)
    <3>1. n \in 1 .. n
      BY <1>2
    <3> QED
      BY <1>5, <2>1, <2>2, <3>1 DEF Unanswered
  <2> QED
    BY <2>3, <2>4, <2>5, <2>6
<1>7. ASSUME item.kind = "function_call_output"
      PROVE  /\ item.id \in Unanswered(items, n - 1)
             /\ Unanswered(items, n) = Unanswered(items, n - 1) \ {item.id}
  <2>1. item.id \in CallIds
    BY <1>2, <1>7, ItemFields
  <2>2. \A id : ~ IsCall(items, n, id) /\ (IsOutput(items, n, id) <=> id = item.id)
    BY <1>7 DEF IsOutput, IsCall
  <2>3. item.id \in Unanswered(items, n - 1)
    <3>1. PICK i \in 1 .. n - 1 : /\ IsCall(items, i, item.id)
                                  /\ \A j \in i + 1 .. n - 1 : ~ IsOutput(items, j, item.id)
      BY <1>1, <1>2, <1>7 DEF ItemsPaired
    <3> QED
      BY <2>1, <3>1 DEF Unanswered
  <2>4. ASSUME NEW id \in Unanswered(items, n)
        PROVE  id \in Unanswered(items, n - 1) \ {item.id}
    <3>1. PICK i \in 1 .. n : IsCall(items, i, id) /\ \A j \in i + 1 .. n : ~ IsOutput(items, j, id)
      BY <2>4 DEF Unanswered
    <3>2. id \in CallIds
      BY <2>4 DEF Unanswered
    <3>3. i # n
      BY <2>2, <3>1
    <3>4. i \in 1 .. n - 1
      BY <1>3, <3>3
    <3>5. ~ IsOutput(items, n, id)
      BY <1>4, <3>1, <3>4
    <3>6. \A j \in i + 1 .. n - 1 : ~ IsOutput(items, j, id)
      BY <1>4, <3>1, <3>4
    <3>7. id \in Unanswered(items, n - 1)
      BY <3>1, <3>2, <3>4, <3>6 DEF Unanswered
    <3> QED
      BY <2>2, <3>5, <3>7
  <2>5. ASSUME NEW id \in Unanswered(items, n - 1) \ {item.id}
        PROVE  id \in Unanswered(items, n)
    <3>1. PICK i \in 1 .. n - 1 : IsCall(items, i, id) /\ \A j \in i + 1 .. n - 1 : ~ IsOutput(items, j, id)
      BY <2>5 DEF Unanswered
    <3>2. id \in CallIds
      BY <2>5 DEF Unanswered
    <3>3. \A j \in i + 1 .. n : ~ IsOutput(items, j, id)
      BY <1>4, <2>2, <2>5, <3>1
    <3> QED
      BY <1>4, <3>1, <3>2, <3>3 DEF Unanswered
  <2> QED
    BY <2>3, <2>4, <2>5
<1>8. ASSUME item.kind \notin {"function_call", "function_call_output"}
      PROVE  Unanswered(items, n) = Unanswered(items, n - 1)
  <2>1. \A id : ~ IsCall(items, n, id) /\ ~ IsOutput(items, n, id)
    BY <1>8 DEF IsOutput, IsCall
  <2>2. ASSUME NEW id \in Unanswered(items, n)
        PROVE  id \in Unanswered(items, n - 1)
    <3>1. PICK i \in 1 .. n : IsCall(items, i, id) /\ \A j \in i + 1 .. n : ~ IsOutput(items, j, id)
      BY <2>2 DEF Unanswered
    <3>2. id \in CallIds
      BY <2>2 DEF Unanswered
    <3>3. i \in 1 .. n - 1
      BY <1>3, <2>1, <3>1
    <3>4. \A j \in i + 1 .. n - 1 : ~ IsOutput(items, j, id)
      BY <1>4, <3>1, <3>3
    <3> QED
      BY <3>1, <3>2, <3>3, <3>4 DEF Unanswered
  <2>3. ASSUME NEW id \in Unanswered(items, n - 1)
        PROVE  id \in Unanswered(items, n)
    <3>1. PICK i \in 1 .. n - 1 : IsCall(items, i, id) /\ \A j \in i + 1 .. n - 1 : ~ IsOutput(items, j, id)
      BY <2>3 DEF Unanswered
    <3>2. id \in CallIds
      BY <2>3 DEF Unanswered
    <3>3. \A j \in i + 1 .. n : ~ IsOutput(items, j, id)
      BY <1>4, <2>1, <3>1
    <3> QED
      BY <1>4, <3>1, <3>2, <3>3 DEF Unanswered
  <2> QED
    BY <2>2, <2>3
<1> QED
  BY <1>6, <1>7, <1>8

LEMMA AllAnswered ==
  ASSUME NEW items \in Seq(ClientItems), ItemsPaired(items)
  PROVE  Unanswered(items, Len(items)) = {} /\ Unanswered(items, 0) = {}
<1>1. PICK N \in Nat : N = Len(items)
  OBVIOUS
<1>2. Unanswered(items, 0) = {}
  BY DEF Unanswered
<1>3. ASSUME NEW id \in Unanswered(items, N)
      PROVE  FALSE
  <2>1. PICK i \in 1 .. N : IsCall(items, i, id) /\ \A j \in i + 1 .. N : ~ IsOutput(items, j, id)
    BY <1>3 DEF Unanswered
  <2>2. PICK k \in i + 1 .. N : IsOutput(items, k, items[i].id)
    BY <1>1, <2>1 DEF ItemsPaired, IsCall
  <2> QED
    BY <2>1, <2>2 DEF IsCall
<1> QED
  BY <1>1, <1>2, <1>3

-----------------------------------------------------------------------------
(***************************************************************************)
(* Between two items the calls without an output are those put off and     *)
(* those that the messages so far wait for.                                *)
(***************************************************************************)
Balanced(s, U) ==
  /\ ToSet(s.calls) \subseteq U /\ IsInjective(s.calls)
  /\ Open(s.out, U \ ToSet(s.calls))

LEMMA CallPutOff ==
  ASSUME NEW calls \in Seq(CallIds), NEW id \in CallIds, IsInjective(calls), id \notin ToSet(calls)
  PROVE  IsInjective(calls \o <<id>>) /\ ToSet(calls \o <<id>>) = ToSet(calls) \cup {id}
<1>1. <<id>> \in Seq(CallIds) /\ Len(<<id>>) = 1 /\ <<id>>[1] = id
  OBVIOUS
<1>2. PICK c \in Seq(CallIds) : c = calls \o <<id>>
  BY <1>1, ConcatIs
<1>3. PICK N \in Nat : N = Len(calls)
  OBVIOUS
<1>4. /\ DOMAIN c = 1 .. N + 1 /\ DOMAIN calls = 1 .. N
      /\ \A n \in 1 .. N : c[n] = calls[n]
      /\ c[N + 1] = id
  BY <1>1, <1>2, <1>3
<1>5. \A n \in 1 .. N + 1 : n \in 1 .. N \/ n = N + 1
  OBVIOUS
<1>6. \A n \in 1 .. N : calls[n] # id
  BY <1>3, <1>4 DEF ToSet
<1>7. \A i, j \in 1 .. N : calls[i] = calls[j] => i = j
  BY <1>4 DEF IsInjective
<1>8. \A i, j \in 1 .. N + 1 : c[i] = c[j] => i = j
  BY <1>4, <1>5, <1>6, <1>7
<1>9. IsInjective(c)
  BY <1>4, <1>8 DEF IsInjective
<1>10. ToSet(c) = ToSet(calls) \cup {id}
  <2>1. ASSUME NEW e \in ToSet(c)
        PROVE  e \in ToSet(calls) \cup {id}
    BY <1>4, <1>5, <2>1 DEF ToSet
  <2>2. ASSUME NEW e \in ToSet(calls)
        PROVE  e \in ToSet(c)
    <3>1. PICK n \in 1 .. N : e = calls[n]
      BY <1>4, <2>2 DEF ToSet
    <3>2. n \in 1 .. N + 1 /\ c[n] = e
      BY <1>4, <3>1
    <3> QED
      BY <1>4, <3>2 DEF ToSet
  <2>3. id \in ToSet(c)
    <3>1. N + 1 \in 1 .. N + 1
      OBVIOUS
    <3> QED
      BY <1>4, <3>1 DEF ToSet
  <2> QED
    BY <2>1, <2>2, <2>3
<1> QED
  BY <1>2, <1>9, <1>10

LEMMA FlushOpens ==
  ASSUME NEW s \in ItemStates, NEW U, Balanced(s, U)
  PROVE  Open(Flushed(s), U)
<1>1. PICK o \in Seq(ChatMessages) : o = s.out
  BY DEF ItemStates
<1>2. CASE s.calls = << >>
  <2>1. Flushed(s) = o
    BY <1>1, <1>2, FlushedTypes
  <2>2. ToSet(s.calls) = {}
    BY <1>2 DEF ToSet
  <2>3. U \ ToSet(s.calls) = U
    BY <2>2
  <2>4. Open(s.out, U)
    BY <2>3 DEF Balanced
  <2> QED
    BY <1>1, <2>1, <2>4
<1>3. CASE s.calls # << >>
  <2>1. PICK m \in ChatMessages : m = Assistant(FALSE, s.calls, s.first) /\ Flushed(s) = s.out \o <<m>>
    BY <1>3, FlushedTypes
  <2>2. m.role = "assistant" /\ m.calls = s.calls
    BY <2>1 DEF Assistant, Message
  <2>3. PICK P : P = U \ ToSet(s.calls)
    OBVIOUS
  <2>4. CallsOf(m) = ToSet(s.calls)
    BY <2>2 DEF CallsOf
  <2>5. CallsOf(m) \cap P = {} /\ P \cup CallsOf(m) = U
    BY <2>3, <2>4 DEF Balanced
  <2>6. Open(o, P) /\ IsInjective(m.calls) /\ m.role # "tool"
    BY <1>1, <2>2, <2>3 DEF Balanced
  <2>7. Open(o \o <<m>>, P \cup CallsOf(m))
    BY <2>5, <2>6, CallsOpen
  <2>8. Open(o \o <<m>>, U)
    BY <2>5, <2>7
  <2> QED
    BY <1>1, <2>1, <2>8
<1> QED
  BY <1>2, <1>3

LEMMA OneAnswer ==
  ASSUME NEW o \in Seq(ChatMessages), NEW id \in CallIds, NEW i \in Nat, NEW U, id \in U, Open(o, U)
  PROVE  Open(o \o <<Tool(id, i)>>, U \ {id})
<1>1. <<id>> \in Seq(CallIds)
  OBVIOUS
<1>2. PICK ids \in Seq(CallIds) : ids = <<id>>
  BY <1>1
<1>3. DOMAIN ids = {1} /\ ids[1] = id
  BY <1>2
<1>4. ToSet(ids) = {id}
  BY <1>3 DEF ToSet
<1>5. IsInjective(ids)
  BY <1>3 DEF IsInjective
<1>6. Open(o \o Answering(ids, i), U \ ToSet(ids))
  BY <1>4, <1>5, AnswersClose
<1>7. Answering(ids, i) = <<Tool(id, i)>>
  <2>1. Answering(ids, i) \in Seq(ChatMessages) /\ Len(Answering(ids, i)) = 1
    BY <1>2, AnsweringIs
  <2>2. Answering(ids, i)[1] = Tool(id, i)
    BY <1>3 DEF Answering
  <2> QED
    BY <2>1, <2>2
<1> QED
  BY <1>4, <1>6, <1>7

LEMMA MovesBalanced ==
  ASSUME NEW items \in Seq(ClientItems), ItemsPaired(items), NEW n \in 1 .. Len(items),
         NEW x \in ItemStates, NEW y \in ItemStates, Moves(x, items[n], n, y),
         Balanced(x, Unanswered(items, n - 1))
  PROVE  Balanced(y, Unanswered(items, n))
<1>1. PICK item \in ClientItems : item = items[n]
  OBVIOUS
<1>2. PICK U : U = Unanswered(items, n - 1)
  OBVIOUS
<1>3. PICK V : V = Unanswered(items, n)
  OBVIOUS
<1>4. PICK o \in Seq(ChatMessages) : o = x.out
  BY DEF ItemStates
<1>5. PICK c \in Seq(CallIds) : c = x.calls
  BY DEF ItemStates
<1>6. Moves(x, item, n, y) /\ Balanced(x, U) /\ n \in Nat
  BY <1>1, <1>2
<1>7. /\ item.kind = "function_call" => item.id \notin U /\ V = U \cup {item.id}
      /\ item.kind = "function_call_output" => item.id \in U /\ V = U \ {item.id}
      /\ item.kind \notin {"function_call", "function_call_output"} => V = U
  BY <1>1, <1>2, <1>3, UnansweredStep
<1>8. ToSet(c) \subseteq U /\ IsInjective(c) /\ Open(o, U \ ToSet(c))
  BY <1>4, <1>5, <1>6 DEF Balanced
<1>9. ToSet(<< >>) = {} /\ IsInjective(<< >>)
  BY DEF ToSet, IsInjective
<1>10. PICK f \in Seq(ChatMessages) : f = Flushed(x)
  BY FlushedTypes
<1>11. Open(f, U)
  BY <1>6, <1>10, FlushOpens
<1>12. CASE item.kind = "message"
  <2>1. PICK m \in ChatMessages : m = Plain(item.role, n)
    BY <1>6, <1>12, ItemFields, PlainIs
  <2>2. m.role \in {"user", "assistant", "system"} /\ m.calls = << >>
    BY <1>12, <2>1, ItemFields DEF Plain, Message
  <2>3. CallsOf(m) = {}
    BY <1>9, <2>2 DEF CallsOf
  <2>4. PICK P : P = U \ ToSet(c)
    OBVIOUS
  <2>5. Open(o \o <<m>>, P \cup CallsOf(m))
    BY <1>8, <1>9, <2>2, <2>3, <2>4, CallsOpen
  <2>6. Open(o \o <<m>>, P)
    BY <2>3, <2>5
  <2>7. y.out = o \o <<m>> /\ y.calls = c
    BY <1>4, <1>5, <1>6, <1>12, <2>1 DEF Moves
  <2>8. V = U
    BY <1>7, <1>12
  <2>9. Balanced(y, V)
    BY <1>8, <2>4, <2>6, <2>7, <2>8 DEF Balanced
  <2> QED
    BY <1>3, <2>9
<1>13. CASE item.kind = "function_call"
  <2>1. PICK id \in CallIds : id = item.id
    BY <1>13, ItemFields
  <2>2. id \notin U /\ V = U \cup {id}
    BY <1>7, <1>13, <2>1
  <2>3. y.out = o /\ y.calls = c \o <<id>>
    BY <1>4, <1>5, <1>6, <1>13, <2>1 DEF Moves
  <2>4. IsInjective(c \o <<id>>) /\ ToSet(c \o <<id>>) = ToSet(c) \cup {id}
    BY <1>8, <2>2, CallPutOff
  <2>5. V \ (ToSet(c) \cup {id}) = U \ ToSet(c)
    BY <1>8, <2>2
  <2>6. ToSet(c) \cup {id} \subseteq V
    BY <1>8, <2>2
  <2>7. Balanced(y, V)
    BY <1>8, <2>3, <2>4, <2>5, <2>6 DEF Balanced
  <2> QED
    BY <1>3, <2>7
<1>14. CASE item.kind = "function_call_output"
  <2>1. PICK id \in CallIds : id = item.id
    BY <1>14, ItemFields
  <2>2. id \in U /\ V = U \ {id}
    BY <1>7, <1>14, <2>1
  <2>3. y.out = f \o <<Tool(id, n)>> /\ y.calls = << >>
    BY <1>6, <1>10, <1>14, <2>1 DEF Moves
  <2>4. Open(f \o <<Tool(id, n)>>, U \ {id})
    BY <1>6, <1>11, <2>2, OneAnswer
  <2>5. V \ {} = U \ {id}
    BY <2>2
  <2>6. Balanced(y, V)
    BY <1>9, <2>3, <2>4, <2>5 DEF Balanced
  <2> QED
    BY <1>3, <2>6
<1>15. CASE item.kind \in {"reasoning", "other"}
  <2>1. y.out = f /\ y.calls = << >>
    BY <1>6, <1>10, <1>15 DEF Moves
  <2>2. V \ {} = U
    BY <1>7, <1>15
  <2>3. Balanced(y, V)
    BY <1>9, <1>11, <2>1, <2>2 DEF Balanced
  <2> QED
    BY <1>3, <2>3
<1> QED
  BY <1>12, <1>13, <1>14, <1>15, ItemFields

LEMMA ItemRunBalances ==
  ASSUME NEW items \in Seq(ClientItems), ItemsPaired(items), NEW s, ItemRun(s, items)
  PROVE  \A n \in 0 .. Len(items) : Balanced(s[n], Unanswered(items, n))
<1>1. PICK N \in Nat : N = Len(items)
  OBVIOUS
<1> DEFINE T == {n \in 0 .. N : Balanced(s[n], Unanswered(items, n))}
<1>2. 0 \in T
  <2>1. s[0] = NoItem
    BY ItemRunStates
  <2>2. NoItem.out = << >> /\ NoItem.calls = << >>
    BY DEF NoItem
  <2>3. ToSet(<< >>) = {} /\ IsInjective(<< >>)
    BY DEF ToSet, IsInjective
  <2>4. Open(<< >>, {})
    BY OpenEmpty
  <2>5. Unanswered(items, 0) = {}
    BY AllAnswered
  <2>6. Balanced(NoItem, {})
    BY <2>2, <2>3, <2>4 DEF Balanced
  <2>7. Balanced(s[0], Unanswered(items, 0))
    BY <2>1, <2>5, <2>6
  <2> QED
    BY <1>1, <2>7
<1>3. ASSUME NEW n \in 1 .. N, n - 1 \in T
      PROVE  n \in T
  <2>1. PICK x \in ItemStates : \E y \in ItemStates : x = s[n - 1] /\ y = s[n] /\ Moves(x, items[n], n, y)
    BY <1>1, ItemStep
  <2>2. PICK y \in ItemStates : x = s[n - 1] /\ y = s[n] /\ Moves(x, items[n], n, y)
    BY <2>1
  <2>3. Balanced(x, Unanswered(items, n - 1))
    BY <1>3, <2>2
  <2>4. Balanced(y, Unanswered(items, n))
    BY <1>1, <2>2, <2>3, MovesBalanced
  <2> QED
    BY <2>2, <2>4
<1> HIDE DEF T
<1>4. \A n \in 0 .. N : n \in T
  BY <1>2, <1>3, UpTo
<1> QED
  BY <1>1, <1>4 DEF T

\* A history whose calls are answered has none left to flush at its end, and
\* the messages it is converted to have their calls answered.
LEMMA ItemsArePaired ==
  ASSUME NEW items \in Seq(ClientItems), Paired(AsMessages(items)), NEW s, ItemRun(s, items)
  PROVE  /\ s[Len(items)].out \in Seq(ChatMessages)
         /\ Flushed(s[Len(items)]) = s[Len(items)].out
         /\ Paired(s[Len(items)].out)
<1>1. PICK N \in Nat : N = Len(items)
  OBVIOUS
<1>2. ItemsPaired(items)
  BY PairedAsItems
<1>3. PICK x \in ItemStates : x = s[N]
  BY <1>1, ItemRunStates
<1>4. Balanced(x, {})
  <2>1. N \in 0 .. N
    OBVIOUS
  <2>2. Balanced(s[N], Unanswered(items, N))
    BY <1>1, <1>2, <2>1, ItemRunBalances
  <2>3. Unanswered(items, N) = {}
    BY <1>1, <1>2, AllAnswered
  <2> QED
    BY <1>3, <2>2, <2>3
<1>5. PICK o \in Seq(ChatMessages) : o = x.out
  BY DEF ItemStates
<1>6. PICK c \in Seq(CallIds) : c = x.calls
  BY DEF ItemStates
<1>7. ToSet(c) = {}
  BY <1>4, <1>6 DEF Balanced
<1>8. c = << >>
  <2>1. \A n \in 1 .. Len(c) : c[n] \in ToSet(c)
    BY DEF ToSet
  <2>2. Len(c) = 0
    BY <1>7, <2>1
  <2> QED
    BY <2>2
<1>9. Open(o, {})
  <2>1. {} \ ToSet(c) = {}
    OBVIOUS
  <2> QED
    BY <1>4, <1>5, <1>6, <2>1 DEF Balanced
<1>10. Paired(o)
  BY <1>9, ClosedIsPaired
<1>11. Flushed(x) = o
  BY <1>5, <1>6, <1>8, FlushedTypes
<1> QED
  BY <1>1, <1>3, <1>5, <1>10, <1>11

-----------------------------------------------------------------------------
(***************************************************************************)
(* A longer history is converted to messages that begin with those of the  *)
(* shorter one.                                                            *)
(***************************************************************************)
LEMMA MessagesGrow ==
  ASSUME NEW ms \in Seq(ClientMessages), NEW longer \in Seq(ClientMessages),
         Len(ms) <= Len(longer), \A n \in 1 .. Len(ms) : ms[n] = longer[n]
  PROVE  /\ Anthropic!ConvertMessages(ms).out \in Seq(ChatMessages)
         /\ Begins(Anthropic!ConvertMessages(ms).out, Anthropic!ConvertMessages(longer).out)
<1>1. PICK N \in Nat : N = Len(ms)
  OBVIOUS
<1>2. PICK M \in Nat : M = Len(longer)
  OBVIOUS
<1>3. PICK s : MessageRun(s, ms) /\ Anthropic!ConvertMessages(ms) = s[N]
  BY <1>1, ConvertMessagesRuns
<1>4. PICK t : MessageRun(t, longer) /\ Anthropic!ConvertMessages(longer) = t[M]
  BY <1>2, ConvertMessagesRuns
<1>5. N \in 0 .. N /\ N \in 0 .. M /\ M \in 0 .. M /\ N <= M
  BY <1>1, <1>2
<1>6. s[N] = t[N]
  BY <1>1, <1>3, <1>4, <1>5, MessageRunsAgree
<1>7. s[N] \in MessageStates
  BY <1>1, <1>3, <1>5, MessageRunStates
<1>8. Begins(t[N].out, t[M].out)
  BY <1>2, <1>4, <1>5, OutGrows
<1> QED
  BY <1>3, <1>4, <1>6, <1>7, <1>8 DEF MessageStates

LEMMA ItemsGrow ==
  ASSUME NEW items \in Seq(ClientItems), NEW longer \in Seq(ClientItems),
         Paired(AsMessages(items)),
         Len(items) <= Len(longer), \A n \in 1 .. Len(items) : items[n] = longer[n]
  PROVE  Begins(Responses!ConvertInputItems(items).out, Responses!ConvertInputItems(longer).out)
<1>1. PICK N \in Nat : N = Len(items)
  OBVIOUS
<1>2. PICK M \in Nat : M = Len(longer)
  OBVIOUS
<1>3. PICK s : ItemRun(s, items) /\ Responses!ConvertInputItems(items).out = Flushed(s[N])
  BY <1>1, ConvertItemsRuns
<1>4. PICK t : ItemRun(t, longer) /\ Responses!ConvertInputItems(longer).out = Flushed(t[M])
  BY <1>2, ConvertItemsRuns
<1>5. N \in 0 .. N /\ N \in 0 .. M /\ M \in 0 .. M /\ N <= M
  BY <1>1, <1>2
<1>6. s[N] = t[N]
  BY <1>1, <1>3, <1>4, <1>5, ItemRunsAgree
<1>7. Flushed(s[N]) = s[N].out
  BY <1>1, <1>3, ItemsArePaired
<1>8. PICK x \in ItemStates : x = t[N]
  BY <1>2, <1>4, <1>5, ItemRunStates
<1>9. PICK y \in ItemStates : y = t[M]
  BY <1>2, <1>4, <1>5, ItemRunStates
<1>10. Begins(x.out, y.out)
  BY <1>2, <1>4, <1>5, <1>8, <1>9, ItemOutGrows
<1>11. y.out \in Seq(ChatMessages) /\ Flushed(y) \in Seq(ChatMessages) /\ Begins(y.out, Flushed(y))
  BY FlushedTypes
<1>12. x.out \in Seq(ChatMessages)
  BY DEF ItemStates
<1>13. Begins(x.out, Flushed(y))
  BY <1>10, <1>11, <1>12, BeginsTransitive
<1> QED
  BY <1>3, <1>4, <1>6, <1>7, <1>8, <1>9, <1>13

LEMMA ItemsConvert ==
  ASSUME NEW items \in Seq(ClientItems)
  PROVE  /\ Responses!ConvertInputItems(items).out \in Seq(ChatMessages)
         /\ Paired(AsMessages(items)) => Paired(Responses!ConvertInputItems(items).out)
<1>1. PICK N \in Nat : N = Len(items)
  OBVIOUS
<1>2. PICK s : ItemRun(s, items) /\ Responses!ConvertInputItems(items).out = Flushed(s[N])
  BY <1>1, ConvertItemsRuns
<1>3. s[N] \in ItemStates
  BY <1>1, <1>2, ItemRunStates
<1>4. Flushed(s[N]) \in Seq(ChatMessages)
  BY <1>3, FlushedTypes
<1>5. ASSUME Paired(AsMessages(items))
      PROVE  Paired(Flushed(s[N]))
  BY <1>1, <1>2, <1>5, ItemsArePaired
<1> QED
  BY <1>2, <1>4, <1>5

\* Nothing is converted to nothing.
LEMMA NothingConverts ==
  /\ ~ Anthropic!Refuses(<< >>) /\ Applied(Anthropic!ConvertMessages(<< >>).out, {}) = << >>
  /\ Applied(Responses!ConvertInputItems(<< >>).out, {}) = << >>
<1>1. << >> \in Seq(ClientMessages) /\ << >> \in Seq(ClientItems) /\ << >> \in Seq(ChatMessages) /\ Len(<< >>) = 0
  OBVIOUS
<1>2. Applied(<< >>, {}) = << >>
  <2>1. PICK a : a = Applied(<< >>, {})
    OBVIOUS
  <2>2. a \in Seq(ChatMessages) /\ Len(a) = 0
    BY <1>1, <2>1, AppliedIs
  <2>3. a = << >>
    BY <2>2
  <2> QED
    BY <2>1, <2>3
<1>3. Anthropic!ConvertMessages(<< >>) = NoMessage
  <2>1. PICK s : MessageRun(s, << >>) /\ Anthropic!ConvertMessages(<< >>) = s[0]
    BY <1>1, ConvertMessagesRuns
  <2>2. s[0] = NoMessage
    BY <1>1, <2>1, MessageRunStates
  <2> QED
    BY <2>1, <2>2
<1>4. NoMessage.out = << >> /\ NoMessage.ok /\ NoMessage.pending = {}
  BY DEF NoMessage
<1>5. ~ Anthropic!Refuses(<< >>)
  BY <1>3, <1>4 DEF Anthropic!Refuses
<1>6. Responses!ConvertInputItems(<< >>).out = << >>
  <2>1. PICK s : ItemRun(s, << >>) /\ Responses!ConvertInputItems(<< >>).out = Flushed(s[0])
    BY <1>1, ConvertItemsRuns
  <2>2. s[0] = NoItem
    BY <1>1, <2>1, ItemRunStates
  <2>3. NoItem \in ItemStates /\ NoItem.calls = << >> /\ NoItem.out = << >>
    BY DEF NoItem, ItemStates
  <2>4. Flushed(NoItem) = << >>
    BY <2>3, FlushedTypes
  <2> QED
    BY <2>1, <2>2, <2>4
<1> QED
  BY <1>2, <1>3, <1>4, <1>5, <1>6

-----------------------------------------------------------------------------
(***************************************************************************)
(* What was sent is the conversion of the first sent messages or items of  *)
(* the history, with some turns restored and the policy applied.           *)
(***************************************************************************)
HistoryIs == history \in IF FromMessages THEN Seq(ClientMessages) ELSE Seq(ClientItems)

IsSent(o) == restored \in SUBSET Restorable(o) /\ wire.messages = Applied(o, restored)

WireIs(ms) ==
  IF FromMessages
  THEN ~ Anthropic!Refuses(ms) /\ IsSent(Anthropic!ConvertMessages(ms).out)
  ELSE IsSent(Responses!ConvertInputItems(ms).out)

WireInv == HistoryIs /\ sent \in 0 .. Len(history) /\ WireIs(Accepted)

LEMMA FirstOf ==
  ASSUME NEW S, NEW h \in Seq(S), NEW n \in 0 .. Len(h)
  PROVE  /\ SubSeq(h, 1, n) \in Seq(S) /\ Len(SubSeq(h, 1, n)) = n
         /\ \A i \in 1 .. n : SubSeq(h, 1, n)[i] = h[i]
BY SubSeqProperties

LEMMA FirstOfMore ==
  ASSUME NEW S, NEW h \in Seq(S), NEW n \in 0 .. Len(h), NEW m \in S
  PROVE  SubSeq(Append(h, m), 1, n) = SubSeq(h, 1, n)
<1>1. Append(h, m) \in Seq(S)
  OBVIOUS
<1>2. PICK g \in Seq(S) : g = Append(h, m)
  BY <1>1
<1>3. n \in 0 .. Len(g) /\ \A i \in 1 .. n : g[i] = h[i]
  BY <1>2
<1>4. /\ SubSeq(h, 1, n) \in Seq(S) /\ Len(SubSeq(h, 1, n)) = n
      /\ \A i \in 1 .. n : SubSeq(h, 1, n)[i] = h[i]
  BY FirstOf
<1>5. PICK a \in Seq(S) : a = SubSeq(h, 1, n) /\ Len(a) = n /\ \A i \in 1 .. n : a[i] = h[i]
  BY <1>4
<1>6. /\ SubSeq(g, 1, n) \in Seq(S) /\ Len(SubSeq(g, 1, n)) = n
      /\ \A i \in 1 .. n : SubSeq(g, 1, n)[i] = g[i]
  BY <1>3, FirstOf
<1>7. PICK b \in Seq(S) : b = SubSeq(g, 1, n) /\ Len(b) = n /\ \A i \in 1 .. n : b[i] = g[i]
  BY <1>6
<1>8. a = b
  BY <1>3, <1>5, <1>7, SeqEqual
<1> QED
  BY <1>2, <1>5, <1>7, <1>8

LEMMA AllOf ==
  ASSUME NEW S, NEW h \in Seq(S)
  PROVE  SubSeq(h, 1, Len(h)) = h
<1>1. PICK n \in Nat : n = Len(h)
  OBVIOUS
<1>2. n \in 0 .. Len(h)
  BY <1>1
<1>3. /\ SubSeq(h, 1, n) \in Seq(S) /\ Len(SubSeq(h, 1, n)) = n
      /\ \A i \in 1 .. n : SubSeq(h, 1, n)[i] = h[i]
  BY <1>2, FirstOf
<1>4. PICK a \in Seq(S) : a = SubSeq(h, 1, n) /\ Len(a) = n /\ \A i \in 1 .. n : a[i] = h[i]
  BY <1>3
<1>5. a = h
  BY <1>1, <1>4, SeqEqual
<1> QED
  BY <1>1, <1>4, <1>5

LEMMA InitWireInv == RequestsInit => WireInv
<1> SUFFICES ASSUME RequestsInit PROVE WireInv
  OBVIOUS
<1>1. history = << >> /\ sent = 0 /\ wire.messages = << >> /\ restored = {}
  BY DEF RequestsInit
<1>2. history \in Seq(ClientMessages) /\ history \in Seq(ClientItems)
  BY <1>1
<1>3. sent \in 0 .. Len(history)
  BY <1>1
<1>4. Accepted = << >>
  <2>1. SubSeq(history, 1, Len(history)) = history
    BY <1>2, AllOf
  <2> QED
    BY <1>1, <2>1 DEF Accepted
<1>5. HistoryIs
  BY <1>2 DEF HistoryIs
<1>6. WireIs(Accepted)
  BY <1>1, <1>4, NothingConverts DEF WireIs, IsSent
<1> QED
  BY <1>3, <1>5, <1>6 DEF WireInv

LEMMA ExtendWireInv ==
  ASSUME WireInv, NEW m, Extend(m), m \in IF FromMessages THEN ClientMessages ELSE ClientItems
  PROVE  WireInv'
<1>1. /\ protocol' = protocol /\ sent' = sent /\ wire' = wire /\ restored' = restored
      /\ history' = Append(history, m)
  BY DEF Extend
<1>2. PICK S : /\ S = IF FromMessages THEN ClientMessages ELSE ClientItems
               /\ history \in Seq(S) /\ m \in S
  BY DEF WireInv, HistoryIs
<1>3. FromMessages' <=> FromMessages
  BY <1>1 DEF FromMessages
<1>4. history' \in Seq(S) /\ Len(history') = Len(history) + 1 /\ Len(history) \in Nat
  BY <1>1, <1>2
<1>5. HistoryIs'
  BY <1>2, <1>3, <1>4 DEF HistoryIs
<1>6. sent' \in 0 .. Len(history')
  BY <1>1, <1>4 DEF WireInv
<1>7. Accepted' = Accepted
  <2>1. SubSeq(Append(history, m), 1, sent) = SubSeq(history, 1, sent)
    BY <1>2, FirstOfMore DEF WireInv
  <2> QED
    BY <1>1, <2>1 DEF Accepted
<1>8. WireIs(Accepted)'
  BY <1>1, <1>3, <1>7 DEF WireIs, IsSent, WireInv
<1> QED
  BY <1>5, <1>6, <1>8 DEF WireInv

\* After a request the whole history is accepted.
LEMMA SendAccepts ==
  ASSUME WireInv, SendMessages \/ SendResponses
  PROVE  /\ protocol' = protocol /\ history' = history /\ sent' = Len(history)
         /\ Accepted' = history
<1>1. protocol' = protocol /\ history' = history /\ sent' = Len(history)
  BY DEF SendMessages, SendResponses, Transmit
<1>2. PICK S : history \in Seq(S)
  BY DEF WireInv, HistoryIs
<1>3. SubSeq(history, 1, Len(history)) = history
  BY <1>2, AllOf
<1> QED
  BY <1>1, <1>3 DEF Accepted

LEMMA SendWireInv ==
  ASSUME WireInv, SendMessages \/ SendResponses
  PROVE  WireInv'
<1>1. /\ protocol' = protocol /\ history' = history /\ sent' = Len(history)
      /\ Accepted' = history
  BY SendAccepts
<1>2. FromMessages' <=> FromMessages
  BY <1>1 DEF FromMessages
<1>3. HistoryIs'
  BY <1>1, <1>2 DEF HistoryIs, WireInv
<1>4. sent' \in 0 .. Len(history')
  <2>1. PICK S : history \in Seq(S)
    BY DEF WireInv, HistoryIs
  <2>2. Len(history) \in 0 .. Len(history)
    BY <2>1
  <2> QED
    BY <1>1, <2>2
<1>5. WireIs(Accepted)'
  <2>1. ASSUME NEW h, NEW o, Transmit(h, o)
        PROVE  restored' \in SUBSET Restorable(o) /\ wire'.messages = Applied(o, restored')
    BY <2>1 DEF Transmit, Upstream
  <2>2. CASE SendMessages
    <3>1. /\ FromMessages /\ ~ Anthropic!Refuses(history)
          /\ Transmit(Anthropic!WireHead(head), Anthropic!ConvertMessages(history).out)
      BY <2>2 DEF SendMessages
    <3>2. PICK o : o = Anthropic!ConvertMessages(history).out
      OBVIOUS
    <3>3. restored' \in SUBSET Restorable(o) /\ wire'.messages = Applied(o, restored')
      BY <2>1, <3>1, <3>2
    <3> QED
      BY <1>1, <1>2, <3>1, <3>2, <3>3 DEF WireIs, IsSent
  <2>3. CASE SendResponses
    <3>1. /\ ~ FromMessages
          /\ Transmit(Responses!WireHead(head), Responses!ConvertInputItems(history).out)
      BY <2>3 DEF SendResponses
    <3>2. PICK o : o = Responses!ConvertInputItems(history).out
      OBVIOUS
    <3>3. restored' \in SUBSET Restorable(o) /\ wire'.messages = Applied(o, restored')
      BY <2>1, <3>1, <3>2
    <3> QED
      BY <1>1, <1>2, <3>1, <3>2, <3>3 DEF WireIs, IsSent
  <2> QED
    BY <2>2, <2>3
<1> QED
  BY <1>3, <1>4, <1>5 DEF WireInv

LEMMA StepWireInv == WireInv /\ [RequestsNext]_requestsVars => WireInv'
<1> SUFFICES ASSUME WireInv, [RequestsNext]_requestsVars PROVE WireInv'
  OBVIOUS
<1>1. CASE FromMessages /\ \E m \in Messages : Extend(m)
  <2>1. PICK m \in Messages : Extend(m)
    BY <1>1
  <2>2. m \in ClientMessages
    BY AlphabetAssumption DEF Anthropic!IsMessage, ClientMessages
  <2> QED
    BY <1>1, <2>1, <2>2, ExtendWireInv
<1>2. CASE ~ FromMessages /\ \E item \in Items : Extend(item)
  <2>1. PICK item \in Items : Extend(item)
    BY <1>2
  <2>2. item \in ClientItems
    BY AlphabetAssumption DEF Responses!IsItem, ClientItems
  <2> QED
    BY <1>2, <2>1, <2>2, ExtendWireInv
<1>3. CASE SendMessages \/ SendResponses
  BY <1>3, SendWireInv
<1>4. CASE UNCHANGED requestsVars
  BY <1>4 DEF requestsVars, WireInv, HistoryIs, WireIs, IsSent, FromMessages, Accepted
<1> QED
  BY <1>1, <1>2, <1>3, <1>4 DEF RequestsNext

\* Its steps: the history grows behind what was accepted, or is accepted as a whole.
LEMMA WireInvariance == RequestsSpec => []WireInv
<1>1. RequestsInit => WireInv
  BY InitWireInv
<1>2. WireInv /\ [RequestsNext]_requestsVars => WireInv'
  BY StepWireInv
<1> QED
  BY <1>1, <1>2, PTL DEF RequestsSpec

LEMMA AcceptedIs ==
  ASSUME WireInv
  PROVE  /\ sent \in Nat /\ Len(Accepted) = sent
         /\ \A i \in 1 .. sent : Accepted[i] = history[i]
         /\ FromMessages => Accepted \in Seq(ClientMessages)
         /\ ~ FromMessages => Accepted \in Seq(ClientItems)
<1>1. PICK S : /\ S = IF FromMessages THEN ClientMessages ELSE ClientItems
               /\ history \in Seq(S)
  BY DEF WireInv, HistoryIs
<1>2. sent \in 0 .. Len(history)
  BY DEF WireInv
<1>3. /\ SubSeq(history, 1, sent) \in Seq(S) /\ Len(SubSeq(history, 1, sent)) = sent
      /\ \A i \in 1 .. sent : SubSeq(history, 1, sent)[i] = history[i]
  BY <1>1, <1>2, FirstOf
<1>4. sent \in Nat
  BY <1>1, <1>2
<1> QED
  BY <1>1, <1>3, <1>4 DEF Accepted

-----------------------------------------------------------------------------
LEMMA PairsTools == WireInv => ToolPairing
<1> SUFFICES ASSUME WireInv PROVE ToolPairing
  OBVIOUS
<1>1. CASE FromMessages
  <2>1. PICK ms \in Seq(ClientMessages) :
          ms = Accepted /\ Len(ms) = sent /\ \A i \in 1 .. sent : ms[i] = history[i]
    BY <1>1, AcceptedIs
  <2>2. sent \in Nat
    BY AcceptedIs
  <2>3. ~ Anthropic!Refuses(ms) /\ wire.messages = Applied(Anthropic!ConvertMessages(ms).out, restored)
    BY <1>1, <2>1 DEF WireInv, WireIs, IsSent
  <2>4. PICK o \in Seq(ChatMessages) : o = Anthropic!ConvertMessages(ms).out /\ Paired(o)
    BY <2>3, MessagesPaired
  <2>5. PICK w : w = Applied(o, restored)
    OBVIOUS
  <2>6. wire.messages = w
    BY <2>3, <2>4, <2>5
  <2>7. Paired(w)
    BY <2>4, <2>5, AppliedPaired
  <2>8. /\ w \in Seq(ChatMessages) /\ Len(w) = Len(o)
        /\ \A n \in 1 .. Len(o) : w[n].role = o[n].role /\ w[n].calls = o[n].calls /\ w[n].src = o[n].src
    BY <2>5, AppliedIs
  <2>9. ASSUME NEW n \in DOMAIN w, GivenNext(n)
        PROVE  Behind(n)
    <3>1. n \in 1 .. Len(o) /\ o[n] \in ChatMessages
      BY <2>8
    <3>2. w[n].src = o[n].src /\ w[n].calls = o[n].calls
      BY <2>8, <3>1
    <3>3. PICK i \in Nat : i = o[n].src
      BY <3>1 DEF ChatMessages
    <3>4. i < sent /\ o[n].calls # << >> /\ ToSet(history[i + 1].results) = CallsOf(w[n])
      BY <2>6, <2>9, <3>2, <3>3 DEF GivenNext
    <3>5. CallsOf(w[n]) = CallsOf(o[n])
      BY <3>2 DEF CallsOf
    <3>6. i + 1 \in 1 .. sent
      BY <2>2, <3>3, <3>4
    <3>7. ms[i + 1] = history[i + 1]
      BY <2>1, <3>6
    <3>8. ToSet(ms[o[n].src + 1].results) = CallsOf(o[n])
      BY <3>3, <3>4, <3>5, <3>7
    <3>9. o[n].src < Len(ms)
      BY <2>1, <3>3, <3>4
    <3>10. \A k \in n + 1 .. n + Len(o[n].calls) : k \in 1 .. Len(o) /\ o[k].role = "tool"
      BY <2>3, <2>4, <3>1, <3>4, <3>8, <3>9, ResultsBehind
    <3>11. DOMAIN w = 1 .. Len(o)
      BY <2>8
    <3>12. \A k \in n + 1 .. n + Len(w[n].calls) : k \in DOMAIN w /\ w[k].role = "tool"
      BY <2>8, <3>2, <3>10, <3>11
    <3> QED
      BY <2>6, <3>12 DEF Behind
  <2> QED
    BY <1>1, <2>6, <2>7, <2>9 DEF ToolPairing
<1>2. CASE ~ FromMessages
  <2>1. PICK items \in Seq(ClientItems) : items = Accepted
    BY <1>2, AcceptedIs
  <2>2. wire.messages = Applied(Responses!ConvertInputItems(items).out, restored)
    BY <1>2, <2>1 DEF WireInv, WireIs, IsSent
  <2>3. ASSUME ClientPaired
        PROVE  Paired(wire.messages)
    <3>1. Paired(AsMessages(items))
      BY <1>2, <2>1, <2>3 DEF ClientPaired
    <3>2. PICK o \in Seq(ChatMessages) : o = Responses!ConvertInputItems(items).out /\ Paired(o)
      BY <3>1, ItemsConvert
    <3>3. Paired(Applied(o, restored))
      BY <3>2, AppliedPaired
    <3> QED
      BY <2>2, <3>2, <3>3
  <2> QED
    BY <1>2, <2>3 DEF ToolPairing
<1> QED
  BY <1>1, <1>2

(***************************************************************************)
(* The tool calls in a Messages request that is sent are each answered     *)
(* once and nothing else is, whatever the client says, and so are those in *)
(* a Responses request if the client's items are so themselves.  The       *)
(* results of a Messages turn stand right behind its calls if the client   *)
(* gave all of them in the message after it; given later they are accepted *)
(* and stand later.  The pending uses that convert_messages tracks, and    *)
(* the calls that convert_input_items puts off, are exactly those without  *)
(* a result so far.                                                        *)
(***************************************************************************)
THEOREM PairsToolCalls == RequestsSpec => []ToolPairing
BY WireInvariance, PairsTools, PTL

LEMMA KeepsReasoning == WireInv => ReasoningOfEpoch
<1> SUFFICES ASSUME WireInv, FromMessages PROVE ReasoningOfEpoch
  BY DEF ReasoningOfEpoch
<1>1. PICK ms \in Seq(ClientMessages) : ms = Accepted /\ Len(ms) = sent
  BY AcceptedIs
<1>2. IsSent(Anthropic!ConvertMessages(ms).out)
  BY <1>1 DEF WireInv, WireIs
<1>3. PICK s : MessageRun(s, ms) /\ Anthropic!ConvertMessages(ms) = s[Len(ms)]
  BY ConvertMessagesRuns
<1>4. Len(ms) \in 0 .. Len(ms)
  OBVIOUS
<1>5. s[Len(ms)] \in MessageStates /\ Traced(s[Len(ms)].out, ms, Len(ms))
  BY <1>3, <1>4, MessageRunStates, MessageRunTraced
<1>6. PICK o \in Seq(ChatMessages) : o = Anthropic!ConvertMessages(ms).out /\ Traced(o, ms, Len(ms))
  BY <1>3, <1>5 DEF MessageStates
<1>7. PICK L : L = LastHuman
  OBVIOUS
<1>8. \/ L = 0 /\ \A n \in 1 .. Len(ms) : ~ IsHuman(ms[n])
      \/ /\ L \in 1 .. Len(ms) /\ IsHuman(ms[L])
         /\ \A n \in 1 .. Len(ms) : IsHuman(ms[n]) => n <= L
  BY <1>1, <1>7, LastHumanIs
<1>9. PICK w : w = Applied(o, restored)
  OBVIOUS
<1>10. wire.messages = w /\ restored \in SUBSET Restorable(o)
  BY <1>2, <1>6, <1>9 DEF IsSent
<1> DEFINE thought == {i \in Epoch : Accepted[i].thinking}
<1>11. thought = IF L = 0 THEN {} ELSE {i \in L .. Len(ms) : i > 0 /\ ms[i].thinking}
  <2>1. CASE L = 0
    BY <1>7, <2>1 DEF Epoch
  <2>2. CASE L # 0
    <3>1. L \in 1 .. Len(ms) /\ Epoch = L .. Len(ms)
      BY <1>1, <1>7, <1>8, <2>2 DEF Epoch
    <3>2. \A i \in L .. Len(ms) : i > 0
      BY <3>1
    <3> QED
      BY <1>1, <2>2, <3>1, <3>2
  <2> QED
    BY <2>1, <2>2
<1>12. Kept(o) = thought
  BY <1>6, <1>8, <1>11, ReasoningSince
<1>13. \A k \in 1 .. Len(o) : o[k].reasoning => o[k].role = "assistant"
  BY <1>6, ThinkersAre
<1>14. /\ {w[n].src : n \in {k \in DOMAIN w : w[k].reasoning}} = Kept(o) \cup {w[n].src : n \in restored}
       /\ \A k \in restored : k \in DOMAIN w /\ w[k].src = o[k].src
  BY <1>9, <1>10, <1>13, ReasoningIs
<1>15. OnWire = {w[n].src : n \in {k \in DOMAIN w : w[k].reasoning}} /\ OfShadow = {w[n].src : n \in restored}
  BY <1>10 DEF OnWire, OfShadow, SourcesOf
<1>16. OnWire = thought \cup OfShadow
  BY <1>12, <1>14, <1>15
<1>17. ASSUME NEW i \in OfShadow
       PROVE  i \in Epoch /\ ~ Accepted[i].thinking /\ Accepted[i].uses # << >>
  <2>1. PICK k \in restored : i = o[k].src
    BY <1>14, <1>15
  <2>2. L # 0 /\ i \in L .. Len(ms) /\ ~ ms[i].thinking /\ ms[i].uses # << >>
    BY <1>6, <1>8, <1>10, <2>1, RestoredSince
  <2>3. i \in Epoch
    BY <1>1, <1>7, <2>2 DEF Epoch
  <2> QED
    BY <1>1, <2>2, <2>3
<1>18. ASSUME \A i \in DOMAIN Accepted : Alike(Accepted[i])
       PROVE  thought = Anthropic!Counted(Accepted)
  <2>1. \A i \in 1 .. Len(ms) : Alike(ms[i])
    BY <1>1, <1>18
  <2>2. Anthropic!Counted(ms) = IF L = 0 THEN {} ELSE {i \in L .. Len(ms) : i > 0 /\ ms[i].thinking}
    BY <1>8, <2>1, CountedAlike
  <2> QED
    BY <1>1, <1>11, <2>2
<1> QED
  BY <1>16, <1>17, <1>18 DEF ReasoningOfEpoch

(***************************************************************************)
(* Of what a Messages client sent of thinking, strip_historical_reasoning, *)
(* which looks at converted messages, leaves that of exactly the turns     *)
(* since a human last spoke.  Whatever turns restore_into found are such   *)
(* turns, with calls and without thinking of their own, and what it gave   *)
(* them is the only other reasoning on the wire.                           *)
(* strip_anthropic_thinking, which looks at the request, keeps the same    *)
(* thinking, if no message is by the system and no text is empty; what is  *)
(* restored it never counts.                                               *)
(***************************************************************************)
THEOREM KeepsReasoningOfEpoch == RequestsSpec => []ReasoningOfEpoch
BY WireInvariance, KeepsReasoning, PTL

LEMMA StepPrefix ==
  ASSUME WireInv, [RequestsNext]_requestsVars, sent' > sent, sent > 0, ClientPaired, SameEpoch
  PROVE  \A n \in DOMAIN wire.messages : SentAgain(n)
<1>1. SendMessages \/ SendResponses
  <2>1. sent \in Nat
    BY AcceptedIs
  <2>2. sent' # sent
    BY <2>1
  <2> QED
    BY <2>2 DEF RequestsNext, requestsVars, Extend
<1>2. protocol' = protocol /\ history' = history /\ sent' = Len(history) /\ Accepted' = history
  BY <1>1, SendAccepts
<1>3. FromMessages' <=> FromMessages
  BY <1>2 DEF FromMessages
<1>4. WireIs(Accepted) /\ WireIs(Accepted)'
  BY StepWireInv DEF WireInv
<1>5. sent \in Nat /\ sent <= Len(history) /\ Len(Accepted) = sent /\ \A i \in 1 .. sent : Accepted[i] = history[i]
  BY AcceptedIs DEF WireInv
<1>6. \E a \in Seq(ChatMessages) : \E b \in Seq(ChatMessages) :
        Paired(a) /\ Begins(a, b) /\ IsSent(a) /\ IsSent(b)'
  <2>1. CASE FromMessages
    <3>1. PICK ms \in Seq(ClientMessages) : ms = Accepted
      BY <2>1, AcceptedIs
    <3>2. PICK longer \in Seq(ClientMessages) : longer = history
      BY <2>1 DEF WireInv, HistoryIs
    <3>3. /\ ~ Anthropic!Refuses(ms)
          /\ IsSent(Anthropic!ConvertMessages(ms).out)
      BY <1>4, <2>1, <3>1 DEF WireIs
    <3>4. IsSent(Anthropic!ConvertMessages(Accepted).out)'
      BY <1>3, <1>4, <2>1 DEF WireIs
    <3>5. Begins(Anthropic!ConvertMessages(ms).out, Anthropic!ConvertMessages(longer).out)
      BY <1>5, <3>1, <3>2, MessagesGrow
    <3>6. Anthropic!ConvertMessages(longer).out \in Seq(ChatMessages)
      BY MessagesGrow
    <3>7. Anthropic!ConvertMessages(ms).out \in Seq(ChatMessages) /\ Paired(Anthropic!ConvertMessages(ms).out)
      BY <3>3, MessagesPaired
    <3> QED
      BY <1>2, <3>2, <3>3, <3>4, <3>5, <3>6, <3>7 DEF IsSent
  <2>2. CASE ~ FromMessages
    <3>1. PICK items \in Seq(ClientItems) : items = Accepted
      BY <2>2, AcceptedIs
    <3>2. PICK longer \in Seq(ClientItems) : longer = history
      BY <2>2 DEF WireInv, HistoryIs
    <3>3. IsSent(Responses!ConvertInputItems(items).out)
      BY <1>4, <2>2, <3>1 DEF WireIs
    <3>4. IsSent(Responses!ConvertInputItems(Accepted).out)'
      BY <1>3, <1>4, <2>2 DEF WireIs
    <3>5. Paired(AsMessages(items))
      BY <2>2, <3>1 DEF ClientPaired
    <3>6. Begins(Responses!ConvertInputItems(items).out, Responses!ConvertInputItems(longer).out)
      BY <1>5, <3>1, <3>2, <3>5, ItemsGrow
    <3>7. Responses!ConvertInputItems(longer).out \in Seq(ChatMessages)
      BY ItemsConvert
    <3>8. /\ Responses!ConvertInputItems(items).out \in Seq(ChatMessages)
          /\ Paired(Responses!ConvertInputItems(items).out)
      BY <3>5, ItemsConvert
    <3> QED
      BY <1>2, <3>2, <3>3, <3>4, <3>6, <3>7, <3>8 DEF IsSent
  <2> QED
    BY <2>1, <2>2
<1>7. PICK a \in Seq(ChatMessages), b \in Seq(ChatMessages) :
        Paired(a) /\ Begins(a, b) /\ IsSent(a) /\ IsSent(b)'
  BY <1>6
<1>8. PICK F \in SUBSET Restorable(a) : F = restored
  BY <1>7 DEF IsSent
<1>9. PICK G \in SUBSET Restorable(b) : G = restored'
  BY <1>7 DEF IsSent
<1>10. PICK x \in Seq(ChatMessages) : x = Applied(a, F)
  BY AppliedIs
<1>11. PICK y \in Seq(ChatMessages) : y = Applied(b, G)
  BY AppliedIs
<1>12. wire.messages = x /\ wire'.messages = y
  BY <1>7, <1>8, <1>9, <1>10, <1>11 DEF IsSent
<1>13. EpochBoundary(a) = EpochBoundary(b)
  <2>1. EpochBoundary(x) = EpochBoundary(y)
    BY <1>12 DEF SameEpoch
  <2> QED
    BY <1>10, <1>11, <2>1, SameBoundary
<1>14. Len(x) <= Len(y) /\ \A n \in 1 .. Len(x) : Again(x, y, F, G, n)
  BY <1>7, <1>10, <1>11, <1>13, AppliedBegins
<1>15. ASSUME NEW n \in DOMAIN wire.messages
       PROVE  SentAgain(n)
  <2>1. n \in 1 .. Len(x) /\ n \in DOMAIN y
    BY <1>12, <1>14
  <2>2. IF (n \in F) = (n \in G) THEN y[n] = x[n] ELSE y[n] = But(x[n], n \in G)
    BY <1>14, <2>1 DEF Again
  <2>3. n \in DOMAIN wire'.messages
    BY <1>12, <2>1
  <2>4. IF (n \in restored) = (n \in restored') THEN wire'.messages[n] = wire.messages[n]
        ELSE wire'.messages[n] = But(wire.messages[n], n \in restored')
    BY <1>8, <1>9, <1>12, <2>2
  <2> QED
    BY <2>3, <2>4 DEF SentAgain
<1> QED
  BY <1>15

(***************************************************************************)
(* Within an epoch a request begins with the messages of the one before,   *)
(* but for reasoning that the shadow had for one of the two only: the      *)
(* converters only ever add to what they made of the shorter history, no   *)
(* thinking in it is stripped later, and the arguments of its calls were   *)
(* canonical when it was sent, since each call had its result by then and  *)
(* is before the last action (canonicalize_tool_arguments).  A Responses   *)
(* history is taken to have had its results by then, too.                  *)
(***************************************************************************)
THEOREM KeepsPrefix == RequestsSpec => PrefixStable
<1> DEFINE Keeps == sent' > sent /\ sent > 0 /\ ClientPaired /\ SameEpoch
                    => \A n \in DOMAIN wire.messages : SentAgain(n)
<1>1. WireInv /\ [RequestsNext]_requestsVars => [Keeps]_requestsVars
  BY StepPrefix
<1>2. [][Keeps]_requestsVars => PrefixStable
  BY DEF PrefixStable
<1> HIDE DEF Keeps
<1> QED
  BY <1>1, <1>2, WireInvariance, PTL DEF RequestsSpec

-----------------------------------------------------------------------------

(***************************************************************************)
(* Within a year of the start, the sleep until next_deadline ends exactly  *)
(* when check finds a stall: the select loop of the pumps neither wakes in *)
(* vain, which would make it spin, nor sleeps past a stall.                *)
(***************************************************************************)
THEOREM DeadlineIsStall ==
  ASSUME NEW w \in Watches, NEW limits \in Limits, w.started < Far
  PROVE  NextDeadline(w, limits) <= 0 <=> Check(w, limits) # "none"
<1>1. /\ w.started \in Nat /\ w.last_byte \in Nat /\ w.last_semantic \in Nat
      /\ \A k \in StallKinds : limits[k] \in Nat
  BY DEF Watches, Limits
<1>2. \A a, b \in Int : Smaller(a, b) \in Int /\ (Smaller(a, b) <= 0 <=> a <= 0 \/ b <= 0)
  BY DEF Smaller
<1>3. ASSUME NEW d \in Int, NEW armed \in BOOLEAN, NEW m \in Nat, NEW age \in Nat
      PROVE  /\ Sooner(d, armed, m, age) \in Int
             /\ Sooner(d, armed, m, age) <= 0 <=> d <= 0 \/ (armed /\ Reached(age, m))
  BY <1>2, <1>3 DEF Sooner, Reached
<1> DEFINE d0 == Far - w.started
           d1 == Sooner(d0, ~ w.got_first_event, limits["first_event"], w.started)
           d2 == Sooner(d1, ~ w.got_first_semantic, limits["first_semantic"], w.started)
           d3 == Sooner(d2, TRUE, limits["stream_idle"], w.last_byte)
           d4 == Sooner(d3, w.got_first_semantic, limits["semantic_idle"], w.last_semantic)
<1>4. d0 \in Int /\ ~ (d0 <= 0)
  BY <1>1, WatchAssumption
<1>5. w.got_first_event \in BOOLEAN /\ w.got_first_semantic \in BOOLEAN
  BY DEF Watches
<1> HIDE DEF d0
<1>6. /\ d1 \in Int
      /\ d1 <= 0 <=> ~ w.got_first_event /\ Reached(w.started, limits["first_event"])
  BY <1>1, <1>3, <1>4, <1>5 DEF StallKinds
<1> HIDE DEF d1
<1>7. /\ d2 \in Int
      /\ d2 <= 0 <=>
           d1 <= 0 \/ (~ w.got_first_semantic /\ Reached(w.started, limits["first_semantic"]))
  BY <1>1, <1>3, <1>5, <1>6 DEF StallKinds
<1> HIDE DEF d2
<1>8. /\ d3 \in Int
      /\ d3 <= 0 <=> d2 <= 0 \/ Reached(w.last_byte, limits["stream_idle"])
  BY <1>1, <1>3, <1>7 DEF StallKinds
<1> HIDE DEF d3
<1>9. d4 <= 0 <=>
        d3 <= 0 \/ (w.got_first_semantic /\ Reached(w.last_semantic, limits["semantic_idle"]))
  BY <1>1, <1>3, <1>5, <1>8 DEF StallKinds
<1>10. NextDeadline(w, limits) = d4
  BY DEF NextDeadline, d0, d1, d2, d3
<1> QED
  BY <1>6, <1>7, <1>8, <1>9, <1>10 DEF Check
-----------------------------------------------------------------------------

(***************************************************************************)
(* What each phase of the pump has done: nothing of the end before it is   *)
(* decided on; the outcome and the shadow when it is; the end in the       *)
(* channel, unless the client is gone, before the outcome is sent.         *)
(***************************************************************************)
Deciding == pc \in {"select", "sending"}

PhaseInv ==
  /\ Deciding => shadow = "before" /\ ~ EndWritten /\ stats = "open"
  /\ pc = "sending" => out = "bytes"
  /\ pc \in {"flushing", "closing"} => terminal # "none" /\ UpToDate
  /\ pc = "flushing" => out = "end"
  /\ pc = "closing" => EndWritten \/ client = "gone"
  /\ EndWritten => UpToDate
  /\ stats \in {"ok", "error"} => EndWritten \/ client = "gone"
  /\ recorded # "none" => EndWritten \/ client = "gone"

IInv == TypeOK /\ PhaseInv

LEMMA InitIInv == Init => IInv
<1> SUFFICES ASSUME Init PROVE IInv
  OBVIOUS
<1>1. watch \in Watches /\ watch.started <= MaxAge
  BY PumpAssumption DEF Init, Watches, NewWatch
<1>2. chan \in Seq({"bytes", "end", "finished"}) /\ Len(chan) <= Room /\ ~ EndWritten
  BY PumpAssumption DEF Init, EndWritten
<1>3. input \in Seq(Lines \cup Ends) /\ arrivals \in 0 .. MaxArrivals
  BY PumpAssumption DEF Init
<1>4. TypeOK
  BY <1>1, <1>2, <1>3 DEF Init, TypeOK
<1>5. PhaseInv
  BY <1>2 DEF Init, PhaseInv, Deciding
<1> QED
  BY <1>4, <1>5 DEF IInv

LEMMA WatchTypes ==
  ASSUME NEW w \in Watches
  PROVE  /\ OnBytes(w) \in Watches /\ OnBytes(w).started = w.started
         /\ OnEvent(w) \in Watches /\ OnEvent(w).started = w.started
         /\ OnSemantic(w) \in Watches /\ OnSemantic(w).started = w.started
BY DEF OnBytes, OnEvent, OnSemantic, Watches

LEMMA CheckKind ==
  ASSUME NEW w, NEW l
  PROVE  Check(w, l) \in {"none"} \cup StallKinds
BY DEF Check, StallKinds

LEMMA AppendFits ==
  ASSUME chan \in Seq({"bytes", "end", "finished"}), Room \in Nat,
         NEW x \in {"bytes", "end", "finished"}, HasRoom
  PROVE  /\ Append(chan, x) \in Seq({"bytes", "end", "finished"})
         /\ Len(Append(chan, x)) <= Room
BY DEF HasRoom

LEMMA StepType == IInv /\ [Next]_vars => TypeOK'
<1> SUFFICES ASSUME TypeOK, PhaseInv, [Next]_vars PROVE TypeOK'
  BY DEF IInv
<1> USE DEF TypeOK, doneVars, clientVars, inputVars, upstreamVars, Selects, Return
<1>1. CASE ClientLeft
  <2>1. inFlight' \in BOOLEAN
    BY <1>1 DEF ClientLeft
  <2> QED
    BY <1>1, <2>1 DEF ClientLeft
<1>2. CASE Ping
  <2>1. pingDue' \in BOOLEAN
    BY <1>2 DEF Ping
  <2> QED
    BY <1>2, <2>1 DEF Ping
<1>3. CASE Stall
  BY <1>3, CheckKind DEF Stall, FinishStream, Bookkeeping
<1>4. CASE Done
  <2>1. watch' \in Watches /\ watch'.started <= MaxAge
    BY <1>4, WatchTypes DEF Done
  <2>2. input' \in Seq(Lines \cup Ends)
    BY <1>4 DEF Done, Reads
  <2> QED
    BY <1>4, <2>1, <2>2 DEF Done, Reads, FinishStream, Bookkeeping, Unfinished
<1>5. ASSUME NEW line \in Lines, Line(line) PROVE TypeOK'
  <2>1. watch' \in Watches /\ watch'.started <= MaxAge
    BY <1>5, WatchTypes DEF Line, Watched
  <2>2. input' \in Seq(Lines \cup Ends)
    BY <1>5 DEF Line, Reads
  <2> QED
    BY <1>5, <2>1, <2>2 DEF Line, Reads
<1>6. ASSUME NEW end \in Ends, UpstreamEnds(end) PROVE TypeOK'
  BY <1>6 DEF UpstreamEnds, Reads, FinishStream, Bookkeeping, Unfinished
<1>7. CASE SendFails
  <2>1. inFlight' \in BOOLEAN
    BY <1>7 DEF SendFails
  <2> QED
    BY <1>7, <2>1 DEF SendFails
<1>8. CASE Send
  <2>1. chan' \in Seq({"bytes", "end", "finished"}) /\ Len(chan') <= Room
    BY <1>8, AppendFits, PumpAssumption DEF Send, PhaseInv
  <2> QED
    BY <1>8, <2>1 DEF Send
<1>9. CASE Flush
  <2>1. chan' \in Seq({"bytes", "end", "finished"}) /\ Len(chan') <= Room
    BY <1>9, AppendFits, PumpAssumption DEF Flush, PhaseInv
  <2> QED
    BY <1>9, <2>1 DEF Flush
<1>10. CASE SendFinished
  <2>1. chan' \in Seq({"bytes", "end", "finished"}) /\ Len(chan') <= Room
    BY <1>10, AppendFits, PumpAssumption DEF SendFinished
  <2>2. inFlight' \in BOOLEAN
    BY <1>10 DEF SendFinished
  <2>3. stats' \in {"open", "dropped", "ok", "error"}
    BY <1>10 DEF SendFinished, PhaseInv
  <2> QED
    BY <1>10, <2>1, <2>2, <2>3 DEF SendFinished
<1>11. CASE Record
  BY <1>11 DEF Record
<1>12. CASE ClientReads
  BY <1>12, PumpAssumption DEF ClientReads
<1>13. CASE ClientLeaves
  BY <1>13, PumpAssumption DEF ClientLeaves
<1>14. ASSUME NEW item \in Lines \cup Ends, Arrives(item) PROVE TypeOK'
  BY <1>14, PumpAssumption DEF Arrives
<1>15. CASE Tick
  <2>1. watch' \in Watches /\ watch'.started <= MaxAge
    <3>1. \A age \in Nat : Older(age) \in Nat /\ (age <= MaxAge => Older(age) <= MaxAge)
      BY PumpAssumption DEF Older
    <3> QED
      BY <1>15, <3>1 DEF Tick, Watches
  <2> QED
    BY <1>15, <2>1 DEF Tick
<1>16. CASE Ended \/ UNCHANGED vars
  BY <1>16 DEF Ended, vars
<1> QED
  BY <1>1, <1>2, <1>3, <1>4, <1>5, <1>6, <1>7, <1>8, <1>9, <1>10, <1>11, <1>12, <1>13, <1>14,
     <1>15, <1>16 DEF Next, PumpStep

(***************************************************************************)
(* How the channel changes what has been written of the end.               *)
(***************************************************************************)
LEMMA AppendWrites ==
  ASSUME TypeOK, NEW x, chan' = Append(chan, x), seenEnd' = seenEnd
  PROVE  EndWritten' <=> EndWritten \/ x = "end"
<1> USE DEF TypeOK, EndWritten
<1>1. /\ DOMAIN chan' = 1 .. Len(chan) + 1
      /\ \A n \in 1 .. Len(chan) : chan'[n] = chan[n]
      /\ chan'[Len(chan) + 1] = x
      /\ DOMAIN chan = 1 .. Len(chan) /\ Len(chan) \in Nat
  OBVIOUS
<1>2. ASSUME EndWritten \/ x = "end" PROVE EndWritten'
  BY <1>1, <1>2
<1>3. ASSUME EndWritten' PROVE EndWritten \/ x = "end"
  BY <1>1, <1>3
<1> QED
  BY <1>2, <1>3

LEMMA ReadKeepsWritten ==
  ASSUME TypeOK, ClientReads
  PROVE  EndWritten' <=> EndWritten
<1> USE DEF TypeOK, EndWritten, ClientReads
<1>1. /\ chan' = Tail(chan) /\ chan # << >>
      /\ DOMAIN chan = 1 .. Len(chan) /\ Len(chan) \in Nat \ {0}
      /\ DOMAIN chan' = 1 .. Len(chan) - 1
      /\ \A n \in 1 .. Len(chan) - 1 : chan'[n] = chan[n + 1]
      /\ Head(chan) = chan[1]
  OBVIOUS
<1>2. ASSUME EndWritten PROVE EndWritten'
  <2>1. CASE seenEnd
    BY <2>1
  <2>2. ASSUME NEW n \in DOMAIN chan, chan[n] = "end" PROVE EndWritten'
    <3>1. CASE n = 1
      BY <1>1, <2>2, <3>1
    <3>2. CASE n # 1
      <4>1. n - 1 \in DOMAIN chan' /\ chan'[n - 1] = "end"
        BY <1>1, <2>2, <3>2
      <4> QED
        BY <4>1
    <3> QED
      BY <3>1, <3>2
  <2> QED
    BY <1>2, <2>1, <2>2
<1>3. ASSUME EndWritten' PROVE EndWritten
  <2>1. CASE seenEnd'
    BY <1>1, <2>1
  <2>2. ASSUME NEW n \in DOMAIN chan', chan'[n] = "end" PROVE EndWritten
    <3>1. n + 1 \in DOMAIN chan /\ chan[n + 1] = "end"
      BY <1>1, <2>2
    <3> QED
      BY <3>1
  <2> QED
    BY <1>3, <2>1, <2>2
<1> QED
  BY <1>2, <1>3

LEMMA StepPhase == IInv /\ [Next]_vars => PhaseInv'
<1> SUFFICES ASSUME TypeOK, PhaseInv, [Next]_vars PROVE PhaseInv'
  BY DEF IInv
<1> USE DEF doneVars, clientVars, inputVars, upstreamVars, Selects, Return, Deciding
<1>1. ASSUME chan' = chan, seenEnd' = seenEnd PROVE EndWritten' <=> EndWritten
  BY <1>1 DEF EndWritten
<1>2. CASE ClientLeft
  BY <1>1, <1>2 DEF ClientLeft, PhaseInv, UpToDate
<1>3. CASE Ping
  BY <1>1, <1>3 DEF Ping, PhaseInv, UpToDate
<1>4. CASE Stall
  BY <1>1, <1>4 DEF Stall, FinishStream, Bookkeeping, PhaseInv, UpToDate
<1>5. CASE Done
  BY <1>1, <1>5 DEF Done, Reads, FinishStream, Bookkeeping, Unfinished, PhaseInv, UpToDate
<1>6. ASSUME NEW line \in Lines, Line(line) PROVE PhaseInv'
  BY <1>1, <1>6 DEF Line, Reads, PhaseInv, UpToDate
<1>7. ASSUME NEW end \in Ends, UpstreamEnds(end) PROVE PhaseInv'
  BY <1>1, <1>7 DEF UpstreamEnds, Reads, FinishStream, Bookkeeping, Unfinished, PhaseInv, UpToDate
<1>8. CASE SendFails
  BY <1>1, <1>8 DEF SendFails, PhaseInv, UpToDate
<1>9. CASE Send
  BY <1>9, AppendWrites DEF Send, PhaseInv, UpToDate
<1>10. CASE Flush
  BY <1>1, <1>10, AppendWrites DEF Flush, HasRoom, PhaseInv, UpToDate
<1>11. CASE SendFinished
  BY <1>1, <1>11, AppendWrites DEF SendFinished, PhaseInv, UpToDate
<1>12. CASE Record
  BY <1>1, <1>12 DEF Record, PhaseInv, UpToDate, TypeOK
<1>13. CASE ClientReads
  BY <1>13, ReadKeepsWritten DEF ClientReads, PhaseInv, UpToDate
<1>14. CASE ClientLeaves
  <2>1. EndWritten' => EndWritten
    BY <1>14 DEF ClientLeaves, EndWritten
  <2> QED
    BY <1>14, <2>1 DEF ClientLeaves, PhaseInv, UpToDate
<1>15. ASSUME NEW item \in Lines \cup Ends, Arrives(item) PROVE PhaseInv'
  BY <1>1, <1>15 DEF Arrives, PhaseInv, UpToDate
<1>16. CASE Tick
  BY <1>1, <1>16 DEF Tick, PhaseInv, UpToDate
<1>17. CASE Ended \/ UNCHANGED vars
  BY <1>1, <1>17 DEF Ended, vars, PhaseInv, UpToDate
<1> QED
  BY <1>2, <1>3, <1>4, <1>5, <1>6, <1>7, <1>8, <1>9, <1>10, <1>11, <1>12, <1>13, <1>14, <1>15,
     <1>16, <1>17 DEF Next, PumpStep

LEMMA Invariant == Spec => []IInv
<1>1. IInv /\ [Next]_vars => IInv'
  BY StepType, StepPhase DEF IInv
<1> QED
  BY InitIInv, <1>1, PTL DEF Spec

-----------------------------------------------------------------------------
(***************************************************************************)
(* Every variable keeps its type: the channel stays within its capacity,   *)
(* and an outcome is known when one is sent.                               *)
(***************************************************************************)
THEOREM TypeCorrect == Spec => []TypeOK
<1>1. IInv => TypeOK
  BY DEF IInv
<1> QED
  BY Invariant, <1>1, PTL

(***************************************************************************)
(* A client that has read the end of the message finds the shadow up to    *)
(* date with its next request (FinishStream, before the events are sent).  *)
(***************************************************************************)
THEOREM ShadowIsReady == Spec => []ShadowReadyAtEnd
<1>1. IInv => ShadowReadyAtEnd
  BY DEF IInv, PhaseInv, ShadowReadyAtEnd, EndWritten
<1> QED
  BY Invariant, <1>1, PTL

(***************************************************************************)
(* No outcome is recorded before the end of the message is in the client's *)
(* channel, unless the client has left (the order at the end of the pump). *)
(***************************************************************************)
THEOREM EndBeforeRecord == Spec => []RecordedAfterEnd
<1>1. IInv => RecordedAfterEnd
  BY DEF IInv, PhaseInv, RecordedAfterEnd
<1> QED
  BY Invariant, <1>1, PTL

(***************************************************************************)
(* The pump never wakes from its sleep in vain, for any limits.            *)
(***************************************************************************)
THEOREM NoSpin == Spec => []WakesToStall
<1>1. TypeOK => WakesToStall
  BY DeadlineIsStall, PumpAssumption, WatchAssumption
     DEF TypeOK, WakesToStall, DeadlinePassed, Watches
<1> QED
  BY TypeCorrect, <1>1, PTL
=============================================================================
