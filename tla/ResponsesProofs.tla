-------------------------- MODULE ResponsesProofs --------------------------
(***************************************************************************)
(* The Responses stream implements the stream of items, and its terminal   *)
(* response is what the client has assembled, for any number of tool       *)
(* calls, of calls in a chunk and of chunks.                               *)
(*                                                                         *)
(* The client is behind: a chunk writes many frames, and each is read on   *)
(* its own.  The invariant says that the unread frames are a run of the    *)
(* protocol, from the client's view to one that matches what the converter *)
(* remembers.  An action of the converter adds frames to the run's end,    *)
(* the client takes one from its beginning.                                *)
(***************************************************************************)
EXTENDS ResponsesStream, DequeProofs, SequenceTheorems

Kinds     == {"reasoning", "message", "function_call"}
Terminals == {"completed", "incomplete", "failed"}
Stages    == {"new", "created", "streaming"} \cup Terminals
Types     == {"created", "in_progress", "output_item.added", "part", "delta", "whole",
              "output_item.done"} \cup Terminals

Item    == [kind : Kinds, named : BOOLEAN, open : BOOLEAN, parts : Nat, details : Nat]
OutItem == [kind : Kinds, named : BOOLEAN, parts : Nat]
Items   == UNION {[1 .. n -> Item] : n \in Nat}
Outputs == UNION {[1 .. n -> OutItem] : n \in Nat}
Frames  == [type : Types, index : Nat, kind : {""} \cup Kinds, named : BOOLEAN,
            output : Outputs, seq : Nat]
Views   == [stage : Stages, items : Items, output : Outputs]

(***************************************************************************)
(* The client's view after it has read frame f.                            *)
(***************************************************************************)
StageAfter(v, f) ==
  IF f.type = "created" THEN "created"
  ELSE IF f.type = "in_progress" THEN "streaming"
  ELSE IF f.type \in Terminals THEN f.type
  ELSE v.stage

ItemsAfter(v, f) ==
  IF f.type = "output_item.added"
  THEN [j \in DOMAIN v.items \cup {f.index} |->
          IF j = f.index
          THEN [kind |-> f.kind, named |-> f.named, open |-> TRUE, parts |-> 0, details |-> 0]
          ELSE v.items[j]]
  ELSE IF f.type = "delta"
  THEN [i \in DOMAIN v.items |->
          [v.items[i] EXCEPT !.parts = @ + (IF i = f.index THEN 1 ELSE 0)]]
  ELSE IF f.type = "output_item.done"
  THEN [v.items EXCEPT ![f.index].open = FALSE, ![f.index].named = f.named]
  ELSE IF f.type \in {"part", "whole"}
  THEN [v.items EXCEPT ![f.index].details = @ + 1]
  ELSE v.items

Read(v, f) ==
  [stage |-> StageAfter(v, f), items |-> ItemsAfter(v, f),
   output |-> IF f.type \in Terminals THEN f.output ELSE v.output]

(***************************************************************************)
(* What the protocol allows a client with view v to read.                  *)
(***************************************************************************)
\* A terminal response has the items, and with their ids unless it failed.
Fits(answer, seen, type) ==
  /\ DOMAIN answer = DOMAIN seen
  /\ \A i \in DOMAIN seen :
       /\ answer[i].kind = seen[i].kind /\ answer[i].parts = seen[i].parts
       /\ type # "failed" => answer[i].named = seen[i].named

\* The first function call finds the message closed.
CallMayStart(seen) ==
  \/ \E i \in DOMAIN seen : seen[i].kind = "function_call"
  \/ \A i \in DOMAIN seen : seen[i].kind = "message" => ~ seen[i].open

Allowed(v, f) ==
  \/ f.type = "created" /\ v.stage = "new"
  \/ f.type = "in_progress" /\ v.stage = "created"
  \/ /\ f.type = "output_item.added" /\ v.stage = "streaming" /\ f.kind \in Kinds
     /\ f.index # 0 /\ DOMAIN v.items = 1 .. f.index - 1
     /\ f.kind = "function_call" => CallMayStart(v.items)
  \/ /\ f.type \in {"part", "whole", "output_item.done"} /\ v.stage = "streaming"
     /\ f.index \in DOMAIN v.items /\ v.items[f.index].open
  \/ /\ f.type = "delta" /\ v.stage = "streaming" /\ f.index \in DOMAIN v.items
     /\ v.items[f.index].open \/ v.items[f.index].kind = "message"
  \/ /\ f.type \in {"completed", "incomplete"} /\ v.stage = "streaming"
     /\ \A i \in DOMAIN v.items : ~ v.items[i].open
     /\ Fits(f.output, v.items, f.type)
  \/ /\ f.type = "failed" /\ v.stage \in {"new", "streaming"}
     /\ Fits(f.output, v.items, f.type)

(***************************************************************************)
(* Reading frames F one after the other leads from view v to view w.       *)
(***************************************************************************)
Reads(F, v, h, m) ==
  /\ h \in [0 .. m -> Views] /\ h[0] = v
  /\ \A n \in 1 .. m : Allowed(h[n - 1], F[n]) /\ h[n] = Read(h[n - 1], F[n])

Run(F, v, w) == \E h \in [0 .. Len(F) -> Views] : Reads(F, v, h, Len(F)) /\ h[Len(F)] = w

-----------------------------------------------------------------------------
(***************************************************************************)
(* The invariant.  Every index is given to one item, and the item and the  *)
(* entry of output_items know of each other.                               *)
(***************************************************************************)
Owners ==
  /\ reasoning.index # 0 => output_items[reasoning.index].kind = "reasoning"
  /\ message.index # 0 => output_items[message.index].kind = "message"
  /\ \A t \in DOMAIN tools :
       output_items[tools[t].index] = [kind |-> "function_call", tool |-> t]
  /\ \A i \in Given :
       /\ output_items[i].kind = "reasoning" => reasoning.index = i
       /\ output_items[i].kind = "message" => message.index = i
       /\ output_items[i].kind = "function_call" =>
            output_items[i].tool \in DOMAIN tools /\ tools[output_items[i].tool].index = i
  /\ reasoning.index # 0 => expose_thinking

\* What the converter has not given an index has had no fragment.
Fresh ==
  /\ message.index = 0 => message.parts = 0 /\ ~ message.item_done
  /\ reasoning.index = 0 /\ expose_thinking => reasoning.parts = 0
  /\ ~ reasoning.item_done
  /\ finish_reason # "none" => started

View == [stage |-> stage, items |-> items, output |-> output]

\* View w has what the converter remembers; only a message is closed early.
Shows(x, kind, parts, open) ==
  /\ x.kind = kind /\ x.parts = parts /\ x.open = open
  /\ kind # "function_call" => ~ x.named

Remembered(w) ==
  /\ DOMAIN w.items = Given
  /\ reasoning.index # 0 =>
       Shows(w.items[reasoning.index], "reasoning", reasoning.parts, ~ reasoning.item_done)
  /\ message.index # 0 =>
       Shows(w.items[message.index], "message", message.parts, ~ message.item_done)
  /\ \A t \in DOMAIN tools :
       Shows(w.items[tools[t].index], "function_call", tools[t].args, TRUE)

Matches(w) ==
  IF ended THEN w.stage \in Terminals /\ Fits(w.output, w.items, w.stage)
  ELSE w.stage = (IF started THEN "streaming" ELSE "new") /\ Remembered(w)

Numbers ==
  /\ last \in Nat /\ out \in Seq(Frames) /\ sequence = last + Len(out)
  /\ \A n \in 1 .. Len(out) : out[n].seq = last + n

Ahead == \E w \in Views : Run(out, View, w) /\ Matches(w)

IInv == TypeOK /\ Owners /\ Fresh /\ Numbers /\ View \in Views /\ Ahead

-----------------------------------------------------------------------------
(***************************************************************************)
(* Runs.                                                                   *)
(***************************************************************************)
\* The frames of the converter are frames, whatever their number.
LEMMA FrameTypes ==
  ASSUME NEW i \in Nat, NEW kind \in Kinds, NEW named \in BOOLEAN
  PROVE  /\ Added(i, kind, named) \in Frames /\ Part(i) \in Frames /\ Delta(i) \in Frames
         /\ Whole(i) \in Frames /\ Done(i, named) \in Frames
<1>1. << >> \in Outputs
  <2>1. << >> \in [1 .. 0 -> OutItem]
    OBVIOUS
  <2> QED
    BY <2>1 DEF Outputs
<1> QED
  BY <1>1 DEF Added, Part, Delta, Whole, Done, Frame, Frames, Types, Terminals

\* created and in_progress are frames.
LEMMA CreatedType == Created \in Seq(Frames)
<1>1. << >> \in Outputs
  <2>1. << >> \in [1 .. 0 -> OutItem]
    OBVIOUS
  <2> QED
    BY <2>1 DEF Outputs
<1>2. Frame("created", 0, "", FALSE) \in Frames
  BY <1>1 DEF Frame, Frames, Types
<1>3. Frame("in_progress", 0, "", FALSE) \in Frames
  BY <1>1 DEF Frame, Frames, Types
<1>4. \A f, g \in Frames : <<f, g>> \in Seq(Frames)
  OBVIOUS
<1> QED
  BY <1>2, <1>3, <1>4 DEF Created

\* What is read is a view again.
LEMMA ReadTypes ==
  ASSUME NEW v \in Views, NEW f \in Frames, Allowed(v, f)
  PROVE  Read(v, f) \in Views
<1>1. PICK n \in Nat : v.items \in [1 .. n -> Item]
  BY DEF Views, Items
<1>2. StageAfter(v, f) \in Stages
  BY DEF StageAfter, Stages, Views, Terminals
<1>3. (IF f.type \in Terminals THEN f.output ELSE v.output) \in Outputs
  BY DEF Views, Frames
<1>4. ItemsAfter(v, f) \in Items
  <2>1. f.index \in Nat /\ f.named \in BOOLEAN
    BY DEF Frames
  <2>2. DOMAIN v.items = 1 .. n /\ \A i \in 1 .. n : v.items[i] \in Item
    BY <1>1
  <2>3. CASE f.type = "output_item.added"
    <3>1. f.kind \in Kinds /\ f.index # 0 /\ DOMAIN v.items = 1 .. f.index - 1
      BY <2>3 DEF Allowed, Terminals
    <3>2. DOMAIN v.items \cup {f.index} = 1 .. f.index
      BY <2>1, <3>1
    <3>3. ItemsAfter(v, f) \in [1 .. f.index -> Item]
      BY <2>1, <2>2, <2>3, <3>1, <3>2 DEF ItemsAfter, Item
    <3> QED
      BY <2>1, <3>3 DEF Items
  <2>4. CASE f.type = "delta"
    <3>1. ItemsAfter(v, f) \in [1 .. n -> Item]
      BY <2>1, <2>2, <2>4 DEF ItemsAfter, Item
    <3> QED
      BY <3>1 DEF Items
  <2>5. CASE f.type = "output_item.done"
    <3>1. f.index \in 1 .. n
      BY <2>2, <2>5 DEF Allowed, Terminals
    <3>2. [v.items EXCEPT ![f.index].open = FALSE, ![f.index].named = f.named]
            \in [1 .. n -> Item]
      BY <1>1, <2>1, <3>1 DEF Item
    <3> QED
      BY <2>5, <3>2 DEF Items, ItemsAfter
  <2>6. CASE f.type \in {"part", "whole"}
    <3>1. f.index \in 1 .. n
      BY <2>2, <2>6 DEF Allowed, Terminals
    <3>2. [v.items EXCEPT ![f.index].details = @ + 1] \in [1 .. n -> Item]
      BY <1>1, <2>1, <3>1 DEF Item
    <3> QED
      BY <2>6, <3>2 DEF Items, ItemsAfter
  <2> QED
    BY <1>1, <2>3, <2>4, <2>5, <2>6 DEF Items, ItemsAfter
<1> QED
  BY <1>2, <1>3, <1>4 DEF Read, Views

\* Reading nothing leaves the view,
LEMMA RunEmpty ==
  ASSUME NEW v \in Views
  PROVE  Run(<< >>, v, v)
<1> DEFINE h == [n \in 0 .. 0 |-> v]
<1>1. h \in [0 .. 0 -> Views] /\ h[0] = v
  OBVIOUS
<1>2. Reads(<< >>, v, h, 0)
  BY <1>1 DEF Reads
<1>3. Len(<< >>) = 0
  OBVIOUS
<1> HIDE DEF h
<1> QED
  BY <1>1, <1>2, <1>3 DEF Run

\* and leads to no other one.
LEMMA RunNothing ==
  ASSUME NEW v, NEW w, Run(<< >>, v, w)
  PROVE  v = w
<1>1. Len(<< >>) = 0
  OBVIOUS
<1> QED
  BY <1>1 DEF Run, Reads

\* One frame that is allowed is a run.
LEMMA RunOne ==
  ASSUME NEW v \in Views, NEW f \in Frames, Allowed(v, f)
  PROVE  /\ Read(v, f) \in Views
         /\ Run(<<f>>, v, Read(v, f))
<1>1. Read(v, f) \in Views
  BY ReadTypes
<1> DEFINE w == Read(v, f)
<1> HIDE DEF w
<1> DEFINE h == [n \in 0 .. 1 |-> IF n = 0 THEN v ELSE w]
<1>2. h \in [0 .. 1 -> Views] /\ h[0] = v /\ h[1] = w
  BY <1>1 DEF w
<1>3. Len(<<f>>) = 1 /\ <<f>>[1] = f
  OBVIOUS
<1> HIDE DEF h
<1>4. Reads(<<f>>, v, h, 1)
  <2> SUFFICES ASSUME NEW n \in 1 .. 1
               PROVE  Allowed(h[n - 1], <<f>>[n]) /\ h[n] = Read(h[n - 1], <<f>>[n])
    BY <1>2 DEF Reads
  <2>1. n = 1 /\ n - 1 = 0
    OBVIOUS
  <2>2. Allowed(h[0], <<f>>[1]) /\ h[1] = Read(h[0], <<f>>[1])
    BY <1>2, <1>3 DEF w
  <2> QED
    BY <2>1, <2>2
<1> QED
  BY <1>1, <1>2, <1>3, <1>4 DEF Run, w

\* One run after the other.
LEMMA RunConcat ==
  ASSUME NEW F \in Seq(Frames), NEW G \in Seq(Frames), NEW u, NEW v, NEW w,
         Run(F, u, v), Run(G, v, w)
  PROVE  Run(F \o G, u, w)
<1> DEFINE l == Len(F)
           k == Len(G)
           s == F \o G
<1>1. l \in Nat /\ k \in Nat
  OBVIOUS
<1>2. /\ Len(s) = l + k
      /\ \A i \in 1 .. l + k : s[i] = IF i <= l THEN F[i] ELSE G[i - l]
  BY ConcatProperties
<1>3. PICK g \in [0 .. l -> Views] : Reads(F, u, g, l) /\ g[l] = v
  BY DEF Run
<1>4. PICK h \in [0 .. k -> Views] : Reads(G, v, h, k) /\ h[k] = w
  BY DEF Run
<1> HIDE DEF l, k, s
<1> DEFINE p == [n \in 0 .. l + k |-> IF n <= l THEN g[n] ELSE h[n - l]]
<1>5. /\ p \in [0 .. l + k -> Views] /\ p[0] = u
      /\ \A n \in 0 .. l : p[n] = g[n]
      /\ \A n \in 0 .. k : p[l + n] = h[n]
  <2>1. g[l] = h[0] /\ g[0] = u
    BY <1>3, <1>4 DEF Reads
  <2>2. \A n \in 0 .. l + k : p[n] \in Views
    BY <1>1, <1>3, <1>4
  <2>3. ASSUME NEW n \in 0 .. k
        PROVE  p[l + n] = h[n]
    <3>1. l + n \in 0 .. l + k /\ (l + n) - l = n /\ (l + n <= l <=> n = 0) /\ (n = 0 => l + n = l)
      BY <1>1
    <3>2. p[l + n] = IF l + n <= l THEN g[l + n] ELSE h[(l + n) - l]
      BY <3>1
    <3> HIDE DEF p
    <3>3. CASE n = 0
      BY <2>1, <3>1, <3>2, <3>3
    <3>4. CASE n # 0
      BY <3>1, <3>2, <3>4
    <3> QED
      BY <3>3, <3>4
  <2>4. 0 \in 0 .. l + k /\ \A n \in 0 .. l : n \in 0 .. l + k /\ n <= l
    BY <1>1
  <2>5. p[0] = u /\ \A n \in 0 .. l : p[n] = g[n]
    BY <1>1, <2>1, <2>4
  <2>6. p \in [0 .. l + k -> Views]
    BY <2>2
  <2> QED
    BY <2>3, <2>5, <2>6
<1> HIDE DEF p
<1>6. Reads(s, u, p, l + k)
  <2> SUFFICES ASSUME NEW n \in 1 .. l + k
               PROVE  Allowed(p[n - 1], s[n]) /\ p[n] = Read(p[n - 1], s[n])
    BY <1>5 DEF Reads
  <2>1. CASE n <= l
    <3>1. n \in 1 .. l /\ n - 1 \in 0 .. l /\ n \in 0 .. l
      BY <1>1, <2>1
    <3>2. s[n] = F[n] /\ p[n] = g[n] /\ p[n - 1] = g[n - 1]
      BY <1>2, <1>5, <2>1, <3>1
    <3> QED
      BY <1>3, <3>1, <3>2 DEF Reads
  <2>2. CASE ~ (n <= l)
    <3> DEFINE j == n - l
    <3>1. j \in 1 .. k /\ j - 1 \in 0 .. k /\ j \in 0 .. k /\ l + j = n /\ l + (j - 1) = n - 1
      BY <1>1, <2>2
    <3>2. s[n] = G[j]
      BY <1>2, <2>2
    <3> HIDE DEF j
    <3>3. p[n] = h[j] /\ p[n - 1] = h[j - 1]
      BY <1>5, <3>1
    <3> QED
      BY <1>4, <3>1, <3>2, <3>3 DEF Reads
  <2> QED
    BY <2>1, <2>2
<1>7. p[l + k] = w
  BY <1>1, <1>4, <1>5
<1> QED
  BY <1>2, <1>5, <1>6, <1>7 DEF Run, s

\* The first frame of a run.
LEMMA RunHead ==
  ASSUME NEW F \in Seq(Frames), F # << >>, NEW v, NEW w, Run(F, v, w)
  PROVE  /\ Head(F) \in Frames /\ Allowed(v, Head(F)) /\ Read(v, Head(F)) \in Views
         /\ Tail(F) \in Seq(Frames) /\ Run(Tail(F), Read(v, Head(F)), w)
<1> DEFINE l == Len(F)
<1>1. /\ Head(F) = F[1] /\ Head(F) \in Frames /\ l \in Nat \ {0}
      /\ Tail(F) \in Seq(Frames) /\ Len(Tail(F)) = l - 1
      /\ \A i \in 1 .. l - 1 : Tail(F)[i] = F[i + 1]
  BY HeadTailProperties, EmptySeq
<1>2. PICK g \in [0 .. l -> Views] : Reads(F, v, g, l) /\ g[l] = w
  BY DEF Run
<1> HIDE DEF l
<1>3. Allowed(v, Head(F)) /\ g[1] = Read(v, Head(F)) /\ g[1] \in Views
  <2>1. 1 \in 1 .. l /\ 1 \in 0 .. l /\ 1 - 1 = 0
    BY <1>1
  <2>2. g[0] = v /\ Allowed(g[1 - 1], F[1]) /\ g[1] = Read(g[1 - 1], F[1])
    BY <1>2, <2>1 DEF Reads
  <2> QED
    BY <1>1, <1>2, <2>1, <2>2
<1> DEFINE p == [n \in 0 .. l - 1 |-> g[n + 1]]
<1>4. /\ p \in [0 .. l - 1 -> Views] /\ p[0] = g[1] /\ p[l - 1] = w
      /\ \A n \in 0 .. l - 1 : p[n] = g[n + 1]
  BY <1>1, <1>2
<1> HIDE DEF p
<1>5. Reads(Tail(F), g[1], p, l - 1)
  <2> SUFFICES ASSUME NEW n \in 1 .. l - 1
               PROVE  Allowed(p[n - 1], Tail(F)[n]) /\ p[n] = Read(p[n - 1], Tail(F)[n])
    BY <1>4 DEF Reads
  <2>1. n + 1 \in 1 .. l /\ n - 1 \in 0 .. l - 1 /\ n \in 0 .. l - 1
    BY <1>1
  <2>2. p[n - 1] = g[n] /\ p[n] = g[n + 1] /\ Tail(F)[n] = F[n + 1]
    BY <1>1, <1>4, <2>1
  <2>3. Allowed(g[(n + 1) - 1], F[n + 1]) /\ g[n + 1] = Read(g[(n + 1) - 1], F[n + 1])
    BY <1>2, <2>1 DEF Reads
  <2>4. (n + 1) - 1 = n
    OBVIOUS
  <2> QED
    BY <2>2, <2>3, <2>4
<1> QED
  BY <1>1, <1>3, <1>4, <1>5 DEF Run

\* A run of frames, each of which leads from one set of views to the next.
LEMMA RunAlong ==
  ASSUME NEW F \in Seq(Frames), NEW J, NEW v \in Views, v \in J[0],
         \A n \in 1 .. Len(F) : \A x \in Views :
            x \in J[n - 1] => Allowed(x, F[n]) /\ Read(x, F[n]) \in J[n]
  PROVE  \E w \in Views : Run(F, v, w) /\ w \in J[Len(F)]
<1> DEFINE l == Len(F)
           Good(m) == \E h \in [0 .. m -> Views] : Reads(F, v, h, m) /\ h[m] \in J[m]
           T == {m \in 0 .. l : ~ Good(m)}
<1>1. l \in Nat
  OBVIOUS
<1> SUFFICES ASSUME T # {}
             PROVE  FALSE
  <2>1. Good(l)
    BY <1>1
  <2> QED
    BY <2>1 DEF Run
<1>2. PICK m \in T : \A k \in T : m <= k
  <2>1. T \in SUBSET Nat
    BY <1>1
  <2> HIDE DEF T
  <2> QED
    BY <2>1, LeastNatural
<1>3. m \in 0 .. l /\ ~ Good(m)
  OBVIOUS
<1>4. m # 0
  <2> DEFINE h == [n \in 0 .. 0 |-> v]
  <2>1. h \in [0 .. 0 -> Views] /\ h[0] = v
    OBVIOUS
  <2> HIDE DEF h
  <2>2. Reads(F, v, h, 0)
    BY <2>1 DEF Reads
  <2>3. Good(0)
    BY <2>1, <2>2
  <2> QED
    BY <1>3, <2>3
<1> DEFINE k == m - 1
<1>5. k \in 0 .. l /\ k + 1 = m /\ k \in Nat /\ m \in 1 .. l /\ ~ (m <= k)
  BY <1>1, <1>3, <1>4
<1>6. Good(k)
  <2>1. k \notin T
    <3> HIDE DEF T, k
    <3> QED
      BY <1>2, <1>5
  <2> QED
    BY <1>5, <2>1
<1> HIDE DEF T, k
<1>7. PICK h \in [0 .. k -> Views] : Reads(F, v, h, k) /\ h[k] \in J[k]
  BY <1>6
<1>8. PICK x \in Views : x = h[k]
  BY <1>5, <1>7
<1>9. F[m] \in Frames /\ Allowed(x, F[m]) /\ Read(x, F[m]) \in J[m]
  <2>1. m - 1 = k /\ l = Len(F)
    BY <1>5
  <2> QED
    BY <1>5, <1>7, <1>8, <2>1
<1>10. PICK y \in Views : y = Read(x, F[m])
  BY <1>9, ReadTypes
<1> DEFINE p == [n \in 0 .. m |-> IF n = m THEN y ELSE h[n]]
<1>11. /\ p \in [0 .. m -> Views] /\ p[m] = y /\ p[0] = v /\ p[k] = x
       /\ \A n \in 0 .. k : p[n] = h[n]
  <2>1. h[0] = v
    BY <1>7 DEF Reads
  <2>2. \A n \in 0 .. k : n \in 0 .. m /\ n # m
    BY <1>5
  <2>3. \A n \in 0 .. m : n # m => n \in 0 .. k
    BY <1>5
  <2>4. 0 \in 0 .. k /\ k \in 0 .. k /\ m \in 0 .. m
    BY <1>5
  <2> QED
    BY <1>8, <2>1, <2>2, <2>3, <2>4
<1> HIDE DEF p
<1>12. Reads(F, v, p, m)
  <2> SUFFICES ASSUME NEW n \in 1 .. m
               PROVE  Allowed(p[n - 1], F[n]) /\ p[n] = Read(p[n - 1], F[n])
    BY <1>11 DEF Reads
  <2>1. CASE n = m
    <3>1. n - 1 = k
      BY <1>5, <2>1
    <3> QED
      BY <1>9, <1>10, <1>11, <2>1, <3>1
  <2>2. CASE n # m
    <3>1. n \in 1 .. k /\ n - 1 \in 0 .. k /\ n \in 0 .. k
      BY <1>5, <2>2
    <3> QED
      BY <1>7, <1>11, <3>1 DEF Reads
  <2> QED
    BY <2>1, <2>2
<1>13. Good(m)
  BY <1>9, <1>10, <1>11, <1>12
<1> QED
  BY <1>3, <1>13

\* The number of a frame does not matter to who reads it.
SameFrame(g, f) ==
  /\ g.type = f.type /\ g.index = f.index /\ g.kind = f.kind
  /\ g.named = f.named /\ g.output = f.output

\* emit only numbers the frames: the same run can be read.
LEMMA RunNumbered ==
  ASSUME NEW F \in Seq(Frames), NEW G \in Seq(Frames), Len(G) = Len(F),
         \A n \in 1 .. Len(F) : SameFrame(G[n], F[n]),
         NEW v, NEW w, Run(F, v, w)
  PROVE  Run(G, v, w)
<1>1. ASSUME NEW f, NEW g, SameFrame(g, f), NEW x
      PROVE  (Allowed(x, f) <=> Allowed(x, g)) /\ Read(x, f) = Read(x, g)
  <2>1. Allowed(x, f) <=> Allowed(x, g)
    BY <1>1 DEF Allowed, SameFrame
  <2>2. Read(x, f) = Read(x, g)
    BY <1>1 DEF Read, StageAfter, ItemsAfter, SameFrame
  <2> QED
    BY <2>1, <2>2
<1> DEFINE l == Len(F)
<1>2. PICK h \in [0 .. l -> Views] : Reads(F, v, h, l) /\ h[l] = w
  BY DEF Run
<1>3. Reads(G, v, h, l)
  <2> SUFFICES ASSUME NEW n \in 1 .. l
               PROVE  Allowed(h[n - 1], G[n]) /\ h[n] = Read(h[n - 1], G[n])
    BY <1>2 DEF Reads
  <2>1. Allowed(h[n - 1], F[n]) /\ h[n] = Read(h[n - 1], F[n])
    BY <1>2 DEF Reads
  <2>2. SameFrame(G[n], F[n])
    OBVIOUS
  <2> QED
    BY <1>1, <2>1, <2>2
<1> QED
  BY <1>2, <1>3 DEF Run

-----------------------------------------------------------------------------
(***************************************************************************)
(* What one frame does to the view.                                        *)
(***************************************************************************)
Opened(kind, named) ==
  [kind |-> kind, named |-> named, open |-> TRUE, parts |-> 0, details |-> 0]

\* Items that differ in their parts and repetitions at most.
Alike(x, y) ==
  x.kind = y.kind /\ x.named = y.named /\ x.open = y.open /\ x.parts = y.parts

\* The items of a view are numbered from 1.
LEMMA ViewTypes ==
  ASSUME NEW v \in Views
  PROVE  \E n \in Nat : v.items \in [1 .. n -> Item]
BY DEF Views, Items

\* output_item.added puts the item behind the others.
LEMMA AfterAdded ==
  ASSUME NEW v \in Views, v.stage = "streaming",
         NEW i \in Nat \ {0}, DOMAIN v.items = 1 .. i - 1,
         NEW kind \in Kinds, NEW named,
         kind = "function_call" => CallMayStart(v.items),
         NEW w, w = Read(v, Added(i, kind, named))
  PROVE  /\ Allowed(v, Added(i, kind, named))
         /\ w.stage = "streaming" /\ DOMAIN w.items = 1 .. i
         /\ w.items[i] = Opened(kind, named)
         /\ \A j \in 1 .. i - 1 : w.items[j] = v.items[j]
<1> DEFINE f == Added(i, kind, named)
<1>1. /\ f.type = "output_item.added" /\ f.index = i /\ f.kind = kind /\ f.named = named
  BY DEF Added, Frame
<1> HIDE DEF f
<1>2. Allowed(v, f)
  BY <1>1 DEF Allowed
<1>3. StageAfter(v, f) = "streaming"
  BY <1>1 DEF StageAfter, Terminals
<1> DEFINE t == [j \in DOMAIN v.items \cup {i} |->
                   IF j = i THEN Opened(kind, named) ELSE v.items[j]]
<1>4. ItemsAfter(v, f) = t
  BY <1>1 DEF ItemsAfter, Opened
<1>5. DOMAIN t = 1 .. i /\ t[i] = Opened(kind, named) /\ \A j \in 1 .. i - 1 : t[j] = v.items[j]
  OBVIOUS
<1>6. w.stage = StageAfter(v, f) /\ w.items = ItemsAfter(v, f)
  BY DEF Read, f
<1> HIDE DEF t
<1> QED
  BY <1>2, <1>3, <1>4, <1>5, <1>6 DEF f

\* A part that begins, or a whole text, leaves all but the repetitions.
LEMMA AfterDetail ==
  ASSUME NEW v \in Views, v.stage = "streaming",
         NEW i \in DOMAIN v.items, v.items[i].open,
         NEW f \in {Part(i), Whole(i)},
         NEW w, w = Read(v, f)
  PROVE  /\ Allowed(v, f)
         /\ w.stage = "streaming" /\ DOMAIN w.items = DOMAIN v.items
         /\ \A j \in DOMAIN v.items : Alike(w.items[j], v.items[j])
<1>1. f.type \in {"part", "whole"} /\ f.index = i
  <2>1. CASE f = Part(i)
    BY <2>1 DEF Part, Frame
  <2>2. CASE f = Whole(i)
    BY <2>2 DEF Whole, Frame
  <2> QED
    BY <2>1, <2>2
<1>2. Allowed(v, f)
  BY <1>1 DEF Allowed
<1>3. StageAfter(v, f) = "streaming"
  BY <1>1 DEF StageAfter, Terminals
<1> DEFINE t == [v.items EXCEPT ![i].details = @ + 1]
<1>4. ItemsAfter(v, f) = t
  BY <1>1 DEF ItemsAfter
<1>5. DOMAIN t = DOMAIN v.items /\ \A j \in DOMAIN v.items : Alike(t[j], v.items[j])
  <2>1. PICK n \in Nat : v.items \in [1 .. n -> Item]
    BY ViewTypes
  <2> QED
    BY <2>1 DEF Alike, Item
<1>6. w.stage = StageAfter(v, f) /\ w.items = ItemsAfter(v, f)
  BY DEF Read
<1> HIDE DEF t
<1> QED
  BY <1>2, <1>3, <1>4, <1>5, <1>6

\* A fragment is counted at its item.
LEMMA AfterDelta ==
  ASSUME NEW v \in Views, v.stage = "streaming",
         NEW i \in DOMAIN v.items, v.items[i].open \/ v.items[i].kind = "message",
         NEW w, w = Read(v, Delta(i))
  PROVE  /\ Allowed(v, Delta(i))
         /\ w.stage = "streaming" /\ DOMAIN w.items = DOMAIN v.items
         /\ \A j \in DOMAIN v.items \ {i} : Alike(w.items[j], v.items[j])
         /\ \A j \in DOMAIN v.items :
              /\ w.items[j].kind = v.items[j].kind /\ w.items[j].named = v.items[j].named
              /\ w.items[j].open = v.items[j].open
         /\ w.items[i].parts = v.items[i].parts + 1
<1> DEFINE f == Delta(i)
<1>1. f.type = "delta" /\ f.index = i
  BY DEF Delta, Frame
<1> HIDE DEF f
<1>2. Allowed(v, f)
  BY <1>1 DEF Allowed
<1>3. StageAfter(v, f) = "streaming"
  BY <1>1 DEF StageAfter, Terminals
<1> DEFINE t == [j \in DOMAIN v.items |->
                   [v.items[j] EXCEPT !.parts = @ + (IF j = i THEN 1 ELSE 0)]]
<1>4. ItemsAfter(v, f) = t
  BY <1>1 DEF ItemsAfter
<1>5. PICK n \in Nat : v.items \in [1 .. n -> Item]
  BY ViewTypes
<1>6. ASSUME NEW j \in DOMAIN v.items
      PROVE  /\ t[j].kind = v.items[j].kind /\ t[j].named = v.items[j].named
             /\ t[j].open = v.items[j].open
             /\ t[j].parts = v.items[j].parts + (IF j = i THEN 1 ELSE 0)
             /\ v.items[j].parts \in Nat
  <2>1. v.items[j] \in Item
    BY <1>5
  <2>2. t[j] = [v.items[j] EXCEPT !.parts = @ + (IF j = i THEN 1 ELSE 0)]
    OBVIOUS
  <2> HIDE DEF t
  <2> QED
    BY <2>1, <2>2 DEF Item
<1>7. DOMAIN t = DOMAIN v.items
  OBVIOUS
<1>8. w.stage = StageAfter(v, f) /\ w.items = ItemsAfter(v, f)
  BY DEF Read, f
<1> HIDE DEF t
<1>9. w.items = t
  BY <1>4, <1>8
<1>10. \A j \in DOMAIN v.items \ {i} : Alike(t[j], v.items[j])
  BY <1>6 DEF Alike
<1>11. t[i].parts = v.items[i].parts + 1
  BY <1>6
<1> QED
  BY <1>2, <1>3, <1>6, <1>7, <1>8, <1>9, <1>10, <1>11 DEF f

\* output_item.done closes its item and gives it its final ids.
LEMMA AfterDone ==
  ASSUME NEW v \in Views, v.stage = "streaming",
         NEW i \in DOMAIN v.items, v.items[i].open, NEW named,
         NEW w, w = Read(v, Done(i, named))
  PROVE  /\ Allowed(v, Done(i, named))
         /\ w.stage = "streaming" /\ DOMAIN w.items = DOMAIN v.items
         /\ \A j \in DOMAIN v.items \ {i} : w.items[j] = v.items[j]
         /\ w.items[i].kind = v.items[i].kind /\ w.items[i].parts = v.items[i].parts
         /\ ~ w.items[i].open /\ w.items[i].named = named
<1> DEFINE f == Done(i, named)
<1>1. f.type = "output_item.done" /\ f.index = i /\ f.named = named
  BY DEF Done, Frame
<1> HIDE DEF f
<1>2. Allowed(v, f)
  BY <1>1 DEF Allowed
<1>3. StageAfter(v, f) = "streaming"
  BY <1>1 DEF StageAfter, Terminals
<1> DEFINE t == [v.items EXCEPT ![i].open = FALSE, ![i].named = named]
<1>4. ItemsAfter(v, f) = t
  BY <1>1 DEF ItemsAfter
<1>5. PICK n \in Nat : v.items \in [1 .. n -> Item]
  BY ViewTypes
<1>6. DOMAIN t = DOMAIN v.items /\ \A j \in DOMAIN v.items \ {i} : t[j] = v.items[j]
  BY <1>5
<1>7. /\ t[i].kind = v.items[i].kind /\ t[i].parts = v.items[i].parts
      /\ ~ t[i].open /\ t[i].named = named
  BY <1>5 DEF Item
<1>8. w.stage = StageAfter(v, f) /\ w.items = ItemsAfter(v, f)
  BY DEF Read, f
<1> HIDE DEF t
<1> QED
  BY <1>2, <1>3, <1>4, <1>6, <1>7, <1>8 DEF f

-----------------------------------------------------------------------------
\* Two frames in a row.
LEMMA PairIsConcat ==
  ASSUME NEW f \in Frames, NEW g \in Frames
  PROVE  <<f>> \o <<g>> = <<f, g>>
<1> DEFINE p == <<f>>
           q == <<g>>
           r == <<f, g>>
<1>1. /\ p \in Seq(Frames) /\ q \in Seq(Frames) /\ r \in Seq(Frames)
      /\ Len(p) = 1 /\ Len(q) = 1 /\ Len(r) = 2
      /\ p[1] = f /\ q[1] = g /\ r[1] = f /\ r[2] = g
  OBVIOUS
<1> HIDE DEF p, q, r
<1>2. /\ p \o q \in Seq(Frames) /\ Len(p \o q) = 1 + 1
      /\ \A i \in 1 .. 1 + 1 : (p \o q)[i] = IF i <= 1 THEN p[i] ELSE q[i - 1]
  BY <1>1, ConcatProperties
<1>3. (p \o q)[1] = f /\ (p \o q)[2] = g
  BY <1>1, <1>2
<1>4. \A i \in 1 .. 2 : (p \o q)[i] = r[i]
  <2>1. \A i \in 1 .. 2 : i = 1 \/ i = 2
    OBVIOUS
  <2> QED
    BY <1>1, <1>3, <2>1
<1>5. p \o q = r
  BY <1>1, <1>2, <1>4, SeqEqual
<1> QED
  BY <1>5 DEF p, q, r

\* Three frames in a row.
LEMMA TripleIsConcat ==
  ASSUME NEW f \in Frames, NEW g \in Frames, NEW h \in Frames
  PROVE  <<f, g>> \o <<h>> = <<f, g, h>>
<1> DEFINE p == <<f, g>>
           q == <<h>>
           r == <<f, g, h>>
<1>1. /\ p \in Seq(Frames) /\ q \in Seq(Frames) /\ r \in Seq(Frames)
      /\ Len(p) = 2 /\ Len(q) = 1 /\ Len(r) = 3
      /\ p[1] = f /\ p[2] = g /\ q[1] = h /\ r[1] = f /\ r[2] = g /\ r[3] = h
  OBVIOUS
<1> HIDE DEF p, q, r
<1>2. /\ p \o q \in Seq(Frames) /\ Len(p \o q) = 2 + 1
      /\ \A i \in 1 .. 2 + 1 : (p \o q)[i] = IF i <= 2 THEN p[i] ELSE q[i - 2]
  <2>1. /\ p \o q \in Seq(Frames) /\ Len(p \o q) = Len(p) + Len(q)
        /\ \A i \in 1 .. Len(p) + Len(q) :
             (p \o q)[i] = IF i <= Len(p) THEN p[i] ELSE q[i - Len(p)]
    BY <1>1, ConcatProperties
  <2> QED
    BY <1>1, <2>1
<1>3. (p \o q)[1] = f /\ (p \o q)[2] = g /\ (p \o q)[3] = h
  BY <1>1, <1>2
<1>4. \A i \in 1 .. 3 : (p \o q)[i] = r[i]
  <2>1. \A i \in 1 .. 3 : i = 1 \/ i = 2 \/ i = 3
    OBVIOUS
  <2> QED
    BY <1>1, <1>3, <2>1
<1>5. p \o q = r
  BY <1>1, <1>2, <1>4, SeqEqual
<1> QED
  BY <1>5 DEF p, q, r

(***************************************************************************)
(* What the frames of one operation do to the view.                        *)
(***************************************************************************)
\* The beginning of the response.
LEMMA BeginRun ==
  ASSUME NEW v \in Views, v.stage = "new"
  PROVE  \E w \in Views : /\ Run(Created, v, w)
                          /\ w.stage = "streaming" /\ w.items = v.items
<1> DEFINE f == Frame("created", 0, "", FALSE)
           g == Frame("in_progress", 0, "", FALSE)
<1>1. << >> \in Outputs
  <2>1. << >> \in [1 .. 0 -> OutItem]
    OBVIOUS
  <2> QED
    BY <2>1 DEF Outputs
<1>2. f \in Frames /\ f.type = "created"
  BY <1>1 DEF Frame, Frames, Types
<1>3. g \in Frames /\ g.type = "in_progress"
  BY <1>1 DEF Frame, Frames, Types
<1>4. Created = <<f>> \o <<g>>
  <2>1. Created = <<f, g>>
    BY DEF Created
  <2> HIDE DEF f, g
  <2> QED
    BY <1>2, <1>3, <2>1, PairIsConcat
<1> HIDE DEF f, g
<1> DEFINE u == Read(v, f)
           w == Read(u, g)
<1>5. Allowed(v, f) /\ u.stage = "created" /\ u.items = v.items
  BY <1>2 DEF Allowed, Read, StageAfter, ItemsAfter, Terminals
<1>6. u \in Views /\ Run(<<f>>, v, u)
  BY <1>2, <1>5, RunOne
<1> HIDE DEF u
<1>7. Allowed(u, g) /\ w.stage = "streaming" /\ w.items = u.items
  BY <1>3, <1>5 DEF Allowed, Read, StageAfter, ItemsAfter, Terminals
<1>8. w \in Views /\ Run(<<g>>, u, w)
  BY <1>3, <1>6, <1>7, RunOne
<1> HIDE DEF w
<1>9. <<f>> \in Seq(Frames) /\ <<g>> \in Seq(Frames)
  BY <1>2, <1>3
<1>10. Run(Created, v, w)
  BY <1>4, <1>6, <1>8, <1>9, RunConcat
<1> QED
  BY <1>5, <1>7, <1>8, <1>10

\* A new item of text: it is added and its part begins.
LEMMA OpenRun ==
  ASSUME NEW v \in Views, v.stage = "streaming",
         NEW i \in Nat \ {0}, DOMAIN v.items = 1 .. i - 1,
         NEW kind \in Kinds, kind # "function_call"
  PROVE  \E w \in Views : /\ Run(<<Added(i, kind, FALSE), Part(i)>>, v, w)
                          /\ w.stage = "streaming" /\ DOMAIN w.items = 1 .. i
                          /\ \A j \in 1 .. i - 1 : Alike(w.items[j], v.items[j])
                          /\ Alike(w.items[i], Opened(kind, FALSE))
<1>0. PICK no \in BOOLEAN : no = FALSE
  OBVIOUS
<1> DEFINE f == Added(i, kind, no)
           g == Part(i)
<1>1. f \in Frames /\ g \in Frames
  BY FrameTypes
<1> DEFINE u == Read(v, f)
<1>2. /\ Allowed(v, f) /\ u.stage = "streaming" /\ DOMAIN u.items = 1 .. i
      /\ u.items[i] = Opened(kind, no)
      /\ \A j \in 1 .. i - 1 : u.items[j] = v.items[j]
  <2>1. PICK y : y = no
    OBVIOUS
  <2>2. PICK x : x = Read(v, Added(i, kind, y))
    OBVIOUS
  <2>3. /\ Allowed(v, Added(i, kind, y)) /\ x.stage = "streaming" /\ DOMAIN x.items = 1 .. i
        /\ x.items[i] = Opened(kind, y)
        /\ \A j \in 1 .. i - 1 : x.items[j] = v.items[j]
    BY <2>2, AfterAdded
  <2>4. x = u
    BY <2>1, <2>2
  <2> QED
    BY <2>1, <2>3, <2>4
<1>3. u \in Views /\ Run(<<f>>, v, u)
  <2> HIDE DEF f, u
  <2> QED
    BY <1>1, <1>2, RunOne DEF u
<1> HIDE DEF u
<1> DEFINE w == Read(u, g)
<1>4. i \in DOMAIN u.items /\ u.items[i].open
  BY <1>2 DEF Opened
<1>5. /\ Allowed(u, g) /\ w.stage = "streaming" /\ DOMAIN w.items = DOMAIN u.items
      /\ \A j \in DOMAIN u.items : Alike(w.items[j], u.items[j])
  BY <1>2, <1>3, <1>4, AfterDetail
<1>6. w \in Views /\ Run(<<g>>, u, w)
  <2> HIDE DEF g, w
  <2> QED
    BY <1>1, <1>3, <1>5, RunOne DEF w
<1> HIDE DEF w
<1>7. Run(<<f>> \o <<g>>, v, w)
  <2> HIDE DEF f, g
  <2>1. <<f>> \in Seq(Frames) /\ <<g>> \in Seq(Frames)
    BY <1>1
  <2> QED
    BY <1>3, <1>6, <2>1, RunConcat
<1>8. <<f>> \o <<g>> = <<Added(i, kind, FALSE), Part(i)>>
  <2> HIDE DEF f, g
  <2>1. <<f>> \o <<g>> = <<f, g>>
    BY <1>1, PairIsConcat
  <2> QED
    BY <1>0, <2>1 DEF f, g
<1> HIDE DEF f, g
<1>9. /\ \A j \in 1 .. i - 1 : Alike(w.items[j], v.items[j])
      /\ Alike(w.items[i], Opened(kind, FALSE))
  <2>1. \A j \in 1 .. i - 1 : j \in DOMAIN u.items
    BY <1>2
  <2> QED
    BY <1>0, <1>2, <1>4, <1>5, <2>1
<1> QED
  BY <1>2, <1>5, <1>6, <1>7, <1>8, <1>9

\* An item of text is closed: its text is repeated twice, and it is done.
LEMMA CloseRun ==
  ASSUME NEW v \in Views, v.stage = "streaming",
         NEW x, x.index \in DOMAIN v.items, v.items[x.index].open
  PROVE  \E w \in Views : /\ Run(CloseItem(x), v, w)
                          /\ w.stage = "streaming" /\ DOMAIN w.items = DOMAIN v.items
                          /\ \A j \in DOMAIN v.items \ {x.index} : Alike(w.items[j], v.items[j])
                          /\ w.items[x.index].kind = v.items[x.index].kind
                          /\ w.items[x.index].parts = v.items[x.index].parts
                          /\ ~ w.items[x.index].open /\ ~ w.items[x.index].named
<1>a. PICK no \in BOOLEAN : no = FALSE
  OBVIOUS
<1> DEFINE i == x.index
           f == Whole(i)
           g == Done(i, no)
           s == Read(v, f)
           t == Read(s, f)
           w == Read(t, g)
<1>0. i \in Nat
  <2>1. PICK n \in Nat : v.items \in [1 .. n -> Item]
    BY ViewTypes
  <2> QED
    BY <2>1
<1>1. f \in Frames /\ g \in Frames
  <2>1. "message" \in Kinds
    BY DEF Kinds
  <2> HIDE DEF i
  <2> QED
    BY <1>0, <2>1, FrameTypes
<1>2. /\ Allowed(v, f) /\ s.stage = "streaming" /\ DOMAIN s.items = DOMAIN v.items
      /\ \A j \in DOMAIN v.items : Alike(s.items[j], v.items[j])
  BY AfterDetail
<1>3. s \in Views /\ Run(<<f>>, v, s)
  <2> HIDE DEF f, s
  <2> QED
    BY <1>1, <1>2, RunOne DEF s
<1> HIDE DEF s
<1>4. s.items[i].open /\ i \in DOMAIN s.items
  BY <1>2 DEF Alike
<1>5. /\ Allowed(s, f) /\ t.stage = "streaming" /\ DOMAIN t.items = DOMAIN s.items
      /\ \A j \in DOMAIN s.items : Alike(t.items[j], s.items[j])
  BY <1>2, <1>3, <1>4, AfterDetail
<1>6. t \in Views /\ Run(<<f>>, s, t)
  <2> HIDE DEF f, t
  <2> QED
    BY <1>1, <1>3, <1>5, RunOne DEF t
<1> HIDE DEF t
<1>7. t.items[i].open /\ i \in DOMAIN t.items
  BY <1>4, <1>5 DEF Alike
<1>8. /\ Allowed(t, g) /\ w.stage = "streaming" /\ DOMAIN w.items = DOMAIN t.items
      /\ \A j \in DOMAIN t.items \ {i} : w.items[j] = t.items[j]
      /\ w.items[i].kind = t.items[i].kind /\ w.items[i].parts = t.items[i].parts
      /\ ~ w.items[i].open /\ w.items[i].named = no
  <2>1. w = Read(t, Done(i, no))
    OBVIOUS
  <2> HIDE DEF w, i
  <2> QED
    BY <1>5, <1>6, <1>7, <2>1, AfterDone
<1>9. w \in Views /\ Run(<<g>>, t, w)
  <2> HIDE DEF g, w
  <2> QED
    BY <1>1, <1>6, <1>8, RunOne DEF w
<1> HIDE DEF w
<1>10. CloseItem(x) = (<<f>> \o <<f>>) \o <<g>>
  <2>1. CloseItem(x) = <<f, f, g>>
    BY <1>a DEF CloseItem
  <2> HIDE DEF f, g
  <2>2. (<<f>> \o <<f>>) \o <<g>> = <<f, f, g>>
    BY <1>1, PairIsConcat, TripleIsConcat
  <2> QED
    BY <2>1, <2>2
<1>11. Run(CloseItem(x), v, w)
  <2> HIDE DEF f, g
  <2>1. <<f>> \in Seq(Frames) /\ <<g>> \in Seq(Frames) /\ <<f>> \o <<f>> \in Seq(Frames)
    BY <1>1
  <2>2. Run(<<f>> \o <<f>>, v, t)
    BY <1>3, <1>6, <2>1, RunConcat
  <2> QED
    BY <1>9, <1>10, <2>1, <2>2, RunConcat
<1>12. \A j \in DOMAIN v.items \ {i} : Alike(w.items[j], v.items[j])
  BY <1>2, <1>5, <1>8 DEF Alike
<1>13. w.items[i].kind = v.items[i].kind /\ w.items[i].parts = v.items[i].parts
  BY <1>2, <1>4, <1>5, <1>7, <1>8 DEF Alike
<1> QED
  BY <1>a, <1>2, <1>5, <1>8, <1>9, <1>11, <1>12, <1>13

\* The calls of a chunk that are new: k items are there, n calls are added.
AddedSoFar(x, v, k, id, n) ==
  /\ x.stage = "streaming" /\ DOMAIN x.items = 1 .. k + n
  /\ \A j \in 1 .. k : x.items[j] = v.items[j]
  /\ \A p \in 1 .. n : x.items[k + p] = Opened("function_call", id[p])

\* Pass 1 of the tool calls: the new items stand behind the others, in the calls' order.
LEMMA AddedRun ==
  ASSUME NEW v \in Views, v.stage = "streaming",
         NEW k \in Nat, DOMAIN v.items = 1 .. k, CallMayStart(v.items),
         NEW m \in Nat, NEW id \in [1 .. m -> BOOLEAN],
         NEW F \in Seq(Frames), Len(F) = m,
         \A n \in 1 .. m : F[n] = Added(k + n, "function_call", id[n])
  PROVE  \E w \in Views : Run(F, v, w) /\ AddedSoFar(w, v, k, id, m)
<1> DEFINE J == [n \in 0 .. m |-> {x \in Views : AddedSoFar(x, v, k, id, n)}]
<1>1. \A n \in 0 .. m : \A x \in Views : x \in J[n] <=> AddedSoFar(x, v, k, id, n)
  OBVIOUS
<1>2. v \in J[0]
  <2>1. 0 \in 0 .. m /\ k + 0 = k
    OBVIOUS
  <2>2. AddedSoFar(v, v, k, id, 0)
    BY <2>1 DEF AddedSoFar
  <2> HIDE DEF J
  <2> QED
    BY <1>1, <2>1, <2>2
<1> HIDE DEF J
<1>3. ASSUME NEW n \in 1 .. m, NEW x \in Views, x \in J[n - 1]
      PROVE  Allowed(x, F[n]) /\ Read(x, F[n]) \in J[n]
  <2>1. AddedSoFar(x, v, k, id, n - 1)
    BY <1>1, <1>3
  <2> DEFINE i == k + n
             y == Read(x, F[n])
  <2>2. i \in Nat \ {0} /\ k + (n - 1) = i - 1 /\ n - 1 \in Nat
    OBVIOUS
  <2>3. F[n] = Added(i, "function_call", id[n]) /\ F[n] \in Frames /\ "function_call" \in Kinds
    BY DEF Kinds
  <2>4. x.stage = "streaming" /\ DOMAIN x.items = 1 .. i - 1
    BY <2>1, <2>2 DEF AddedSoFar
  <2>a. CallMayStart(x.items)
    <3>1. CASE n = 1
      <4>1. DOMAIN x.items = DOMAIN v.items /\ \A j \in DOMAIN v.items : x.items[j] = v.items[j]
        BY <2>1, <3>1 DEF AddedSoFar
      <4> QED
        BY <4>1 DEF CallMayStart
    <3>2. CASE n # 1
      <4>1. n - 1 \in 1 .. n - 1
        BY <3>2
      <4>2. PICK p \in 1 .. n - 1 : p = n - 1
        BY <4>1
      <4>3. k + p \in DOMAIN x.items
        BY <2>1, <4>2 DEF AddedSoFar
      <4>4. x.items[k + p] = Opened("function_call", id[p])
        BY <2>1, <4>2 DEF AddedSoFar
      <4>5. x.items[k + p].kind = "function_call"
        BY <4>4 DEF Opened
      <4> QED
        BY <4>3, <4>5 DEF CallMayStart
    <3> QED
      BY <3>1, <3>2
  <2> HIDE DEF i
  <2>5. /\ Allowed(x, F[n]) /\ y.stage = "streaming" /\ DOMAIN y.items = 1 .. i
        /\ y.items[i] = Opened("function_call", id[n])
        /\ \A j \in 1 .. i - 1 : y.items[j] = x.items[j]
    <3>1. PICK kind \in Kinds : kind = "function_call"
      BY <2>3
    <3>a. PICK named : named = id[n]
      OBVIOUS
    <3>2. y = Read(x, Added(i, kind, named))
      BY <2>3, <3>1, <3>a
    <3> HIDE DEF y
    <3>3. i \in Nat \ {0}
      BY <2>2
    <3>4. /\ Allowed(x, Added(i, kind, named))
          /\ y.stage = "streaming" /\ DOMAIN y.items = 1 .. i
          /\ y.items[i] = Opened(kind, named)
          /\ \A j \in 1 .. i - 1 : y.items[j] = x.items[j]
      BY <2>4, <2>a, <3>2, <3>3, AfterAdded
    <3> QED
      BY <2>3, <3>1, <3>a, <3>4
  <2>6. y \in Views
    BY <2>3, <2>5, ReadTypes
  <2> HIDE DEF y
  <2>7. \A j \in 1 .. k : y.items[j] = v.items[j]
    <3>1. \A j \in 1 .. k : j \in 1 .. i - 1
      BY DEF i
    <3> QED
      BY <2>1, <2>5, <3>1 DEF AddedSoFar
  <2>8. \A p \in 1 .. n : y.items[k + p] = Opened("function_call", id[p])
    <3> SUFFICES ASSUME NEW p \in 1 .. n
                 PROVE  y.items[k + p] = Opened("function_call", id[p])
      OBVIOUS
    <3>1. CASE p = n
      BY <2>5, <3>1 DEF i
    <3>2. CASE p # n
      <4>1. p \in 1 .. n - 1 /\ k + p \in 1 .. i - 1
        BY <3>2 DEF i
      <4> QED
        BY <2>1, <2>5, <4>1 DEF AddedSoFar
    <3> QED
      BY <3>1, <3>2
  <2>9. AddedSoFar(y, v, k, id, n)
    BY <2>5, <2>7, <2>8 DEF AddedSoFar, i
  <2>10. n \in 0 .. m
    OBVIOUS
  <2> QED
    BY <1>1, <2>5, <2>6, <2>9, <2>10 DEF y
<1>4. \E w \in Views : Run(F, v, w) /\ w \in J[Len(F)]
  BY <1>2, <1>3, RunAlong
<1>5. m \in 0 .. m
  OBVIOUS
<1> QED
  BY <1>1, <1>4, <1>5

\* How many of the first n fragments go to item i.
Count(d, n, i) == Cardinality({p \in 1 .. n : d[p] = i})

\* A count is finite, and zero at first.
LEMMA CountType ==
  ASSUME NEW d, NEW i, NEW n \in Nat
  PROVE  /\ IsFiniteSet({p \in 1 .. n : d[p] = i}) /\ Count(d, n, i) \in Nat
         /\ n = 0 => Count(d, n, i) = 0
<1>1. IsFiniteSet(1 .. n)
  BY FS_Interval
<1>2. {p \in 1 .. n : d[p] = i} \in SUBSET (1 .. n)
  OBVIOUS
<1>3. IsFiniteSet({p \in 1 .. n : d[p] = i})
  BY <1>1, <1>2, FS_Subset
<1>4. n = 0 => {p \in 1 .. n : d[p] = i} = {}
  OBVIOUS
<1> QED
  BY <1>3, <1>4, FS_CardinalityType, FS_EmptySet DEF Count

\* The next fragment counts for its item only.
LEMMA CountNext ==
  ASSUME NEW d, NEW i, NEW n \in Nat, NEW e, e = d[n + 1]
  PROVE  Count(d, n + 1, i) = Count(d, n, i) + (IF e = i THEN 1 ELSE 0)
<1> DEFINE S == {p \in 1 .. n : d[p] = i}
           T == {p \in 1 .. n + 1 : d[p] = i}
<1>1. n + 1 \notin S
  OBVIOUS
<1>2. IsFiniteSet(S) /\ Count(d, n, i) = Cardinality(S) /\ Count(d, n + 1, i) = Cardinality(T)
  BY CountType DEF Count
<1>3. \A p \in 1 .. n + 1 : p = n + 1 \/ p \in 1 .. n
  OBVIOUS
<1>4. \A p \in 1 .. n : p \in 1 .. n + 1
  OBVIOUS
<1>5. n + 1 \in 1 .. n + 1
  OBVIOUS
<1>6. CASE e = i
  <2>1. T = S \cup {n + 1}
    BY <1>3, <1>4, <1>5, <1>6
  <2> HIDE DEF S, T
  <2>2. Cardinality(T) = Cardinality(S) + 1
    BY <1>1, <1>2, <2>1, FS_AddElement
  <2> QED
    BY <1>2, <1>6, <2>2
<1>7. CASE e # i
  <2>1. T = S
    BY <1>3, <1>4, <1>7
  <2>2. Cardinality(S) \in Nat
    BY <1>2, FS_CardinalityType
  <2> HIDE DEF S, T
  <2> QED
    BY <1>2, <1>7, <2>1, <2>2
<1> QED
  BY <1>6, <1>7

\* The fragments of a chunk's calls, each counted at its item.
FragmentsSoFar(x, v, d, n) ==
  /\ x.stage = "streaming" /\ DOMAIN x.items = DOMAIN v.items
  /\ \A j \in DOMAIN v.items :
       /\ x.items[j].kind = v.items[j].kind /\ x.items[j].named = v.items[j].named
       /\ x.items[j].open = v.items[j].open
       /\ x.items[j].parts = v.items[j].parts + Count(d, n, j)

\* Pass 2 of the tool calls: every fragment reaches its item, and no other changes.
LEMMA FragmentsRun ==
  ASSUME NEW v \in Views, v.stage = "streaming",
         NEW m \in Nat, NEW d \in [1 .. m -> DOMAIN v.items],
         \A n \in 1 .. m : v.items[d[n]].open,
         NEW F \in Seq(Frames), Len(F) = m,
         \A n \in 1 .. m : F[n] = Delta(d[n])
  PROVE  \E w \in Views : Run(F, v, w) /\ FragmentsSoFar(w, v, d, m)
<1>0. \A j \in DOMAIN v.items : v.items[j].parts \in Nat
  <2>1. PICK n \in Nat : v.items \in [1 .. n -> Item]
    BY ViewTypes
  <2> QED
    BY <2>1 DEF Item
<1> DEFINE J == [n \in 0 .. m |-> {x \in Views : FragmentsSoFar(x, v, d, n)}]
<1>1. \A n \in 0 .. m : \A x \in Views : x \in J[n] <=> FragmentsSoFar(x, v, d, n)
  OBVIOUS
<1>2. v \in J[0]
  <2>1. FragmentsSoFar(v, v, d, 0)
    <3>1. ASSUME NEW j \in DOMAIN v.items
          PROVE  v.items[j].parts + Count(d, 0, j) = v.items[j].parts
      <4>1. Count(d, 0, j) = 0
        BY CountType
      <4> QED
        BY <1>0, <4>1
    <3> QED
      BY <3>1 DEF FragmentsSoFar
  <2>2. 0 \in 0 .. m
    OBVIOUS
  <2> HIDE DEF J
  <2> QED
    BY <1>1, <2>1, <2>2
<1> HIDE DEF J
<1>3. ASSUME NEW n \in 1 .. m, NEW x \in Views, x \in J[n - 1]
      PROVE  Allowed(x, F[n]) /\ Read(x, F[n]) \in J[n]
  <2>1. FragmentsSoFar(x, v, d, n - 1) /\ n \in 0 .. m /\ n - 1 \in Nat /\ n \in Nat \ {0}
    BY <1>1, <1>3
  <2> DEFINE i == d[n]
             y == Read(x, F[n])
  <2>2. i \in DOMAIN v.items /\ v.items[i].open /\ F[n] = Delta(i) /\ F[n] \in Frames
    OBVIOUS
  <2> HIDE DEF i
  <2>3. x.stage = "streaming" /\ i \in DOMAIN x.items /\ x.items[i].open
    BY <2>1, <2>2 DEF FragmentsSoFar
  <2>4. /\ Allowed(x, F[n])
        /\ y.stage = "streaming" /\ DOMAIN y.items = DOMAIN x.items
        /\ \A j \in DOMAIN x.items \ {i} : Alike(y.items[j], x.items[j])
        /\ \A j \in DOMAIN x.items :
              /\ y.items[j].kind = x.items[j].kind /\ y.items[j].named = x.items[j].named
              /\ y.items[j].open = x.items[j].open
        /\ y.items[i].parts = x.items[i].parts + 1
    BY <2>2, <2>3, AfterDelta
  <2>5. y \in Views
    BY <2>2, <2>4, ReadTypes
  <2> HIDE DEF y
  <2>6. ASSUME NEW j \in DOMAIN v.items
        PROVE  /\ y.items[j].kind = v.items[j].kind /\ y.items[j].named = v.items[j].named
               /\ y.items[j].open = v.items[j].open
               /\ y.items[j].parts = v.items[j].parts + Count(d, n, j)
    <3>1. /\ j \in DOMAIN x.items /\ x.items[j].kind = v.items[j].kind
          /\ x.items[j].named = v.items[j].named /\ x.items[j].open = v.items[j].open
          /\ x.items[j].parts = v.items[j].parts + Count(d, n - 1, j)
      BY <2>1 DEF FragmentsSoFar
    <3>2. /\ Count(d, n, j) = Count(d, n - 1, j) + (IF i = j THEN 1 ELSE 0)
          /\ Count(d, n - 1, j) \in Nat /\ v.items[j].parts \in Nat
      <4> DEFINE k == n - 1
      <4>1. k \in Nat /\ n = k + 1 /\ i = d[k + 1]
        BY <2>1 DEF i
      <4>2. Count(d, k, j) \in Nat
        BY <4>1, CountType
      <4>3. Count(d, k + 1, j) = Count(d, k, j) + (IF i = j THEN 1 ELSE 0)
        BY <4>1, CountNext
      <4>4. Count(d, k + 1, j) = Count(d, n, j)
        BY <4>1
      <4> QED
        BY <1>0, <4>2, <4>3, <4>4
    <3>3. y.items[j].parts = v.items[j].parts + Count(d, n, j)
      <4>1. CASE j = i
        <5>1. y.items[j].parts = x.items[j].parts + 1
          BY <2>4, <4>1
        <5>2. Count(d, n, j) = Count(d, n - 1, j) + 1
          BY <3>2, <4>1
        <5>3. Count(d, n - 1, j) \in Nat /\ v.items[j].parts \in Nat
          BY <3>2
        <5> QED
          BY <3>1, <5>1, <5>2, <5>3
      <4>2. CASE j # i
        <5>1. y.items[j].parts = x.items[j].parts
          BY <2>4, <3>1, <4>2 DEF Alike
        <5> QED
          BY <3>1, <3>2, <4>2, <5>1
      <4> QED
        BY <4>1, <4>2
    <3> QED
      BY <2>4, <3>1, <3>3
  <2>7. FragmentsSoFar(y, v, d, n)
    <3>1. y.stage = "streaming" /\ DOMAIN y.items = DOMAIN v.items
      BY <2>1, <2>4 DEF FragmentsSoFar
    <3> QED
      BY <2>6, <3>1 DEF FragmentsSoFar
  <2> QED
    BY <1>1, <2>1, <2>4, <2>5, <2>7 DEF y
<1>4. \E w \in Views : Run(F, v, w) /\ w \in J[Len(F)]
  BY <1>2, <1>3, RunAlong
<1>5. m \in 0 .. m
  OBVIOUS
<1> QED
  BY <1>1, <1>4, <1>5

\* The calls that finish closes: the first q of the items at index are closed.
ClosedSoFar(x, v, index, named, q) ==
  /\ x.stage = "streaming" /\ DOMAIN x.items = DOMAIN v.items
  /\ \A j \in DOMAIN v.items :
       /\ x.items[j].kind = v.items[j].kind /\ x.items[j].parts = v.items[j].parts
       /\ (\A p \in DOMAIN index : index[p] = j => q < p) => Alike(x.items[j], v.items[j])
  /\ \A p \in DOMAIN index :
       p <= q => ~ x.items[index[p]].open /\ x.items[index[p]].named = named[p]

\* finish closes the calls in turn, each once, with its final ids.
LEMMA CloseToolsRun ==
  ASSUME NEW v \in Views, v.stage = "streaming",
         NEW m \in Nat, NEW index \in [1 .. m -> DOMAIN v.items],
         NEW named \in [1 .. m -> BOOLEAN],
         \A p, q \in 1 .. m : index[p] = index[q] => p = q,
         \A p \in 1 .. m : v.items[index[p]].open,
         NEW F \in Seq(Frames), Len(F) = 2 * m,
         \A p \in 1 .. m : /\ F[2 * p - 1] = Whole(index[p])
                           /\ F[2 * p] = Done(index[p], named[p])
  PROVE  \E w \in Views : Run(F, v, w) /\ ClosedSoFar(w, v, index, named, m)
<1> DEFINE J == [n \in 0 .. 2 * m |-> {x \in Views : ClosedSoFar(x, v, index, named, n \div 2)}]
<1>1. \A n \in 0 .. 2 * m : \A x \in Views :
         x \in J[n] <=> ClosedSoFar(x, v, index, named, n \div 2)
  OBVIOUS
<1>d. DOMAIN index = 1 .. m
  OBVIOUS
<1>2. v \in J[0]
  <2>1. ClosedSoFar(v, v, index, named, 0)
    <3>1. \A p \in 1 .. m : ~ (p <= 0)
      OBVIOUS
    <3> QED
      BY <1>d, <3>1 DEF ClosedSoFar, Alike
  <2>2. 0 \in 0 .. 2 * m /\ 0 \div 2 = 0
    OBVIOUS
  <2> HIDE DEF J
  <2> QED
    BY <1>1, <2>1, <2>2
<1> HIDE DEF J
<1>3. ASSUME NEW n \in 1 .. 2 * m, NEW x \in Views, x \in J[n - 1]
      PROVE  Allowed(x, F[n]) /\ Read(x, F[n]) \in J[n]
  <2>1. PICK p \in 1 .. m : n = 2 * p - 1 \/ n = 2 * p
    <3>1. (n + 1) \div 2 \in 1 .. m /\ (n = 2 * ((n + 1) \div 2) - 1 \/ n = 2 * ((n + 1) \div 2))
      OBVIOUS
    <3> QED
      BY <3>1
  <2> DEFINE i == index[p]
             y == Read(x, F[n])
  <2>2. /\ n - 1 \in 0 .. 2 * m /\ n \in 0 .. 2 * m /\ (n - 1) \div 2 = p - 1
        /\ n = 2 * p - 1 => n \div 2 = p - 1
        /\ n = 2 * p => n \div 2 = p
    BY <2>1
  <2>3. ClosedSoFar(x, v, index, named, p - 1)
    <3>1. \A q \in 0 .. 2 * m : x \in J[q] => ClosedSoFar(x, v, index, named, q \div 2)
      BY <1>1
    <3>2. ClosedSoFar(x, v, index, named, (n - 1) \div 2)
      BY <1>3, <2>2, <3>1
    <3> QED
      BY <2>2, <3>2
  <2>4. i \in DOMAIN v.items /\ v.items[i].open /\ F[n] \in Frames
    OBVIOUS
  <2>5. \A q \in 1 .. m : index[q] = i => p - 1 < q
    OBVIOUS
  <2>6. x.stage = "streaming" /\ i \in DOMAIN x.items /\ x.items[i].open
    <3>1. x.stage = "streaming" /\ DOMAIN x.items = DOMAIN v.items
      BY <2>3 DEF ClosedSoFar
    <3>2. (\A q \in DOMAIN index : index[q] = i => p - 1 < q) => Alike(x.items[i], v.items[i])
      BY <2>3, <2>4 DEF ClosedSoFar
    <3>3. Alike(x.items[i], v.items[i])
      <4> HIDE DEF i
      <4> QED
        BY <1>d, <2>5, <3>2
    <3> QED
      BY <2>4, <3>1, <3>3 DEF Alike
  <2>7. CASE n = 2 * p - 1
    <3>1. F[n] = Whole(i)
      BY <2>7
    <3> HIDE DEF i
    <3>2. /\ Allowed(x, F[n])
          /\ y.stage = "streaming" /\ DOMAIN y.items = DOMAIN x.items
          /\ \A j \in DOMAIN x.items : Alike(y.items[j], x.items[j])
      BY <2>6, <3>1, AfterDetail
    <3>3. y \in Views
      BY <2>4, <3>2, ReadTypes
    <3> HIDE DEF y
    <3>4. ClosedSoFar(y, v, index, named, p - 1)
      <4>1. \A q \in DOMAIN index : index[q] \in DOMAIN v.items
        BY <1>d
      <4>2. /\ DOMAIN x.items = DOMAIN v.items
            /\ \A j \in DOMAIN v.items :
                 x.items[j].kind = v.items[j].kind /\ x.items[j].parts = v.items[j].parts
            /\ \A j \in DOMAIN v.items :
                 (\A q \in DOMAIN index : index[q] = j => p - 1 < q) => Alike(x.items[j], v.items[j])
            /\ \A q \in DOMAIN index :
                 q <= p - 1 => ~ x.items[index[q]].open /\ x.items[index[q]].named = named[q]
        BY <2>3 DEF ClosedSoFar
      <4>3. \A j \in DOMAIN v.items :
              y.items[j].kind = v.items[j].kind /\ y.items[j].parts = v.items[j].parts
        BY <3>2, <4>2 DEF Alike
      <4>4. \A j \in DOMAIN v.items :
              (\A q \in DOMAIN index : index[q] = j => p - 1 < q) => Alike(y.items[j], v.items[j])
        BY <3>2, <4>2 DEF Alike
      <4>5. ASSUME NEW q \in DOMAIN index, q <= p - 1
            PROVE  ~ y.items[index[q]].open /\ y.items[index[q]].named = named[q]
        <5>1. Alike(y.items[index[q]], x.items[index[q]])
          BY <3>2, <4>1, <4>2
        <5>2. ~ x.items[index[q]].open /\ x.items[index[q]].named = named[q]
          BY <4>2, <4>5
        <5> QED
          BY <5>1, <5>2 DEF Alike
      <4> QED
        BY <3>2, <4>2, <4>3, <4>4, <4>5 DEF ClosedSoFar
    <3> QED
      BY <1>1, <2>2, <2>7, <3>2, <3>3, <3>4 DEF y
  <2>8. CASE n = 2 * p
    <3>1. F[n] = Done(i, named[p])
      BY <2>8
    <3>2. /\ Allowed(x, F[n])
          /\ y.stage = "streaming" /\ DOMAIN y.items = DOMAIN x.items
          /\ \A j \in DOMAIN x.items \ {i} : y.items[j] = x.items[j]
          /\ y.items[i].kind = x.items[i].kind /\ y.items[i].parts = x.items[i].parts
          /\ ~ y.items[i].open /\ y.items[i].named = named[p]
      <4> HIDE DEF i
      <4> QED
        BY <2>6, <3>1, AfterDone
    <3>3. y \in Views
      <4> HIDE DEF i
      <4> QED
        BY <2>4, <3>2, ReadTypes
    <3> HIDE DEF y
    <3>4. DOMAIN y.items = DOMAIN v.items /\ DOMAIN x.items = DOMAIN v.items
      BY <2>3, <3>2 DEF ClosedSoFar
    <3>5. ASSUME NEW j \in DOMAIN v.items
          PROVE  /\ y.items[j].kind = v.items[j].kind /\ y.items[j].parts = v.items[j].parts
                 /\ (\A q \in DOMAIN index : index[q] = j => p < q)
                      => Alike(y.items[j], v.items[j])
      <4>1. /\ x.items[j].kind = v.items[j].kind /\ x.items[j].parts = v.items[j].parts
            /\ (\A q \in 1 .. m : index[q] = j => p - 1 < q) => Alike(x.items[j], v.items[j])
        BY <1>d, <2>3 DEF ClosedSoFar
      <4>2. CASE j = i
        <5>1. ~ (\A q \in DOMAIN index : index[q] = j => p < q)
          BY <1>d, <4>2
        <5> QED
          BY <3>2, <4>1, <4>2, <5>1
      <4>3. CASE j # i
        <5>1. y.items[j] = x.items[j]
          BY <3>2, <3>4, <4>3
        <5>2. ASSUME \A q \in DOMAIN index : index[q] = j => p < q
              PROVE  \A q \in 1 .. m : index[q] = j => p - 1 < q
          BY <1>d, <5>2
        <5> QED
          BY <4>1, <5>1, <5>2
      <4> QED
        BY <4>2, <4>3
    <3>6. ASSUME NEW q \in DOMAIN index, q <= p
          PROVE  ~ y.items[index[q]].open /\ y.items[index[q]].named = named[q]
      <4>1. CASE q = p
        BY <3>2, <4>1
      <4>2. CASE q # p
        <5>1. index[q] # i /\ q <= p - 1 /\ index[q] \in DOMAIN v.items
          BY <1>d, <3>6, <4>2
        <5>2. ~ x.items[index[q]].open /\ x.items[index[q]].named = named[q]
          BY <2>3, <5>1 DEF ClosedSoFar
        <5>3. y.items[index[q]] = x.items[index[q]]
          BY <3>2, <3>4, <5>1
        <5> QED
          BY <5>2, <5>3
      <4> QED
        BY <4>1, <4>2
    <3>7. ClosedSoFar(y, v, index, named, p)
      BY <3>2, <3>4, <3>5, <3>6 DEF ClosedSoFar
    <3> QED
      BY <1>1, <2>2, <2>8, <3>2, <3>3, <3>7 DEF y
  <2> QED
    BY <2>1, <2>7, <2>8
<1>4. \E w \in Views : Run(F, v, w) /\ w \in J[Len(F)]
  <2>1. \A n \in 1 .. Len(F) : \A x \in Views :
           x \in J[n - 1] => Allowed(x, F[n]) /\ Read(x, F[n]) \in J[n]
    BY <1>3
  <2> QED
    BY <1>2, <2>1, RunAlong
<1>5. 2 * m \in 0 .. 2 * m /\ (2 * m) \div 2 = m
  OBVIOUS
<1> QED
  BY <1>1, <1>4, <1>5

-----------------------------------------------------------------------------
(***************************************************************************)
(* What feed_chunk and finish have in common.                              *)
(***************************************************************************)
\* emit changes nothing of a frame but its number.
LEMMA NumberedFrames ==
  ASSUME sequence \in Nat, NEW F \in Seq(Frames)
  PROVE  /\ Numbered(F) \in Seq(Frames) /\ Len(Numbered(F)) = Len(F)
         /\ \A n \in 1 .. Len(F) : /\ SameFrame(Numbered(F)[n], F[n])
                                   /\ Numbered(F)[n].seq = sequence + n
<1> DEFINE G == Numbered(F)
<1>1. Len(F) \in Nat /\ DOMAIN F = 1 .. Len(F)
  OBVIOUS
<1>2. G = [n \in 1 .. Len(F) |-> [F[n] EXCEPT !.seq = sequence + n]]
  BY <1>1 DEF Numbered
<1>3. ASSUME NEW n \in 1 .. Len(F)
      PROVE  /\ G[n] \in Frames /\ SameFrame(G[n], F[n]) /\ G[n].seq = sequence + n
  <2>1. G[n] = [F[n] EXCEPT !.seq = sequence + n]
    BY <1>2
  <2>2. F[n] \in Frames /\ sequence + n \in Nat
    OBVIOUS
  <2> HIDE DEF G
  <2> QED
    BY <2>1, <2>2 DEF Frames, SameFrame
<1>4. G \in Seq(Frames) /\ Len(G) = Len(F)
  <2>1. DOMAIN G = 1 .. Len(F)
    BY <1>2
  <2>2. G = [n \in 1 .. Len(F) |-> G[n]]
    BY <1>2
  <2> HIDE DEF G
  <2>3. G \in [1 .. Len(F) -> Frames]
    BY <1>3, <2>1, <2>2
  <2> QED
    BY <1>1, <2>1, <2>3
<1> QED
  BY <1>3, <1>4

\* A client that has read everything knows what the converter remembers.
LEMMA CaughtUp ==
  ASSUME IInv, out = << >>
  PROVE  Matches(View)
<1>1. PICK w \in Views : Run(out, View, w) /\ Matches(w)
  BY DEF IInv, Ahead
<1>2. w = View
  <2> DEFINE v == View
  <2>1. Run(<< >>, v, w)
    BY <1>1
  <2> HIDE DEF v
  <2>2. v = w
    BY <2>1, RunNothing
  <2> QED
    BY <2>2 DEF v
<1> QED
  BY <1>1, <1>2

\* The view a chunk is written for: the response has begun.
LEMMA Ready ==
  ASSUME IInv, ~ ended, out = << >>
  PROVE  \E v \in Views : /\ Run(If(~ started, Created), View, v)
                          /\ v.stage = "streaming" /\ Remembered(v)
<1>1. /\ View \in Views /\ Remembered(View) /\ started \in BOOLEAN
      /\ View.stage = IF started THEN "streaming" ELSE "new"
  BY CaughtUp DEF Matches, IInv, TypeOK
<1>2. CASE started
  <2>1. If(~ started, Created) = << >>
    BY <1>2 DEF If
  <2>2. Run(<< >>, View, View)
    BY <1>1, RunEmpty
  <2> QED
    BY <1>1, <1>2, <2>1, <2>2
<1>3. CASE ~ started
  <2>1. If(~ started, Created) = Created
    BY <1>3 DEF If
  <2>2. PICK v \in Views : /\ Run(Created, View, v)
                           /\ v.stage = "streaming" /\ v.items = View.items
    <3>1. \A x \in Views : x.stage = "new" =>
             \E v \in Views : Run(Created, x, v) /\ v.stage = "streaming" /\ v.items = x.items
      BY BeginRun
    <3>2. View.stage = "new"
      BY <1>1, <1>3
    <3> QED
      BY <1>1, <3>1, <3>2
  <2>3. Remembered(v)
    BY <1>1, <2>2 DEF Remembered
  <2> QED
    BY <2>1, <2>2, <2>3
<1> QED
  BY <1>1, <1>2, <1>3

\* Frames that are a run of the view are written: Numbers and the run hold.
LEMMA Writes ==
  ASSUME IInv, out = << >>, NEW F \in Seq(Frames), NEW w \in Views, Run(F, View, w),
         out' = Numbered(F), sequence' = sequence + Len(F), UNCHANGED view
  PROVE  Numbers' /\ (View \in Views)' /\ Run(out, View, w)'
<1>1. sequence \in Nat /\ last \in Nat /\ sequence = last
  <2>1. Len(<< >>) = 0
    OBVIOUS
  <2> QED
    BY <2>1 DEF IInv, TypeOK, Numbers
<1>2. /\ out' \in Seq(Frames) /\ Len(out') = Len(F)
      /\ \A n \in 1 .. Len(F) : SameFrame(out'[n], F[n]) /\ out'[n].seq = sequence + n
  BY <1>1, NumberedFrames
<1>3. View' = View /\ last' = last
  BY DEF view, View
<1>4. Numbers'
  BY <1>1, <1>2, <1>3 DEF Numbers
<1>5. Run(out', View, w)
  <2> DEFINE v == View
             G == out'
  <2>1. Run(F, v, w) /\ G \in Seq(Frames) /\ Len(G) = Len(F)
        /\ \A n \in 1 .. Len(F) : SameFrame(G[n], F[n])
    BY <1>2
  <2> HIDE DEF v, G
  <2>2. Run(G, v, w)
    BY <2>1, RunNumbered
  <2> QED
    BY <2>2 DEF v, G
<1> QED
  BY <1>3, <1>4, <1>5 DEF IInv

\* A chunk: its frames F lead from the view v to what is remembered then.
LEMMA FeedStep ==
  ASSUME IInv, NEW F \in Seq(Frames), Feed(F),
         NEW v \in Views, Run(If(~ started, Created), View, v),
         NEW w \in Views, Run(F, v, w), w.stage = "streaming",
         Remembered(w)', TypeOK', Owners', Fresh'
  PROVE  IInv'
<1> DEFINE B == If(~ started, Created)
           G == B \o F
<1>1. B \in Seq(Frames)
  <2>1. << >> \in Seq(Frames)
    OBVIOUS
  <2> QED
    BY <2>1, CreatedType DEF If
<1>2. /\ out = << >> /\ out' = Numbered(G) /\ sequence' = sequence + Len(G)
      /\ UNCHANGED view /\ started' = TRUE /\ ended' = FALSE
  BY DEF Feed, IInv, TypeOK
<1>3. G \in Seq(Frames)
  <2> HIDE DEF B
  <2> QED
    BY <1>1
<1>4. Run(G, View, w)
  <2> DEFINE x == View
  <2>1. Run(B, x, v)
    OBVIOUS
  <2> HIDE DEF x, B
  <2>2. Run(G, x, w)
    BY <1>1, <2>1, RunConcat
  <2> QED
    BY <2>2 DEF x
<1> HIDE DEF G
<1>5. Numbers' /\ (View \in Views)' /\ Run(out, View, w)'
  BY <1>2, <1>3, <1>4, Writes
<1>6. Matches(w)'
  BY <1>2 DEF Matches
<1>7. Ahead'
  BY <1>5, <1>6 DEF Ahead
<1> QED
  BY <1>5, <1>7 DEF IInv

\* The end: its frames lead from the view to a terminal one.
LEMMA EndStep ==
  ASSUME IInv, NEW F \in Seq(Frames), End(F),
         NEW w \in Views, Run(F, View, w),
         w.stage \in Terminals, Fits(w.output, w.items, w.stage)
  PROVE  IInv'
<1>1. /\ out = << >> /\ out' = Numbered(F) /\ sequence' = sequence + Len(F)
      /\ UNCHANGED view /\ ended' = TRUE
      /\ UNCHANGED <<expose_thinking, started, convVars>>
  BY DEF End
<1>2. Numbers' /\ (View \in Views)' /\ Run(out, View, w)'
  BY <1>1, Writes
<1>3. Matches(w)'
  BY <1>1 DEF Matches
<1>4. Ahead'
  BY <1>2, <1>3 DEF Ahead
<1>5. TypeOK'
  <2>1. sequence' \in Nat
    BY <1>1 DEF IInv, TypeOK
  <2> QED
    BY <1>1, <2>1 DEF IInv, TypeOK, convVars, ItemState, Slot, Given
<1>6. Owners'
  BY <1>1 DEF IInv, Owners, convVars, Given
<1>7. Fresh'
  BY <1>1 DEF IInv, Fresh, convVars
<1> QED
  BY <1>2, <1>4, <1>5, <1>6, <1>7 DEF IInv

\* The counters and flags of a chunk.
LEMMA FeedTypes ==
  ASSUME IInv, NEW F \in Seq(Frames), Feed(F)
  PROVE  /\ sequence' \in Nat /\ started' = TRUE /\ ~ ended /\ ended' = ended /\ out = << >>
         /\ expose_thinking' = expose_thinking
<1>1. If(~ started, Created) \o F \in Seq(Frames)
  <2>1. If(~ started, Created) \in Seq(Frames)
    <3>1. << >> \in Seq(Frames)
      OBVIOUS
    <3> QED
      BY <3>1, CreatedType DEF If
  <2> QED
    BY <2>1
<1>2. \A G \in Seq(Frames) : Len(G) \in Nat
  OBVIOUS
<1>3. sequence' = sequence + Len(If(~ started, Created) \o F)
  BY DEF Feed
<1>4. sequence' \in Nat
  BY <1>1, <1>2, <1>3 DEF IInv, TypeOK
<1> QED
  BY <1>4 DEF Feed

-----------------------------------------------------------------------------
(***************************************************************************)
(* feed_chunk: chunks without a frame of their own.                        *)
(***************************************************************************)
\* No new item, and none but a reasoning that is hidden has grown.
LEMMA QuietStep ==
  ASSUME IInv, Feed(<< >>),
         UNCHANGED <<next_output_index, message, tools, output_items>>,
         finish_reason' \in {"none", "stop", "length"},
         reasoning' \in ItemState, reasoning'.index = reasoning.index,
         reasoning'.item_done = reasoning.item_done,
         reasoning'.parts # reasoning.parts => ~ expose_thinking
  PROVE  IInv'
<1>1. ~ ended /\ out = << >> /\ started' = TRUE /\ UNCHANGED <<expose_thinking, ended>>
  BY DEF Feed
<1>2. PICK v \in Views : /\ Run(If(~ started, Created), View, v)
                         /\ v.stage = "streaming" /\ Remembered(v)
  BY <1>1, Ready
<1>3. Given' = Given
  BY DEF Given
<1>4. Remembered(v)'
  <2>1. reasoning.index # 0 => reasoning'.parts = reasoning.parts
    BY DEF IInv, Owners
  <2> QED
    BY <1>2, <1>3, <2>1 DEF Remembered, Shows
<1>5. sequence' \in Nat
  <2>1. << >> \in Seq(Frames)
    OBVIOUS
  <2> QED
    BY <2>1, FeedTypes
<1>6. TypeOK'
  BY <1>1, <1>3, <1>5 DEF IInv, TypeOK, ItemState, Slot
<1>7. Owners'
  BY <1>1, <1>3 DEF IInv, Owners
<1>8. Fresh'
  BY <1>1 DEF IInv, Fresh
<1>9. << >> \in Seq(Frames) /\ Run(<< >>, v, v)
  BY RunEmpty
<1> QED
  BY <1>2, <1>4, <1>6, <1>7, <1>8, <1>9, FeedStep

\* A chunk without a delta at most begins the response.
LEMMA NoDeltaStep ==
  ASSUME IInv, NoDelta
  PROVE  IInv'
<1>1. Feed(<< >>) /\ UNCHANGED convVars
  BY DEF NoDelta
<1> QED
  BY <1>1, QuietStep DEF convVars, IInv, TypeOK

\* A finish reason is remembered and not shown.
LEMMA FinishReasonStep ==
  ASSUME IInv, NEW reason \in {"stop", "length"}, FinishReason(reason)
  PROVE  IInv'
<1>1. /\ Feed(<< >>) /\ finish_reason' \in {"stop", "length"}
      /\ UNCHANGED <<next_output_index, reasoning, message, tools, output_items>>
  BY DEF FinishReason
<1> QED
  BY <1>1, QuietStep DEF IInv, TypeOK

\* Reasoning that is not exposed is accumulated and not shown.
LEMMA HiddenReasoningStep ==
  ASSUME IInv, HiddenReasoning
  PROVE  IInv'
<1>1. /\ Feed(<< >>) /\ ~ expose_thinking
      /\ UNCHANGED <<next_output_index, message, tools, output_items, finish_reason>>
      /\ reasoning' = [reasoning EXCEPT !.parts = @ + 1]
  BY DEF HiddenReasoning
<1>2. /\ reasoning' \in ItemState /\ reasoning'.index = reasoning.index
      /\ reasoning'.item_done = reasoning.item_done
  BY <1>1 DEF IInv, TypeOK, ItemState
<1> QED
  BY <1>1, <1>2, QuietStep DEF IInv, TypeOK

-----------------------------------------------------------------------------
(***************************************************************************)
(* feed_chunk: reasoning and text.                                         *)
(***************************************************************************)
\* A sequence that is given more elements.
LEMMA MoreElements ==
  ASSUME NEW S, NEW f \in Seq(S), NEW q \in Seq(S),
         NEW N \in Nat, Len(f) = N, NEW m \in Nat, Len(q) = m
  PROVE  /\ f \o q \in Seq(S) /\ Len(f \o q) = N + m
         /\ \A i \in 1 .. N + m : (f \o q)[i] = IF i <= N THEN f[i] ELSE q[i - N]
<1>1. /\ f \o q \in Seq(S) /\ Len(f \o q) = Len(f) + Len(q)
      /\ \A i \in 1 .. Len(f) + Len(q) :
           (f \o q)[i] = IF i <= Len(f) THEN f[i] ELSE q[i - Len(f)]
  BY ConcatProperties
<1> QED
  BY <1>1

\* A fragment of an item of text, which is begun if it is the first.
LEMMA GrowRun ==
  ASSUME NEW v \in Views, v.stage = "streaming",
         NEW N \in Nat, DOMAIN v.items = 1 .. N,
         NEW kind \in {"reasoning", "message"},
         NEW x \in [index : 0 .. N, parts : Nat, item_done : BOOLEAN],
         x.index = 0 => x.parts = 0 /\ ~ x.item_done,
         x.index # 0 => Shows(v.items[x.index], kind, x.parts, ~ x.item_done),
         x.item_done => kind = "message",
         NEW i, i = IF x.index = 0 THEN N + 1 ELSE x.index,
         NEW F, F = If(x.index = 0, <<Added(i, kind, FALSE), Part(i)>>) \o <<Delta(i)>>
  PROVE  /\ F \in Seq(Frames)
         /\ \E w \in Views : /\ Run(F, v, w) /\ w.stage = "streaming"
                             /\ DOMAIN w.items = 1 .. (IF x.index = 0 THEN N + 1 ELSE N)
                             /\ \A j \in 1 .. N : j # i => Alike(w.items[j], v.items[j])
                             /\ Shows(w.items[i], kind, x.parts + 1, ~ x.item_done)
<1>1. /\ i \in Nat \ {0} /\ kind \in Kinds /\ kind # "function_call"
      /\ x.index \in 0 .. N /\ x.item_done \in BOOLEAN
  BY DEF Kinds
<1> DEFINE B == <<Added(i, kind, FALSE), Part(i)>>
           O == If(x.index = 0, B)
           D == <<Delta(i)>>
<1>2. B \in Seq(Frames) /\ O \in Seq(Frames) /\ D \in Seq(Frames) /\ Delta(i) \in Frames
  <2>1. Added(i, kind, FALSE) \in Frames /\ Part(i) \in Frames /\ Delta(i) \in Frames
    BY <1>1, FrameTypes
  <2>2. \A f, g \in Frames : <<f, g>> \in Seq(Frames) /\ <<f>> \in Seq(Frames)
    OBVIOUS
  <2>3. << >> \in Seq(Frames)
    OBVIOUS
  <2> QED
    BY <2>1, <2>2, <2>3 DEF If
<1>3. \E u \in Views : /\ Run(O, v, u) /\ u.stage = "streaming"
                       /\ DOMAIN u.items = 1 .. (IF x.index = 0 THEN N + 1 ELSE N)
                       /\ \A j \in 1 .. N : Alike(u.items[j], v.items[j])
                       /\ Shows(u.items[i], kind, x.parts, ~ x.item_done)
  <2>1. CASE x.index = 0
    <3>1. O = B /\ i = N + 1 /\ i - 1 = N
      BY <2>1 DEF If
    <3>2. PICK u \in Views : /\ Run(B, v, u)
                             /\ u.stage = "streaming" /\ DOMAIN u.items = 1 .. i
                             /\ \A j \in 1 .. i - 1 : Alike(u.items[j], v.items[j])
                             /\ Alike(u.items[i], Opened(kind, FALSE))
      BY <1>1, <3>1, OpenRun
    <3>3. Shows(u.items[i], kind, x.parts, ~ x.item_done)
      BY <1>1, <2>1, <3>2 DEF Shows, Alike, Opened
    <3> HIDE DEF O, B
    <3> QED
      BY <2>1, <3>1, <3>2, <3>3
  <2>2. CASE x.index # 0
    <3>1. O = << >> /\ i = x.index
      BY <2>2 DEF If
    <3>2. Run(O, v, v)
      BY <3>1, RunEmpty
    <3> HIDE DEF O
    <3> QED
      BY <2>2, <3>1, <3>2 DEF Alike
  <2> QED
    BY <2>1, <2>2
<1> HIDE DEF O, B
<1>4. PICK u \in Views : /\ Run(O, v, u) /\ u.stage = "streaming"
                         /\ DOMAIN u.items = 1 .. (IF x.index = 0 THEN N + 1 ELSE N)
                         /\ \A j \in 1 .. N : Alike(u.items[j], v.items[j])
                         /\ Shows(u.items[i], kind, x.parts, ~ x.item_done)
  BY <1>3
<1>b. PICK w : w = Read(u, Delta(i))
  OBVIOUS
<1>5. i \in DOMAIN u.items /\ (u.items[i].open \/ u.items[i].kind = "message")
  <2>1. i \in DOMAIN u.items
    BY <1>4
  <2> QED
    BY <1>1, <1>4, <2>1 DEF Shows
<1>6. /\ Allowed(u, Delta(i))
      /\ w.stage = "streaming" /\ DOMAIN w.items = DOMAIN u.items
      /\ \A j \in DOMAIN u.items \ {i} : Alike(w.items[j], u.items[j])
      /\ \A j \in DOMAIN u.items :
           /\ w.items[j].kind = u.items[j].kind /\ w.items[j].named = u.items[j].named
           /\ w.items[j].open = u.items[j].open
      /\ w.items[i].parts = u.items[i].parts + 1
  <2>1. u.stage = "streaming"
    BY <1>4
  <2>2. PICK n \in DOMAIN u.items : n = i
    BY <1>5
  <2>3. u.items[n].open \/ u.items[n].kind = "message"
    BY <1>5, <2>2
  <2>4. w = Read(u, Delta(n))
    BY <1>b, <2>2
  <2> QED
    BY <2>1, <2>2, <2>3, <2>4, AfterDelta
<1>7. w \in Views /\ Run(D, u, w)
  BY <1>2, <1>6, <1>b, RunOne
<1> HIDE DEF D
<1>8. Run(O \o D, v, w)
  BY <1>2, <1>4, <1>7, RunConcat
<1>9. O \o D \in Seq(Frames)
  BY <1>2
<1>10. F = O \o D
  BY DEF O, D, B
<1>11. \A j \in 1 .. N : j # i => Alike(w.items[j], v.items[j])
  <2> SUFFICES ASSUME NEW j \in 1 .. N, j # i
               PROVE  Alike(w.items[j], v.items[j])
    OBVIOUS
  <2>1. j \in DOMAIN u.items
    BY <1>4
  <2>2. Alike(u.items[j], v.items[j]) /\ Alike(w.items[j], u.items[j])
    BY <1>4, <1>6, <2>1
  <2> QED
    BY <2>2 DEF Alike
<1>12. Shows(w.items[i], kind, x.parts + 1, ~ x.item_done)
  BY <1>4, <1>5, <1>6 DEF Shows
<1> QED
  BY <1>4, <1>6, <1>7, <1>8, <1>9, <1>10, <1>11, <1>12

\* The entries of output_items.
OutKinds == [kind : {"reasoning", "message", "function_call"}, tool : Nat]

\* An item of text is entered in output_items when it begins.
LEMMA Allocated ==
  ASSUME NEW N \in Nat, output_items \in [1 .. N -> OutKinds],
         NEW old, NEW x \in OutKinds, output_items' = output_items \o If(old = 0, <<x>>)
  PROVE  /\ old = 0 => output_items' \in [1 .. N + 1 -> OutKinds] /\ output_items'[N + 1] = x
         /\ old # 0 => output_items' \in [1 .. N -> OutKinds]
         /\ \A j \in 1 .. N : output_items'[j] = output_items[j]
<1>1. PICK f \in Seq(OutKinds) : f = output_items /\ Len(f) = N
  OBVIOUS
<1>2. CASE old = 0
  <2>1. PICK q \in Seq(OutKinds) : q = <<x>> /\ Len(q) = 1 /\ q[1] = x
    <3>1. <<x>> \in Seq(OutKinds) /\ Len(<<x>>) = 1 /\ <<x>>[1] = x
      OBVIOUS
    <3> QED
      BY <3>1
  <2>2. output_items' = f \o q
    BY <1>1, <1>2, <2>1 DEF If
  <2>3. PICK g : g = f \o q
    OBVIOUS
  <2>4. /\ g \in Seq(OutKinds) /\ Len(g) = N + 1
        /\ \A i \in 1 .. N + 1 : g[i] = IF i <= N THEN f[i] ELSE q[i - N]
    BY <1>1, <2>1, <2>3, MoreElements
  <2>5. g \in [1 .. N + 1 -> OutKinds]
    BY <2>4, LenProperties
  <2>6. g[N + 1] = x /\ \A i \in 1 .. N : g[i] = f[i]
    BY <2>1, <2>4
  <2> QED
    BY <1>1, <1>2, <2>2, <2>3, <2>5, <2>6
<1>3. CASE old # 0
  <2>1. output_items' = f
    BY <1>1, <1>3, ConcatEmptySeq DEF If
  <2> QED
    BY <1>1, <1>3, <2>1
<1> QED
  BY <1>2, <1>3

\* A chunk with text (feed_text).
LEMMA TextStep ==
  ASSUME IInv, Text
  PROVE  IInv'
<1> DEFINE F == Opening(message, "message") \o <<Delta(IndexOf(message))>>
<1>1. /\ Feed(F) /\ Allocate(message, "message") /\ message' = Grown(message)
      /\ UNCHANGED <<reasoning, tools, finish_reason>>
  BY DEF Text
<1>2. PICK N \in Nat : next_output_index = N + 1
  <2>1. next_output_index - 1 \in Nat /\ next_output_index = (next_output_index - 1) + 1
    BY DEF IInv, TypeOK
  <2> QED
    BY <2>1
<1>3. Given = 1 .. N
  BY <1>2 DEF Given
<1>4. /\ message.index \in 0 .. N /\ message.parts \in Nat /\ message.item_done \in BOOLEAN
      /\ reasoning.index \in 0 .. N
      /\ \A t \in DOMAIN tools : tools[t].index \in 1 .. N
  BY <1>3 DEF IInv, TypeOK, ItemState, Slot
<1> DEFINE old == message.index
           i == IF old = 0 THEN N + 1 ELSE old
           M == N + (IF old = 0 THEN 1 ELSE 0)
<1>5. i = IndexOf(message)
  BY <1>2 DEF IndexOf
<1>6. /\ next_output_index' = M + 1 /\ Given' = 1 .. M
      /\ M \in Nat /\ N <= M /\ i \in 1 .. M /\ (old = 0 => M = N + 1) /\ (old # 0 => M = N)
  BY <1>1, <1>2, <1>4 DEF Allocate, Given
<1>7. /\ output_items' \in [1 .. M -> OutKinds]
      /\ \A j \in 1 .. N : output_items'[j] = output_items[j]
      /\ old = 0 => output_items'[N + 1] = [kind |-> "message", tool |-> 0]
  <2>1. [kind |-> "message", tool |-> 0] \in OutKinds
    BY DEF OutKinds
  <2>2. output_items' = output_items \o If(old = 0, <<[kind |-> "message", tool |-> 0]>>)
    BY <1>1 DEF Allocate
  <2>3. output_items \in [1 .. N -> OutKinds]
    BY <1>3 DEF IInv, TypeOK, OutKinds
  <2> HIDE DEF M, old
  <2> QED
    BY <1>6, <2>1, <2>2, <2>3, Allocated
<1>8. message' = [index |-> i, parts |-> message.parts + 1, item_done |-> message.item_done]
  BY <1>1, <1>5 DEF Grown, IInv, TypeOK, ItemState
<1>9. ~ ended /\ out = << >>
  BY <1>1 DEF Feed
<1>10. PICK v \in Views : /\ Run(If(~ started, Created), View, v)
                          /\ v.stage = "streaming" /\ Remembered(v)
  BY <1>9, Ready
<1>11. /\ F \in Seq(Frames)
       /\ \E w \in Views : /\ Run(F, v, w) /\ w.stage = "streaming"
                           /\ DOMAIN w.items = 1 .. M
                           /\ \A j \in 1 .. N : j # i => Alike(w.items[j], v.items[j])
                           /\ Shows(w.items[i], "message", message.parts + 1, ~ message.item_done)
  <2>1. PICK x \in [index : 0 .. N, parts : Nat, item_done : BOOLEAN] : x = message
    BY <1>3 DEF IInv, TypeOK, ItemState
  <2>2. DOMAIN v.items = 1 .. N
    BY <1>3, <1>10 DEF Remembered
  <2>3. x.index = 0 => x.parts = 0 /\ ~ x.item_done
    BY <2>1 DEF IInv, Fresh
  <2>4. x.index # 0 => Shows(v.items[x.index], "message", x.parts, ~ x.item_done)
    BY <1>10, <2>1 DEF Remembered
  <2>5. F = If(x.index = 0, <<Added(i, "message", FALSE), Part(i)>>) \o <<Delta(i)>>
    BY <1>5, <2>1 DEF Opening
  <2>6. i = IF x.index = 0 THEN N + 1 ELSE x.index
    BY <2>1
  <2>7. M = IF x.index = 0 THEN N + 1 ELSE N
    BY <2>1
  <2>8. "message" \in {"reasoning", "message"}
    OBVIOUS
  <2> HIDE DEF F, i, M
  <2>9. /\ F \in Seq(Frames)
        /\ \E w \in Views : /\ Run(F, v, w) /\ w.stage = "streaming"
                            /\ DOMAIN w.items = 1 .. (IF x.index = 0 THEN N + 1 ELSE N)
                            /\ \A j \in 1 .. N : j # i => Alike(w.items[j], v.items[j])
                            /\ Shows(w.items[i], "message", x.parts + 1, ~ x.item_done)
    BY <1>10, <2>2, <2>3, <2>4, <2>5, <2>6, <2>8, GrowRun
  <2> QED
    BY <2>1, <2>7, <2>9
<1> HIDE DEF F, M
<1>12. PICK w \in Views : /\ Run(F, v, w) /\ w.stage = "streaming"
                          /\ DOMAIN w.items = 1 .. M
                          /\ \A j \in 1 .. N : j # i => Alike(w.items[j], v.items[j])
                          /\ Shows(w.items[i], "message", message.parts + 1, ~ message.item_done)
  BY <1>11
<1>13. Remembered(w)'
  <2>1. DOMAIN w.items = Given'
    BY <1>6, <1>12
  <2>2. message'.index # 0 =>
          Shows(w.items[message'.index], "message", message'.parts, ~ message'.item_done)
    BY <1>8, <1>12
  <2>3. ASSUME NEW j \in 1 .. N, output_items[j].kind # "message"
        PROVE  j # i
    <3>1. old # 0 => output_items[old].kind = "message"
      BY DEF IInv, Owners
    <3> QED
      BY <2>3, <3>1
  <2>4. reasoning'.index # 0 => Shows(w.items[reasoning'.index], "reasoning", reasoning'.parts,
                                            ~ reasoning'.item_done)
    <3> SUFFICES ASSUME reasoning.index # 0
                 PROVE  Shows(w.items[reasoning.index], "reasoning", reasoning.parts, ~ reasoning.item_done)
      BY <1>1
    <3>1. reasoning.index \in 1 .. N /\ output_items[reasoning.index].kind = "reasoning"
      BY <1>4 DEF IInv, Owners
    <3>2. Alike(w.items[reasoning.index], v.items[reasoning.index])
      BY <1>12, <2>3, <3>1
    <3> QED
      BY <1>10, <3>2 DEF Remembered, Shows, Alike
  <2>5. ASSUME NEW t \in DOMAIN tools
        PROVE  Shows(w.items[tools[t].index], "function_call", tools[t].args, TRUE)
    <3>1. tools[t].index \in 1 .. N /\ output_items[tools[t].index].kind = "function_call"
      <4>1. output_items[tools[t].index] = [kind |-> "function_call", tool |-> t]
        BY DEF IInv, Owners
      <4> QED
        BY <1>4, <4>1
    <3>2. Alike(w.items[tools[t].index], v.items[tools[t].index])
      BY <1>12, <2>3, <3>1
    <3> QED
      BY <1>10, <3>2 DEF Remembered, Shows, Alike
  <2> QED
    BY <1>1, <2>1, <2>2, <2>4, <2>5 DEF Remembered
<1>14. /\ sequence' \in Nat /\ started' = TRUE /\ ended' = ended
       /\ expose_thinking' = expose_thinking
  BY <1>1, <1>11, FeedTypes
<1>15. TypeOK'
  <2>1. message' \in ItemState'
    BY <1>4, <1>6, <1>8 DEF ItemState
  <2>2. reasoning' \in ItemState'
    <3>1. reasoning'.index \in {0} \cup 1 .. M
      BY <1>1, <1>4, <1>6
    <3>2. reasoning' \in [index : {0} \cup 1 .. N, parts : Nat, item_done : BOOLEAN]
      BY <1>1, <1>3 DEF IInv, TypeOK, ItemState
    <3> QED
      BY <1>6, <3>1, <3>2 DEF ItemState
  <2>3. \A t \in DOMAIN tools' : tools'[t] \in Slot'
    <3> SUFFICES ASSUME NEW t \in DOMAIN tools
                 PROVE  tools[t] \in Slot'
      BY <1>1
    <3>1. tools[t] \in [index : 1 .. N, named : BOOLEAN, args : Nat]
      BY <1>3 DEF IInv, TypeOK, Slot
    <3> QED
      BY <1>6, <3>1 DEF Slot
  <2>4. output_items' \in [Given' -> [kind : {"reasoning", "message", "function_call"}, tool : Nat]]
    BY <1>6, <1>7 DEF OutKinds
  <2>5. next_output_index' \in Nat \ {0}
    BY <1>6
  <2> QED
    BY <1>1, <1>14, <2>1, <2>2, <2>3, <2>4, <2>5 DEF IInv, TypeOK
<1>16. Owners'
  <2>1. message'.index = i /\ (old # 0 => output_items[old].kind = "message")
    BY <1>8 DEF IInv, Owners
  <2>2. output_items'[i].kind = "message"
    BY <1>4, <1>7, <2>1
  <2>3. reasoning.index # 0 => output_items'[reasoning.index].kind = "reasoning"
    BY <1>4, <1>7 DEF IInv, Owners
  <2>4. \A t \in DOMAIN tools :
          output_items'[tools[t].index] = [kind |-> "function_call", tool |-> t]
    BY <1>4, <1>7 DEF IInv, Owners
  <2>5. ASSUME NEW j \in 1 .. M
        PROVE  /\ output_items'[j].kind = "reasoning" => reasoning.index = j
               /\ output_items'[j].kind = "message" => i = j
               /\ output_items'[j].kind = "function_call" =>
                    output_items'[j].tool \in DOMAIN tools /\ tools[output_items'[j].tool].index = j
    <3>1. CASE j \in 1 .. N
      <4>1. /\ output_items[j].kind = "reasoning" => reasoning.index = j
            /\ output_items[j].kind = "message" => old = j
            /\ output_items[j].kind = "function_call" =>
                 output_items[j].tool \in DOMAIN tools /\ tools[output_items[j].tool].index = j
        BY <1>3, <3>1 DEF IInv, Owners
      <4> QED
        BY <1>7, <3>1, <4>1
    <3>2. CASE j \notin 1 .. N
      <4>1. old = 0 /\ j = N + 1
        BY <1>6, <3>2
      <4> QED
        BY <1>7, <4>1
    <3> QED
      BY <3>1, <3>2
  <2>6. reasoning.index # 0 => expose_thinking
    BY DEF IInv, Owners
  <2> HIDE DEF i
  <2> QED
    BY <1>1, <1>6, <1>14, <2>1, <2>2, <2>3, <2>4, <2>5, <2>6 DEF Owners
<1>17. Fresh'
  <2>1. message'.index # 0
    BY <1>6, <1>8
  <2> QED
    BY <1>1, <1>14, <2>1 DEF IInv, Fresh
<1> QED
  BY <1>1, <1>10, <1>11, <1>12, <1>13, <1>15, <1>16, <1>17, FeedStep

\* A chunk with reasoning that is shown (feed_reasoning).
LEMMA ReasoningStep ==
  ASSUME IInv, Reasoning
  PROVE  IInv'
<1> DEFINE F == Opening(reasoning, "reasoning") \o <<Delta(IndexOf(reasoning))>>
<1>1. /\ Feed(F) /\ Allocate(reasoning, "reasoning") /\ reasoning' = Grown(reasoning)
      /\ UNCHANGED <<message, tools, finish_reason>> /\ expose_thinking
  BY DEF Reasoning
<1>2. PICK N \in Nat : next_output_index = N + 1
  <2>1. next_output_index - 1 \in Nat /\ next_output_index = (next_output_index - 1) + 1
    BY DEF IInv, TypeOK
  <2> QED
    BY <2>1
<1>3. Given = 1 .. N
  BY <1>2 DEF Given
<1>4. /\ reasoning.index \in 0 .. N /\ reasoning.parts \in Nat /\ reasoning.item_done \in BOOLEAN
      /\ message.index \in 0 .. N
      /\ \A t \in DOMAIN tools : tools[t].index \in 1 .. N
  BY <1>3 DEF IInv, TypeOK, ItemState, Slot
<1> DEFINE old == reasoning.index
           i == IF old = 0 THEN N + 1 ELSE old
           M == N + (IF old = 0 THEN 1 ELSE 0)
<1>5. i = IndexOf(reasoning)
  BY <1>2 DEF IndexOf
<1>6. /\ next_output_index' = M + 1 /\ Given' = 1 .. M
      /\ M \in Nat /\ N <= M /\ i \in 1 .. M /\ (old = 0 => M = N + 1) /\ (old # 0 => M = N)
  BY <1>1, <1>2, <1>4 DEF Allocate, Given
<1>7. /\ output_items' \in [1 .. M -> OutKinds]
      /\ \A j \in 1 .. N : output_items'[j] = output_items[j]
      /\ old = 0 => output_items'[N + 1] = [kind |-> "reasoning", tool |-> 0]
  <2>1. [kind |-> "reasoning", tool |-> 0] \in OutKinds
    BY DEF OutKinds
  <2>2. output_items' = output_items \o If(old = 0, <<[kind |-> "reasoning", tool |-> 0]>>)
    BY <1>1 DEF Allocate
  <2>3. output_items \in [1 .. N -> OutKinds]
    BY <1>3 DEF IInv, TypeOK, OutKinds
  <2> HIDE DEF M, old
  <2> QED
    BY <1>6, <2>1, <2>2, <2>3, Allocated
<1>8. reasoning' = [index |-> i, parts |-> reasoning.parts + 1, item_done |-> reasoning.item_done]
  BY <1>1, <1>5 DEF Grown, IInv, TypeOK, ItemState
<1>9. ~ ended /\ out = << >>
  BY <1>1 DEF Feed
<1>10. PICK v \in Views : /\ Run(If(~ started, Created), View, v)
                          /\ v.stage = "streaming" /\ Remembered(v)
  BY <1>9, Ready
<1>11. /\ F \in Seq(Frames)
       /\ \E w \in Views : /\ Run(F, v, w) /\ w.stage = "streaming"
                           /\ DOMAIN w.items = 1 .. M
                           /\ \A j \in 1 .. N : j # i => Alike(w.items[j], v.items[j])
                           /\ Shows(w.items[i], "reasoning", reasoning.parts + 1, ~ reasoning.item_done)
  <2>1. PICK x \in [index : 0 .. N, parts : Nat, item_done : BOOLEAN] : x = reasoning
    BY <1>3 DEF IInv, TypeOK, ItemState
  <2>2. DOMAIN v.items = 1 .. N
    BY <1>3, <1>10 DEF Remembered
  <2>3. x.index = 0 => x.parts = 0 /\ ~ x.item_done
    BY <1>1, <2>1 DEF IInv, Fresh
  <2>4. x.index # 0 => Shows(v.items[x.index], "reasoning", x.parts, ~ x.item_done)
    BY <1>10, <2>1 DEF Remembered
  <2>5. F = If(x.index = 0, <<Added(i, "reasoning", FALSE), Part(i)>>) \o <<Delta(i)>>
    BY <1>5, <2>1 DEF Opening
  <2>6. i = IF x.index = 0 THEN N + 1 ELSE x.index
    BY <2>1
  <2>7. M = IF x.index = 0 THEN N + 1 ELSE N
    BY <2>1
  <2>8. "reasoning" \in {"reasoning", "message"} /\ ~ x.item_done
    BY <2>1 DEF IInv, Fresh
  <2> HIDE DEF F, i, M
  <2>9. /\ F \in Seq(Frames)
        /\ \E w \in Views : /\ Run(F, v, w) /\ w.stage = "streaming"
                            /\ DOMAIN w.items = 1 .. (IF x.index = 0 THEN N + 1 ELSE N)
                            /\ \A j \in 1 .. N : j # i => Alike(w.items[j], v.items[j])
                            /\ Shows(w.items[i], "reasoning", x.parts + 1, ~ x.item_done)
    BY <1>10, <2>2, <2>3, <2>4, <2>5, <2>6, <2>8, GrowRun
  <2> QED
    BY <2>1, <2>7, <2>9
<1> HIDE DEF F, M
<1>12. PICK w \in Views : /\ Run(F, v, w) /\ w.stage = "streaming"
                          /\ DOMAIN w.items = 1 .. M
                          /\ \A j \in 1 .. N : j # i => Alike(w.items[j], v.items[j])
                          /\ Shows(w.items[i], "reasoning", reasoning.parts + 1, ~ reasoning.item_done)
  BY <1>11
<1>13. Remembered(w)'
  <2>1. DOMAIN w.items = Given'
    BY <1>6, <1>12
  <2>2. reasoning'.index # 0 =>
          Shows(w.items[reasoning'.index], "reasoning", reasoning'.parts, ~ reasoning'.item_done)
    BY <1>8, <1>12
  <2>3. ASSUME NEW j \in 1 .. N, output_items[j].kind # "reasoning"
        PROVE  j # i
    <3>1. old # 0 => output_items[old].kind = "reasoning"
      BY DEF IInv, Owners
    <3> QED
      BY <2>3, <3>1
  <2>4. message'.index # 0 => Shows(w.items[message'.index], "message", message'.parts,
                                            ~ message'.item_done)
    <3> SUFFICES ASSUME message.index # 0
                 PROVE  Shows(w.items[message.index], "message", message.parts, ~ message.item_done)
      BY <1>1
    <3>1. message.index \in 1 .. N /\ output_items[message.index].kind = "message"
      BY <1>4 DEF IInv, Owners
    <3>2. Alike(w.items[message.index], v.items[message.index])
      BY <1>12, <2>3, <3>1
    <3> QED
      BY <1>10, <3>2 DEF Remembered, Shows, Alike
  <2>5. ASSUME NEW t \in DOMAIN tools
        PROVE  Shows(w.items[tools[t].index], "function_call", tools[t].args, TRUE)
    <3>1. tools[t].index \in 1 .. N /\ output_items[tools[t].index].kind = "function_call"
      <4>1. output_items[tools[t].index] = [kind |-> "function_call", tool |-> t]
        BY DEF IInv, Owners
      <4> QED
        BY <1>4, <4>1
    <3>2. Alike(w.items[tools[t].index], v.items[tools[t].index])
      BY <1>12, <2>3, <3>1
    <3> QED
      BY <1>10, <3>2 DEF Remembered, Shows, Alike
  <2> QED
    BY <1>1, <2>1, <2>2, <2>4, <2>5 DEF Remembered
<1>14. /\ sequence' \in Nat /\ started' = TRUE /\ ended' = ended
       /\ expose_thinking' = expose_thinking
  BY <1>1, <1>11, FeedTypes
<1>15. TypeOK'
  <2>1. reasoning' \in ItemState'
    BY <1>4, <1>6, <1>8 DEF ItemState
  <2>2. message' \in ItemState'
    <3>1. message'.index \in {0} \cup 1 .. M
      BY <1>1, <1>4, <1>6
    <3>2. message' \in [index : {0} \cup 1 .. N, parts : Nat, item_done : BOOLEAN]
      BY <1>1, <1>3 DEF IInv, TypeOK, ItemState
    <3> QED
      BY <1>6, <3>1, <3>2 DEF ItemState
  <2>3. \A t \in DOMAIN tools' : tools'[t] \in Slot'
    <3> SUFFICES ASSUME NEW t \in DOMAIN tools
                 PROVE  tools[t] \in Slot'
      BY <1>1
    <3>1. tools[t] \in [index : 1 .. N, named : BOOLEAN, args : Nat]
      BY <1>3 DEF IInv, TypeOK, Slot
    <3> QED
      BY <1>6, <3>1 DEF Slot
  <2>4. output_items' \in [Given' -> [kind : {"reasoning", "message", "function_call"}, tool : Nat]]
    BY <1>6, <1>7 DEF OutKinds
  <2>5. next_output_index' \in Nat \ {0}
    BY <1>6
  <2> QED
    BY <1>1, <1>14, <2>1, <2>2, <2>3, <2>4, <2>5 DEF IInv, TypeOK
<1>16. Owners'
  <2>1. reasoning'.index = i /\ (old # 0 => output_items[old].kind = "reasoning")
    BY <1>8 DEF IInv, Owners
  <2>2. output_items'[i].kind = "reasoning"
    BY <1>4, <1>7, <2>1
  <2>3. message.index # 0 => output_items'[message.index].kind = "message"
    BY <1>4, <1>7 DEF IInv, Owners
  <2>4. \A t \in DOMAIN tools :
          output_items'[tools[t].index] = [kind |-> "function_call", tool |-> t]
    BY <1>4, <1>7 DEF IInv, Owners
  <2>5. ASSUME NEW j \in 1 .. M
        PROVE  /\ output_items'[j].kind = "message" => message.index = j
               /\ output_items'[j].kind = "reasoning" => i = j
               /\ output_items'[j].kind = "function_call" =>
                    output_items'[j].tool \in DOMAIN tools /\ tools[output_items'[j].tool].index = j
    <3>1. CASE j \in 1 .. N
      <4>1. /\ output_items[j].kind = "message" => message.index = j
            /\ output_items[j].kind = "reasoning" => old = j
            /\ output_items[j].kind = "function_call" =>
                 output_items[j].tool \in DOMAIN tools /\ tools[output_items[j].tool].index = j
        BY <1>3, <3>1 DEF IInv, Owners
      <4> QED
        BY <1>7, <3>1, <4>1
    <3>2. CASE j \notin 1 .. N
      <4>1. old = 0 /\ j = N + 1
        BY <1>6, <3>2
      <4> QED
        BY <1>7, <4>1
    <3> QED
      BY <3>1, <3>2
  <2>6. expose_thinking'
    BY <1>1, <1>14
  <2> HIDE DEF i
  <2> QED
    BY <1>1, <1>6, <1>14, <2>1, <2>2, <2>3, <2>4, <2>5, <2>6 DEF Owners
<1>17. Fresh'
  <2>1. reasoning'.index # 0 /\ ~ reasoning'.item_done
    BY <1>6, <1>8 DEF IInv, Fresh
  <2> QED
    BY <1>1, <1>14, <2>1 DEF IInv, Fresh
<1> QED
  BY <1>1, <1>10, <1>11, <1>12, <1>13, <1>15, <1>16, <1>17, FeedStep

-----------------------------------------------------------------------------
(***************************************************************************)
(* feed_chunk: the tool calls of a chunk, which are walked twice.          *)
(***************************************************************************)
LEMMA CallsType ==
  ASSUME NEW calls \in Calls
  PROVE  /\ Len(calls) \in Nat /\ DOMAIN calls = 1 .. Len(calls)
         /\ \A n \in 1 .. Len(calls) : calls[n] \in Call
<1>1. PICK n \in 1 .. MaxCalls : calls \in [1 .. n -> Call]
  BY DEF Calls
<1>2. n \in Nat
  BY ResponsesAssumption
<1> QED
  BY <1>1, <1>2

\* f lists the m calls of the chunk that begin a slot, each index once.
IsFirst(calls, m, f) ==
  /\ f \in [1 .. m -> DOMAIN calls] /\ FirstCalls(calls) = f
  /\ \A k \in 1 .. m : calls[f[k]].tool \notin DOMAIN tools
  /\ \A k, l \in 1 .. m : calls[f[k]].tool = calls[f[l]].tool => k = l
  /\ \A t \in ToolsOf(calls) : t \notin DOMAIN tools => \E k \in 1 .. m : calls[f[k]].tool = t

\* FirstCalls is such a list.
LEMMA FirstIs ==
  ASSUME NEW calls \in Calls
  PROVE  \E m \in Nat : \E f : IsFirst(calls, m, f)
<1> DEFINE I == {n \in DOMAIN calls :
                   /\ calls[n].tool \notin DOMAIN tools
                   /\ \A p \in 1 .. n - 1 : calls[p].tool # calls[n].tool}
<1>1. PICK n \in Nat : n = Len(calls) /\ DOMAIN calls = 1 .. n
  BY CallsType
<1>2. I \in SUBSET (1 .. n) /\ FirstCalls(calls) = Enumerate(I, n)
  BY <1>1 DEF FirstCalls
<1>3. \A p \in 1 .. n : p \in I <=> /\ calls[p].tool \notin DOMAIN tools
                                   /\ \A r \in 1 .. p - 1 : calls[r].tool # calls[p].tool
  BY <1>1
<1> HIDE DEF I
<1>4. PICK m \in 0 .. n : /\ Enumerate(I, n) \in [1 .. m -> I]
                          /\ Enumerates(Enumerate(I, n), I)
  BY <1>2, EnumerateIsOne
<1>5. PICK f \in [1 .. m -> I] : f = FirstCalls(calls) /\ Enumerates(f, I)
  BY <1>2, <1>4
<1>6. \A k \in 1 .. m : f[k] \in I /\ f[k] \in 1 .. n
  BY <1>2, <1>5
<1>7. ASSUME NEW k \in 1 .. m, NEW l \in 1 .. m, k < l
      PROVE  calls[f[k]].tool # calls[f[l]].tool
  <2>1. f[k] < f[l]
    BY <1>5, <1>7 DEF Enumerates, IsIncreasing
  <2>2. f[k] \in 1 .. f[l] - 1
    BY <1>6, <2>1
  <2> QED
    BY <1>3, <1>6, <2>2
<1>8. \A k, l \in 1 .. m : calls[f[k]].tool = calls[f[l]].tool => k = l
  <2> SUFFICES ASSUME NEW k \in 1 .. m, NEW l \in 1 .. m, k # l
               PROVE  calls[f[k]].tool # calls[f[l]].tool
    OBVIOUS
  <2>1. k < l \/ l < k
    OBVIOUS
  <2> QED
    BY <1>7, <2>1
<1>9. ASSUME NEW t \in ToolsOf(calls), t \notin DOMAIN tools
      PROVE  \E k \in 1 .. m : calls[f[k]].tool = t
  <2> DEFINE T == {p \in 1 .. n : calls[p].tool = t}
  <2>1. T \in SUBSET Nat /\ T # {}
    BY <1>1 DEF ToolsOf
  <2>2. PICK p \in T : \A r \in T : p <= r
    <3> HIDE DEF T
    <3> QED
      BY <2>1, LeastNatural
  <2>3. p \in 1 .. n /\ calls[p].tool = t
    OBVIOUS
  <2>4. \A r \in 1 .. p - 1 : calls[r].tool # calls[p].tool
    <3> SUFFICES ASSUME NEW r \in 1 .. p - 1, calls[r].tool = t
                 PROVE  FALSE
      BY <2>3
    <3>1. r \in T /\ ~ (p <= r)
      BY <2>3
    <3> QED
      BY <2>2, <3>1
  <2>5. p \in I
    BY <1>3, <1>9, <2>3, <2>4
  <2>6. PICK k \in 1 .. m : p = f[k]
    BY <1>5, <2>5 DEF Enumerates
  <2> QED
    BY <2>3, <2>6
<1>10. f \in [1 .. m -> DOMAIN calls]
  BY <1>1, <1>2, <1>5
<1>11. IsFirst(calls, m, f)
  BY <1>3, <1>5, <1>6, <1>8, <1>9, <1>10 DEF IsFirst
<1> QED
  BY <1>1, <1>11

\* g lists the q calls of the chunk that have a fragment.
HasArgs(calls) == {n \in DOMAIN calls : calls[n].args = 1}

IsGiven(calls, q, g) ==
  /\ g \in [1 .. q -> DOMAIN calls] /\ g = Enumerate(HasArgs(calls), Len(calls))
  /\ \A k, l \in 1 .. q : g[k] = g[l] => k = l
  /\ HasArgs(calls) = {g[k] : k \in 1 .. q}

\* The order of pass 2 is such a list.
LEMMA GivenIs ==
  ASSUME NEW calls \in Calls
  PROVE  \E q \in Nat : \E g : IsGiven(calls, q, g)
<1> DEFINE I == HasArgs(calls)
<1>1. PICK n \in Nat : n = Len(calls) /\ DOMAIN calls = 1 .. n
  BY CallsType
<1>2. I \in SUBSET (1 .. n)
  BY <1>1 DEF HasArgs
<1> HIDE DEF I
<1>3. PICK q \in 0 .. n : /\ Enumerate(I, n) \in [1 .. q -> I]
                          /\ Enumerates(Enumerate(I, n), I)
  BY <1>2, EnumerateIsOne
<1>4. PICK g \in [1 .. q -> I] : g = Enumerate(I, n) /\ Enumerates(g, I)
  BY <1>3
<1>5. \A k, l \in 1 .. q : k < l => g[k] < g[l]
  BY <1>4 DEF Enumerates, IsIncreasing
<1>6. \A k \in 1 .. q : g[k] \in 1 .. n
  BY <1>2
<1>7. \A k, l \in 1 .. q : g[k] = g[l] => k = l
  <2> SUFFICES ASSUME NEW k \in 1 .. q, NEW l \in 1 .. q, k # l
               PROVE  g[k] # g[l]
    OBVIOUS
  <2>1. k < l \/ l < k
    OBVIOUS
  <2> QED
    BY <1>5, <1>6, <2>1
<1>8. g \in [1 .. q -> DOMAIN calls]
  BY <1>1, <1>2
<1>9. I = {g[k] : k \in 1 .. q}
  BY <1>4 DEF Enumerates
<1>10. IsGiven(calls, q, g)
  BY <1>1, <1>4, <1>7, <1>8, <1>9 DEF IsGiven, I
<1> QED
  BY <1>10

\* The fragments that the chunk has for a slot.
ArgsOf(calls, t) == Cardinality({n \in DOMAIN calls : calls[n].tool = t /\ calls[n].args = 1})

\* A slot the chunk does not name gets no fragment.
LEMMA ArgsOfType ==
  ASSUME NEW calls \in Calls, NEW t
  PROVE  /\ ArgsOf(calls, t) \in Nat
         /\ IsFiniteSet({n \in DOMAIN calls : calls[n].tool = t /\ calls[n].args = 1})
         /\ t \notin ToolsOf(calls) => ArgsOf(calls, t) = 0
<1> DEFINE T == {n \in DOMAIN calls : calls[n].tool = t /\ calls[n].args = 1}
<1>1. PICK n \in Nat : DOMAIN calls = 1 .. n
  BY CallsType
<1>2. T \in SUBSET (1 .. n) /\ IsFiniteSet(1 .. n)
  BY <1>1, FS_Interval
<1>3. t \notin ToolsOf(calls) => T = {}
  BY DEF ToolsOf
<1>4. ArgsOf(calls, t) = Cardinality(T)
  BY DEF ArgsOf
<1> HIDE DEF T
<1>5. IsFiniteSet(T)
  BY <1>2, FS_Subset
<1> QED
  BY <1>3, <1>4, <1>5, FS_CardinalityType, FS_EmptySet DEF T

\* The slots after the chunk: the old ones stay, the new ones take the next indexes.
ArgsBefore(t) == IF t \in DOMAIN tools THEN tools[t].args ELSE 0

AreSlots(calls, N, m, f, S) ==
  /\ DOMAIN S = DOMAIN tools \cup ToolsOf(calls) /\ DOMAIN S \subseteq ToolIndexes
  /\ \A t \in DOMAIN S : S[t] \in [index : 1 .. N + m, named : BOOLEAN, args : Nat]
  /\ \A t \in DOMAIN S : S[t].args = ArgsBefore(t) + ArgsOf(calls, t)
  /\ \A t \in DOMAIN tools : S[t].index = tools[t].index
  /\ \A k \in 1 .. m : calls[f[k]].tool \in DOMAIN S /\ S[calls[f[k]].tool].index = N + k
  /\ \A t, u \in DOMAIN S : S[t].index = S[u].index => t = u

\* The slots after the chunk: old ones keep their index, new ones follow in order,
\* and no two share one.
LEMMA SlotsAre ==
  ASSUME TypeOK, Owners, NEW calls \in Calls,
         NEW N \in Nat, next_output_index = N + 1,
         NEW m \in Nat, NEW f, IsFirst(calls, m, f)
  PROVE  /\ AreSlots(calls, N, m, f, SlotsAfter(calls))
         /\ \A t \in ToolsOf(calls) : SlotAfter(t, calls) = SlotsAfter(calls)[t]
<1> DEFINE S == SlotsAfter(calls)
<1>1. /\ f \in [1 .. m -> DOMAIN calls] /\ FirstCalls(calls) = f
      /\ \A k \in 1 .. m : calls[f[k]].tool \notin DOMAIN tools
      /\ \A k, l \in 1 .. m : calls[f[k]].tool = calls[f[l]].tool => k = l
      /\ \A t \in ToolsOf(calls) : t \notin DOMAIN tools => \E k \in 1 .. m : calls[f[k]].tool = t
  BY DEF IsFirst
<1>2. /\ DOMAIN tools \subseteq ToolIndexes
      /\ \A t \in DOMAIN tools : tools[t] \in [index : 1 .. N, named : BOOLEAN, args : Nat]
  BY DEF TypeOK, Slot, Given
<1>3. ASSUME NEW t
      PROVE  /\ SlotAfter(t, calls).index =
                  IF t \in DOMAIN tools THEN tools[t].index
                  ELSE next_output_index - 1 + CHOOSE k \in DOMAIN f : calls[f[k]].tool = t
             /\ SlotAfter(t, calls).named \in BOOLEAN
             /\ SlotAfter(t, calls).args = ArgsBefore(t) + ArgsOf(calls, t)
             /\ SlotAfter(t, calls) = [index |-> SlotAfter(t, calls).index,
                                      named |-> SlotAfter(t, calls).named,
                                      args  |-> SlotAfter(t, calls).args]
  <2> DEFINE mine == {n \in DOMAIN calls : calls[n].tool = t}
             i == IF t \in DOMAIN tools THEN tools[t].index
                  ELSE next_output_index - 1
                       + CHOOSE k \in DOMAIN FirstCalls(calls) : calls[FirstCalls(calls)[k]].tool = t
             b == (t \in DOMAIN tools /\ tools[t].named) \/ \E n \in mine : calls[n].id
             a == (IF t \in DOMAIN tools THEN tools[t].args ELSE 0)
                  + Cardinality({n \in mine : calls[n].args = 1})
  <2>1. SlotAfter(t, calls) = [index |-> i, named |-> b, args |-> a]
    BY Zenon DEF SlotAfter
  <2>2. b \in BOOLEAN
    BY Zenon
  <2>3. a = ArgsBefore(t) + ArgsOf(calls, t)
    <3>1. {n \in mine : calls[n].args = 1}
            = {n \in DOMAIN calls : calls[n].tool = t /\ calls[n].args = 1}
      OBVIOUS
    <3> QED
      BY <3>1 DEF ArgsBefore, ArgsOf
  <2>4. i = IF t \in DOMAIN tools THEN tools[t].index
            ELSE next_output_index - 1 + CHOOSE k \in DOMAIN f : calls[f[k]].tool = t
    BY <1>1
  <2> HIDE DEF mine, i, b, a
  <2>5. /\ SlotAfter(t, calls).index = i /\ SlotAfter(t, calls).named = b
        /\ SlotAfter(t, calls).args = a
    BY <2>1
  <2> QED
    BY <2>1, <2>2, <2>3, <2>4, <2>5
<1>4. \A t : ArgsBefore(t) \in Nat /\ ArgsOf(calls, t) \in Nat
             /\ (t \notin ToolsOf(calls) => ArgsOf(calls, t) = 0)
  BY <1>2, ArgsOfType DEF ArgsBefore
<1>5. ASSUME NEW k \in 1 .. m
      PROVE  /\ calls[f[k]].tool \in ToolsOf(calls)
             /\ SlotAfter(calls[f[k]].tool, calls).index = N + k
  <2> DEFINE t == calls[f[k]].tool
  <2>1. t \notin DOMAIN tools /\ f[k] \in DOMAIN calls
    BY <1>1
  <2>2. (CHOOSE l \in DOMAIN f : calls[f[l]].tool = t) = k
    <3>1. DOMAIN f = 1 .. m /\ \A l \in 1 .. m : calls[f[l]].tool = t <=> l = k
      BY <1>1
    <3> HIDE DEF t
    <3>2. \A l \in DOMAIN f : calls[f[l]].tool = t <=> l = k
      BY <3>1
    <3>3. k \in DOMAIN f
      BY <3>1
    <3> QED
      BY <3>2, <3>3
  <2>3. SlotAfter(t, calls).index =
          IF t \in DOMAIN tools THEN tools[t].index
          ELSE next_output_index - 1 + CHOOSE l \in DOMAIN f : calls[f[l]].tool = t
    <3> HIDE DEF t
    <3> QED
      BY <1>3
  <2>4. SlotAfter(t, calls).index = next_output_index - 1 + k
    <3> HIDE DEF t
    <3> QED
      BY <2>1, <2>2, <2>3
  <2> QED
    BY <2>1, <2>4 DEF ToolsOf
<1>6. ASSUME NEW t \in DOMAIN tools
      PROVE  SlotAfter(t, calls).index = tools[t].index
  BY <1>3
<1>7. ASSUME NEW t \in ToolsOf(calls)
      PROVE  /\ SlotAfter(t, calls) \in [index : 1 .. N + m, named : BOOLEAN, args : Nat]
             /\ SlotAfter(t, calls).args = ArgsBefore(t) + ArgsOf(calls, t)
             /\ t \in ToolIndexes
  <2>1. SlotAfter(t, calls).args = ArgsBefore(t) + ArgsOf(calls, t)
    BY <1>3
  <2>2. SlotAfter(t, calls).index \in 1 .. N + m
    <3>1. CASE t \in DOMAIN tools
      BY <1>2, <1>6, <3>1
    <3>2. CASE t \notin DOMAIN tools
      <4>1. PICK k \in 1 .. m : calls[f[k]].tool = t
        BY <1>1, <3>2
      <4>2. SlotAfter(t, calls).index = N + k
        BY <1>5, <4>1
      <4> QED
        BY <4>2
    <3> QED
      BY <3>1, <3>2
  <2>3. SlotAfter(t, calls).named \in BOOLEAN
    BY <1>3
  <2>4. SlotAfter(t, calls) = [index |-> SlotAfter(t, calls).index,
                               named |-> SlotAfter(t, calls).named,
                               args  |-> SlotAfter(t, calls).args]
    BY <1>3
  <2>5. t \in ToolIndexes
    <3>1. PICK n \in DOMAIN calls : t = calls[n].tool
      BY DEF ToolsOf
    <3>2. calls[n] \in Call
      BY CallsType
    <3> QED
      BY <3>1, <3>2 DEF Call
  <2> DEFINE s == SlotAfter(t, calls)
  <2>6. s.args \in Nat
    BY <1>4, <2>1
  <2> HIDE DEF s
  <2>7. s \in [index : 1 .. N + m, named : BOOLEAN, args : Nat]
    BY <2>2, <2>3, <2>4, <2>6 DEF s
  <2> QED
    BY <2>1, <2>5, <2>7 DEF s
<1>8. /\ DOMAIN S = DOMAIN tools \cup ToolsOf(calls)
      /\ \A t \in ToolsOf(calls) : S[t] = SlotAfter(t, calls)
      /\ \A t \in DOMAIN tools : t \notin ToolsOf(calls) => S[t] = tools[t]
  BY DEF SlotsAfter
<1> HIDE DEF S
<1>9. \A t \in DOMAIN tools : S[t].index = tools[t].index
  BY <1>6, <1>8
<1>10. \A k \in 1 .. m : calls[f[k]].tool \in DOMAIN S /\ S[calls[f[k]].tool].index = N + k
  BY <1>5, <1>8
<1>11. \A t \in DOMAIN S : S[t] \in [index : 1 .. N + m, named : BOOLEAN, args : Nat]
  <2> SUFFICES ASSUME NEW t \in DOMAIN S
               PROVE  S[t] \in [index : 1 .. N + m, named : BOOLEAN, args : Nat]
    OBVIOUS
  <2>1. CASE t \in ToolsOf(calls)
    BY <1>7, <1>8, <2>1
  <2>2. CASE t \notin ToolsOf(calls)
    <3>1. S[t] = tools[t] /\ tools[t] \in [index : 1 .. N, named : BOOLEAN, args : Nat]
      BY <1>2, <1>8, <2>2
    <3> QED
      BY <3>1
  <2> QED
    BY <2>1, <2>2
<1>12. \A t \in DOMAIN S : S[t].args = ArgsBefore(t) + ArgsOf(calls, t)
  <2> SUFFICES ASSUME NEW t \in DOMAIN S
               PROVE  S[t].args = ArgsBefore(t) + ArgsOf(calls, t)
    OBVIOUS
  <2>1. CASE t \in ToolsOf(calls)
    BY <1>7, <1>8, <2>1
  <2>2. CASE t \notin ToolsOf(calls)
    <3>1. S[t] = tools[t] /\ ArgsOf(calls, t) = 0 /\ ArgsBefore(t) = tools[t].args
          /\ ArgsBefore(t) \in Nat
      BY <1>4, <1>8, <2>2 DEF ArgsBefore
    <3> QED
      BY <3>1
  <2> QED
    BY <2>1, <2>2
<1>13. ASSUME NEW t \in DOMAIN S, t \notin DOMAIN tools
       PROVE  \E k \in 1 .. m : t = calls[f[k]].tool /\ S[t].index = N + k
  BY <1>1, <1>8, <1>10, <1>13
<1>14. ASSUME NEW t \in DOMAIN tools
       PROVE  S[t].index \in 1 .. N /\ output_items[S[t].index].tool = t
  <2>1. tools[t].index \in 1 .. N
    BY <1>2
  <2>2. output_items[tools[t].index] = [kind |-> "function_call", tool |-> t]
    BY DEF Owners
  <2> QED
    BY <1>9, <2>1, <2>2
<1>15. ASSUME NEW t \in DOMAIN S, NEW u \in DOMAIN S, S[t].index = S[u].index
       PROVE  t = u
  <2>1. CASE t \in DOMAIN tools /\ u \in DOMAIN tools
    BY <1>14, <1>15, <2>1
  <2>2. CASE t \notin DOMAIN tools /\ u \notin DOMAIN tools
    <3>1. PICK k \in 1 .. m : t = calls[f[k]].tool /\ S[t].index = N + k
      BY <1>13, <2>2
    <3>2. PICK l \in 1 .. m : u = calls[f[l]].tool /\ S[u].index = N + l
      BY <1>13, <2>2
    <3>3. k = l
      BY <1>15, <3>1, <3>2
    <3> QED
      BY <3>1, <3>2, <3>3
  <2>3. CASE t \in DOMAIN tools /\ u \notin DOMAIN tools
    <3>1. PICK l \in 1 .. m : S[u].index = N + l
      BY <1>13, <2>3
    <3>2. S[t].index \in 1 .. N
      BY <1>14, <2>3
    <3> QED
      BY <1>15, <3>1, <3>2
  <2>4. CASE t \notin DOMAIN tools /\ u \in DOMAIN tools
    <3>1. PICK l \in 1 .. m : S[t].index = N + l
      BY <1>13, <2>4
    <3>2. S[u].index \in 1 .. N
      BY <1>14, <2>4
    <3> QED
      BY <1>15, <3>1, <3>2
  <2> QED
    BY <2>1, <2>2, <2>3, <2>4
<1>16. DOMAIN S \subseteq ToolIndexes
  BY <1>2, <1>7, <1>8
<1>17. AreSlots(calls, N, m, f, S)
  BY <1>8, <1>9, <1>10, <1>11, <1>12, <1>15, <1>16 DEF AreSlots
<1> QED
  BY <1>8, <1>17 DEF S

\* One element is counted for each position of the other set.
LEMMA SameNumber ==
  ASSUME NEW S, NEW T, IsFiniteSet(S), NEW g \in [S -> T],
         \A x, y \in S : g[x] = g[y] => x = y,
         \A z \in T : \E x \in S : g[x] = z
  PROVE  Cardinality(T) = Cardinality(S)
<1>1. g \in Injection(S, T)
  BY DEF Injection, IsInjective
<1>2. g \in Surjection(S, T)
  BY Zenon DEF Surjection
<1>3. ExistsBijection(S, T)
  BY <1>1, <1>2 DEF ExistsBijection, Bijection
<1> QED
  BY <1>3, FS_Bijection

\* d are the indexes that the fragments go to.
AreIndexes(calls, S, q, g, d) == \A k \in 1 .. q : d[k] = S[calls[g[k]].tool].index

\* The slots of the chunk's calls have indexes of their own.
SlotsApart(calls, S) ==
  /\ \A t \in ToolsOf(calls) : t \in DOMAIN S
  /\ \A t, u \in DOMAIN S : S[t].index = S[u].index => t = u

\* The fragments written for a slot are those the chunk has for it.
LEMMA FragmentCount ==
  ASSUME NEW calls \in Calls, NEW q \in Nat, NEW g, IsGiven(calls, q, g),
         NEW S, SlotsApart(calls, S), NEW d, AreIndexes(calls, S, q, g, d)
  PROVE  /\ \A t \in DOMAIN S : Count(d, q, S[t].index) = ArgsOf(calls, t)
         /\ \A j : (\A t \in DOMAIN S : S[t].index # j) => Count(d, q, j) = 0
<1>1. /\ g \in [1 .. q -> DOMAIN calls]
      /\ \A k, l \in 1 .. q : g[k] = g[l] => k = l
      /\ HasArgs(calls) = {g[k] : k \in 1 .. q}
  BY DEF IsGiven
<1>2. \A k \in 1 .. q : calls[g[k]].tool \in DOMAIN S /\ d[k] = S[calls[g[k]].tool].index
  BY <1>1 DEF ToolsOf, AreIndexes, SlotsApart
<1>3. ASSUME NEW t \in DOMAIN S
      PROVE  Count(d, q, S[t].index) = ArgsOf(calls, t)
  <2>0. PICK i : i = S[t].index
    OBVIOUS
  <2> DEFINE A == {k \in 1 .. q : d[k] = i}
             B == {n \in DOMAIN calls : calls[n].tool = t /\ calls[n].args = 1}
             h == [k \in A |-> g[k]]
  <2>1. \A k \in 1 .. q : k \in A <=> calls[g[k]].tool = t
    BY <1>2, <2>0 DEF SlotsApart
  <2>2. IsFiniteSet(A) /\ Count(d, q, i) = Cardinality(A)
    <3>1. IsFiniteSet(1 .. q) /\ A \in SUBSET (1 .. q)
      BY FS_Interval
    <3>2. Count(d, q, i) = Cardinality(A)
      BY DEF Count
    <3> HIDE DEF A
    <3> QED
      BY <3>1, <3>2, FS_Subset
  <2>3. \A k \in A : k \in 1 .. q
    OBVIOUS
  <2>4. \A n : n \in B <=> n \in DOMAIN calls /\ calls[n].tool = t /\ calls[n].args = 1
    OBVIOUS
  <2>5. ArgsOf(calls, t) = Cardinality(B)
    BY DEF ArgsOf
  <2> HIDE DEF A, B
  <2>6. \A n : n \in HasArgs(calls) <=> n \in DOMAIN calls /\ calls[n].args = 1
    BY DEF HasArgs
  <2>7. \A k \in A : g[k] \in B
    BY <1>1, <2>1, <2>3, <2>4, <2>6
  <2>8. h \in [A -> B]
    BY <2>7
  <2>9. \A k \in A : h[k] = g[k]
    OBVIOUS
  <2> HIDE DEF h
  <2>10. \A k, l \in A : h[k] = h[l] => k = l
    BY <1>1, <2>3, <2>9
  <2>11. \A n \in B : \E k \in A : h[k] = n
    <3> SUFFICES ASSUME NEW n \in B
                 PROVE  \E k \in A : h[k] = n
      OBVIOUS
    <3>1. n \in HasArgs(calls) /\ calls[n].tool = t
      BY <2>4, <2>6
    <3>2. PICK k \in 1 .. q : n = g[k]
      BY <1>1, <3>1
    <3>3. k \in A
      BY <2>1, <3>1, <3>2
    <3> QED
      BY <2>9, <3>2, <3>3
  <2>12. Cardinality(B) = Cardinality(A)
    BY <2>2, <2>8, <2>10, <2>11, SameNumber
  <2> QED
    BY <2>0, <2>2, <2>5, <2>12
<1>4. ASSUME NEW j, \A t \in DOMAIN S : S[t].index # j
      PROVE  Count(d, q, j) = 0
  <2>1. {k \in 1 .. q : d[k] = j} = {}
    BY <1>2, <1>4
  <2> QED
    BY <2>1, FS_EmptySet DEF Count
<1> QED
  BY <1>3, <1>4

\* An item of text is closed, or left alone.
Closes(w, v, N, kind, x, close) ==
  /\ w.stage = "streaming" /\ DOMAIN w.items = 1 .. N
  /\ \A j \in 1 .. N : j # x.index => Alike(w.items[j], v.items[j])
  /\ x.index # 0 =>
       /\ w.items[x.index].kind = kind /\ w.items[x.index].parts = x.parts
       /\ ~ w.items[x.index].named
       /\ close \/ x.item_done => ~ w.items[x.index].open
       /\ ~ close => w.items[x.index].open = v.items[x.index].open

\* Closing an item, or not, leaves all others as they are.
LEMMA ClosedItem ==
  ASSUME NEW v \in Views, v.stage = "streaming",
         NEW N \in Nat, DOMAIN v.items = 1 .. N,
         NEW kind \in {"reasoning", "message"},
         NEW x \in [index : 0 .. N, parts : Nat, item_done : BOOLEAN],
         x.index # 0 => Shows(v.items[x.index], kind, x.parts, ~ x.item_done),
         NEW close, close => x.index # 0 /\ ~ x.item_done,
         NEW F, F = If(close, CloseItem(x))
  PROVE  /\ F \in Seq(Frames)
         /\ \E w \in Views : Run(F, v, w) /\ Closes(w, v, N, kind, x, close)
<1>1. kind # "function_call" /\ x.index \in 0 .. N /\ x.item_done \in BOOLEAN
  OBVIOUS
<1>2. CASE close
  <2>1. F = CloseItem(x)
    BY <1>2 DEF If
  <2>2. F \in Seq(Frames)
    <3>0. PICK no \in BOOLEAN : no = FALSE
      OBVIOUS
    <3>1. F = <<Whole(x.index), Whole(x.index), Done(x.index, no)>>
      BY <2>1, <3>0 DEF CloseItem
    <3>2. Whole(x.index) \in Frames /\ Done(x.index, no) \in Frames
      <4>1. "message" \in Kinds /\ x.index \in Nat
        BY <1>1 DEF Kinds
      <4> QED
        BY <4>1, FrameTypes
    <3>3. \A a, b, c \in Frames : <<a, b, c>> \in Seq(Frames)
      OBVIOUS
    <3> QED
      BY <3>1, <3>2, <3>3
  <2>3. x.index # 0 /\ x.index \in DOMAIN v.items /\ v.items[x.index].open
    <3>1. x.index # 0 /\ ~ x.item_done
      BY <1>2
    <3>2. v.items[x.index].open = (~ x.item_done)
      BY <3>1 DEF Shows
    <3>3. v.items[x.index].open
      BY <3>1, <3>2
    <3>4. x.index \in 1 .. N
      BY <1>1, <3>1
    <3> QED
      BY <3>1, <3>3, <3>4
  <2>4. PICK w \in Views :
          /\ Run(CloseItem(x), v, w)
          /\ w.stage = "streaming" /\ DOMAIN w.items = DOMAIN v.items
          /\ \A j \in DOMAIN v.items \ {x.index} : Alike(w.items[j], v.items[j])
          /\ w.items[x.index].kind = v.items[x.index].kind
          /\ w.items[x.index].parts = v.items[x.index].parts
          /\ ~ w.items[x.index].open /\ ~ w.items[x.index].named
    BY <2>3, CloseRun
  <2>5. w.items[x.index].kind = kind /\ w.items[x.index].parts = x.parts
    BY <2>3, <2>4 DEF Shows
  <2>6. \A j \in 1 .. N : j # x.index => Alike(w.items[j], v.items[j])
    BY <2>4
  <2> QED
    BY <1>2, <2>1, <2>2, <2>3, <2>4, <2>5, <2>6 DEF Closes
<1>3. CASE ~ close
  <2>1. F = << >>
    BY <1>3 DEF If
  <2>2. F \in Seq(Frames)
    BY <2>1
  <2>3. Run(F, v, v)
    BY <2>1, RunEmpty
  <2>4. \A j \in 1 .. N : Alike(v.items[j], v.items[j])
    BY DEF Alike
  <2>5. x.index # 0 =>
          /\ v.items[x.index].kind = kind /\ v.items[x.index].parts = x.parts
          /\ ~ v.items[x.index].named
          /\ x.item_done => ~ v.items[x.index].open
    BY <1>1 DEF Shows
  <2> QED
    BY <1>3, <2>2, <2>3, <2>4, <2>5 DEF Closes
<1> QED
  BY <1>2, <1>3

\* The frames of both passes, and the items that the client has then.
LEMMA AddedTypes ==
  ASSUME NEW calls \in Calls, NEW N \in Nat, next_output_index = N + 1,
         NEW m \in Nat, NEW f, IsFirst(calls, m, f)
  PROVE  \E id \in [1 .. m -> BOOLEAN] :
            /\ AddedFrames(calls) \in Seq(Frames) /\ Len(AddedFrames(calls)) = m
            /\ \A k \in 1 .. m : AddedFrames(calls)[k] = Added(N + k, "function_call", id[k])
<1>1. f \in [1 .. m -> DOMAIN calls] /\ FirstCalls(calls) = f
  BY DEF IsFirst
<1> DEFINE id == [k \in 1 .. m |-> calls[f[k]].id]
           F == AddedFrames(calls)
<1>2. \A k \in 1 .. m : calls[f[k]] \in Call
  BY <1>1, CallsType
<1>3. \A k \in 1 .. m : calls[f[k]].id \in BOOLEAN
  BY <1>2 DEF Call
<1>4. id \in [1 .. m -> BOOLEAN]
  BY <1>3
<1>5. F = [k \in 1 .. m |-> Added(N + k, "function_call", id[k])]
  <2>1. DOMAIN f = 1 .. m /\ \A k \in 1 .. m : next_output_index - 1 + k = N + k
    BY <1>1
  <2>2. F = [k \in DOMAIN f |-> Added(next_output_index - 1 + k, "function_call", calls[f[k]].id)]
    BY <1>1 DEF AddedFrames
  <2>3. \A k \in 1 .. m : id[k] = calls[f[k]].id
    OBVIOUS
  <2> HIDE DEF F, id
  <2> QED
    BY <2>1, <2>2, <2>3
<1> HIDE DEF F, id
<1>6. \A k \in 1 .. m : Added(N + k, "function_call", id[k]) \in Frames
  <2>1. \A k \in 1 .. m : N + k \in Nat /\ id[k] \in BOOLEAN
    BY <1>4
  <2>2. "function_call" \in Kinds
    BY DEF Kinds
  <2> QED
    BY <2>1, <2>2, FrameTypes
<1>7. /\ F \in [1 .. m -> Frames]
      /\ \A k \in 1 .. m : F[k] = Added(N + k, "function_call", id[k])
  BY <1>5, <1>6
<1>8. F \in Seq(Frames) /\ Len(F) = m
  BY <1>7
<1> QED
  BY <1>4, <1>7, <1>8 DEF F

\* S has the slot of every call of the chunk.
HasSlots(calls, S) == \A t \in ToolsOf(calls) : SlotAfter(t, calls) = S[t] /\ S[t].index \in Nat

\* Every fragment is sent to the index of its call's slot.
LEMMA ArgumentTypes ==
  ASSUME NEW calls \in Calls, NEW q \in Nat, NEW g, IsGiven(calls, q, g),
         NEW S, HasSlots(calls, S), NEW d, AreIndexes(calls, S, q, g, d)
  PROVE  /\ ArgumentFrames(calls) \in Seq(Frames) /\ Len(ArgumentFrames(calls)) = q
         /\ \A k \in 1 .. q : ArgumentFrames(calls)[k] = Delta(d[k])
<1>1. g \in [1 .. q -> DOMAIN calls] /\ g = Enumerate(HasArgs(calls), Len(calls))
  BY DEF IsGiven
<1> DEFINE F == ArgumentFrames(calls)
<1>2. \A k \in 1 .. q : calls[g[k]].tool \in ToolsOf(calls)
  BY <1>1 DEF ToolsOf
<1>3. F = [k \in 1 .. q |-> Delta(d[k])]
  <2>1. g = Enumerate({n \in DOMAIN calls : calls[n].args = 1}, Len(calls))
    BY <1>1 DEF HasArgs
  <2>2. F = [k \in DOMAIN g |-> Delta(SlotAfter(calls[g[k]].tool, calls).index)]
    BY <2>1 DEF ArgumentFrames
  <2>3. DOMAIN g = 1 .. q
    BY <1>1
  <2>4. \A k \in 1 .. q : SlotAfter(calls[g[k]].tool, calls).index = d[k]
    BY <1>2 DEF HasSlots, AreIndexes
  <2> HIDE DEF F
  <2> QED
    BY <2>2, <2>3, <2>4
<1> HIDE DEF F
<1>4. \A k \in 1 .. q : Delta(d[k]) \in Frames
  <2>1. \A k \in 1 .. q : d[k] \in Nat
    BY <1>2 DEF HasSlots, AreIndexes
  <2>2. "message" \in Kinds /\ TRUE \in BOOLEAN
    BY DEF Kinds
  <2> QED
    BY <2>1, <2>2, FrameTypes
<1>5. F \in [1 .. q -> Frames] /\ \A k \in 1 .. q : F[k] = Delta(d[k])
  BY <1>3, <1>4
<1>6. F \in Seq(Frames) /\ Len(F) = q
  BY <1>5
<1> QED
  BY <1>5, <1>6 DEF F

\* View w has the calls as slots S remember them.
ToolsShown(w, S) ==
  \A t \in DOMAIN S : Shows(w.items[S[t].index], "function_call", S[t].args, TRUE)

\* Read in order, the two passes show every slot as it is after the chunk, and change
\* neither the reasoning nor the message.
LEMMA ToolFramesRun ==
  ASSUME TypeOK, Owners, NEW calls \in Calls,
         NEW N \in Nat, next_output_index = N + 1,
         NEW m \in Nat, NEW f, IsFirst(calls, m, f),
         NEW S, S = SlotsAfter(calls),
         NEW v \in Views, v.stage = "streaming", DOMAIN v.items = 1 .. N,
         ToolsShown(v, tools), CallMayStart(v.items)
  PROVE  /\ ToolFrames(calls) \in Seq(Frames)
         /\ \E w \in Views :
               /\ Run(ToolFrames(calls), v, w) /\ w.stage = "streaming"
               /\ DOMAIN w.items = 1 .. N + m
               /\ ToolsShown(w, S)
               /\ \A j \in 1 .. N :
                    output_items[j].kind # "function_call" => Alike(w.items[j], v.items[j])
<1>1. /\ AreSlots(calls, N, m, f, S)
      /\ \A t \in ToolsOf(calls) : SlotAfter(t, calls) = S[t]
  BY SlotsAre
<1>2. /\ DOMAIN S = DOMAIN tools \cup ToolsOf(calls)
      /\ \A t \in DOMAIN S : S[t].index \in 1 .. N + m /\ S[t].args \in Nat
      /\ \A t \in DOMAIN S : S[t].args = ArgsBefore(t) + ArgsOf(calls, t)
      /\ \A t \in DOMAIN tools : S[t].index = tools[t].index
      /\ \A k \in 1 .. m : calls[f[k]].tool \in DOMAIN S /\ S[calls[f[k]].tool].index = N + k
      /\ \A t, u \in DOMAIN S : S[t].index = S[u].index => t = u
  BY <1>1 DEF AreSlots
<1>3. \A t \in DOMAIN tools : tools[t].index \in 1 .. N /\ output_items[tools[t].index].kind = "function_call"
                              /\ tools[t].args \in Nat
  <2> SUFFICES ASSUME NEW t \in DOMAIN tools
               PROVE  tools[t].index \in 1 .. N /\ output_items[tools[t].index].kind = "function_call"
                      /\ tools[t].args \in Nat
    OBVIOUS
  <2>1. tools[t].index \in 1 .. N /\ tools[t].args \in Nat
    BY DEF TypeOK, Slot, Given
  <2>2. output_items[tools[t].index] = [kind |-> "function_call", tool |-> t]
    BY DEF Owners
  <2> QED
    BY <2>1, <2>2
<1>4. \A t \in ToolsOf(calls) : t \notin DOMAIN tools => \E k \in 1 .. m : calls[f[k]].tool = t
  BY DEF IsFirst
<1>5. \A k \in 1 .. m : calls[f[k]].tool \notin DOMAIN tools
  BY DEF IsFirst
<1>a. PICK q \in Nat : \E g : IsGiven(calls, q, g)
  BY GivenIs
<1>6. PICK g : IsGiven(calls, q, g)
  BY <1>a
<1>7. PICK d : /\ d = [k \in 1 .. q |-> d[k]]
               /\ AreIndexes(calls, S, q, g, d)
  <2> DEFINE e == [k \in 1 .. q |-> S[calls[g[k]].tool].index]
  <2>1. e = [k \in 1 .. q |-> e[k]]
    OBVIOUS
  <2>2. AreIndexes(calls, S, q, g, e)
    BY DEF AreIndexes
  <2> HIDE DEF e
  <2> QED
    BY <2>1, <2>2
<1>8. PICK id \in [1 .. m -> BOOLEAN] :
        /\ AddedFrames(calls) \in Seq(Frames) /\ Len(AddedFrames(calls)) = m
        /\ \A k \in 1 .. m : AddedFrames(calls)[k] = Added(N + k, "function_call", id[k])
  BY AddedTypes
<1>9. PICK A \in Seq(Frames) :
        /\ A = AddedFrames(calls) /\ Len(A) = m
        /\ \A k \in 1 .. m : A[k] = Added(N + k, "function_call", id[k])
  BY <1>8
<1>10. PICK D \in Seq(Frames) :
        /\ D = ArgumentFrames(calls) /\ Len(D) = q
        /\ \A k \in 1 .. q : D[k] = Delta(d[k])
  <2>1. HasSlots(calls, S)
    BY <1>1, <1>2 DEF HasSlots
  <2> QED
    BY <1>6, <1>7, <2>1, ArgumentTypes
<1>11. PICK u \in Views : Run(A, v, u) /\ AddedSoFar(u, v, N, id, m)
  BY <1>9, AddedRun
<1>12. /\ u.stage = "streaming" /\ DOMAIN u.items = 1 .. N + m
       /\ \A j \in 1 .. N : u.items[j] = v.items[j]
       /\ \A k \in 1 .. m : u.items[N + k] = Opened("function_call", id[k])
  BY <1>11 DEF AddedSoFar
<1>13. ASSUME NEW t \in DOMAIN S
       PROVE  Shows(u.items[S[t].index], "function_call", ArgsBefore(t), TRUE)
  <2>1. CASE t \in DOMAIN tools
    <3>1. /\ S[t].index = tools[t].index /\ tools[t].index \in 1 .. N
          /\ ArgsBefore(t) = tools[t].args
      BY <1>2, <1>3, <2>1 DEF ArgsBefore
    <3>2. u.items[S[t].index] = v.items[tools[t].index]
      BY <1>12, <3>1
    <3> QED
      BY <2>1, <3>1, <3>2 DEF ToolsShown
  <2>2. CASE t \notin DOMAIN tools
    <3>1. PICK k \in 1 .. m : calls[f[k]].tool = t
      BY <1>2, <1>4, <2>2
    <3>2. u.items[S[t].index] = Opened("function_call", id[k]) /\ ArgsBefore(t) = 0
      BY <1>2, <1>12, <2>2, <3>1 DEF ArgsBefore
    <3> QED
      BY <3>2 DEF Shows, Opened
  <2> QED
    BY <2>1, <2>2
<1>14. d \in [1 .. q -> DOMAIN u.items] /\ \A k \in 1 .. q : u.items[d[k]].open
  <2>1. \A k \in 1 .. q : calls[g[k]].tool \in DOMAIN S
    BY <1>2, <1>6 DEF IsGiven, ToolsOf
  <2>2. \A k \in 1 .. q : d[k] = S[calls[g[k]].tool].index
    BY <1>7 DEF AreIndexes
  <2>3. \A t \in DOMAIN S : u.items[S[t].index].open
    BY <1>13 DEF Shows
  <2>4. d = [k \in 1 .. q |-> d[k]]
    BY <1>7
  <2>5. \A k \in 1 .. q : d[k] \in 1 .. N + m
    BY <1>2, <2>1, <2>2
  <2>6. d \in [1 .. q -> DOMAIN u.items]
    BY <1>12, <2>4, <2>5
  <2> QED
    BY <2>1, <2>2, <2>3, <2>6
<1>15. PICK w \in Views : Run(D, u, w) /\ FragmentsSoFar(w, u, d, q)
  BY <1>10, <1>12, <1>14, FragmentsRun
<1>16. /\ w.stage = "streaming" /\ DOMAIN w.items = 1 .. N + m
       /\ \A j \in 1 .. N + m :
            /\ w.items[j].kind = u.items[j].kind /\ w.items[j].named = u.items[j].named
            /\ w.items[j].open = u.items[j].open
            /\ w.items[j].parts = u.items[j].parts + Count(d, q, j)
  BY <1>12, <1>15 DEF FragmentsSoFar
<1>17. /\ \A t \in DOMAIN S : Count(d, q, S[t].index) = ArgsOf(calls, t)
       /\ \A j : (\A t \in DOMAIN S : S[t].index # j) => Count(d, q, j) = 0
  <2>1. SlotsApart(calls, S)
    BY <1>2 DEF SlotsApart
  <2>2. AreIndexes(calls, S, q, g, d)
    BY <1>7
  <2>3. IsGiven(calls, q, g)
    BY <1>6
  <2>4. \A t \in DOMAIN S : Count(d, q, S[t].index) = ArgsOf(calls, t)
    BY <2>1, <2>2, <2>3, FragmentCount
  <2>5. \A j : (\A t \in DOMAIN S : S[t].index # j) => Count(d, q, j) = 0
    BY <2>1, <2>2, <2>3, FragmentCount
  <2> QED
    BY <2>4, <2>5
<1>18. ASSUME NEW t \in DOMAIN S
       PROVE  Shows(w.items[S[t].index], "function_call", S[t].args, TRUE)
  <2>1. PICK i \in 1 .. N + m : i = S[t].index
    BY <1>2
  <2>2. /\ w.items[i].kind = u.items[i].kind /\ w.items[i].open = u.items[i].open
        /\ w.items[i].parts = u.items[i].parts + Count(d, q, i)
    BY <1>16
  <2>3. Count(d, q, i) = ArgsOf(calls, t) /\ S[t].args = ArgsBefore(t) + ArgsOf(calls, t)
    BY <1>2, <1>17, <2>1
  <2>4. Shows(u.items[i], "function_call", ArgsBefore(t), TRUE)
    BY <1>13, <2>1
  <2> QED
    BY <2>1, <2>2, <2>3, <2>4 DEF Shows
<1>19. ASSUME NEW j \in 1 .. N, output_items[j].kind # "function_call"
       PROVE  Alike(w.items[j], v.items[j])
  <2>1. ASSUME NEW t \in DOMAIN S
        PROVE  S[t].index # j
    <3>1. CASE t \in DOMAIN tools
      <4>1. S[t].index = tools[t].index
        BY <1>2, <3>1
      <4>2. output_items[tools[t].index].kind = "function_call"
        BY <1>3, <3>1
      <4> QED
        BY <1>19, <4>1, <4>2
    <3>2. CASE t \notin DOMAIN tools
      <4>1. PICK k \in 1 .. m : calls[f[k]].tool = t
        BY <1>2, <1>4, <3>2
      <4>2. S[t].index = N + k
        BY <1>2, <4>1
      <4> QED
        BY <4>2
    <3> QED
      BY <3>1, <3>2
  <2>2. Count(d, q, j) = 0
    BY <1>17, <2>1
  <2>3. j \in 1 .. N + m /\ u.items[j] = v.items[j]
    BY <1>12
  <2>4. u.items[j].parts \in Nat
    <3>1. PICK n \in Nat : u.items \in [1 .. n -> Item]
      BY ViewTypes
    <3> QED
      BY <1>12, <2>3, <3>1 DEF Item
  <2> QED
    BY <1>16, <2>2, <2>3, <2>4 DEF Alike
<1>20. ToolFrames(calls) = A \o D
  BY <1>9, <1>10 DEF ToolFrames
<1>21. A \o D \in Seq(Frames) /\ Run(A \o D, v, w)
  BY <1>11, <1>15, RunConcat
<1>22. ToolsShown(w, S)
  BY <1>18 DEF ToolsShown
<1> QED
  BY <1>16, <1>19, <1>20, <1>21, <1>22

\* The calls of a chunk that are new are entered in output_items.
LEMMA CallsAllocated ==
  ASSUME NEW N \in Nat, output_items \in [1 .. N -> OutKinds],
         NEW m \in Nat, NEW tool \in [1 .. m -> Nat],
         output_items' = output_items \o
           [k \in 1 .. m |-> [kind |-> "function_call", tool |-> tool[k]]]
  PROVE  /\ output_items' \in [1 .. N + m -> OutKinds]
         /\ \A j \in 1 .. N : output_items'[j] = output_items[j]
         /\ \A k \in 1 .. m : output_items'[N + k] = [kind |-> "function_call", tool |-> tool[k]]
<1>1. PICK s \in Seq(OutKinds) : s = output_items /\ Len(s) = N
  OBVIOUS
<1> DEFINE p == [k \in 1 .. m |-> [kind |-> "function_call", tool |-> tool[k]]]
<1>2. \A k \in 1 .. m : p[k] \in OutKinds /\ p[k] = [kind |-> "function_call", tool |-> tool[k]]
  BY DEF OutKinds
<1>3. p \in Seq(OutKinds) /\ Len(p) = m
  <2>1. p = [k \in 1 .. m |-> p[k]]
    OBVIOUS
  <2> HIDE DEF p
  <2>2. p \in [1 .. m -> OutKinds]
    BY <1>2, <2>1
  <2> QED
    BY <2>2
<1>4. output_items' = s \o p
  BY <1>1
<1>a. PICK z \in Seq(OutKinds) : z = p /\ Len(z) = m
  BY <1>3
<1> HIDE DEF p
<1>5. PICK r : r = s \o z
  OBVIOUS
<1>6. /\ r \in Seq(OutKinds) /\ Len(r) = N + m
      /\ \A i \in 1 .. N + m : r[i] = IF i <= N THEN s[i] ELSE z[i - N]
  <2>1. Len(s) = N /\ Len(z) = m
    BY <1>1, <1>a
  <2>2. \A i \in 1 .. N + m : (s \o z)[i] = IF i <= N THEN s[i] ELSE z[i - N]
    <3>1. \A i \in 1 .. Len(s) + Len(z) :
            (s \o z)[i] = IF i <= Len(s) THEN s[i] ELSE z[i - Len(s)]
      BY ConcatProperties
    <3> QED
      BY <2>1, <3>1
  <2>3. s \o z \in Seq(OutKinds) /\ Len(s \o z) = N + m
    BY <2>1, MoreElements
  <2> QED
    BY <1>5, <2>2, <2>3
<1>7. r \in [1 .. N + m -> OutKinds]
  BY <1>6, LenProperties
<1>8. \A i \in 1 .. N : r[i] = s[i]
  BY <1>6
<1>9. \A k \in 1 .. m : r[N + k] = z[k]
  <2> SUFFICES ASSUME NEW k \in 1 .. m
               PROVE  r[N + k] = z[k]
    OBVIOUS
  <2>1. N + k \in 1 .. N + m /\ ~ (N + k <= N) /\ (N + k) - N = k
    OBVIOUS
  <2> QED
    BY <1>6, <2>1
<1>10. output_items' = r
  BY <1>a, <1>4, <1>5
<1>11. \A k \in 1 .. m : z[k] = [kind |-> "function_call", tool |-> tool[k]]
  BY <1>a, <1>2
<1> QED
  BY <1>1, <1>7, <1>8, <1>9, <1>10, <1>11

\* A chunk with tool calls (feed_tool_calls), the first of which closes the message.
LEMMA ToolCallsStep ==
  ASSUME IInv, NEW calls \in Calls, ToolCalls(calls)
  PROVE  IInv'
<1> DEFINE close == DOMAIN tools = {}
           E == If(close, CloseMessage)
           F == E \o ToolFrames(calls)
<1>1. /\ Feed(F) /\ tools' = SlotsAfter(calls)
      /\ message' = IF close /\ message.index # 0 THEN [message EXCEPT !.item_done = TRUE]
                    ELSE message
      /\ UNCHANGED <<reasoning, finish_reason>>
  BY DEF ToolCalls
<1>2. PICK N \in Nat : next_output_index = N + 1
  <2>1. next_output_index - 1 \in Nat /\ next_output_index = (next_output_index - 1) + 1
    BY DEF IInv, TypeOK
  <2> QED
    BY <2>1
<1>3. Given = 1 .. N
  BY <1>2 DEF Given
<1>4. /\ message.index \in 0 .. N /\ message.parts \in Nat /\ message.item_done \in BOOLEAN
      /\ reasoning.index \in 0 .. N
      /\ \A t \in DOMAIN tools : tools[t].index \in 1 .. N
  BY <1>3 DEF IInv, TypeOK, ItemState, Slot
<1>a. PICK m \in Nat : \E f : IsFirst(calls, m, f)
  BY FirstIs
<1>5. PICK f : IsFirst(calls, m, f)
  BY <1>a
<1>6. /\ f \in [1 .. m -> DOMAIN calls] /\ FirstCalls(calls) = f
      /\ \A k \in 1 .. m : calls[f[k]].tool \notin DOMAIN tools
      /\ \A t \in ToolsOf(calls) : t \notin DOMAIN tools => \E k \in 1 .. m : calls[f[k]].tool = t
  BY <1>5 DEF IsFirst
<1>7. PICK tool \in [1 .. m -> Nat] : \A k \in 1 .. m : tool[k] = calls[f[k]].tool
  <2> DEFINE e == [k \in 1 .. m |-> calls[f[k]].tool]
  <2>1. \A k \in 1 .. m : calls[f[k]] \in Call
    BY <1>6, CallsType
  <2>2. \A k \in 1 .. m : calls[f[k]].tool \in Nat
    BY <2>1, ResponsesAssumption DEF Call, ToolIndexes
  <2>3. e \in [1 .. m -> Nat] /\ \A k \in 1 .. m : e[k] = calls[f[k]].tool
    BY <2>2
  <2> QED
    BY <2>3
<1> DEFINE M == N + m
<1>8. next_output_index' = M + 1 /\ Given' = 1 .. M /\ M \in Nat /\ N <= M
  <2>1. next_output_index' = next_output_index + Len(FirstCalls(calls))
    BY DEF ToolCalls
  <2>2. Len(f) = m
    BY <1>6
  <2>3. next_output_index' = M + 1
    BY <1>2, <1>6, <2>1, <2>2
  <2> QED
    BY <2>3 DEF Given
<1>9. /\ output_items' \in [1 .. M -> OutKinds]
      /\ \A j \in 1 .. N : output_items'[j] = output_items[j]
      /\ \A k \in 1 .. m : output_items'[N + k] = [kind |-> "function_call", tool |-> tool[k]]
  <2>1. output_items' = output_items \o
          [k \in DOMAIN f |-> [kind |-> "function_call", tool |-> calls[f[k]].tool]]
    BY <1>6 DEF ToolCalls
  <2>2. DOMAIN f = 1 .. m
    BY <1>6
  <2>3. [k \in DOMAIN f |-> [kind |-> "function_call", tool |-> calls[f[k]].tool]]
          = [k \in 1 .. m |-> [kind |-> "function_call", tool |-> tool[k]]]
    BY <1>7, <2>2
  <2>4. output_items \in [1 .. N -> OutKinds]
    BY <1>3 DEF IInv, TypeOK, OutKinds
  <2> QED
    BY <2>1, <2>3, <2>4, CallsAllocated
<1> HIDE DEF M
<1>10. PICK S : S = SlotsAfter(calls)
  OBVIOUS
<1>11. /\ AreSlots(calls, N, m, f, S)
       /\ \A t \in DOMAIN S : S[t] \in [index : 1 .. M, named : BOOLEAN, args : Nat]
       /\ DOMAIN S = DOMAIN tools \cup ToolsOf(calls) /\ DOMAIN S \subseteq ToolIndexes
       /\ \A t \in DOMAIN tools : S[t].index = tools[t].index
       /\ \A k \in 1 .. m : tool[k] \in DOMAIN S /\ S[tool[k]].index = N + k
  <2>1. AreSlots(calls, N, m, f, S)
    BY <1>2, <1>5, <1>10, SlotsAre DEF IInv
  <2> QED
    BY <1>7, <2>1 DEF AreSlots, M
<1>12. PICK v \in Views : /\ Run(If(~ started, Created), View, v)
                          /\ v.stage = "streaming" /\ Remembered(v)
  <2>1. ~ ended /\ out = << >>
    BY <1>1 DEF Feed
  <2> QED
    BY <2>1, Ready
<1>13. DOMAIN v.items = 1 .. N
  BY <1>3, <1>12 DEF Remembered
<1> DEFINE now == close /\ message.index # 0 /\ ~ message.item_done
<1>14. /\ E \in Seq(Frames)
       /\ \E u \in Views : Run(E, v, u) /\ Closes(u, v, N, "message", message, now)
  <2>1. PICK x \in [index : 0 .. N, parts : Nat, item_done : BOOLEAN] : x = message
    BY <1>3 DEF IInv, TypeOK, ItemState
  <2>2. x.index # 0 => Shows(v.items[x.index], "message", x.parts, ~ x.item_done)
    BY <1>12, <2>1 DEF Remembered
  <2>3. E = If(now, CloseItem(x))
    BY <2>1 DEF CloseMessage, If
  <2>4. PICK c \in BOOLEAN : c = now
    OBVIOUS
  <2>5. c => x.index # 0 /\ ~ x.item_done
    BY <2>1, <2>4
  <2>6. E = If(c, CloseItem(x))
    BY <2>3, <2>4
  <2>7. "message" \in {"reasoning", "message"}
    OBVIOUS
  <2> HIDE DEF now, E
  <2>8. /\ E \in Seq(Frames)
        /\ \E u \in Views : Run(E, v, u) /\ Closes(u, v, N, "message", x, c)
    BY <1>12, <1>13, <2>2, <2>5, <2>6, <2>7, ClosedItem
  <2> QED
    BY <2>1, <2>4, <2>8
<1> HIDE DEF E
<1>15. PICK u \in Views : /\ Run(E, v, u) /\ u.stage = "streaming"
                          /\ DOMAIN u.items = 1 .. N
                          /\ \A j \in 1 .. N : j # message.index => Alike(u.items[j], v.items[j])
                          /\ message.index # 0 =>
                               /\ u.items[message.index].kind = "message"
                               /\ u.items[message.index].parts = message.parts
                               /\ ~ u.items[message.index].named
                               /\ now \/ message.item_done => ~ u.items[message.index].open
                               /\ ~ now => u.items[message.index].open = v.items[message.index].open
  <2> HIDE DEF now
  <2> QED
    BY <1>14 DEF Closes
<1>16. \A t \in DOMAIN tools :
          Shows(u.items[tools[t].index], "function_call", tools[t].args, TRUE)
  <2> SUFFICES ASSUME NEW t \in DOMAIN tools
               PROVE  Shows(u.items[tools[t].index], "function_call", tools[t].args, TRUE)
    OBVIOUS
  <2>1. tools[t].index \in 1 .. N /\ output_items[tools[t].index].kind = "function_call"
    <3>1. output_items[tools[t].index] = [kind |-> "function_call", tool |-> t]
      BY DEF IInv, Owners
    <3> QED
      BY <1>4, <3>1
  <2>2. tools[t].index # message.index
    BY <2>1 DEF IInv, Owners
  <2>3. Alike(u.items[tools[t].index], v.items[tools[t].index])
    BY <1>15, <2>1, <2>2
  <2> QED
    BY <1>12, <2>3 DEF Remembered, Shows, Alike
<1>b. CallMayStart(u.items)
  <2>1. CASE DOMAIN tools # {}
    <3>1. PICK t \in DOMAIN tools : TRUE
      BY <2>1
    <3>2. tools[t].index \in DOMAIN u.items /\ u.items[tools[t].index].kind = "function_call"
      BY <1>4, <1>15, <1>16, <3>1 DEF Shows
    <3> QED
      BY <3>2 DEF CallMayStart
  <2>2. CASE DOMAIN tools = {}
    <3> SUFFICES ASSUME NEW i \in 1 .. N, u.items[i].kind = "message"
                 PROVE  ~ u.items[i].open
      BY <1>15 DEF CallMayStart
    <3>1. i = message.index
      <4> SUFFICES ASSUME i # message.index
                   PROVE  FALSE
        OBVIOUS
      <4>1. output_items[i].kind \in {"reasoning", "message", "function_call"}
        BY <1>3 DEF IInv, TypeOK
      <4>2. i = reasoning.index
        BY <1>3, <2>2, <4>1 DEF IInv, Owners
      <4>3. Alike(u.items[i], v.items[i])
        BY <1>15
      <4>4. v.items[i].kind = "reasoning"
        BY <1>12, <4>2 DEF Remembered, Shows
      <4> QED
        BY <4>3, <4>4 DEF Alike
    <3>2. message.index # 0 /\ (now \/ message.item_done)
      BY <2>2, <3>1
    <3> HIDE DEF now
    <3> QED
      BY <1>15, <3>1, <3>2
  <2> QED
    BY <2>1, <2>2
<1>17. ToolFrames(calls) \in Seq(Frames)
       /\ \E w \in Views :
             /\ Run(ToolFrames(calls), u, w) /\ w.stage = "streaming"
             /\ DOMAIN w.items = 1 .. M
             /\ ToolsShown(w, S)
             /\ \A j \in 1 .. N :
                  output_items[j].kind # "function_call" => Alike(w.items[j], u.items[j])
  <2>1. TypeOK /\ Owners
    BY DEF IInv
  <2>2. ToolsShown(u, tools)
    BY <1>16 DEF ToolsShown
  <2> QED
    BY <1>2, <1>5, <1>10, <1>15, <1>b, <2>1, <2>2, ToolFramesRun DEF M
<1>18. PICK w \in Views :
          /\ Run(ToolFrames(calls), u, w) /\ w.stage = "streaming"
          /\ DOMAIN w.items = 1 .. M
          /\ \A t \in DOMAIN S : Shows(w.items[S[t].index], "function_call", S[t].args, TRUE)
          /\ \A j \in 1 .. N :
               output_items[j].kind # "function_call" => Alike(w.items[j], u.items[j])
  BY <1>17 DEF ToolsShown
<1>19. F \in Seq(Frames) /\ Run(F, v, w)
  BY <1>14, <1>15, <1>17, <1>18, RunConcat
<1> HIDE DEF F
<1>20. /\ message'.index = message.index /\ message'.parts = message.parts
       /\ message'.item_done \in BOOLEAN
       /\ message' = [index |-> message'.index, parts |-> message'.parts,
                      item_done |-> message'.item_done]
       /\ message'.item_done <=> (close /\ message.index # 0) \/ message.item_done
  <2>1. message \in [index : 0 .. N, parts : Nat, item_done : BOOLEAN]
    BY <1>3 DEF IInv, TypeOK, ItemState
  <2>2. CASE close /\ message.index # 0
    <3>1. message' = [message EXCEPT !.item_done = TRUE]
      BY <1>1, <2>2
    <3> QED
      BY <2>1, <2>2, <3>1
  <2>3. CASE ~ (close /\ message.index # 0)
    <3>1. message' = message
      BY <1>1, <2>3
    <3> QED
      BY <2>1, <2>3, <3>1
  <2> QED
    BY <2>2, <2>3
<1>21. Remembered(w)'
  <2>1. DOMAIN w.items = Given'
    BY <1>8, <1>18
  <2>2. reasoning'.index # 0 => Shows(w.items[reasoning'.index], "reasoning", reasoning'.parts,
                                            ~ reasoning'.item_done)
    <3> SUFFICES ASSUME reasoning.index # 0
                 PROVE  Shows(w.items[reasoning.index], "reasoning", reasoning.parts, ~ reasoning.item_done)
      BY <1>1
    <3>1. reasoning.index \in 1 .. N /\ output_items[reasoning.index].kind = "reasoning"
      BY <1>4 DEF IInv, Owners
    <3>2. reasoning.index # message.index
      BY <3>1 DEF IInv, Owners
    <3>3. /\ Alike(w.items[reasoning.index], u.items[reasoning.index])
          /\ Alike(u.items[reasoning.index], v.items[reasoning.index])
      BY <1>15, <1>18, <3>1, <3>2
    <3> QED
      BY <1>12, <3>3 DEF Remembered, Shows, Alike
  <2>3. message'.index # 0 => Shows(w.items[message'.index], "message", message'.parts,
                                            ~ message'.item_done)
    <3> SUFFICES ASSUME message.index # 0
                 PROVE  Shows(w.items[message.index], "message", message.parts, ~ message'.item_done)
      BY <1>20
    <3>1. message.index \in 1 .. N /\ output_items[message.index].kind = "message"
      BY <1>4 DEF IInv, Owners
    <3>2. Alike(w.items[message.index], u.items[message.index])
      BY <1>18, <3>1
    <3>3. u.items[message.index].open = (~ message'.item_done)
      <4>1. v.items[message.index].open = (~ message.item_done)
        BY <1>12 DEF Remembered, Shows
      <4>2. u.items[message.index].open \in BOOLEAN
        <5>1. PICK n \in Nat : u.items \in [1 .. n -> Item]
          BY ViewTypes
        <5> QED
          BY <1>15, <3>1, <5>1 DEF Item
      <4>3. CASE close
        <5>1. message'.item_done /\ (now \/ message.item_done)
          BY <1>20, <4>3
        <5>2. ~ u.items[message.index].open
          BY <1>15, <5>1
        <5> QED
          BY <1>20, <4>2, <5>1, <5>2
      <4>4. CASE ~ close
        <5>1. ~ now /\ (message'.item_done <=> message.item_done)
          BY <1>20, <4>4
        <5>2. u.items[message.index].open = v.items[message.index].open
          BY <1>15, <5>1
        <5> QED
          BY <1>4, <1>20, <4>1, <4>2, <5>1, <5>2
      <4> QED
        BY <4>3, <4>4
    <3>4. /\ u.items[message.index].kind = "message"
          /\ u.items[message.index].parts = message.parts
          /\ ~ u.items[message.index].named
      BY <1>15
    <3> HIDE DEF now, close
    <3> QED
      BY <3>2, <3>3, <3>4 DEF Shows, Alike
  <2>4. \A t \in DOMAIN tools' : Shows(w.items[tools'[t].index], "function_call", tools'[t].args, TRUE)
    BY <1>1, <1>10, <1>18
  <2> HIDE DEF now, close
  <2> QED
    BY <2>1, <2>2, <2>3, <2>4 DEF Remembered
<1> HIDE DEF now
<1>22. /\ sequence' \in Nat /\ started' = TRUE /\ ended' = ended
       /\ expose_thinking' = expose_thinking
  BY <1>1, <1>19, FeedTypes
<1>23. TypeOK'
  <2>1. message' \in ItemState'
    <3>1. message'.index \in {0} \cup 1 .. M /\ message'.parts \in Nat
      BY <1>4, <1>8, <1>20
    <3> QED
      BY <1>8, <1>20, <3>1 DEF ItemState
  <2>2. reasoning' \in ItemState'
    <3>1. reasoning'.index \in {0} \cup 1 .. M
      BY <1>1, <1>4, <1>8
    <3>2. reasoning' \in [index : {0} \cup 1 .. N, parts : Nat, item_done : BOOLEAN]
      BY <1>1, <1>3 DEF IInv, TypeOK, ItemState
    <3> QED
      BY <1>8, <3>1, <3>2 DEF ItemState
  <2>3. DOMAIN tools' \subseteq ToolIndexes /\ \A t \in DOMAIN tools' : tools'[t] \in Slot'
    BY <1>1, <1>8, <1>10, <1>11 DEF Slot
  <2>4. output_items' \in [Given' -> [kind : {"reasoning", "message", "function_call"}, tool : Nat]]
    BY <1>8, <1>9 DEF OutKinds
  <2>5. next_output_index' \in Nat \ {0}
    BY <1>8
  <2> QED
    BY <1>1, <1>22, <2>1, <2>2, <2>3, <2>4, <2>5 DEF IInv, TypeOK
<1>24. Owners'
  <2>1. reasoning.index # 0 => output_items'[reasoning.index].kind = "reasoning"
    BY <1>4, <1>9 DEF IInv, Owners
  <2>2. message.index # 0 => output_items'[message.index].kind = "message"
    BY <1>4, <1>9 DEF IInv, Owners
  <2>3. ASSUME NEW t \in DOMAIN S
        PROVE  output_items'[S[t].index] = [kind |-> "function_call", tool |-> t]
    <3>1. CASE t \in DOMAIN tools
      <4>1. S[t].index = tools[t].index /\ tools[t].index \in 1 .. N
        BY <1>4, <1>11, <3>1
      <4>2. output_items[tools[t].index] = [kind |-> "function_call", tool |-> t]
        BY <3>1 DEF IInv, Owners
      <4> QED
        BY <1>9, <4>1, <4>2
    <3>2. CASE t \notin DOMAIN tools
      <4>1. PICK k \in 1 .. m : tool[k] = t
        BY <1>6, <1>7, <1>11, <3>2
      <4> QED
        BY <1>9, <1>11, <4>1
    <3> QED
      BY <3>1, <3>2
  <2>4. ASSUME NEW j \in 1 .. M
        PROVE  /\ output_items'[j].kind = "reasoning" => reasoning.index = j
               /\ output_items'[j].kind = "message" => message.index = j
               /\ output_items'[j].kind = "function_call" =>
                    output_items'[j].tool \in DOMAIN S /\ S[output_items'[j].tool].index = j
    <3>1. CASE j \in 1 .. N
      <4>1. /\ output_items[j].kind = "reasoning" => reasoning.index = j
            /\ output_items[j].kind = "message" => message.index = j
            /\ output_items[j].kind = "function_call" =>
                 output_items[j].tool \in DOMAIN tools /\ tools[output_items[j].tool].index = j
        BY <1>3, <3>1 DEF IInv, Owners
      <4> QED
        BY <1>9, <1>11, <3>1, <4>1
    <3>2. CASE j \notin 1 .. N
      <4>1. j - N \in 1 .. m /\ N + (j - N) = j
        BY <3>2 DEF M
      <4>2. PICK k \in 1 .. m : j = N + k
        BY <4>1
      <4>3. output_items'[j] = [kind |-> "function_call", tool |-> tool[k]]
        BY <1>9, <4>2
      <4> QED
        BY <1>11, <4>2, <4>3
    <3> QED
      BY <3>1, <3>2
  <2>5. reasoning.index # 0 => expose_thinking
    BY DEF IInv, Owners
  <2>6. /\ tools' = S /\ reasoning' = reasoning /\ message'.index = message.index
        /\ expose_thinking' = expose_thinking
    BY <1>1, <1>10, <1>20, <1>22
  <2> QED
    BY <1>8, <2>1, <2>2, <2>3, <2>4, <2>5, <2>6 DEF Owners
<1>25. Fresh'
  BY <1>1, <1>20, <1>22 DEF IInv, Fresh
<1> QED
  BY <1>1, <1>12, <1>18, <1>19, <1>21, <1>23, <1>24, <1>25, FeedStep

-----------------------------------------------------------------------------
(***************************************************************************)
(* The end of the response.                                                *)
(***************************************************************************)
\* View w has the items of output_items as the terminal response tells of them.
Told(w) ==
  /\ DOMAIN w.items = Given
  /\ reasoning.index # 0 => /\ w.items[reasoning.index].kind = "reasoning"
                            /\ w.items[reasoning.index].parts = reasoning.parts
                            /\ ~ w.items[reasoning.index].named
  /\ message.index # 0 => /\ w.items[message.index].kind = "message"
                          /\ w.items[message.index].parts = message.parts
                          /\ ~ w.items[message.index].named
  /\ \A t \in DOMAIN tools : /\ w.items[tools[t].index].kind = "function_call"
                             /\ w.items[tools[t].index].parts = tools[t].args

\* It has the final ids of the calls.
TellsCalls(w) == \A t \in DOMAIN tools : w.items[tools[t].index].named = tools[t].named

\* What the terminal response says of an item (terminal_response).
LEMMA TerminalItemIs ==
  ASSUME TypeOK, Owners, NEW i \in Given
  PROVE  LET x == TerminalItem(output_items[i]) IN
         /\ x \in OutItem /\ x.kind = output_items[i].kind
         /\ x.kind = "reasoning" => x.parts = reasoning.parts /\ ~ x.named
         /\ x.kind = "message" => x.parts = message.parts /\ ~ x.named
         /\ x.kind = "function_call" => /\ x.parts = tools[output_items[i].tool].args
                                        /\ x.named = tools[output_items[i].tool].named
<1> DEFINE o == output_items[i]
           x == TerminalItem(o)
<1>1. o.kind \in Kinds
  BY DEF TypeOK, Kinds
<1>2. reasoning.parts \in Nat /\ message.parts \in Nat
  BY DEF TypeOK, ItemState
<1>3. PICK no \in BOOLEAN : no = FALSE
  OBVIOUS
<1> HIDE DEF o
<1>4. CASE o.kind = "reasoning"
  <2>1. x = [kind |-> "reasoning", named |-> no, parts |-> reasoning.parts]
    BY <1>3, <1>4 DEF TerminalItem
  <2> HIDE DEF x
  <2> QED
    BY <1>2, <1>3, <1>4, <2>1 DEF OutItem, Kinds, x, o
<1>5. CASE o.kind = "message"
  <2>1. x = [kind |-> "message", named |-> no, parts |-> message.parts]
    BY <1>3, <1>5 DEF TerminalItem
  <2> HIDE DEF x
  <2> QED
    BY <1>2, <1>3, <1>5, <2>1 DEF OutItem, Kinds, x, o
<1>6. CASE o.kind = "function_call"
  <2>1. o.tool \in DOMAIN tools
    BY <1>6 DEF Owners, o
  <2>2. tools[o.tool].args \in Nat /\ tools[o.tool].named \in BOOLEAN
    BY <2>1 DEF TypeOK, Slot
  <2>3. x = [kind |-> "function_call", named |-> tools[o.tool].named, parts |-> tools[o.tool].args]
    BY <1>6 DEF TerminalItem
  <2> HIDE DEF x
  <2> QED
    BY <1>6, <2>2, <2>3 DEF OutItem, Kinds, x, o
<1> QED
  BY <1>1, <1>4, <1>5, <1>6 DEF Kinds

\* terminal_response lists the items as the client has them, once the ids are told.
LEMMA TerminalFits ==
  ASSUME TypeOK, Owners, NEW w \in Views, Told(w),
         NEW how \in Terminals, how # "failed" => TellsCalls(w),
         NEW F, F = Terminal(how)
  PROVE  /\ F \in Frames /\ F.type = how
         /\ Fits(F.output, w.items, how)
<1> DEFINE s == [n \in DOMAIN output_items |-> TerminalItem(output_items[n])]
<1>1. DOMAIN output_items = Given /\ next_output_index - 1 \in Nat
  BY DEF TypeOK
<1>2. DOMAIN s = Given /\ \A i \in Given : s[i] = TerminalItem(output_items[i])
  BY <1>1
<1>3. s \in Outputs
  <2>1. \A i \in Given : s[i] \in OutItem
    BY <1>2, TerminalItemIs
  <2>2. s = [i \in Given |-> s[i]]
    BY <1>1
  <2> HIDE DEF s
  <2>3. s \in [1 .. next_output_index - 1 -> OutItem]
    BY <2>1, <2>2 DEF Given
  <2> QED
    BY <1>1, <2>3 DEF Outputs
<1>a. PICK a \in Outputs : a = s
  BY <1>3
<1> HIDE DEF s
<1>0. PICK no \in BOOLEAN : no = FALSE
  OBVIOUS
<1>4. F = [Frame(how, 0, "", no) EXCEPT !.output = a]
  BY <1>0, <1>a DEF Terminal, s
<1>5. PICK f \in Frames : f = Frame(how, 0, "", no) /\ f.type = how
  <2>1. << >> \in Outputs
    <3>1. << >> \in [1 .. 0 -> OutItem]
      OBVIOUS
    <3> QED
      BY <3>1 DEF Outputs
  <2>2. Frame(how, 0, "", no) \in Frames
    BY <2>1 DEF Frame, Frames, Types
  <2>3. Frame(how, 0, "", no).type = how
    BY DEF Frame
  <2> QED
    BY <2>2, <2>3
<1>6. F \in Frames /\ F.type = how /\ F.output = s
  <2>1. F = [f EXCEPT !.output = a]
    BY <1>4, <1>5
  <2>2. [f EXCEPT !.output = a] \in Frames
    BY DEF Frames
  <2>3. [f EXCEPT !.output = a].type = f.type /\ [f EXCEPT !.output = a].output = a
    BY DEF Frames
  <2> QED
    BY <1>a, <1>5, <2>1, <2>2, <2>3
<1>7. ASSUME NEW i \in Given
      PROVE  /\ s[i].kind = w.items[i].kind /\ s[i].parts = w.items[i].parts
             /\ how # "failed" => s[i].named = w.items[i].named
  <2>1. PICK x : x = s[i]
    OBVIOUS
  <2>2. /\ x \in OutItem /\ x.kind = output_items[i].kind
        /\ x.kind = "reasoning" => x.parts = reasoning.parts /\ ~ x.named
        /\ x.kind = "message" => x.parts = message.parts /\ ~ x.named
        /\ x.kind = "function_call" => /\ x.parts = tools[output_items[i].tool].args
                                       /\ x.named = tools[output_items[i].tool].named
    BY <1>2, <2>1, TerminalItemIs
  <2>3. x.kind \in Kinds /\ x.named \in BOOLEAN
    BY <2>2 DEF OutItem
  <2>4. w.items[i].named \in BOOLEAN
    <3>1. PICK n \in Nat : w.items \in [1 .. n -> Item]
      BY ViewTypes
    <3>2. i \in 1 .. n
      BY <3>1 DEF Told
    <3> QED
      BY <3>1, <3>2 DEF Item
  <2>5. i # 0
    BY <1>1 DEF Given
  <2>6. CASE x.kind = "reasoning"
    <3>1. reasoning.index = i
      BY <2>2, <2>6 DEF Owners
    <3>2. /\ w.items[i].kind = "reasoning" /\ w.items[i].parts = reasoning.parts
          /\ ~ w.items[i].named
      BY <2>5, <3>1 DEF Told
    <3> QED
      BY <2>1, <2>2, <2>3, <2>4, <2>6, <3>2
  <2>7. CASE x.kind = "message"
    <3>1. message.index = i
      BY <2>2, <2>7 DEF Owners
    <3>2. /\ w.items[i].kind = "message" /\ w.items[i].parts = message.parts
          /\ ~ w.items[i].named
      BY <2>5, <3>1 DEF Told
    <3> QED
      BY <2>1, <2>2, <2>3, <2>4, <2>7, <3>2
  <2>8. CASE x.kind = "function_call"
    <3>1. PICK t \in DOMAIN tools : t = output_items[i].tool /\ tools[t].index = i
      BY <2>2, <2>8 DEF Owners
    <3>2. /\ w.items[i].kind = "function_call" /\ w.items[i].parts = tools[t].args
          /\ how # "failed" => w.items[i].named = tools[t].named
      BY <3>1 DEF Told, TellsCalls
    <3> QED
      BY <2>1, <2>2, <2>8, <3>1, <3>2
  <2> QED
    BY <2>3, <2>6, <2>7, <2>8 DEF Kinds
<1>8. Fits(s, w.items, how)
  BY <1>2, <1>7 DEF Fits, Told
<1> QED
  BY <1>6, <1>8

\* The terminal frame ends the view.
LEMMA TerminalRun ==
  ASSUME NEW v \in Views, NEW f \in Frames, f.type \in Terminals, Allowed(v, f),
         Fits(f.output, v.items, f.type)
  PROVE  \E w \in Views : /\ Run(<<f>>, v, w) /\ w.stage \in Terminals
                          /\ Fits(w.output, w.items, w.stage)
<1> DEFINE w == Read(v, f)
<1>1. w.stage = f.type /\ w.items = v.items /\ w.output = f.output
  BY DEF Read, StageAfter, ItemsAfter, Terminals
<1>2. w \in Views /\ Run(<<f>>, v, w)
  BY RunOne
<1> HIDE DEF w
<1> QED
  BY <1>1, <1>2

\* The client knows the items before they are closed.
LEMMA RememberedIsTold ==
  ASSUME NEW w, Remembered(w)
  PROVE  Told(w)
BY DEF Remembered, Told, Shows

\* A failure (finish_failed) leaves the items as they are.
LEMMA FinishFailedStep ==
  ASSUME IInv, FinishFailed
  PROVE  IInv'
<1>1. End(<<Terminal("failed")>>)
  BY DEF FinishFailed
<1>2. ~ ended /\ out = << >>
  BY <1>1 DEF End
<1>3. PICK v \in Views : v = View
  BY DEF IInv
<1>4. v.stage \in {"new", "streaming"} /\ Remembered(v)
  BY <1>2, <1>3, CaughtUp DEF Matches
<1>5. Told(v)
  BY <1>4, RememberedIsTold
<1>6. PICK f \in Frames : /\ f = Terminal("failed") /\ f.type = "failed"
                          /\ Fits(f.output, v.items, "failed")
  <2>1. "failed" \in Terminals /\ TypeOK /\ Owners
    BY DEF Terminals, IInv
  <2> QED
    BY <1>5, <2>1, TerminalFits
<1>7. Allowed(v, f) /\ f.type \in Terminals
  BY <1>4, <1>6 DEF Allowed, Terminals
<1>8. PICK w \in Views : /\ Run(<<f>>, v, w) /\ w.stage \in Terminals
                         /\ Fits(w.output, w.items, w.stage)
  BY <1>6, <1>7, TerminalRun
<1>9. <<f>> \in Seq(Frames) /\ End(<<f>>)
  BY <1>1, <1>6
<1> QED
  BY <1>3, <1>8, <1>9, EndStep

\* a lists the m tools that finish closes, each once.
IsOrder(m, a) ==
  /\ a \in [1 .. m -> DOMAIN tools] /\ a = Enumerate(DOMAIN tools, MaxTools)
  /\ \A p, q \in 1 .. m : a[p] = a[q] => p = q
  /\ \A t \in DOMAIN tools : \E p \in 1 .. m : a[p] = t

\* The order of finish (BTreeMap) is such a list.
LEMMA OrderIs ==
  ASSUME TypeOK
  PROVE  \E m \in Nat : \E a : IsOrder(m, a)
<1>1. MaxTools \in Nat /\ DOMAIN tools \in SUBSET (1 .. MaxTools)
  BY ResponsesAssumption DEF TypeOK, ToolIndexes
<1> DEFINE I == DOMAIN tools
<1>2. PICK m \in 0 .. MaxTools : /\ Enumerate(I, MaxTools) \in [1 .. m -> I]
                                 /\ Enumerates(Enumerate(I, MaxTools), I)
  <2> HIDE DEF I
  <2> QED
    BY <1>1, EnumerateIsOne DEF I
<1>3. PICK a \in [1 .. m -> I] : a = Enumerate(I, MaxTools) /\ Enumerates(a, I)
  BY <1>2
<1>4. \A p, q \in 1 .. m : p < q => a[p] < a[q]
  BY <1>3 DEF Enumerates, IsIncreasing
<1>5. \A p \in 1 .. m : a[p] \in 1 .. MaxTools
  BY <1>1
<1>6. \A p, q \in 1 .. m : a[p] = a[q] => p = q
  <2> SUFFICES ASSUME NEW p \in 1 .. m, NEW q \in 1 .. m, p # q
               PROVE  a[p] # a[q]
    OBVIOUS
  <2>1. p < q \/ q < p
    OBVIOUS
  <2> QED
    BY <1>4, <1>5, <2>1
<1>7. \A t \in I : \E p \in 1 .. m : a[p] = t
  BY <1>3 DEF Enumerates
<1>8. IsOrder(m, a)
  BY <1>3, <1>6, <1>7 DEF IsOrder
<1>9. m \in Nat
  BY <1>1
<1> QED
  BY <1>8, <1>9

\* index and named tell of the slots in that order.
AreClosed(m, a, index, named) ==
  \A p \in 1 .. m : index[p] = tools[a[p]].index /\ named[p] = tools[a[p]].named

\* The frames of close_tools: each call is repeated whole, and done.
LEMMA CloseToolsTypes ==
  ASSUME TypeOK, NEW m \in Nat, NEW a, IsOrder(m, a),
         NEW index, NEW named, AreClosed(m, a, index, named),
         NEW F, F = CloseTools
  PROVE  /\ F \in Seq(Frames) /\ Len(F) = 2 * m
         /\ \A p \in 1 .. m : F[2 * p - 1] = Whole(index[p]) /\ F[2 * p] = Done(index[p], named[p])
<1>1. a \in [1 .. m -> DOMAIN tools] /\ a = Enumerate(DOMAIN tools, MaxTools)
  BY DEF IsOrder
<1>2. Len(a) = m
  BY <1>1
<1>3. F = [n \in 1 .. 2 * m |->
             IF n % 2 = 1 THEN Whole(tools[a[(n + 1) \div 2]].index)
             ELSE Done(tools[a[(n + 1) \div 2]].index, tools[a[(n + 1) \div 2]].named)]
  BY <1>1, <1>2 DEF CloseTools
<1>4. \A p \in 1 .. m : index[p] = tools[a[p]].index /\ named[p] = tools[a[p]].named
  BY DEF AreClosed
<1>5. \A p \in 1 .. m : index[p] \in Nat /\ named[p] \in BOOLEAN
  <2>1. \A t \in DOMAIN tools : tools[t].index \in Nat /\ tools[t].named \in BOOLEAN
    BY DEF TypeOK, Slot, Given
  <2> QED
    BY <1>1, <1>4, <2>1
<1>6. \A p \in 1 .. m : Whole(index[p]) \in Frames /\ Done(index[p], named[p]) \in Frames
  <2>1. "message" \in Kinds
    BY DEF Kinds
  <2> QED
    BY <1>5, <2>1, FrameTypes
<1>7. ASSUME NEW n \in 1 .. 2 * m
      PROVE  \E p \in 1 .. m : \/ n = 2 * p - 1 /\ F[n] = Whole(index[p])
                               \/ n = 2 * p /\ F[n] = Done(index[p], named[p])
  <2>1. PICK p \in 1 .. m : p = (n + 1) \div 2 /\ (n = 2 * p - 1 \/ n = 2 * p)
    <3>1. (n + 1) \div 2 \in 1 .. m /\ (n = 2 * ((n + 1) \div 2) - 1 \/ n = 2 * ((n + 1) \div 2))
      OBVIOUS
    <3> QED
      BY <3>1
  <2>2. (n = 2 * p - 1 => n % 2 = 1) /\ (n = 2 * p => n % 2 # 1)
    OBVIOUS
  <2>3. F[n] = IF n % 2 = 1 THEN Whole(tools[a[p]].index)
               ELSE Done(tools[a[p]].index, tools[a[p]].named)
    BY <1>3, <2>1
  <2> QED
    BY <1>4, <2>1, <2>2, <2>3
<1>8. \A n \in 1 .. 2 * m : F[n] \in Frames
  BY <1>6, <1>7
<1>9. F \in Seq(Frames) /\ Len(F) = 2 * m
  <2>1. F = [n \in 1 .. 2 * m |-> F[n]]
    BY <1>3
  <2>2. F \in [1 .. 2 * m -> Frames]
    BY <1>8, <2>1
  <2>3. 2 * m \in Nat
    OBVIOUS
  <2> QED
    BY <2>2, <2>3
<1>10. ASSUME NEW p \in 1 .. m
       PROVE  F[2 * p - 1] = Whole(index[p]) /\ F[2 * p] = Done(index[p], named[p])
  <2>1. /\ 2 * p - 1 \in 1 .. 2 * m /\ 2 * p \in 1 .. 2 * m
        /\ \A q \in 1 .. m : /\ (2 * p - 1 = 2 * q - 1 => p = q) /\ 2 * p - 1 # 2 * q
                             /\ (2 * p = 2 * q => p = q) /\ 2 * p # 2 * q - 1
    OBVIOUS
  <2>2. F[2 * p - 1] = Whole(index[p])
    BY <1>7, <2>1
  <2>3. F[2 * p] = Done(index[p], named[p])
    BY <1>7, <2>1
  <2> QED
    BY <2>2, <2>3
<1> QED
  BY <1>9, <1>10

\* The items are closed, and the client has what the converter remembers.
LEMMA CloseAllRun ==
  ASSUME IInv, NEW v \in Views, v.stage = "streaming", Remembered(v)
  PROVE  /\ CloseReasoning \o CloseMessage \o CloseTools \in Seq(Frames)
         /\ \E w \in Views : /\ Run(CloseReasoning \o CloseMessage \o CloseTools, v, w)
                             /\ w.stage = "streaming" /\ Told(w) /\ TellsCalls(w)
                             /\ \A i \in DOMAIN w.items : ~ w.items[i].open
<1>1. PICK N \in Nat : next_output_index = N + 1
  <2>1. next_output_index - 1 \in Nat /\ next_output_index = (next_output_index - 1) + 1
    BY DEF IInv, TypeOK
  <2> QED
    BY <2>1
<1>2. Given = 1 .. N
  BY <1>1 DEF Given
<1>3. DOMAIN v.items = 1 .. N
  BY <1>2 DEF Remembered
<1>4. TypeOK /\ Owners /\ ~ reasoning.item_done
  BY DEF IInv, Fresh
<1>5. PICK r \in [index : 0 .. N, parts : Nat, item_done : BOOLEAN] : r = reasoning
  BY <1>2, <1>4 DEF TypeOK, ItemState
<1>6. PICK x \in [index : 0 .. N, parts : Nat, item_done : BOOLEAN] : x = message
  BY <1>2, <1>4 DEF TypeOK, ItemState
<1>7. /\ r.index # 0 => r.index \in 1 .. N /\ output_items[r.index].kind = "reasoning"
      /\ x.index # 0 => x.index \in 1 .. N /\ output_items[x.index].kind = "message"
      /\ \A t \in DOMAIN tools : /\ tools[t].index \in 1 .. N
                                 /\ output_items[tools[t].index].kind = "function_call"
                                 /\ output_items[tools[t].index].tool = t
  <2>1. /\ r.index # 0 => r.index \in 1 .. N /\ output_items[r.index].kind = "reasoning"
        /\ x.index # 0 => x.index \in 1 .. N /\ output_items[x.index].kind = "message"
    BY <1>4, <1>5, <1>6 DEF Owners
  <2>2. ASSUME NEW t \in DOMAIN tools
        PROVE  /\ tools[t].index \in 1 .. N
               /\ output_items[tools[t].index].kind = "function_call"
               /\ output_items[tools[t].index].tool = t
    <3>1. tools[t].index \in 1 .. N
      BY <1>2, <1>4 DEF TypeOK, Slot
    <3>2. output_items[tools[t].index] = [kind |-> "function_call", tool |-> t]
      BY <1>4 DEF Owners
    <3> QED
      BY <3>1, <3>2
  <2> QED
    BY <2>1, <2>2
<1>8. \A t \in DOMAIN tools : tools[t].index # r.index /\ tools[t].index # x.index
  <2> SUFFICES ASSUME NEW t \in DOMAIN tools
               PROVE  tools[t].index # r.index /\ tools[t].index # x.index
    OBVIOUS
  <2>1. tools[t].index \in 1 .. N /\ output_items[tools[t].index].kind = "function_call"
    BY <1>7
  <2> QED
    BY <1>7, <2>1
<1>9. r.index # 0 => r.index # x.index
  BY <1>7
<1>10. PICK u \in Views : CloseReasoning \in Seq(Frames) /\ Run(CloseReasoning, v, u)
                          /\ Closes(u, v, N, "reasoning", r, r.index # 0)
  <2>1. r.index # 0 => Shows(v.items[r.index], "reasoning", r.parts, ~ r.item_done)
    BY <1>5 DEF Remembered
  <2>2. PICK c \in BOOLEAN : c = (r.index # 0)
    OBVIOUS
  <2>3. CloseReasoning = If(c, CloseItem(r))
    BY <1>5, <2>2 DEF CloseReasoning
  <2>4. c => r.index # 0 /\ ~ r.item_done
    BY <1>4, <1>5, <2>2
  <2>5. "reasoning" \in {"reasoning", "message"}
    OBVIOUS
  <2>6. /\ CloseReasoning \in Seq(Frames)
        /\ \E y \in Views : Run(CloseReasoning, v, y) /\ Closes(y, v, N, "reasoning", r, c)
    BY <1>3, <2>1, <2>3, <2>4, <2>5, ClosedItem
  <2> QED
    BY <2>2, <2>6
<1>11. /\ u.stage = "streaming" /\ DOMAIN u.items = 1 .. N
       /\ \A j \in 1 .. N : j # r.index => Alike(u.items[j], v.items[j])
       /\ r.index # 0 => /\ u.items[r.index].kind = "reasoning"
                         /\ u.items[r.index].parts = r.parts
                         /\ ~ u.items[r.index].named /\ ~ u.items[r.index].open
  BY <1>10 DEF Closes
<1>12. PICK c \in BOOLEAN : c = (x.index # 0 /\ ~ x.item_done)
  OBVIOUS
<1>13. x.index # 0 => Shows(u.items[x.index], "message", x.parts, ~ x.item_done)
  <2> SUFFICES ASSUME x.index # 0
               PROVE  Shows(u.items[x.index], "message", x.parts, ~ x.item_done)
    OBVIOUS
  <2>1. Shows(v.items[x.index], "message", x.parts, ~ x.item_done)
    BY <1>6 DEF Remembered
  <2>2. Alike(u.items[x.index], v.items[x.index])
    BY <1>7, <1>9, <1>11
  <2> QED
    BY <2>1, <2>2 DEF Shows, Alike
<1>14. PICK z \in Views : CloseMessage \in Seq(Frames) /\ Run(CloseMessage, u, z)
                          /\ Closes(z, u, N, "message", x, c)
  <2>1. CloseMessage = If(c, CloseItem(x))
    BY <1>6, <1>12 DEF CloseMessage
  <2>2. c => x.index # 0 /\ ~ x.item_done
    BY <1>12
  <2>3. "message" \in {"reasoning", "message"}
    OBVIOUS
  <2> QED
    BY <1>11, <1>13, <2>1, <2>2, <2>3, ClosedItem
<1>15. /\ z.stage = "streaming" /\ DOMAIN z.items = 1 .. N
       /\ \A j \in 1 .. N : j # x.index => Alike(z.items[j], u.items[j])
       /\ x.index # 0 => /\ z.items[x.index].kind = "message"
                         /\ z.items[x.index].parts = x.parts
                         /\ ~ z.items[x.index].named /\ ~ z.items[x.index].open
  BY <1>12, <1>14 DEF Closes
<1>16. ASSUME NEW t \in DOMAIN tools
       PROVE  Shows(z.items[tools[t].index], "function_call", tools[t].args, TRUE)
  <2>1. Shows(v.items[tools[t].index], "function_call", tools[t].args, TRUE)
    BY DEF Remembered
  <2>2. Alike(u.items[tools[t].index], v.items[tools[t].index])
    BY <1>7, <1>8, <1>11
  <2>3. Alike(z.items[tools[t].index], u.items[tools[t].index])
    BY <1>7, <1>8, <1>15
  <2> QED
    BY <2>1, <2>2, <2>3 DEF Shows, Alike
<1>a. PICK m \in Nat : \E a : IsOrder(m, a)
  BY <1>4, OrderIs
<1>17. PICK a : IsOrder(m, a)
  BY <1>a
<1>18. /\ a \in [1 .. m -> DOMAIN tools]
       /\ \A p, q \in 1 .. m : a[p] = a[q] => p = q
       /\ \A t \in DOMAIN tools : \E p \in 1 .. m : a[p] = t
  BY <1>17 DEF IsOrder
<1>19. PICK index : index = [p \in 1 .. m |-> tools[a[p]].index]
  OBVIOUS
<1>20. PICK named : named = [p \in 1 .. m |-> tools[a[p]].named]
  OBVIOUS
<1>21. /\ \A p \in 1 .. m : index[p] = tools[a[p]].index /\ named[p] = tools[a[p]].named
       /\ DOMAIN index = 1 .. m
  BY <1>19, <1>20
<1>22. index \in [1 .. m -> DOMAIN z.items]
  <2>1. \A p \in 1 .. m : tools[a[p]].index \in 1 .. N
    BY <1>7, <1>18
  <2> QED
    BY <1>15, <1>19, <2>1
<1>23. named \in [1 .. m -> BOOLEAN]
  <2>1. \A t \in DOMAIN tools : tools[t].named \in BOOLEAN
    BY <1>4 DEF TypeOK, Slot
  <2>2. \A p \in 1 .. m : tools[a[p]].named \in BOOLEAN
    BY <1>18, <2>1
  <2> QED
    BY <1>20, <2>2
<1>24. \A p, q \in 1 .. m : index[p] = index[q] => p = q
  <2> SUFFICES ASSUME NEW p \in 1 .. m, NEW q \in 1 .. m, index[p] = index[q]
               PROVE  p = q
    OBVIOUS
  <2>1. a[p] \in DOMAIN tools /\ a[q] \in DOMAIN tools /\ tools[a[p]].index = tools[a[q]].index
    BY <1>18, <1>21
  <2>2. \A t \in DOMAIN tools : output_items[tools[t].index].tool = t
    BY <1>7
  <2>3. a[p] = a[q]
    BY <2>1, <2>2
  <2> QED
    BY <1>18, <2>3
<1>25. \A p \in 1 .. m : z.items[index[p]].open
  <2> SUFFICES ASSUME NEW p \in 1 .. m
               PROVE  z.items[index[p]].open
    OBVIOUS
  <2>1. a[p] \in DOMAIN tools /\ index[p] = tools[a[p]].index
    BY <1>18, <1>21
  <2>2. Shows(z.items[index[p]], "function_call", tools[a[p]].args, TRUE)
    BY <1>16, <2>1
  <2> QED
    BY <2>2 DEF Shows
<1>26. PICK F \in Seq(Frames) :
         /\ F = CloseTools /\ Len(F) = 2 * m
         /\ \A p \in 1 .. m : F[2 * p - 1] = Whole(index[p]) /\ F[2 * p] = Done(index[p], named[p])
  <2>1. AreClosed(m, a, index, named)
    BY <1>21 DEF AreClosed
  <2> QED
    BY <1>4, <1>17, <2>1, CloseToolsTypes
<1>27. PICK w \in Views : Run(F, z, w) /\ ClosedSoFar(w, z, index, named, m)
  BY <1>15, <1>22, <1>23, <1>24, <1>25, <1>26, CloseToolsRun
<1>28. /\ w.stage = "streaming" /\ DOMAIN w.items = 1 .. N
       /\ \A j \in 1 .. N :
            /\ w.items[j].kind = z.items[j].kind /\ w.items[j].parts = z.items[j].parts
            /\ (\A p \in 1 .. m : index[p] # j) => Alike(w.items[j], z.items[j])
       /\ \A p \in 1 .. m : ~ w.items[index[p]].open /\ w.items[index[p]].named = named[p]
  <2>1. w.stage = "streaming" /\ DOMAIN w.items = 1 .. N
    BY <1>15, <1>27 DEF ClosedSoFar
  <2>2. \A j \in 1 .. N : w.items[j].kind = z.items[j].kind /\ w.items[j].parts = z.items[j].parts
    BY <1>15, <1>27 DEF ClosedSoFar
  <2>3. \A j \in 1 .. N : (\A p \in 1 .. m : index[p] # j) => Alike(w.items[j], z.items[j])
    <3>1. \A p \in 1 .. m : ~ (m < p)
      OBVIOUS
    <3> QED
      BY <1>15, <1>21, <1>27, <3>1 DEF ClosedSoFar
  <2>4. \A p \in 1 .. m : ~ w.items[index[p]].open /\ w.items[index[p]].named = named[p]
    <3>1. \A p \in 1 .. m : p <= m
      OBVIOUS
    <3>2. \A p \in 1 .. m : p <= m => ~ w.items[index[p]].open /\ w.items[index[p]].named = named[p]
      BY <1>21, <1>27 DEF ClosedSoFar
    <3> QED
      BY <3>1, <3>2
  <2> QED
    BY <2>1, <2>2, <2>3, <2>4
<1>29. ASSUME NEW t \in DOMAIN tools
       PROVE  /\ w.items[tools[t].index].kind = "function_call"
              /\ w.items[tools[t].index].parts = tools[t].args
              /\ w.items[tools[t].index].named = tools[t].named
              /\ ~ w.items[tools[t].index].open
  <2>1. PICK p \in 1 .. m : a[p] = t
    BY <1>18
  <2>2. index[p] = tools[t].index /\ named[p] = tools[t].named /\ tools[t].index \in 1 .. N
    BY <1>7, <1>21, <2>1
  <2>3. Shows(z.items[tools[t].index], "function_call", tools[t].args, TRUE)
    BY <1>16
  <2> QED
    BY <1>28, <2>2, <2>3 DEF Shows
<1>30. ASSUME NEW j \in 1 .. N, \A t \in DOMAIN tools : tools[t].index # j
       PROVE  Alike(w.items[j], z.items[j])
  <2>1. \A p \in 1 .. m : index[p] # j
    BY <1>18, <1>21, <1>30
  <2> QED
    BY <1>28, <2>1
<1>31. x.index # 0 => /\ w.items[x.index].kind = "message" /\ w.items[x.index].parts = x.parts
                      /\ ~ w.items[x.index].named /\ ~ w.items[x.index].open
  BY <1>7, <1>8, <1>15, <1>30 DEF Alike
<1>32. r.index # 0 => /\ w.items[r.index].kind = "reasoning" /\ w.items[r.index].parts = r.parts
                      /\ ~ w.items[r.index].named /\ ~ w.items[r.index].open
  <2> SUFFICES ASSUME r.index # 0
               PROVE  /\ w.items[r.index].kind = "reasoning" /\ w.items[r.index].parts = r.parts
                      /\ ~ w.items[r.index].named /\ ~ w.items[r.index].open
    OBVIOUS
  <2>1. Alike(w.items[r.index], z.items[r.index])
    BY <1>7, <1>8, <1>30
  <2>2. Alike(z.items[r.index], u.items[r.index])
    BY <1>7, <1>9, <1>15
  <2> QED
    BY <1>11, <2>1, <2>2 DEF Alike
<1>33. Told(w) /\ TellsCalls(w)
  BY <1>2, <1>5, <1>6, <1>28, <1>29, <1>31, <1>32 DEF Told, TellsCalls
<1>34. \A i \in 1 .. N : ~ w.items[i].open
  <2> SUFFICES ASSUME NEW i \in 1 .. N
               PROVE  ~ w.items[i].open
    OBVIOUS
  <2>1. output_items[i].kind \in Kinds
    BY <1>2, <1>4 DEF TypeOK, Kinds
  <2>2. /\ output_items[i].kind = "reasoning" => r.index = i
        /\ output_items[i].kind = "message" => x.index = i
        /\ output_items[i].kind = "function_call" =>
             \E t \in DOMAIN tools : tools[t].index = i
    BY <1>2, <1>4, <1>5, <1>6 DEF Owners
  <2>3. i # 0
    OBVIOUS
  <2> QED
    BY <1>29, <1>31, <1>32, <2>1, <2>2, <2>3 DEF Kinds
<1>35. PICK A \in Seq(Frames), B \in Seq(Frames) :
         A = CloseReasoning /\ B = CloseMessage /\ Run(A, v, u) /\ Run(B, u, z)
  BY <1>10, <1>14
<1>36. A \o B \in Seq(Frames) /\ Run(A \o B, v, z)
  BY <1>35, RunConcat
<1>37. PICK G \in Seq(Frames) : G = A \o B /\ Run(G, v, z)
  BY <1>36
<1>38. G \o F \in Seq(Frames) /\ Run(G \o F, v, w)
  <2>1. Run(G, v, z)
    BY <1>37
  <2>2. Run(F, z, w)
    BY <1>27
  <2>3. Run(G \o F, v, w)
    BY <2>1, <2>2, RunConcat
  <2> QED
    BY <2>3
<1>39. CloseReasoning \o CloseMessage \o CloseTools = G \o F
  BY <1>26, <1>35, <1>37
<1> QED
  BY <1>28, <1>33, <1>34, <1>38, <1>39

\* A complete response (finish): the items are closed, in the order of their kinds.
LEMMA FinishStep ==
  ASSUME IInv, Finish
  PROVE  IInv'
<1> DEFINE C == CloseReasoning \o CloseMessage \o CloseTools
           type == IF finish_reason = "length" THEN "incomplete" ELSE "completed"
<1>1. finish_reason # "none" /\ End(C \o <<Terminal(type)>>)
  BY DEF Finish
<1>2. ~ ended /\ out = << >>
  BY <1>1 DEF End
<1>3. PICK v \in Views : v = View
  BY DEF IInv
<1>4. v.stage = "streaming" /\ Remembered(v)
  <2>1. started
    BY <1>1 DEF IInv, Fresh
  <2> QED
    BY <1>2, <1>3, <2>1, CaughtUp DEF Matches
<1>5. /\ C \in Seq(Frames)
      /\ \E w \in Views : /\ Run(C, v, w) /\ w.stage = "streaming" /\ Told(w) /\ TellsCalls(w)
                          /\ \A i \in DOMAIN w.items : ~ w.items[i].open
  BY <1>4, CloseAllRun
<1>6. PICK G \in Seq(Frames) : G = C
  BY <1>5
<1> HIDE DEF C
<1>7. PICK u \in Views : /\ Run(G, v, u) /\ u.stage = "streaming" /\ Told(u) /\ TellsCalls(u)
                         /\ \A i \in DOMAIN u.items : ~ u.items[i].open
  BY <1>5, <1>6
<1>8. PICK how \in Terminals : how = type /\ how \in {"completed", "incomplete"}
  BY DEF Terminals
<1> HIDE DEF type
<1>9. PICK f \in Frames : f = Terminal(how) /\ f.type = how /\ Fits(f.output, u.items, how)
  <2>1. TypeOK /\ Owners
    BY DEF IInv
  <2> QED
    BY <1>7, <1>8, <2>1, TerminalFits
<1>10. Allowed(u, f) /\ f.type \in Terminals
  BY <1>7, <1>8, <1>9 DEF Allowed
<1>11. PICK w \in Views : /\ Run(<<f>>, u, w) /\ w.stage \in Terminals
                          /\ Fits(w.output, w.items, w.stage)
  BY <1>9, <1>10, TerminalRun
<1>12. PICK H \in Seq(Frames) : H = <<f>>
  <2>1. <<f>> \in Seq(Frames)
    OBVIOUS
  <2> QED
    BY <2>1
<1>13. G \o H \in Seq(Frames) /\ Run(G \o H, v, w)
  BY <1>7, <1>11, <1>12, RunConcat
<1>14. End(G \o H)
  BY <1>1, <1>6, <1>8, <1>9, <1>12
<1> QED
  BY <1>3, <1>11, <1>13, <1>14, EndStep

-----------------------------------------------------------------------------
(***************************************************************************)
(* The client.                                                             *)
(***************************************************************************)
\* Reading a frame is reading it in the view.
LEMMA BelieveIsRead ==
  ASSUME NEW f \in Frames, Believe(f)
  PROVE  View' = Read(View, f)
<1>1. f.type \in Types
  BY DEF Frames
<1>2. View' = [stage |-> stage', items |-> items', output |-> output']
  BY DEF View
<1>3. Read(View, f) = [stage |-> StageAfter(View, f), items |-> ItemsAfter(View, f),
                       output |-> IF f.type \in Terminals THEN f.output ELSE output]
  BY DEF Read, View
<1>4. CASE f.type = "created"
  BY <1>2, <1>3, <1>4 DEF Believe, StageAfter, ItemsAfter, Terminals, View
<1>5. CASE f.type = "in_progress"
  BY <1>2, <1>3, <1>5 DEF Believe, StageAfter, ItemsAfter, Terminals, View
<1>6. CASE f.type = "output_item.added"
  <2>1. ItemsAfter(View, f) = With(f.index, [kind |-> f.kind, named |-> f.named, open |-> TRUE,
                                             parts |-> 0, details |-> 0])
    BY <1>6 DEF ItemsAfter, With, View
  <2>2. /\ items' = With(f.index, [kind |-> f.kind, named |-> f.named, open |-> TRUE,
                                   parts |-> 0, details |-> 0])
        /\ stage' = stage /\ output' = output
    BY <1>6 DEF Believe
  <2>3. StageAfter(View, f) = stage
    BY <1>6 DEF StageAfter, Terminals, View
  <2> QED
    BY <1>2, <1>3, <1>6, <2>1, <2>2, <2>3 DEF Terminals
<1>7. CASE f.type = "delta"
  <2>1. ItemsAfter(View, f) = [i \in DOMAIN items |->
                                 [items[i] EXCEPT !.parts = @ + (IF i = f.index THEN 1 ELSE 0)]]
    BY <1>7 DEF ItemsAfter, View
  <2>2. /\ items' = [i \in DOMAIN items |->
                       [items[i] EXCEPT !.parts = @ + (IF i = f.index THEN 1 ELSE 0)]]
        /\ stage' = stage /\ output' = output
    BY <1>7 DEF Believe
  <2>3. StageAfter(View, f) = stage
    BY <1>7 DEF StageAfter, Terminals, View
  <2> QED
    BY <1>2, <1>3, <1>7, <2>1, <2>2, <2>3 DEF Terminals
<1>8. CASE f.type = "output_item.done"
  <2>1. ItemsAfter(View, f) = [items EXCEPT ![f.index].open = FALSE, ![f.index].named = f.named]
    BY <1>8 DEF ItemsAfter, View
  <2>2. /\ items' = [items EXCEPT ![f.index].open = FALSE, ![f.index].named = f.named]
        /\ stage' = stage /\ output' = output
    BY <1>8 DEF Believe
  <2>3. StageAfter(View, f) = stage
    BY <1>8 DEF StageAfter, Terminals, View
  <2> QED
    BY <1>2, <1>3, <1>8, <2>1, <2>2, <2>3 DEF Terminals
<1>9. CASE f.type \in {"part", "whole"}
  <2>1. ItemsAfter(View, f) = [items EXCEPT ![f.index].details = @ + 1]
    BY <1>9 DEF ItemsAfter, View
  <2>2. /\ items' = [items EXCEPT ![f.index].details = @ + 1]
        /\ stage' = stage /\ output' = output
    BY <1>9 DEF Believe
  <2>3. StageAfter(View, f) = stage
    BY <1>9 DEF StageAfter, Terminals, View
  <2> QED
    BY <1>2, <1>3, <1>9, <2>1, <2>2, <2>3 DEF Terminals
<1>10. CASE f.type \in Terminals
  <2>1. stage' = f.type /\ output' = f.output /\ items' = items
    BY <1>10 DEF Believe, Terminals
  <2>2. StageAfter(View, f) = f.type /\ ItemsAfter(View, f) = items
    BY <1>10 DEF StageAfter, ItemsAfter, Terminals, View
  <2> QED
    BY <1>2, <1>3, <1>10, <2>1, <2>2
<1> QED
  BY <1>1, <1>4, <1>5, <1>6, <1>7, <1>8, <1>9, <1>10 DEF Types

\* The next frame is one that the protocol allows.
LEMMA NextFrame ==
  ASSUME IInv, out # << >>
  PROVE  /\ Head(out) \in Frames /\ Allowed(View, Head(out)) /\ View \in Views
         /\ Head(out).seq = last + 1
         /\ \E w \in Views : /\ Matches(w) /\ Read(View, Head(out)) \in Views
                             /\ Run(Tail(out), Read(View, Head(out)), w)
<1>1. PICK w \in Views : Run(out, View, w) /\ Matches(w)
  BY DEF IInv, Ahead
<1>2. PICK F \in Seq(Frames), v \in Views : F = out /\ v = View
  BY DEF IInv, Numbers
<1>3. /\ Head(F) \in Frames /\ Allowed(v, Head(F)) /\ Read(v, Head(F)) \in Views
      /\ Run(Tail(F), Read(v, Head(F)), w)
  BY <1>1, <1>2, RunHead
<1>4. Head(F) = F[1] /\ Len(F) \in Nat \ {0}
  BY <1>2, HeadTailProperties, EmptySeq
<1>5. F[1].seq = last + 1
  BY <1>2, <1>4 DEF IInv, Numbers
<1> QED
  BY <1>1, <1>2, <1>3, <1>4, <1>5

\* A frame read shortens the run at its beginning.
LEMMA ClientReadsStep ==
  ASSUME IInv, ClientReads
  PROVE  IInv'
<1>1. /\ out # << >> /\ Believe(Head(out)) /\ last' = Head(out).seq /\ out' = Tail(out)
      /\ UNCHANGED <<expose_thinking, started, ended, sequence, convVars, chunks>>
  BY DEF ClientReads
<1>2. PICK F \in Seq(Frames), v \in Views, f \in Frames, w \in Views :
        /\ F = out /\ v = View /\ f = Head(F) /\ Matches(w)
        /\ Read(v, f) \in Views /\ Run(Tail(F), Read(v, f), w) /\ f.seq = last + 1
  <2>1. out \in Seq(Frames)
    BY DEF IInv, Numbers
  <2> QED
    BY <1>1, <2>1, NextFrame
<1>3. View' = Read(v, f)
  BY <1>1, <1>2, BelieveIsRead
<1>4. /\ F # << >> /\ Tail(F) \in Seq(Frames) /\ Len(F) \in Nat \ {0} /\ Len(Tail(F)) = Len(F) - 1
      /\ \A i \in 1 .. Len(F) - 1 : Tail(F)[i] = F[i + 1]
  BY <1>1, <1>2, HeadTailProperties, EmptySeq
<1>5. Numbers'
  <2>1. /\ last \in Nat /\ sequence = last + Len(F)
        /\ \A n \in 1 .. Len(F) : F[n].seq = last + n
    BY <1>2 DEF IInv, Numbers
  <2>2. last' = last + 1 /\ sequence' = sequence /\ out' = Tail(F)
    BY <1>1, <1>2
  <2>3. sequence' = last' + Len(Tail(F)) /\ last' \in Nat
    BY <1>4, <2>1, <2>2
  <2>4. \A n \in 1 .. Len(Tail(F)) : Tail(F)[n].seq = last' + n
    <3> SUFFICES ASSUME NEW n \in 1 .. Len(Tail(F))
                 PROVE  Tail(F)[n].seq = last' + n
      OBVIOUS
    <3>1. n \in 1 .. Len(F) - 1 /\ n + 1 \in 1 .. Len(F)
      BY <1>4
    <3>2. Tail(F)[n] = F[n + 1] /\ F[n + 1].seq = last + (n + 1)
      BY <1>4, <2>1, <3>1
    <3> QED
      BY <2>1, <2>2, <3>1, <3>2
  <2> QED
    BY <1>4, <2>2, <2>3, <2>4 DEF Numbers
<1>6. Matches(w)'
  BY <1>1, <1>2 DEF Matches, Remembered, Given, convVars
<1>7. Ahead'
  <2>1. Run(out', View', w)
    BY <1>1, <1>2, <1>3
  <2> QED
    BY <1>6, <2>1 DEF Ahead
<1>8. TypeOK'
  BY <1>1 DEF IInv, TypeOK, convVars, ItemState, Slot, Given
<1>9. Owners' /\ Fresh'
  BY <1>1 DEF IInv, Owners, Fresh, convVars, Given
<1> QED
  BY <1>2, <1>3, <1>5, <1>7, <1>8, <1>9 DEF IInv

\* A stutter keeps the invariant.
LEMMA Waits ==
  ASSUME IInv, UNCHANGED vars
  PROVE  IInv'
<1>1. TypeOK' /\ Owners' /\ Fresh' /\ Numbers'
  BY DEF IInv, TypeOK, ItemState, Slot, Given, Owners, Fresh, Numbers, vars, convVars, view
<1>2. View' = View
  BY DEF View, vars, view
<1>3. PICK w \in Views : Run(out, View, w) /\ Matches(w)
  BY DEF IInv, Ahead
<1>4. Matches(w)'
  BY <1>3 DEF Matches, Remembered, Given, vars, convVars
<1>5. Run(out', View', w)
  BY <1>2, <1>3 DEF vars
<1>6. Ahead'
  BY <1>4, <1>5 DEF Ahead
<1> QED
  BY <1>1, <1>2, <1>6 DEF IInv

\* At first there is nothing to read and nothing remembered.
LEMMA Starts ==
  ASSUME Init
  PROVE  IInv
<1>1. Given = 1 .. 0 /\ next_output_index = 1
  BY DEF Init, Given
<1>2. TypeOK
  <2>1. reasoning \in ItemState /\ message \in ItemState
    BY <1>1 DEF Init, Nothing, ItemState
  <2>2. DOMAIN tools = {}
    BY DEF Init
  <2>3. output_items \in [Given -> [kind : {"reasoning", "message", "function_call"}, tool : Nat]]
    <3>1. << >> \in [1 .. 0 -> [kind : {"reasoning", "message", "function_call"}, tool : Nat]]
      OBVIOUS
    <3> QED
      BY <1>1, <3>1 DEF Init
  <2>4. DOMAIN tools \subseteq ToolIndexes /\ \A t \in DOMAIN tools : tools[t] \in Slot
    BY <2>2
  <2>5. /\ expose_thinking \in BOOLEAN /\ started \in BOOLEAN /\ ended \in BOOLEAN
        /\ finish_reason \in {"none", "stop", "length"}
    BY DEF Init
  <2>6. sequence \in Nat /\ next_output_index \in Nat \ {0}
    BY <1>1 DEF Init
  <2> QED
    BY <2>1, <2>3, <2>4, <2>5, <2>6 DEF TypeOK
<1>3. Owners /\ Fresh
  <2>1. reasoning.index = 0 /\ message.index = 0 /\ reasoning.parts = 0 /\ message.parts = 0
        /\ ~ reasoning.item_done /\ ~ message.item_done /\ DOMAIN tools = {}
    BY DEF Init, Nothing
  <2>2. Owners
    BY <1>1, <2>1 DEF Owners
  <2>3. Fresh
    BY <2>1 DEF Init, Fresh
  <2> QED
    BY <2>2, <2>3
<1>4. Numbers
  <2>1. << >> \in Seq(Frames) /\ Len(<< >>) = 0
    OBVIOUS
  <2> QED
    BY <2>1 DEF Init, Numbers
<1>5. View \in Views
  <2>1. << >> \in Items
    <3>1. << >> \in [1 .. 0 -> Item]
      OBVIOUS
    <3> QED
      BY <3>1 DEF Items
  <2>2. << >> \in Outputs
    <3>1. << >> \in [1 .. 0 -> OutItem]
      OBVIOUS
    <3> QED
      BY <3>1 DEF Outputs
  <2> QED
    BY <2>1, <2>2 DEF Init, View, Views, Stages
<1>6. Matches(View)
  <2>1. reasoning.index = 0 /\ message.index = 0 /\ DOMAIN tools = {} /\ DOMAIN items = {}
        /\ ~ ended /\ ~ started /\ stage = "new"
    BY DEF Init, Nothing
  <2>2. View.items = items /\ View.stage = stage
    BY DEF View
  <2>3. DOMAIN View.items = Given
    BY <1>1, <2>1, <2>2
  <2>4. Remembered(View)
    BY <2>1, <2>3 DEF Remembered
  <2> QED
    BY <2>1, <2>2, <2>4 DEF Matches
<1>7. Ahead
  <2>1. Run(<< >>, View, View) /\ out = << >>
    BY <1>5, RunEmpty DEF Init
  <2> QED
    BY <1>5, <1>6, <2>1 DEF Ahead
<1> QED
  BY <1>2, <1>3, <1>4, <1>5, <1>7 DEF IInv

-----------------------------------------------------------------------------
(***************************************************************************)
(* The protocol.  It knows nothing of ids and of terminal responses.       *)
(***************************************************************************)
Bare(seen) ==
  [i \in DOMAIN seen |-> [kind |-> seen[i].kind, open |-> seen[i].open,
                          parts |-> seen[i].parts, details |-> seen[i].details]]

BareItem == [kind : Kinds, open : BOOLEAN, parts : Nat, details : Nat]

\* Items with one more, and items of which one is done.
Extended(s, i, kind, named) ==
  [j \in DOMAIN s \cup {i} |-> IF j = i THEN Opened(kind, named) ELSE s[j]]

Finished(s, i, named) == [s EXCEPT ![i].open = FALSE, ![i].named = named]

\* The items of a view are, for the protocol, a sequence.
LEMMA BareTypes ==
  ASSUME NEW s \in Items
  PROVE  /\ Bare(s) \in Seq(BareItem) /\ DOMAIN Bare(s) = DOMAIN s
         /\ \E n \in Nat : s \in [1 .. n -> Item] /\ Len(Bare(s)) = n
         /\ \A i \in DOMAIN s :
              /\ Bare(s)[i].kind = s[i].kind /\ Bare(s)[i].open = s[i].open
              /\ Bare(s)[i].parts = s[i].parts /\ Bare(s)[i].details = s[i].details
<1>1. PICK n \in Nat : s \in [1 .. n -> Item]
  BY DEF Items
<1> DEFINE b == Bare(s)
<1>2. b \in [1 .. n -> BareItem]
  BY <1>1 DEF Bare, Item, BareItem
<1>3. \A i \in DOMAIN s : /\ b[i].kind = s[i].kind /\ b[i].open = s[i].open
                          /\ b[i].parts = s[i].parts /\ b[i].details = s[i].details
  BY DEF Bare
<1> HIDE DEF b
<1>4. b \in Seq(BareItem) /\ Len(b) = n
  BY <1>2
<1>5. DOMAIN b = DOMAIN s
  BY <1>1, <1>2
<1> QED
  BY <1>1, <1>3, <1>4, <1>5 DEF b

\* An item is added.
LEMMA BareAdded ==
  ASSUME NEW s \in Items, NEW t \in Items, NEW i \in Nat \ {0}, DOMAIN s = 1 .. i - 1,
         NEW kind \in Kinds, NEW named,
         t = Extended(s, i, kind, named)
  PROVE  Bare(t) = Append(Bare(s), [kind |-> kind, open |-> TRUE, parts |-> 0, details |-> 0])
<1> DEFINE x == [kind |-> kind, open |-> TRUE, parts |-> 0, details |-> 0]
<1>1. DOMAIN t = 1 .. i /\ t[i] = Opened(kind, named) /\ \A j \in 1 .. i - 1 : t[j] = s[j]
  <2>1. DOMAIN s \cup {i} = 1 .. i /\ \A j \in 1 .. i - 1 : j # i /\ j \in DOMAIN s
    OBVIOUS
  <2> QED
    BY <2>1 DEF Extended
<1>2. x \in BareItem
  BY DEF BareItem
<1>3. PICK a \in Seq(BareItem) : a = Bare(s) /\ Len(a) = i - 1
  BY BareTypes
<1>4. PICK b \in Seq(BareItem) : b = Bare(t) /\ Len(b) = i
  BY <1>1, BareTypes
<1>5. b[i] = x
  <2>1. i \in DOMAIN t
    BY <1>1
  <2>2. b[i] = [kind |-> t[i].kind, open |-> t[i].open,
                parts |-> t[i].parts, details |-> t[i].details]
    BY <1>4, <2>1 DEF Bare
  <2>3. t[i] = [kind |-> kind, named |-> named, open |-> TRUE, parts |-> 0, details |-> 0]
    BY <1>1 DEF Opened
  <2> QED
    BY <2>2, <2>3
<1>6. \A j \in 1 .. i - 1 : b[j] = a[j]
  BY <1>1, <1>3, <1>4 DEF Bare
<1> HIDE DEF x
<1>7. /\ Append(a, x) \in Seq(BareItem) /\ Len(Append(a, x)) = i
      /\ \A j \in 1 .. i - 1 : Append(a, x)[j] = a[j]
      /\ Append(a, x)[i] = x
  BY <1>2, <1>3, AppendProperties
<1>8. \A j \in 1 .. i : b[j] = Append(a, x)[j]
  <2>1. \A j \in 1 .. i : j = i \/ j \in 1 .. i - 1
    OBVIOUS
  <2> QED
    BY <1>5, <1>6, <1>7, <2>1
<1>9. b = Append(a, x)
  BY <1>4, <1>7, <1>8, SeqEqual
<1> QED
  BY <1>3, <1>4, <1>9 DEF x

\* A fragment is read.
LEMMA BareDelta ==
  ASSUME NEW s \in Items, NEW i \in DOMAIN s,
         NEW t, t = [j \in DOMAIN s |-> [s[j] EXCEPT !.parts = @ + (IF j = i THEN 1 ELSE 0)]]
  PROVE  Bare(t) = [Bare(s) EXCEPT ![i].parts = @ + 1]
<1>1. PICK n \in Nat : s \in [1 .. n -> Item]
  BY DEF Items
<1>2. DOMAIN t = 1 .. n /\ DOMAIN s = 1 .. n
  BY <1>1
<1>3. ASSUME NEW j \in 1 .. n
      PROVE  /\ t[j].kind = s[j].kind /\ t[j].open = s[j].open /\ t[j].details = s[j].details
             /\ t[j].parts = s[j].parts + (IF j = i THEN 1 ELSE 0) /\ s[j].parts \in Nat
  <2>1. s[j] \in Item /\ t[j] = [s[j] EXCEPT !.parts = @ + (IF j = i THEN 1 ELSE 0)]
    BY <1>1, <1>2
  <2> QED
    BY <2>1 DEF Item
<1> DEFINE a == Bare(s)
           b == Bare(t)
           c == [a EXCEPT ![i].parts = @ + 1]
<1>4. a \in [1 .. n -> BareItem] /\ \A j \in 1 .. n : a[j] = [kind |-> s[j].kind, open |-> s[j].open,
                          parts |-> s[j].parts, details |-> s[j].details]
  BY <1>1 DEF Bare, Item, BareItem
<1>5. ASSUME NEW j \in 1 .. n
      PROVE  b[j] = [kind |-> s[j].kind, open |-> s[j].open,
                     parts |-> s[j].parts + (IF j = i THEN 1 ELSE 0), details |-> s[j].details]
  BY <1>2, <1>3 DEF Bare
<1>6. DOMAIN b = 1 .. n
  BY <1>2 DEF Bare
<1> HIDE DEF a
<1>7. DOMAIN c = 1 .. n
  BY <1>4
<1>8. ASSUME NEW j \in 1 .. n
      PROVE  c[j] = [kind |-> s[j].kind, open |-> s[j].open,
                     parts |-> s[j].parts + (IF j = i THEN 1 ELSE 0), details |-> s[j].details]
  <2>1. CASE j = i
    <3>1. c[j] = [a[j] EXCEPT !.parts = a[j].parts + 1]
      BY <1>4, <2>1
    <3>2. a[j] = [kind |-> s[j].kind, open |-> s[j].open,
                  parts |-> s[j].parts, details |-> s[j].details]
      BY <1>4
    <3> HIDE DEF c
    <3> QED
      BY <1>3, <2>1, <3>1, <3>2
  <2>2. CASE j # i
    <3>1. c[j] = a[j]
      BY <1>4, <2>2
    <3>2. a[j] = [kind |-> s[j].kind, open |-> s[j].open,
                  parts |-> s[j].parts, details |-> s[j].details]
      BY <1>4
    <3>3. s[j].parts + (IF j = i THEN 1 ELSE 0) = s[j].parts
      BY <1>3, <2>2
    <3> HIDE DEF c
    <3> QED
      BY <3>1, <3>2, <3>3
  <2> QED
    BY <2>1, <2>2
<1>9. b = [j \in 1 .. n |-> b[j]] /\ c = [j \in 1 .. n |-> c[j]]
  <2>1. b = [j \in DOMAIN b |-> b[j]]
    BY DEF Bare
  <2> HIDE DEF b
  <2> QED
    BY <1>4, <1>6, <1>7, <2>1
<1> HIDE DEF b, c
<1>10. b = c
  BY <1>5, <1>8, <1>9
<1> QED
  BY <1>10 DEF a, b, c

\* A part begins, or text is repeated.
LEMMA BareDetail ==
  ASSUME NEW s \in Items, NEW i \in DOMAIN s,
         NEW t, t = [s EXCEPT ![i].details = @ + 1]
  PROVE  Bare(t) = [Bare(s) EXCEPT ![i].details = @ + 1]
<1>1. PICK n \in Nat : s \in [1 .. n -> Item]
  BY DEF Items
<1>2. DOMAIN t = 1 .. n /\ DOMAIN s = 1 .. n
  BY <1>1
<1>3. ASSUME NEW j \in 1 .. n
      PROVE  /\ t[j].kind = s[j].kind /\ t[j].open = s[j].open /\ t[j].parts = s[j].parts
             /\ t[j].details = s[j].details + (IF j = i THEN 1 ELSE 0) /\ s[j].details \in Nat
  BY <1>1 DEF Item
<1> DEFINE a == Bare(s)
           b == Bare(t)
           c == [a EXCEPT ![i].details = @ + 1]
<1>4. a \in [1 .. n -> BareItem] /\ \A j \in 1 .. n : a[j] = [kind |-> s[j].kind, open |-> s[j].open,
                          parts |-> s[j].parts, details |-> s[j].details]
  BY <1>1 DEF Bare, Item, BareItem
<1>5. ASSUME NEW j \in 1 .. n
      PROVE  b[j] = [kind |-> s[j].kind, open |-> s[j].open, parts |-> s[j].parts,
                     details |-> s[j].details + (IF j = i THEN 1 ELSE 0)]
  BY <1>2, <1>3 DEF Bare
<1>6. DOMAIN b = 1 .. n
  BY <1>2 DEF Bare
<1> HIDE DEF a
<1>7. DOMAIN c = 1 .. n
  BY <1>4
<1>8. ASSUME NEW j \in 1 .. n
      PROVE  c[j] = [kind |-> s[j].kind, open |-> s[j].open, parts |-> s[j].parts,
                     details |-> s[j].details + (IF j = i THEN 1 ELSE 0)]
  BY <1>2, <1>3, <1>4
<1>9. b = [j \in 1 .. n |-> b[j]] /\ c = [j \in 1 .. n |-> c[j]]
  <2>1. b = [j \in DOMAIN b |-> b[j]]
    BY DEF Bare
  <2> HIDE DEF b
  <2> QED
    BY <1>4, <1>6, <1>7, <2>1
<1> HIDE DEF b, c
<1>10. b = c
  BY <1>5, <1>8, <1>9
<1> QED
  BY <1>10 DEF a, b, c

\* An item is done; its ids are not the protocol's.
LEMMA BareDone ==
  ASSUME NEW s \in Items, NEW i \in DOMAIN s, NEW named,
         NEW t, t = Finished(s, i, named)
  PROVE  Bare(t) = [Bare(s) EXCEPT ![i].open = FALSE]
<1>a. PICK no : no = FALSE
  OBVIOUS
<1>0. t = [s EXCEPT ![i].open = no, ![i].named = named]
  BY <1>a DEF Finished
<1>1. PICK n \in Nat : s \in [1 .. n -> Item]
  BY DEF Items
<1>2. DOMAIN t = 1 .. n /\ DOMAIN s = 1 .. n
  BY <1>0, <1>1
<1>3. ASSUME NEW j \in 1 .. n
      PROVE  /\ t[j].kind = s[j].kind /\ t[j].details = s[j].details /\ t[j].parts = s[j].parts
             /\ t[j].open = IF j = i THEN no ELSE s[j].open
  BY <1>0, <1>1 DEF Item
<1> DEFINE a == Bare(s)
           b == Bare(t)
           c == [a EXCEPT ![i].open = no]
<1>4. a \in [1 .. n -> BareItem] /\ \A j \in 1 .. n : a[j] = [kind |-> s[j].kind, open |-> s[j].open,
                          parts |-> s[j].parts, details |-> s[j].details]
  BY <1>1 DEF Bare, Item, BareItem
<1>5. ASSUME NEW j \in 1 .. n
      PROVE  b[j] = [kind |-> s[j].kind, open |-> IF j = i THEN no ELSE s[j].open,
                     parts |-> s[j].parts, details |-> s[j].details]
  BY <1>2, <1>3 DEF Bare
<1>6. DOMAIN b = 1 .. n
  BY <1>2 DEF Bare
<1> HIDE DEF a
<1>7. DOMAIN c = 1 .. n
  BY <1>4
<1>8. ASSUME NEW j \in 1 .. n
      PROVE  c[j] = [kind |-> s[j].kind, open |-> IF j = i THEN no ELSE s[j].open,
                     parts |-> s[j].parts, details |-> s[j].details]
  <2>1. CASE j = i
    <3>1. c[j] = [a[j] EXCEPT !.open = no]
      BY <1>4, <2>1
    <3>2. a[j] = [kind |-> s[j].kind, open |-> s[j].open,
                  parts |-> s[j].parts, details |-> s[j].details]
      BY <1>4
    <3> HIDE DEF c
    <3> QED
      BY <2>1, <3>1, <3>2
  <2>2. CASE j # i
    <3>1. c[j] = a[j]
      BY <1>4, <2>2
    <3>2. a[j] = [kind |-> s[j].kind, open |-> s[j].open,
                  parts |-> s[j].parts, details |-> s[j].details]
      BY <1>4
    <3> HIDE DEF c
    <3> QED
      BY <2>2, <3>1, <3>2
  <2> QED
    BY <2>1, <2>2
<1>9. b = [j \in 1 .. n |-> b[j]] /\ c = [j \in 1 .. n |-> c[j]]
  <2>1. b = [j \in DOMAIN b |-> b[j]]
    BY DEF Bare
  <2> HIDE DEF b
  <2> QED
    BY <1>4, <1>6, <1>7, <2>1
<1> HIDE DEF b, c
<1>10. b = c
  BY <1>5, <1>8, <1>9
<1> QED
  BY <1>a, <1>10 DEF a, b, c

\* The frame that the client reads next is a step of the protocol.
LEMMA ReadsProtocol ==
  ASSUME IInv, ClientReads
  PROVE  Protocol!Next
<1>1. /\ out # << >> /\ Believe(Head(out)) /\ last' = Head(out).seq
  BY DEF ClientReads
<1>2. PICK f \in Frames, v \in Views :
        /\ f = Head(out) /\ v = View /\ Allowed(v, f) /\ f.seq = last + 1
  BY <1>1, NextFrame
<1>3. Protocol!Frame /\ Believe(f)
  BY <1>1, <1>2 DEF Protocol!Frame
<1>4. PICK s \in Items : s = items /\ s = v.items
  BY <1>2 DEF View, Views
<1>5. PICK t \in Items : t = items'
  <2>1. Read(v, f) \in Views /\ View' = Read(v, f)
    BY <1>2, <1>3, ReadTypes, BelieveIsRead
  <2>2. View'.items \in Items
    BY <2>1 DEF Views
  <2> QED
    BY <2>2 DEF View
<1>6. v.stage = stage
  BY <1>2 DEF View
<1> DEFINE a == Bare(s)
           b == Bare(t)
<1>7. /\ a = [i \in DOMAIN items |-> [kind |-> items[i].kind, open |-> items[i].open,
                                      parts |-> items[i].parts, details |-> items[i].details]]
      /\ b = [i \in DOMAIN items |-> [kind |-> items[i].kind, open |-> items[i].open,
                                      parts |-> items[i].parts, details |-> items[i].details]]'
  BY <1>4, <1>5 DEF Bare
<1>8. /\ DOMAIN a = DOMAIN s
      /\ \A i \in DOMAIN s : a[i].open = s[i].open /\ a[i].kind = s[i].kind
  BY BareTypes
<1> HIDE DEF a, b
<1>9. Protocol!OpenItems = {i \in DOMAIN a : a[i].open}
  BY <1>7 DEF Protocol!OpenItems
<1>10. f.type \in Types
  BY DEF Frames
<1>11. CASE f.type \in {"created", "in_progress"}
  <2>1. items' = items /\ \/ stage = "new" /\ stage' = "created"
                          \/ stage = "created" /\ stage' = "streaming"
    BY <1>2, <1>3, <1>6, <1>11 DEF Believe, Allowed
  <2>2. Protocol!Begin
    BY <1>3, <2>1 DEF Protocol!Begin
  <2> QED
    BY <2>2 DEF Protocol!Next, Protocol!LifecycleNext
<1>12. CASE f.type = "output_item.added"
  <2>1. stage = "streaming" /\ f.kind \in Kinds /\ f.index # 0 /\ DOMAIN s = 1 .. f.index - 1
    BY <1>2, <1>4, <1>6, <1>12 DEF Allowed
  <2>2. stage' = stage /\ t = With(f.index, [kind |-> f.kind, named |-> f.named, open |-> TRUE,
                                             parts |-> 0, details |-> 0])
    BY <1>3, <1>5, <1>12 DEF Believe
  <2>3. t = Extended(s, f.index, f.kind, f.named)
    BY <1>4, <2>2 DEF With, Opened, Extended
  <2>4. f.index \in Nat \ {0}
    BY <2>1 DEF Frames
  <2>5. PICK kind \in Kinds, n \in Nat \ {0} : kind = f.kind /\ n = f.index
    BY <2>1, <2>4
  <2>a. PICK named : named = f.named
    OBVIOUS
  <2>6. b = Append(a, [kind |-> kind, open |-> TRUE, parts |-> 0, details |-> 0])
    <3>1. DOMAIN s = 1 .. n - 1 /\ t = Extended(s, n, kind, named)
      BY <2>1, <2>3, <2>5, <2>a
    <3> QED
      BY <3>1, BareAdded DEF a, b
  <2>7. Protocol!AddItem(kind)
    BY <1>3, <1>7, <2>1, <2>2, <2>6 DEF Protocol!AddItem
  <2>8. kind = "function_call" => Protocol!CallMayStart
    <3> SUFFICES ASSUME f.kind = "function_call"
                 PROVE  Protocol!CallMayStart
      BY <2>5
    <3>1. CallMayStart(s)
      BY <1>2, <1>4, <1>12 DEF Allowed
    <3>2. CASE \E i \in DOMAIN s : s[i].kind = "function_call"
      <4>1. \E i \in DOMAIN a : a[i].kind = "function_call"
        BY <1>8, <3>2
      <4> QED
        BY <1>7, <4>1 DEF Protocol!CallMayStart
    <3>3. CASE \A i \in DOMAIN s : s[i].kind = "message" => ~ s[i].open
      <4>1. \A i \in Protocol!OpenItems : a[i].kind # "message"
        BY <1>8, <1>9, <3>3
      <4> QED
        BY <1>7, <4>1 DEF Protocol!CallMayStart
    <3> QED
      BY <3>1, <3>2, <3>3 DEF CallMayStart
  <2>9. Protocol!Add(kind) \/ Protocol!AddBeside(kind)
    BY <2>7, <2>8 DEF Protocol!Add, Protocol!AddBeside
  <2> QED
    BY <2>9 DEF Protocol!Next, Protocol!LifecycleNext, Protocol!Kinds, Kinds
<1>13. CASE f.type = "delta"
  <2>1. stage = "streaming" /\ f.index \in DOMAIN s /\ (s[f.index].open \/ s[f.index].kind = "message")
    BY <1>2, <1>4, <1>6, <1>13 DEF Allowed
  <2>2. PICK i \in DOMAIN s : i = f.index
    BY <2>1
  <2>3. stage' = stage /\ t = [j \in DOMAIN s |-> [s[j] EXCEPT !.parts = @ + (IF j = i THEN 1 ELSE 0)]]
    BY <1>3, <1>4, <1>5, <1>13, <2>2 DEF Believe
  <2>4. b = [a EXCEPT ![i].parts = @ + 1]
    BY <2>3, BareDelta DEF a, b
  <2>5. i \in Protocol!OpenItems \/ a[i].kind = "message"
    BY <1>8, <1>9, <2>1, <2>2
  <2>6. Protocol!AddFragment(i)
    BY <1>3, <1>7, <2>1, <2>3, <2>4 DEF Protocol!AddFragment
  <2>7. Protocol!Fragment(i) \/ Protocol!LateText(i)
    BY <1>7, <2>5, <2>6 DEF Protocol!Fragment, Protocol!LateText
  <2> QED
    BY <1>7, <1>8, <2>7 DEF Protocol!Next, Protocol!LifecycleNext
<1>14. CASE f.type \in {"part", "whole"}
  <2>1. stage = "streaming" /\ f.index \in DOMAIN s /\ s[f.index].open
    BY <1>2, <1>4, <1>6, <1>14 DEF Allowed
  <2>2. PICK i \in DOMAIN s : i = f.index
    BY <2>1
  <2>3. stage' = stage /\ t = [s EXCEPT ![i].details = @ + 1]
    BY <1>3, <1>4, <1>5, <1>14, <2>2 DEF Believe
  <2>4. b = [a EXCEPT ![i].details = @ + 1]
    BY <2>3, BareDetail DEF a, b
  <2>5. i \in Protocol!OpenItems
    BY <1>8, <1>9, <2>1, <2>2
  <2>6. Protocol!Detail(i)
    BY <1>3, <1>7, <2>1, <2>3, <2>4, <2>5 DEF Protocol!Detail
  <2> QED
    BY <1>7, <1>8, <2>6 DEF Protocol!Next, Protocol!LifecycleNext
<1>15. CASE f.type = "output_item.done"
  <2>1. stage = "streaming" /\ f.index \in DOMAIN s /\ s[f.index].open
    BY <1>2, <1>4, <1>6, <1>15 DEF Allowed
  <2>2. PICK i \in DOMAIN s : i = f.index
    BY <2>1
  <2>a. PICK named : named = f.named
    OBVIOUS
  <2>3. stage' = stage /\ t = Finished(s, i, named)
    BY <1>3, <1>4, <1>5, <1>15, <2>2, <2>a DEF Believe, Finished
  <2>4. b = [a EXCEPT ![i].open = FALSE]
    BY <2>3, BareDone DEF a, b
  <2>5. i \in Protocol!OpenItems
    BY <1>8, <1>9, <2>1, <2>2
  <2>6. Protocol!Close(i)
    BY <1>3, <1>7, <2>1, <2>3, <2>4, <2>5 DEF Protocol!Close
  <2> QED
    BY <1>7, <1>8, <2>6 DEF Protocol!Next, Protocol!LifecycleNext
<1>16. CASE f.type \in {"completed", "incomplete"}
  <2>1. stage = "streaming" /\ \A i \in DOMAIN s : ~ s[i].open
    BY <1>2, <1>4, <1>6, <1>16 DEF Allowed
  <2>2. stage' \in {"completed", "incomplete"} /\ items' = items
    BY <1>3, <1>16 DEF Believe
  <2>3. Protocol!OpenItems = {}
    BY <1>8, <1>9, <2>1
  <2>4. Protocol!Complete
    BY <1>3, <2>1, <2>2, <2>3 DEF Protocol!Complete
  <2> QED
    BY <2>4 DEF Protocol!Next, Protocol!LifecycleNext
<1>17. CASE f.type = "failed"
  <2>1. stage \in {"new", "streaming"}
    BY <1>2, <1>6, <1>17 DEF Allowed
  <2>2. stage' = "failed" /\ items' = items
    BY <1>3, <1>17 DEF Believe
  <2>3. Protocol!Fail
    BY <1>3, <2>1, <2>2 DEF Protocol!Fail
  <2> QED
    BY <2>3 DEF Protocol!Next, Protocol!LifecycleNext
<1> QED
  BY <1>10, <1>11, <1>12, <1>13, <1>14, <1>15, <1>16, <1>17 DEF Types, Terminals

\* What is fed or ended is not yet read; a step of the client is one of the protocol.
LEMMA Steps ==
  ASSUME IInv, [Next]_vars
  PROVE  IInv' /\ [Protocol!Next]_(Protocol!vars)
<1>1. UNCHANGED view => UNCHANGED Protocol!vars
  BY DEF view, Protocol!vars
<1>2. ASSUME NoDelta
      PROVE  IInv' /\ UNCHANGED view
  BY <1>2, NoDeltaStep DEF NoDelta, Feed
<1>3. ASSUME HiddenReasoning
      PROVE  IInv' /\ UNCHANGED view
  BY <1>3, HiddenReasoningStep DEF HiddenReasoning, Feed
<1>4. ASSUME Reasoning
      PROVE  IInv' /\ UNCHANGED view
  BY <1>4, ReasoningStep DEF Reasoning, Feed
<1>5. ASSUME Text
      PROVE  IInv' /\ UNCHANGED view
  BY <1>5, TextStep DEF Text, Feed
<1>6. ASSUME NEW reason \in {"stop", "length"}, FinishReason(reason)
      PROVE  IInv' /\ UNCHANGED view
  <2>1. UNCHANGED view
    BY <1>6 DEF FinishReason, Feed
  <2> QED
    BY <1>6, <2>1, FinishReasonStep
<1>7. ASSUME NEW calls \in Calls, ToolCalls(calls)
      PROVE  IInv' /\ UNCHANGED view
  <2>1. UNCHANGED view
    BY <1>7 DEF ToolCalls, Feed
  <2> QED
    BY <1>7, <2>1, ToolCallsStep
<1>8. ASSUME Finish
      PROVE  IInv' /\ UNCHANGED view
  BY <1>8, FinishStep DEF Finish, End
<1>9. ASSUME FinishFailed
      PROVE  IInv' /\ UNCHANGED view
  BY <1>9, FinishFailedStep DEF FinishFailed, End
<1>10. ASSUME Complete \/ UNCHANGED vars
       PROVE  IInv' /\ UNCHANGED view
  BY <1>10, Waits DEF Complete, vars
<1>11. ASSUME ClientReads
       PROVE  IInv' /\ Protocol!Next
  BY <1>11, ClientReadsStep, ReadsProtocol
<1>12. CASE FeedChunk
  BY <1>1, <1>2, <1>3, <1>4, <1>5, <1>6, <1>7, <1>12 DEF FeedChunk
<1>13. CASE Finish \/ FinishFailed \/ Complete \/ UNCHANGED vars
  BY <1>1, <1>8, <1>9, <1>10, <1>13
<1>14. CASE ClientReads
  BY <1>11, <1>14
<1> QED
  BY <1>12, <1>13, <1>14 DEF Next

(***************************************************************************)
(* What feed_chunk remembers (output indexes, slots, accumulators) is what *)
(* the client will have when it has read the frames on their way.          *)
(***************************************************************************)
THEOREM Invariance == Spec => []IInv
<1>1. Init => IInv
  BY Starts
<1>2. IInv /\ [Next]_vars => IInv'
  BY Steps
<1> QED
  BY <1>1, <1>2, PTL DEF Spec

(***************************************************************************)
(* The output of the terminal response is, item by item and in their       *)
(* order, what the client has assembled from the frames of feed_chunk and  *)
(* of finish, late text and late call ids included.                        *)
(***************************************************************************)
THEOREM TerminalIsComplete == Spec => []TerminalComplete
<1>1. IInv => TerminalComplete
  <2> SUFFICES ASSUME IInv, Terminated
               PROVE  /\ Len(output) = Cardinality(DOMAIN items)
                      /\ \A i \in DOMAIN output :
                           /\ output[i].kind = items[i].kind /\ output[i].parts = items[i].parts
                           /\ stage # "failed" => output[i].named = items[i].named
    BY DEF TerminalComplete
  <2>1. View.stage \in Terminals /\ View.stage = stage
    BY DEF Terminated, Terminals, View
  <2>2. out = << >>
    <3>1. ASSUME NEW f \in Frames, Allowed(View, f)
          PROVE  FALSE
      BY <2>1, <3>1 DEF Allowed, Terminals
    <3> QED
      BY <3>1, NextFrame
  <2>3. Matches(View)
    BY <2>2, CaughtUp
  <2>4. Fits(output, items, stage)
    <3>1. ended
      BY <2>1, <2>3 DEF Matches, Terminals
    <3>2. View.output = output /\ View.items = items
      BY DEF View
    <3> QED
      BY <2>1, <2>3, <3>1, <3>2 DEF Matches
  <2>5. PICK n \in Nat : output \in [1 .. n -> OutItem]
    <3>1. output \in Outputs
      BY DEF IInv, View, Views
    <3> QED
      BY <3>1 DEF Outputs
  <2>6. Len(output) = n
    BY <2>5
  <2>7. DOMAIN items = 1 .. n
    BY <2>4, <2>5 DEF Fits
  <2>8. Cardinality(1 .. n) = n
    BY FS_Interval
  <2> QED
    BY <2>4, <2>6, <2>7, <2>8 DEF Fits
<1> QED
  BY <1>1, Invariance, PTL

(***************************************************************************)
(* The frames of feed_chunk and of finish, read one at a time, are a run   *)
(* of ResponseItems: numbered without a gap, items added in the order of   *)
(* their indexes, fragments of known items only, no item done twice, the   *)
(* message done before the first function call, no item open when a        *)
(* response completes.  They are no run of the documented lifecycle, which *)
(* has the items one after the other (KeepsLifecycle).                     *)
(***************************************************************************)
THEOREM KeepsProtocolOfItems == Spec => KeepsItems
<1>1. Init => Protocol!Init
  BY DEF Init, Protocol!Init
<1>2. IInv /\ [Next]_vars => [Protocol!Next]_(Protocol!vars)
  BY Steps
<1> QED
  BY <1>1, <1>2, Invariance, PTL DEF Spec, KeepsItems, Protocol!Spec
==============================================================================
