----------------------------- MODULE ShadowProofs -----------------------------
(***************************************************************************)
(* The reasoning shadow is bounded and consistent, gives a turn back its   *)
(* own reasoning only, and keeps that of a tool loop, for every number of  *)
(* sessions, every limit and every length of history.                      *)
(***************************************************************************)
EXTENDS Shadow, DequeProofs

CallIds == UNION {Ids(calls) : calls \in CallLists}
Slot    == [entries : UNION {[I -> Entry] : I \in SUBSET CallIds}, bytes : Nat]
Maps    == UNION {[S -> Slot] : S \in SUBSET Sessions}
Values  == [map : Maps, lru : Seq(Sessions), total : Nat]

SizesOf(slot) == [id \in DOMAIN slot.entries |-> slot.entries[id].size]

\* What is kept of a session is finite and no more than its bytes say.
Covers(slot) == IsFiniteSet(DOMAIN slot.entries) /\ SumOf(SizesOf(slot)) <= slot.bytes

Agrees(v) ==
  /\ v \in Values
  /\ Members(v.lru) = DOMAIN v.map /\ Distinct(v.lru)
  /\ v.total = BytesOf(v, DOMAIN v.map)
  /\ \A s \in DOMAIN v.map : Covers(v.map[s])

StoreInv == Agrees(Current) /\ Fits(Current)

HistoryInv ==
  /\ history \in [Sessions -> Seq(Message)]
  /\ waiting \subseteq Sessions /\ lost \subseteq Sessions /\ DOMAIN body = Sessions
  /\ \A s \in Sessions : history[s] # << >> => ~ IsTurn(history[s][1])
  /\ \A s \in waiting : history[s] # << >>

\* An entry under a call of a turn is of that turn.
OwnInv ==
  \A s \in Stored : \A id \in DOMAIN store[s].entries : \A i \in DOMAIN history[s] :
     id \in Ids(history[s][i].calls) => store[s].entries[id].of = <<s, i>>

\* The turns whose reasoning must be there, and that it is.
Due(s, i) ==
  Ages(history[s][i]) /\ history[s][i].age <= Ttl /\ LastHuman(s, i)

Has(s, id, age) ==
  s \in Stored /\ id \in DOMAIN store[s].entries /\ store[s].entries[id].age = age

DueInv ==
  \A s \in Sessions \ lost : \A i \in DOMAIN history[s] :
     Due(s, i) => \A id \in Ids(history[s][i].calls) : Has(s, id, history[s][i].age)

IInv == StoreInv /\ HistoryInv /\ OwnInv /\ DueInv

-----------------------------------------------------------------------------
(***************************************************************************)
(* Sums: of parts, of equal values, and of one value.                      *)
(***************************************************************************)
LEMMA SumFinite ==
  ASSUME NEW D, IsFiniteSet(D), NEW f \in [D -> Nat]
  PROVE  IsFiniteSet(Units(f)) /\ SumOf(f) \in Nat
<1> DEFINE U(x) == {x} \X (1 .. f[x])
           T    == {U(x) : x \in D}
           u    == [x \in D |-> U(x)]
<1>1. u \in Surjection(D, T)
  BY DEF Surjection
<1>2. IsFiniteSet(T)
  BY <1>1, FS_Surjection
<1>3. ASSUME NEW x \in D
      PROVE  IsFiniteSet(U(x))
  <2>1. 1 \in Int /\ f[x] \in Int
    BY <1>3
  <2>2. IsFiniteSet({x}) /\ IsFiniteSet(1 .. f[x])
    BY <2>1, FS_Singleton, FS_Interval
  <2> QED
    BY <2>2, FS_Product
<1>4. \A V \in T : IsFiniteSet(V)
  BY <1>3
<1>5. Units(f) = UNION T
  BY DEF Units
<1> HIDE DEF T
<1>6. IsFiniteSet(Units(f))
  BY <1>2, <1>4, <1>5, FS_UNION
<1> QED
  BY <1>6, FS_CardinalityType DEF SumOf

LEMMA SumSplit ==
  ASSUME NEW D, IsFiniteSet(D), NEW f \in [D -> Nat], NEW A \in SUBSET D
  PROVE  /\ SumOf([x \in A |-> f[x]]) \in Nat /\ SumOf([x \in D \ A |-> f[x]]) \in Nat
         /\ SumOf(f) = SumOf([x \in A |-> f[x]]) + SumOf([x \in D \ A |-> f[x]])
<1> DEFINE g == [x \in A |-> f[x]]
           h == [x \in D \ A |-> f[x]]
<1>1. IsFiniteSet(A) /\ IsFiniteSet(D \ A)
  BY FS_Subset, FS_Difference
<1>2. g \in [A -> Nat] /\ h \in [D \ A -> Nat]
  OBVIOUS
<1>3. Units(f) = Units(g) \cup Units(h) /\ Units(g) \cap Units(h) = {}
  BY DEF Units
<1> HIDE DEF g, h
<1>4. /\ IsFiniteSet(Units(g)) /\ SumOf(g) \in Nat
      /\ IsFiniteSet(Units(h)) /\ SumOf(h) \in Nat
  BY <1>1, <1>2, SumFinite
<1>5. Cardinality(Units(f)) = Cardinality(Units(g)) + Cardinality(Units(h)) - 0
  BY <1>3, <1>4, FS_Union, FS_EmptySet
<1> QED
  BY <1>4, <1>5 DEF SumOf, g, h

\* The same, by a name for what a function has of a set.
Part(f, A) == [x \in A |-> f[x]]

LEMMA SumParts ==
  ASSUME NEW D, IsFiniteSet(D), NEW f \in [D -> Nat], NEW A \in SUBSET D
  PROVE  /\ SumOf(Part(f, A)) \in Nat /\ SumOf(Part(f, D \ A)) \in Nat
         /\ SumOf(f) = SumOf(Part(f, A)) + SumOf(Part(f, D \ A))
  BY SumSplit DEF Part

LEMMA SumConstant ==
  ASSUME NEW D, IsFiniteSet(D), NEW n \in Nat, NEW f \in [D -> {n}]
  PROVE  SumOf(f) = Cardinality(D) * n
<1>1. Units(f) = D \X (1 .. n)
  BY DEF Units
<1>2. IsFiniteSet(1 .. n) /\ Cardinality(1 .. n) = n
  BY FS_Interval
<1> QED
  BY <1>1, <1>2, FS_Product DEF SumOf

LEMMA SumAtOne ==
  ASSUME NEW a, NEW f, f[a] \in Nat
  PROVE  SumOf([x \in {a} |-> f[x]]) = f[a]
<1>1. IsFiniteSet({a}) /\ Cardinality({a}) = 1
  BY FS_Singleton
<1>2. [x \in {a} |-> f[x]] \in [{a} -> {f[a]}]
  OBVIOUS
<1>3. SumOf([x \in {a} |-> f[x]]) = Cardinality({a}) * f[a]
  BY <1>1, <1>2, SumConstant
<1> QED
  BY <1>1, <1>3

\* Members are no more than positions, and as many if nothing is repeated.
LEMMA MembersCount ==
  ASSUME NEW S, NEW s \in Seq(S)
  PROVE  /\ IsFiniteSet(Members(s)) /\ Cardinality(Members(s)) \in Nat
         /\ Cardinality(Members(s)) <= Len(s)
         /\ Distinct(s) => Cardinality(Members(s)) = Len(s)
<1>1. Len(s) \in Nat /\ DOMAIN s = 1 .. Len(s)
  OBVIOUS
<1>2. IsFiniteSet(1 .. Len(s)) /\ Cardinality(1 .. Len(s)) = Len(s)
  BY <1>1, FS_Interval
<1>3. s \in Surjection(1 .. Len(s), Members(s))
  BY <1>1 DEF Surjection, Members
<1>4. /\ IsFiniteSet(Members(s)) /\ Cardinality(Members(s)) <= Len(s)
      /\ Cardinality(Members(s)) = Len(s) <=> s \in Injection(1 .. Len(s), Members(s))
  BY <1>2, <1>3, FS_Surjection
<1>5. Distinct(s) => s \in Injection(1 .. Len(s), Members(s))
  BY <1>1, <1>3 DEF Distinct, Injection, IsInjective, Surjection
<1> QED
  BY <1>4, <1>5, FS_CardinalityType

-----------------------------------------------------------------------------
(***************************************************************************)
(* The operations on the store as a value keep it consistent.              *)
(***************************************************************************)
LEMMA ValueFacts ==
  ASSUME NEW v, Agrees(v)
  PROVE  /\ v.map \in [DOMAIN v.map -> Slot] /\ DOMAIN v.map \subseteq Sessions
         /\ \A s \in DOMAIN v.map : v.map[s].bytes \in Nat
         /\ v.lru \in Seq(Sessions) /\ v.total \in Nat
         /\ IsFiniteSet(DOMAIN v.map) /\ Cardinality(DOMAIN v.map) \in Nat
         /\ Cardinality(DOMAIN v.map) = Len(v.lru)
<1>1. /\ v.map \in [DOMAIN v.map -> Slot] /\ DOMAIN v.map \subseteq Sessions
      /\ v.lru \in Seq(Sessions) /\ v.total \in Nat
  BY DEF Agrees, Values, Maps
<1>2. \A s \in DOMAIN v.map : v.map[s].bytes \in Nat
  BY <1>1 DEF Slot
<1> QED
  BY <1>1, <1>2, MembersCount DEF Agrees

\* A consistent store that is what another one has of some sessions.
Restricts(w, v) ==
  /\ Agrees(w)
  /\ DOMAIN w.map \subseteq DOMAIN v.map
  /\ \A s \in DOMAIN w.map : w.map[s] = v.map[s]

LEMMA WithoutRestricts ==
  ASSUME NEW v, Agrees(v), NEW S
  PROVE  /\ Restricts(Without(v, S), v)
         /\ DOMAIN Without(v, S).map = DOMAIN v.map \ S
         /\ Without(v, S).total <= v.total
<1> DEFINE w == Without(v, S)
           D == DOMAIN v.map
           b == [s \in D |-> v.map[s].bytes]
           A == S \cap D
<1>1. /\ v.map \in [D -> Slot] /\ D \subseteq Sessions
      /\ \A s \in D : v.map[s].bytes \in Nat
      /\ v.lru \in Seq(Sessions) /\ v.total \in Nat /\ IsFiniteSet(D)
  BY ValueFacts
<1>2. /\ w.map = [s \in D \ S |-> v.map[s]] /\ w.lru = Retain(v.lru, Sessions \ S)
      /\ w.total = Saturated(v.total, BytesOf(v, A))
      /\ w = [map |-> w.map, lru |-> w.lru, total |-> w.total]
  BY DEF Without
<1> HIDE DEF w
<1>3. DOMAIN w.map = D \ S /\ \A s \in D \ S : w.map[s] = v.map[s]
  BY <1>2
<1>4. w.map \in Maps
  <2>1. D \ S \in SUBSET Sessions /\ w.map \in [D \ S -> Slot]
    BY <1>1, <1>2
  <2> QED
    BY <2>1 DEF Maps
<1>5. w.lru \in Seq(Sessions) /\ Members(w.lru) = D \ S /\ Distinct(w.lru)
  <2>1. /\ w.lru \in Seq(Sessions) /\ InOrderOf(w.lru, v.lru)
        /\ Members(w.lru) = Members(v.lru) \cap (Sessions \ S)
    BY <1>1, <1>2, RetainProperties
  <2>2. Distinct(v.lru) /\ Members(v.lru) = D
    BY DEF Agrees
  <2>3. Distinct(w.lru)
    BY <1>1, <2>1, <2>2, InOrderKeepsDistinct
  <2> QED
    BY <1>1, <2>1, <2>2, <2>3
<1>6. /\ BytesOf(v, A) \in Nat /\ SumOf([s \in D \ A |-> b[s]]) \in Nat
      /\ v.total = BytesOf(v, A) + SumOf([s \in D \ A |-> b[s]])
  <2>1. b \in [D -> Nat] /\ A \in SUBSET D /\ IsFiniteSet(D)
    BY <1>1
  <2>2. [s \in A |-> b[s]] = [s \in A |-> v.map[s].bytes]
    OBVIOUS
  <2>3. v.total = SumOf(b)
    BY DEF Agrees, BytesOf
  <2>4. BytesOf(v, A) = SumOf([s \in A |-> b[s]])
    BY <2>2 DEF BytesOf
  <2> HIDE DEF A, b, D
  <2>5. /\ SumOf([s \in A |-> b[s]]) \in Nat /\ SumOf([s \in D \ A |-> b[s]]) \in Nat
        /\ SumOf(b) = SumOf([s \in A |-> b[s]]) + SumOf([s \in D \ A |-> b[s]])
    <3>1. /\ SumOf(Part(b, A)) \in Nat /\ SumOf(Part(b, D \ A)) \in Nat
          /\ SumOf(b) = SumOf(Part(b, A)) + SumOf(Part(b, D \ A))
      BY <2>1, SumParts
    <3> QED
      BY <3>1 DEF Part
  <2> QED
    BY <2>3, <2>4, <2>5
<1>7. w.total = SumOf([s \in D \ A |-> b[s]])
  BY <1>2, <1>6 DEF Saturated
<1>8. [s \in D \ A |-> b[s]] = [s \in DOMAIN w.map |-> w.map[s].bytes]
  BY <1>3
<1>9. w.total = BytesOf(w, DOMAIN w.map) /\ w.total \in Nat /\ w.total <= v.total
  <2>1. BytesOf(w, DOMAIN w.map) = SumOf([s \in D \ A |-> b[s]])
    BY <1>8 DEF BytesOf
  <2> HIDE DEF A, b, D
  <2> QED
    BY <1>6, <1>7, <2>1
<1>10. \A s \in DOMAIN w.map : Covers(w.map[s])
  BY <1>3 DEF Agrees
<1>11. Agrees(w)
  BY <1>2, <1>3, <1>4, <1>5, <1>9, <1>10 DEF Agrees, Values
<1> QED
  BY <1>3, <1>9, <1>11 DEF Restricts, w

LEMMA RestrictsTransitive ==
  ASSUME NEW u, NEW v, NEW w, Restricts(u, v), Restricts(v, w)
  PROVE  Restricts(u, w)
BY DEF Restricts

LEMMA LimitTypes ==
  /\ MaxEntry \in Nat /\ MaxTotal \in Nat /\ MaxSessions \in Nat /\ Ttl \in Nat
  /\ \A calls \in CallLists : /\ calls \in Seq(Ids(calls)) /\ Len(calls) \in Nat
                              /\ DOMAIN calls = 1 .. Len(calls) /\ Ids(calls) \subseteq CallIds
BY ShadowAssumption DEF Ids, CallIds

\* Dropping sessions never breaks a limit.
LEMMA WithoutFits ==
  ASSUME NEW v, Agrees(v), Fits(v), NEW S
  PROVE  Fits(Without(v, S))
<1>1. /\ Without(v, S).total <= v.total /\ Without(v, S).total \in Nat
      /\ DOMAIN Without(v, S).map \subseteq DOMAIN v.map
  BY WithoutRestricts, ValueFacts DEF Restricts
<1>2. Cardinality(DOMAIN Without(v, S).map) <= Cardinality(DOMAIN v.map)
  BY <1>1, ValueFacts, FS_Subset
<1>3. Cardinality(DOMAIN Without(v, S).map) \in Nat
  BY WithoutRestricts, ValueFacts DEF Restricts
<1> QED
  BY <1>1, <1>2, <1>3, ValueFacts, LimitTypes DEF Fits

\* With no session left there are no bytes left.
LEMMA EmptyFits ==
  ASSUME NEW v, Agrees(v), DOMAIN v.map = {}
  PROVE  Fits(v)
<1>1. v.total = 0
  <2>1. Units([s \in {} |-> v.map[s].bytes]) = {}
    BY DEF Units
  <2> QED
    BY <2>1, FS_EmptySet DEF Agrees, BytesOf, SumOf
<1> QED
  BY <1>1, FS_EmptySet, LimitTypes DEF Fits

LEMMA MinNat ==
  ASSUME NEW T \in SUBSET Nat, T # {}
  PROVE  Min(T) \in T /\ \A k \in T : Min(T) <= k
<1>1. \E m \in T : \A k \in T : m <= k
  BY LeastNatural
<1> QED
  BY <1>1 DEF Min

LEMMA EvictFits ==
  ASSUME NEW v, Agrees(v)
  PROVE  Restricts(Evict(v), v) /\ Fits(Evict(v))
<1> DEFINE N == {n \in 0 .. Len(v.lru) :
                   n = Len(v.lru) \/ Fits(Without(v, FirstOf(n, v)))}
           n == Min(N)
           w == Without(v, FirstOf(n, v))
<1>1. Len(v.lru) \in Nat /\ DOMAIN v.lru = 1 .. Len(v.lru)
  BY ValueFacts
<1>2. Len(v.lru) \in N /\ N \in SUBSET Nat
  BY <1>1
<1>3. n \in N
  BY <1>2, MinNat
<1>4. Evict(v) = w
  BY DEF Evict
<1> HIDE DEF n
<1>5. Restricts(w, v) /\ DOMAIN w.map = DOMAIN v.map \ FirstOf(n, v)
  BY WithoutRestricts
<1>6. ASSUME n = Len(v.lru)
      PROVE  Fits(w)
  <2>1. FirstOf(n, v) = DOMAIN v.map
    BY <1>1, <1>6 DEF FirstOf, Agrees, Members
  <2> QED
    BY <1>5, <2>1, EmptyFits DEF Restricts
<1>7. Fits(w)
  BY <1>3, <1>6
<1> QED
  BY <1>4, <1>5, <1>7

LEMMA EnforceLimitsFits ==
  ASSUME NEW v, Agrees(v)
  PROVE  Restricts(EnforceLimits(v), v) /\ Fits(EnforceLimits(v))
<1> DEFINE u == Without(v, ExpiredSessions(v))
<1>1. Restricts(u, v)
  BY WithoutRestricts
<1>2. Restricts(Evict(u), u) /\ Fits(Evict(u))
  BY <1>1, EvictFits DEF Restricts
<1> QED
  BY <1>1, <1>2, RestrictsTransitive DEF EnforceLimits

-----------------------------------------------------------------------------
(***************************************************************************)
(* A turn is stored.                                                       *)
(***************************************************************************)
OldSlot(v, s) == IF s \in DOMAIN v.map THEN v.map[s] ELSE NoSession

Merged(old, calls, entry) ==
  [id \in DOMAIN old.entries \cup Ids(calls) |->
     IF id \in Ids(calls) THEN entry ELSE old.entries[id]]

GrownSlot(old, calls, entry) ==
  [entries |-> Merged(old, calls, entry), bytes |-> old.bytes + entry.size * Len(calls)]

LEMMA SlotFacts ==
  ASSUME NEW slot \in Slot
  PROVE  /\ slot.bytes \in Nat /\ DOMAIN slot.entries \in SUBSET CallIds
         /\ slot.entries \in [DOMAIN slot.entries -> Entry]
BY DEF Slot

LEMMA EntryFacts ==
  ASSUME NEW e \in Entry
  PROVE  e.size \in Nat /\ e.age \in Nat /\ e.age <= Ttl + 1 /\ e.of \in Sessions \X Nat
BY LimitTypes DEF Entry, Turn

LEMMA NoSessionFacts == NoSession \in Slot /\ Covers(NoSession)
<1>1. DOMAIN NoSession.entries = {} /\ NoSession.bytes = 0
  BY DEF NoSession
<1>2. NoSession.entries \in [{} -> Entry]
  BY <1>1 DEF NoSession
<1>3. NoSession \in Slot
  <2>1. {} \in SUBSET CallIds
    OBVIOUS
  <2>2. NoSession.entries \in UNION {[I -> Entry] : I \in SUBSET CallIds}
    BY <1>2, <2>1
  <2> QED
    BY <2>2 DEF NoSession, Slot
<1>4. Units(SizesOf(NoSession)) = {}
  BY <1>1 DEF Units, SizesOf
<1> QED
  BY <1>1, <1>3, <1>4, FS_EmptySet DEF Covers, SumOf

LEMMA SlotGrows ==
  ASSUME NEW old \in Slot, Covers(old), NEW calls \in CallLists, NEW entry \in Entry
  PROVE  GrownSlot(old, calls, entry) \in Slot /\ Covers(GrownSlot(old, calls, entry))
<1> DEFINE I   == Ids(calls)
           O   == DOMAIN old.entries
           D   == O \cup I
           new == GrownSlot(old, calls, entry)
           f   == SizesOf(new)
           g   == SizesOf(old)
<1>1. /\ old.bytes \in Nat /\ O \in SUBSET CallIds /\ old.entries \in [O -> Entry]
      /\ entry.size \in Nat
  BY SlotFacts, EntryFacts
<1>2. Len(calls) \in Nat /\ calls \in Seq(I) /\ I \subseteq CallIds
  BY LimitTypes
<1>3. /\ IsFiniteSet(I) /\ Cardinality(I) \in Nat /\ Cardinality(I) <= Len(calls)
      /\ IsFiniteSet(O) /\ SumOf(g) <= old.bytes
  BY <1>2, MembersCount DEF Ids, Covers
<1>4. /\ new.entries = Merged(old, calls, entry)
      /\ new.bytes = old.bytes + entry.size * Len(calls)
      /\ new = [entries |-> new.entries, bytes |-> new.bytes]
  BY DEF GrownSlot
<1> HIDE DEF new
<1>5. /\ DOMAIN new.entries = D /\ new.entries \in [D -> Entry] /\ IsFiniteSet(D)
      /\ \A id \in D : new.entries[id] = IF id \in I THEN entry ELSE old.entries[id]
  BY <1>1, <1>3, <1>4, FS_Union DEF Merged
<1>6. entry.size * Len(calls) \in Nat /\ new.bytes \in Nat
  BY <1>1, <1>2, <1>4
<1>7. new \in Slot
  <2>1. D \in SUBSET CallIds
    BY <1>1, <1>2
  <2>2. new.entries \in UNION {[J -> Entry] : J \in SUBSET CallIds}
    BY <1>5, <2>1
  <2> QED
    BY <1>4, <1>6, <2>2 DEF Slot
<1>8. f \in [D -> Nat] /\ g \in [O -> Nat]
  BY <1>1, <1>5, EntryFacts DEF SizesOf
<1>9. /\ [id \in I |-> f[id]] \in [I -> {entry.size}]
      /\ [id \in D \ I |-> f[id]] = [id \in O \ I |-> g[id]]
  BY <1>5 DEF SizesOf
<1> HIDE DEF f, g
<1>10. /\ SumOf([id \in D \ I |-> f[id]]) \in Nat
       /\ SumOf(f) = SumOf([id \in I |-> f[id]]) + SumOf([id \in D \ I |-> f[id]])
  <2>1. I \in SUBSET D /\ IsFiniteSet(D) /\ f \in [D -> Nat]
    BY <1>5, <1>8
  <2> HIDE DEF I, D
  <2> QED
    <3>1. /\ SumOf(Part(f, I)) \in Nat /\ SumOf(Part(f, D \ I)) \in Nat
          /\ SumOf(f) = SumOf(Part(f, I)) + SumOf(Part(f, D \ I))
      BY <2>1, SumParts
    <3> QED
      BY <3>1 DEF Part
<1>11. SumOf(g) \in Nat /\ SumOf([id \in O \ I |-> g[id]]) <= SumOf(g)
  <2> DEFINE A == O \ I
  <2>1. A \in SUBSET O /\ IsFiniteSet(O) /\ g \in [O -> Nat]
    BY <1>3, <1>8
  <2> HIDE DEF A, O
  <2>2. /\ SumOf([id \in A |-> g[id]]) \in Nat /\ SumOf([id \in O \ A |-> g[id]]) \in Nat
        /\ SumOf(g) = SumOf([id \in A |-> g[id]]) + SumOf([id \in O \ A |-> g[id]])
    <3>1. /\ SumOf(Part(g, A)) \in Nat /\ SumOf(Part(g, O \ A)) \in Nat
          /\ SumOf(g) = SumOf(Part(g, A)) + SumOf(Part(g, O \ A))
      BY <2>1, SumParts
    <3> QED
      BY <3>1 DEF Part
  <2> QED
    BY <2>2 DEF A
<1>12. SumOf([id \in I |-> f[id]]) = Cardinality(I) * entry.size
  BY <1>1, <1>3, <1>9, SumConstant
<1>13. Cardinality(I) * entry.size <= entry.size * Len(calls)
  BY <1>1, <1>2, <1>3
<1>14. SumOf(f) <= old.bytes + entry.size * Len(calls)
  <2> DEFINE a == Cardinality(I) * entry.size
             b == entry.size * Len(calls)
             c == SumOf([id \in D \ I |-> f[id]])
  <2>1. a \in Nat /\ b \in Nat /\ a <= b
    BY <1>1, <1>3, <1>6, <1>13
  <2>2. c \in Nat /\ SumOf(f) = a + c /\ c <= SumOf(g) /\ SumOf(g) \in Nat /\ SumOf(g) <= old.bytes
    BY <1>3, <1>9, <1>10, <1>11, <1>12
  <2> HIDE DEF a, b, c
  <2>3. SumOf(f) <= old.bytes + b
    BY <1>1, <2>1, <2>2
  <2> QED
    BY <2>3 DEF b
<1> QED
  BY <1>4, <1>5, <1>7, <1>14 DEF Covers, f, new

Inserted(w, v, s, calls, entry) ==
  /\ DOMAIN w.map = DOMAIN v.map \cup {s}
  /\ \A t \in DOMAIN v.map \ {s} : w.map[t] = v.map[t]
  /\ w.map[s].entries = Merged(OldSlot(v, s), calls, entry)

LEMMA InsertAgrees ==
  ASSUME NEW v, Agrees(v), NEW s \in Sessions, NEW calls \in CallLists, NEW entry \in Entry
  PROVE  /\ Agrees(Insert(v, s, calls, entry))
         /\ Inserted(Insert(v, s, calls, entry), v, s, calls, entry)
<1> DEFINE w   == Insert(v, s, calls, entry)
           D   == DOMAIN v.map
           E   == D \cup {s}
           old == OldSlot(v, s)
           new == GrownSlot(old, calls, entry)
           added == entry.size * Len(calls)
           f   == [t \in E |-> w.map[t].bytes]
           g   == [t \in D |-> v.map[t].bytes]
<1>1. /\ v.map \in [D -> Slot] /\ D \subseteq Sessions
      /\ \A t \in D : v.map[t].bytes \in Nat
      /\ v.lru \in Seq(Sessions) /\ v.total \in Nat /\ IsFiniteSet(D)
  BY ValueFacts
<1>2. /\ w.map = [t \in E |-> IF t = s THEN new ELSE v.map[t]]
      /\ w.lru = IF s \in D THEN v.lru ELSE Append(v.lru, s)
      /\ w.total = v.total + added
      /\ w = [map |-> w.map, lru |-> w.lru, total |-> w.total]
  BY DEF Insert, GrownSlot, Merged, OldSlot
<1> HIDE DEF w
<1>3. old \in Slot /\ Covers(old)
  BY <1>1, NoSessionFacts DEF OldSlot, Agrees
<1>4. new \in Slot /\ Covers(new)
  BY <1>3, SlotGrows
<1>5. added \in Nat /\ old.bytes \in Nat /\ new.bytes = old.bytes + added
  BY <1>3, SlotFacts, EntryFacts, LimitTypes DEF GrownSlot
<1>6. new.entries = Merged(old, calls, entry)
  BY DEF GrownSlot
<1> HIDE DEF new, added
<1>7. /\ DOMAIN w.map = E /\ w.map[s] = new
      /\ \A t \in D \ {s} : w.map[t] = v.map[t]
      /\ w.map \in [E -> Slot]
  BY <1>1, <1>2, <1>4
<1>8. w.map \in Maps
  <2>1. E \in SUBSET Sessions
    BY <1>1
  <2> QED
    BY <1>7, <2>1 DEF Maps
<1>9. w.lru \in Seq(Sessions) /\ Members(w.lru) = E /\ Distinct(w.lru)
  <2>1. Members(v.lru) = D /\ Distinct(v.lru)
    BY DEF Agrees
  <2>2. CASE s \in D
    BY <1>1, <1>2, <2>1, <2>2
  <2>3. CASE s \notin D
    <3>1. /\ w.lru \in Seq(Sessions) /\ Len(w.lru) = Len(v.lru) + 1
          /\ DOMAIN w.lru = 1 .. Len(v.lru) + 1 /\ DOMAIN v.lru = 1 .. Len(v.lru)
          /\ Len(v.lru) \in Nat /\ w.lru[Len(v.lru) + 1] = s
          /\ \A i \in DOMAIN v.lru : w.lru[i] = v.lru[i]
      BY <1>1, <1>2, <2>3
    <3>2. Members(w.lru) = E
      BY <2>1, <3>1 DEF Members
    <3>3. \A i \in DOMAIN v.lru : v.lru[i] # s
      BY <2>1, <2>3 DEF Members
    <3>4. Distinct(w.lru)
      BY <2>1, <3>1, <3>3 DEF Distinct
    <3> QED
      BY <3>1, <3>2, <3>4
  <2> QED
    BY <2>2, <2>3
<1>10. \A t \in E : Covers(w.map[t])
  BY <1>4, <1>7 DEF Agrees
<1>11. w.total = BytesOf(w, E) /\ w.total \in Nat
  <2>1. IsFiniteSet(E) /\ IsFiniteSet({s}) /\ {s} \in SUBSET E
    BY <1>1, FS_AddElement, FS_Singleton
  <2>2. /\ f \in [E -> Nat] /\ g \in [D -> Nat]
        /\ f[s] = old.bytes + added /\ f[s] \in Nat
    BY <1>1, <1>4, <1>5, <1>7, SlotFacts
  <2>3. \A t \in D \ {s} : f[t] = g[t]
    BY <1>7
  <2>4. [t \in E \ {s} |-> f[t]] = [t \in D \ {s} |-> g[t]]
    BY <2>3
  <2>5. s \in D => g[s] = old.bytes
    BY DEF OldSlot
  <2>6. s \notin D => old.bytes = 0
    BY DEF OldSlot, NoSession
  <2>7. v.total = SumOf(g) /\ BytesOf(w, E) = SumOf(f)
    BY DEF Agrees, BytesOf
  <2> DEFINE rest == SumOf([t \in D \ {s} |-> g[t]])
  <2> HIDE DEF f, g, D, E, old
  <2>8. rest \in Nat /\ SumOf(f) = SumOf([t \in {s} |-> f[t]]) + rest
    <3>1. IsFiniteSet(E) /\ {s} \in SUBSET E /\ f \in [E -> Nat]
      BY <2>1, <2>2
    <3>2. /\ SumOf([t \in E \ {s} |-> f[t]]) \in Nat
          /\ SumOf(f) = SumOf([t \in {s} |-> f[t]]) + SumOf([t \in E \ {s} |-> f[t]])
      <4>1. /\ SumOf(Part(f, {s})) \in Nat /\ SumOf(Part(f, E \ {s})) \in Nat
            /\ SumOf(f) = SumOf(Part(f, {s})) + SumOf(Part(f, E \ {s}))
        BY <3>1, SumParts
      <4> QED
        BY <4>1 DEF Part
    <3> QED
      BY <2>4, <3>2
  <2>9. SumOf([t \in {s} |-> f[t]]) = f[s]
    BY <2>2, SumAtOne
  <2>10. SumOf([t \in {s} |-> f[t]]) = old.bytes + added
    BY <2>2, <2>9
  <2>11. SumOf(g) = old.bytes + rest
    <3>1. CASE s \in D
      <4>1. {s} \in SUBSET D /\ g \in [D -> Nat] /\ g[s] \in Nat /\ IsFiniteSet(D)
        BY <1>1, <2>2, <3>1
      <4>2. SumOf([t \in {s} |-> g[t]]) = g[s]
        BY <4>1, SumAtOne
      <4>3. /\ SumOf([t \in D \ {s} |-> g[t]]) \in Nat
            /\ SumOf(g) = SumOf([t \in {s} |-> g[t]]) + SumOf([t \in D \ {s} |-> g[t]])
        <5>1. IsFiniteSet(D) /\ {s} \in SUBSET D /\ g \in [D -> Nat]
          BY <4>1
        <5> HIDE DEF rest
        <5> QED
          <6>1. /\ SumOf(Part(g, {s})) \in Nat /\ SumOf(Part(g, D \ {s})) \in Nat
                /\ SumOf(g) = SumOf(Part(g, {s})) + SumOf(Part(g, D \ {s}))
            BY <5>1, SumParts
          <6> QED
            BY <6>1 DEF Part
      <4> QED
        BY <2>5, <3>1, <4>2, <4>3
    <3>2. CASE s \notin D
      <4>1. D \ {s} = D /\ [t \in D |-> g[t]] = g
        BY <2>2, <3>2
      <4> QED
        BY <2>6, <2>8, <3>2, <4>1
    <3> QED
      BY <3>1, <3>2
  <2> HIDE DEF rest
  <2> QED
    BY <1>1, <1>2, <1>5, <2>7, <2>8, <2>10, <2>11
<1>12. Agrees(w)
  BY <1>2, <1>7, <1>8, <1>9, <1>10, <1>11 DEF Agrees, Values
<1> QED
  BY <1>6, <1>7, <1>12 DEF Inserted, w

-----------------------------------------------------------------------------
(***************************************************************************)
(* The same of the steps.                                                  *)
(***************************************************************************)
LEMMA StoreFacts ==
  ASSUME StoreInv
  PROVE  /\ Agrees(Current) /\ Fits(Current)
         /\ store \in [Stored -> Slot] /\ Stored \subseteq Sessions
BY ValueFacts DEF StoreInv, Current, Stored

LEMMA Assigned ==
  ASSUME NEW w, Agrees(w), Fits(w), Assign(w)
  PROVE  StoreInv' /\ store' = w.map
<1>1. Current' = w /\ store' = w.map
  BY DEF Assign, Current, Agrees, Values
<1> QED
  BY <1>1 DEF StoreInv, Agrees, Fits, BytesOf

\* Steps that change the entries of a session only.
LEMMA SameBytes ==
  ASSUME StoreInv, UNCHANGED <<lru, total>>, store' \in [Stored -> Slot],
         \A s \in Stored : store'[s].bytes = store[s].bytes /\ Covers(store'[s])
  PROVE  StoreInv'
<1> DEFINE w == [map |-> store', lru |-> lru, total |-> total]
<1>1. Current' = w /\ Stored' = Stored
  BY DEF Current, Stored
<1>2. store' \in Maps
  BY StoreFacts DEF Maps
<1>3. Current \in Values /\ Current.map = store /\ Current.lru = lru /\ Current.total = total
  BY DEF StoreInv, Agrees, Current
<1>4. w \in Values
  BY <1>2, <1>3 DEF Values
<1>5. [s \in Stored |-> store'[s].bytes] = [s \in Stored |-> store[s].bytes]
  OBVIOUS
<1>6. BytesOf(w, Stored) = BytesOf(Current, Stored)
  BY <1>3, <1>5 DEF BytesOf
<1>7. Agrees(w) /\ Fits(w)
  BY <1>3, <1>4, <1>6 DEF StoreInv, Agrees, Fits, Stored
<1> QED
  BY <1>1, <1>7 DEF StoreInv, Agrees, Fits, BytesOf

NewEntry(s, size, turn) == [of |-> <<s, turn>>, size |-> size, age |-> 0]

\* The sessions that had entries in use and have them no more.
Dropping(s) == ((Stored \ ExpiredSessions(Current)) \cup {s}) \ Stored'

LEMMA NewEntryType ==
  ASSUME NEW s \in Sessions, NEW calls, NEW size \in Sizes, NEW turn \in Nat,
         ~ Ignored(calls, size)
  PROVE  NewEntry(s, size, turn) \in Entry
BY ShadowAssumption DEF NewEntry, Entry, Turn, Ignored

LEMMA StoreStep ==
  ASSUME StoreInv, NEW s \in Sessions, NEW calls \in CallLists, NEW size \in Sizes,
         NEW turn \in Nat, Store(s, calls, size, turn), ~ Ignored(calls, size)
  PROVE  /\ StoreInv'
         /\ \A t \in Stored' \ {s} : t \in Stored /\ store'[t] = store[t]
         /\ s \in Stored' =>
              store'[s].entries = Merged(OldSlot(Current, s), calls, NewEntry(s, size, turn))
         /\ lost' = lost \cup Dropping(s)
<1>1. PICK u : u = Insert(Current, s, calls, NewEntry(s, size, turn))
  OBVIOUS
<1>2. PICK w : w = EnforceLimits(u)
  OBVIOUS
<1>3. Assign(w) /\ lost' = lost \cup Dropping(s)
  BY <1>1, <1>2 DEF Store, NewEntry, Dropping, Stored
<1>4. PICK v : v = Current
  OBVIOUS
<1>5. Agrees(v) /\ v.map = store
  BY <1>4 DEF StoreInv, Current
<1>6. Agrees(u) /\ Inserted(u, v, s, calls, NewEntry(s, size, turn))
  BY <1>1, <1>4, <1>5, NewEntryType, InsertAgrees
<1>7. Restricts(w, u) /\ Fits(w) /\ Agrees(w)
  BY <1>2, <1>6, EnforceLimitsFits DEF Restricts
<1>8. StoreInv' /\ store' = w.map
  BY <1>3, <1>7, Assigned
<1>9. \A t \in Stored' \ {s} : t \in Stored /\ store'[t] = store[t]
  BY <1>5, <1>6, <1>7, <1>8 DEF Inserted, Restricts, Stored
<1>10. s \in Stored' =>
         store'[s].entries = Merged(OldSlot(v, s), calls, NewEntry(s, size, turn))
  BY <1>6, <1>7, <1>8 DEF Inserted, Restricts, Stored
<1> QED
  BY <1>3, <1>4, <1>8, <1>9, <1>10

LEMMA ClearStep ==
  ASSUME StoreInv, NEW s \in Sessions, Clear(s)
  PROVE  /\ StoreInv' /\ lost' = lost \cup {s}
         /\ Stored' = Stored \ {s}
         /\ \A t \in Stored' : store'[t] = store[t]
<1>1. PICK v : v = Current
  OBVIOUS
<1>2. Agrees(v) /\ Fits(v) /\ v.map = store
  BY <1>1 DEF StoreInv, Current
<1>3. PICK w : w = IF s \in Stored THEN Without(v, {s}) ELSE v
  OBVIOUS
<1>4. Assign(w) /\ lost' = lost \cup {s}
  BY <1>1, <1>3 DEF Clear
<1>5. /\ Agrees(w) /\ Fits(w) /\ DOMAIN w.map = Stored \ {s}
      /\ \A t \in DOMAIN w.map : w.map[t] = store[t]
  <2>1. CASE s \in Stored
    BY <1>2, <1>3, <2>1, WithoutRestricts, WithoutFits DEF Restricts, Stored
  <2>2. CASE s \notin Stored
    BY <1>2, <1>3, <2>2 DEF Stored
  <2> QED
    BY <2>1, <2>2
<1>6. StoreInv' /\ store' = w.map
  BY <1>4, <1>5, Assigned
<1> QED
  BY <1>4, <1>5, <1>6 DEF Stored

LEMMA OlderEntry ==
  ASSUME NEW e \in Entry
  PROVE  /\ Older(e) \in Entry /\ Older(e).of = e.of /\ Older(e).size = e.size
         /\ Older(e).age = IF e.age > Ttl THEN e.age ELSE e.age + 1
BY LimitTypes DEF Entry, Older

LEMMA TickStore ==
  ASSUME StoreInv, Tick
  PROVE  /\ StoreInv' /\ Stored' = Stored
         /\ \A s \in Stored : /\ DOMAIN store'[s].entries = DOMAIN store[s].entries
                              /\ \A id \in DOMAIN store[s].entries :
                                   store'[s].entries[id] = Older(store[s].entries[id])
<1>1. store \in [Stored -> Slot] /\ UNCHANGED <<lru, total>>
  BY StoreFacts DEF Tick
<1>2. DOMAIN store' = Stored
  BY DEF Tick
<1>3. ASSUME NEW s \in Stored
      PROVE  /\ store'[s] \in Slot /\ store'[s].bytes = store[s].bytes /\ Covers(store'[s])
             /\ DOMAIN store'[s].entries = DOMAIN store[s].entries
             /\ \A id \in DOMAIN store[s].entries :
                  store'[s].entries[id] = Older(store[s].entries[id])
  <2> DEFINE I == DOMAIN store[s].entries
             e == [id \in I |-> Older(store[s].entries[id])]
  <2>1. /\ store[s] \in Slot /\ I \in SUBSET CallIds /\ store[s].bytes \in Nat
        /\ store[s].entries \in [I -> Entry]
    BY <1>1, <1>3, SlotFacts
  <2>2. store'[s] = [store[s] EXCEPT !.entries = e]
    BY <1>3 DEF Tick
  <2>3. store'[s].entries = e /\ store'[s].bytes = store[s].bytes
    BY <2>1, <2>2 DEF Slot
  <2>4. e \in [I -> Entry]
    BY <2>1, OlderEntry
  <2>5. store'[s] \in Slot
    BY <2>1, <2>2, <2>4 DEF Slot
  <2>6. SizesOf(store'[s]) = SizesOf(store[s])
    BY <2>1, <2>3, OlderEntry DEF SizesOf
  <2>7. Covers(store[s])
    BY <1>3 DEF StoreInv, Agrees, Current, Stored
  <2> QED
    BY <2>3, <2>5, <2>6, <2>7 DEF Covers
<1>4. store' \in [Stored -> Slot]
  BY <1>2, <1>3 DEF Tick
<1> QED
  BY <1>1, <1>2, <1>3, <1>4, SameBytes DEF Stored

Gone(s) == UNION {Dropped(s, history[s][i].calls) : i \in TurnsOf(history[s])}

LEMMA RequestStore ==
  ASSUME StoreInv, NEW s \in Sessions, Request(s)
  PROVE  /\ StoreInv' /\ Stored' = Stored
         /\ \A t \in Stored \ {s} : store'[t] = store[t]
         /\ s \in Stored =>
              /\ DOMAIN store'[s].entries = DOMAIN store[s].entries \ Gone(s)
              /\ \A id \in DOMAIN store'[s].entries :
                   store'[s].entries[id] = store[s].entries[id]
<1>1. store \in [Stored -> Slot] /\ UNCHANGED <<lru, total>>
  BY StoreFacts DEF Request
<1>2. CASE s \notin Stored
  <2>1. UNCHANGED store
    BY <1>2 DEF Request
  <2> QED
    BY <1>1, <1>2, <2>1 DEF StoreInv, Current, Agrees, Fits, BytesOf, Stored
<1>3. CASE s \in Stored
  <2> DEFINE I == DOMAIN store[s].entries \ Gone(s)
             e == [id \in I |-> store[s].entries[id]]
             f == SizesOf(store[s])
  <2>1. store' = [store EXCEPT ![s].entries = e]
    BY <1>3 DEF Request, Gone
  <2>2. /\ store[s] \in Slot /\ store[s].entries \in [DOMAIN store[s].entries -> Entry]
        /\ DOMAIN store[s].entries \in SUBSET CallIds /\ store[s].bytes \in Nat
        /\ Covers(store[s])
    BY <1>1, <1>3, SlotFacts DEF StoreInv, Agrees, Current, Stored
  <2>3. DOMAIN store' = Stored /\ \A t \in Stored \ {s} : store'[t] = store[t]
    BY <1>1, <2>1
  <2>4. store'[s] = [store[s] EXCEPT !.entries = e]
    BY <1>1, <1>3, <2>1
  <2>5. e \in [I -> Entry] /\ I \in SUBSET CallIds
    BY <2>2
  <2>6. store'[s].entries = e /\ store'[s].bytes = store[s].bytes
    BY <2>2, <2>4 DEF Slot
  <2>7. store'[s] \in Slot
    BY <2>2, <2>4, <2>5 DEF Slot
  <2>8. Covers(store'[s])
    <3>1. f \in [DOMAIN store[s].entries -> Nat] /\ IsFiniteSet(DOMAIN store[s].entries)
      BY <2>2, EntryFacts DEF SizesOf, Covers
    <3>2. SizesOf(store'[s]) = [id \in I |-> f[id]]
      BY <2>6 DEF SizesOf
    <3> DEFINE D == DOMAIN store[s].entries
    <3>3. I \in SUBSET D /\ IsFiniteSet(D) /\ f \in [D -> Nat]
      BY <3>1
    <3>4. IsFiniteSet(I)
      BY <3>3, FS_Subset
    <3>5. SumOf(f) <= store[s].bytes
      BY <2>2 DEF Covers
    <3> HIDE DEF f, I, D
    <3>6. /\ SumOf([id \in I |-> f[id]]) \in Nat /\ SumOf([id \in D \ I |-> f[id]]) \in Nat
          /\ SumOf(f) = SumOf([id \in I |-> f[id]]) + SumOf([id \in D \ I |-> f[id]])
      <4>1. /\ SumOf(Part(f, I)) \in Nat /\ SumOf(Part(f, D \ I)) \in Nat
            /\ SumOf(f) = SumOf(Part(f, I)) + SumOf(Part(f, D \ I))
        BY <3>3, SumParts
      <4> QED
        BY <4>1 DEF Part
    <3>7. SumOf(SizesOf(store'[s])) <= store'[s].bytes
      BY <2>2, <2>6, <3>2, <3>5, <3>6
    <3>8. DOMAIN store'[s].entries = I
      BY <2>6
    <3> QED
      BY <3>4, <3>7, <3>8 DEF Covers
  <2> HIDE DEF I, e
  <2>9. store' \in [Stored -> Slot]
    BY <1>1, <2>1, <2>3, <2>7
  <2>10. \A t \in Stored : store'[t].bytes = store[t].bytes /\ Covers(store'[t])
    BY <2>3, <2>6, <2>8 DEF StoreInv, Agrees, Current, Stored
  <2>11. StoreInv'
    BY <1>1, <2>9, <2>10, SameBytes
  <2> QED
    BY <2>3, <2>6, <2>11 DEF Stored, I, e
<1> QED
  BY <1>2, <1>3

LEMMA SameStore ==
  ASSUME StoreInv, UNCHANGED storeVars
  PROVE  StoreInv' /\ Stored' = Stored
BY DEF StoreInv, Current, Agrees, Fits, BytesOf, Stored, storeVars

-----------------------------------------------------------------------------
(***************************************************************************)
(* The invariant is kept.                                                  *)
(***************************************************************************)
LEMMA MessageFacts ==
  /\ Human \in Message /\ ~ IsTurn(Human) /\ Ids(Human.calls) = {}
  /\ \A m \in Message : /\ m.age \in Nat /\ m.size \in Nat
                        /\ IsTurn(m) => m.calls \in CallLists /\ m.calls[1] \in Ids(m.calls)
  /\ \A calls \in CallLists, size \in Sizes :
       [calls |-> calls, size |-> size, age |-> 0] \in Message
<1>1. Human \in Message /\ ~ IsTurn(Human)
  BY LimitTypes DEF Human, Message, IsTurn
<1>2. Ids(Human.calls) = {}
  BY DEF Human, Ids, Members
<1>3. ASSUME NEW m \in Message
      PROVE  /\ m.age \in Nat /\ m.size \in Nat
             /\ IsTurn(m) => m.calls \in CallLists /\ m.calls[1] \in Ids(m.calls)
  <2>1. m.age \in Nat /\ m.size \in Nat /\ (IsTurn(m) => m.calls \in CallLists)
    BY LimitTypes DEF Message, IsTurn
  <2>2. ASSUME IsTurn(m)
        PROVE  m.calls[1] \in Ids(m.calls)
    <3>1. /\ m.calls \in Seq(Ids(m.calls)) /\ DOMAIN m.calls = 1 .. Len(m.calls)
          /\ Len(m.calls) \in Nat
      BY <2>1, <2>2, LimitTypes
    <3>2. Len(m.calls) # 0
      BY <2>2, <3>1 DEF IsTurn
    <3> QED
      BY <3>1, <3>2 DEF Ids, Members
  <2> QED
    BY <2>1, <2>2
<1>4. \A calls \in CallLists, size \in Sizes :
        [calls |-> calls, size |-> size, age |-> 0] \in Message
  BY LimitTypes, ShadowAssumption DEF Message
<1> QED
  BY <1>1, <1>2, <1>3, <1>4

LEMMA InitIInv == Init => IInv
<1> SUFFICES ASSUME Init
             PROVE  IInv
  OBVIOUS
<1>1. StoreInv
  <2>1. DOMAIN store = {} /\ store \in [{} -> Slot] /\ lru = << >> /\ total = 0
    BY DEF Init
  <2>2. Members(lru) = {} /\ Distinct(lru) /\ lru \in Seq(Sessions)
    BY <2>1 DEF Members, Distinct
  <2>3. store \in Maps
    <3>1. {} \in SUBSET Sessions
      OBVIOUS
    <3> QED
      BY <2>1, <3>1 DEF Maps
  <2>4. Current \in Values
    BY <2>1, <2>2, <2>3 DEF Values, Current
  <2>5. Units([s \in {} |-> store[s].bytes]) = {}
    BY DEF Units
  <2>6. BytesOf(Current, {}) = 0
    BY <2>5, FS_EmptySet DEF BytesOf, SumOf, Current
  <2>7. Agrees(Current)
    BY <2>1, <2>2, <2>4, <2>6 DEF Agrees, Current
  <2> QED
    BY <2>1, <2>7, EmptyFits DEF StoreInv, Current
<1>2. HistoryInv
  <2>1. << >> \in Seq(Message)
    OBVIOUS
  <2> QED
    BY <2>1 DEF Init, HistoryInv
<1>3. OwnInv /\ DueInv
  BY DEF Init, OwnInv, DueInv, Stored
<1> QED
  BY <1>1, <1>2, <1>3 DEF IInv

\* The entries only lose members, and the turns keep their calls.
LEMMA OwnShrinks ==
  ASSUME OwnInv,
         \A t \in Stored' : t \in Stored /\ \A id \in DOMAIN store'[t].entries :
            /\ id \in DOMAIN store[t].entries
            /\ store'[t].entries[id].of = store[t].entries[id].of,
         \A t \in Stored' : \A i \in DOMAIN history'[t] :
            \/ Ids(history'[t][i].calls) = {}
            \/ i \in DOMAIN history[t] /\ history'[t][i].calls = history[t][i].calls
  PROVE  OwnInv'
<1> SUFFICES ASSUME NEW t \in Stored', NEW id \in DOMAIN store'[t].entries,
                    NEW i \in DOMAIN history'[t], id \in Ids(history'[t][i].calls)
             PROVE  store'[t].entries[id].of = <<t, i>>
  BY DEF OwnInv, Ids
<1>1. i \in DOMAIN history[t] /\ id \in Ids(history[t][i].calls)
  OBVIOUS
<1> QED
  BY <1>1 DEF OwnInv

\* Turns that are due are so still, with the same age, and their entries are there.
LEMMA DueShrinks ==
  ASSUME DueInv, lost \subseteq lost',
         UNCHANGED history,
         \A t \in Sessions \ lost' : \A i \in DOMAIN history[t] :
            Due(t, i) => \A id \in Ids(history[t][i].calls) :
               Has(t, id, history[t][i].age) =>
                 /\ t \in Stored' /\ id \in DOMAIN store'[t].entries
                 /\ store'[t].entries[id].age = store[t].entries[id].age
  PROVE  DueInv'
<1> SUFFICES ASSUME NEW t \in Sessions \ lost', NEW i \in DOMAIN history'[t], Due(t, i)',
                    NEW id \in Ids(history'[t][i].calls)
             PROVE  Has(t, id, history[t][i].age)'
  BY DEF DueInv, Ids
<1>1. Due(t, i) /\ i \in DOMAIN history[t] /\ t \in Sessions \ lost
  BY DEF Due, LastHuman, Ages, Ignored
<1>2. Has(t, id, history[t][i].age)
  BY <1>1 DEF DueInv
<1> QED
  BY <1>1, <1>2 DEF Has

\* A turn that is due is in use: its session is stored and not expired.
LEMMA DueIsInUse ==
  ASSUME IInv, NEW t \in Sessions \ lost, NEW i \in DOMAIN history[t], Due(t, i)
  PROVE  t \in Stored \ ExpiredSessions(Current)
<1>1. history[t][i] \in Message /\ IsTurn(history[t][i])
  BY DEF IInv, HistoryInv, Due, Ages
<1>2. history[t][i].calls[1] \in Ids(history[t][i].calls) /\ history[t][i].age \in Nat
  BY <1>1, MessageFacts
<1>3. Has(t, history[t][i].calls[1], history[t][i].age)
  BY <1>2 DEF IInv, DueInv
<1>4. ~ Expired(store[t].entries[history[t][i].calls[1]])
  BY <1>2, <1>3, LimitTypes DEF Has, Expired, Due
<1> QED
  BY <1>3, <1>4 DEF Has, ExpiredSessions, Current

LEMMA AppendFacts ==
  ASSUME NEW h \in Seq(Message), NEW m \in Message
  PROVE  /\ Append(h, m) \in Seq(Message) /\ Append(h, m) # << >>
         /\ Len(h) \in Nat /\ DOMAIN h = 1 .. Len(h)
         /\ DOMAIN Append(h, m) = 1 .. Len(h) + 1 /\ Len(Append(h, m)) = Len(h) + 1
         /\ Append(h, m)[Len(h) + 1] = m
         /\ \A i \in DOMAIN h : Append(h, m)[i] = h[i]
OBVIOUS

\* The client's part of a turn that is appended.
Appends(s, m) == history' = [history EXCEPT ![s] = Append(@, m)]

LEMMA AppendHistory ==
  ASSUME HistoryInv, NEW s \in Sessions, NEW m \in Message, Appends(s, m)
  PROVE  /\ history' \in [Sessions -> Seq(Message)]
         /\ history[s] # << >> \/ ~ IsTurn(m)
              => \A t \in Sessions : history'[t] # << >> => ~ IsTurn(history'[t][1])
         /\ \A t \in Sessions : history[t] # << >> => history'[t] # << >>
         /\ history'[s] = Append(history[s], m)
         /\ \A t \in Sessions \ {s} : history'[t] = history[t]
<1>1. history \in [Sessions -> Seq(Message)]
  BY DEF HistoryInv
<1>2. /\ history'[s] = Append(history[s], m)
      /\ \A t \in Sessions \ {s} : history'[t] = history[t]
  BY <1>1 DEF Appends
<1>3. Append(history[s], m) \in Seq(Message) /\ Append(history[s], m) # << >>
  BY <1>1, AppendFacts
<1>4. history' \in [Sessions -> Seq(Message)]
  BY <1>1, <1>3 DEF Appends
<1>5. ASSUME history[s] # << >> \/ ~ IsTurn(m)
      PROVE  ~ IsTurn(history'[s][1])
  <2>1. CASE history[s] # << >>
    <3>1. 1 \in DOMAIN history[s]
      BY <1>1, <2>1
    <3> QED
      BY <1>1, <1>2, <2>1, <3>1, AppendFacts DEF HistoryInv
  <2>2. CASE history[s] = << >>
    <3>1. history'[s][1] = m
      BY <1>2, <2>2
    <3> QED
      BY <1>5, <2>2, <3>1
  <2> QED
    BY <2>1, <2>2
<1> QED
  BY <1>2, <1>3, <1>4, <1>5 DEF HistoryInv

LEMMA AsksIInv ==
  ASSUME IInv, NEW s \in Sessions, Asks(s)
  PROVE  IInv'
<1> USE DEF IInv
<1>1. Appends(s, Human) /\ UNCHANGED <<storeVars, waiting, body>> /\ lost' = lost \ {s}
  BY DEF Asks, Appends
<1>2. StoreInv' /\ Stored' = Stored
  BY <1>1, SameStore
<1>3. /\ history'[s] = Append(history[s], Human)
      /\ \A t \in Sessions \ {s} : history'[t] = history[t]
      /\ HistoryInv'
  BY <1>1, AppendHistory, MessageFacts DEF HistoryInv
<1>4. /\ history[s] \in Seq(Message) /\ Human \in Message /\ Ids(Human.calls) = {}
      /\ Stored \subseteq Sessions
  BY MessageFacts, StoreFacts DEF HistoryInv
<1>5. /\ DOMAIN history'[s] = 1 .. Len(history[s]) + 1 /\ Len(history'[s]) = Len(history[s]) + 1
      /\ Len(history[s]) \in Nat /\ DOMAIN history[s] = 1 .. Len(history[s])
      /\ history'[s][Len(history[s]) + 1] = Human
      /\ \A i \in DOMAIN history[s] : history'[s][i] = history[s][i]
  BY <1>3, <1>4, AppendFacts
<1>6. OwnInv'
  <2>1. \A t \in Stored' : \A i \in DOMAIN history'[t] :
           \/ Ids(history'[t][i].calls) = {}
           \/ i \in DOMAIN history[t] /\ history'[t][i].calls = history[t][i].calls
    <3> TAKE t \in Stored'
    <3> TAKE i \in DOMAIN history'[t]
    <3>1. CASE t # s
      BY <1>2, <1>3, <1>4, <3>1
    <3>2. CASE t = s /\ i = Len(history[s]) + 1
      BY <1>4, <1>5, <3>2
    <3>3. CASE t = s /\ i \in DOMAIN history[s]
      BY <1>5, <3>3
    <3> QED
      BY <1>5, <3>1, <3>2, <3>3
  <2>2. UNCHANGED store
    BY <1>1 DEF storeVars
  <2> QED
    BY <1>2, <2>1, <2>2, OwnShrinks
<1>7. DueInv'
  <2> SUFFICES ASSUME NEW t \in Sessions \ lost', NEW i \in DOMAIN history'[t], Due(t, i)'
               PROVE  \A id \in Ids(history'[t][i].calls) : Has(t, id, history[t][i].age)'
    BY DEF DueInv, Ids
  <2>1. ASSUME t = s
        PROVE  FALSE
    <3>1. Len(history'[s]) \in i .. Len(history'[s])
      BY <1>5, <2>1
    <3>2. IsTurn(history'[s][Len(history'[s])])
      BY <2>1, <3>1 DEF Due, LastHuman, IsTurn
    <3> QED
      BY <1>5, <3>2, MessageFacts
  <2>2. t \in Sessions \ lost /\ history'[t] = history[t]
    BY <1>1, <1>3, <2>1
  <2>3. Due(t, i)
    BY <2>2 DEF Due, LastHuman, Ages, Ignored, IsTurn
  <2>4. UNCHANGED store
    BY <1>1 DEF storeVars
  <2> QED
    BY <1>2, <2>2, <2>3, <2>4 DEF DueInv, Has
<1> QED
  BY <1>2, <1>3, <1>6, <1>7

LEMMA RestartsIInv ==
  ASSUME IInv, NEW s \in Sessions, Restarts(s)
  PROVE  IInv'
<1> USE DEF IInv
<1>1. /\ UNCHANGED <<storeVars, waiting, body>> /\ lost' = lost \ {s} /\ s \notin waiting
      /\ history' = [history EXCEPT ![s] = << >>]
  BY DEF Restarts
<1>2. StoreInv' /\ Stored' = Stored /\ UNCHANGED store
  BY <1>1, SameStore DEF storeVars
<1>3. /\ history \in [Sessions -> Seq(Message)] /\ Stored \subseteq Sessions
      /\ history'[s] = << >> /\ \A t \in Sessions \ {s} : history'[t] = history[t]
  BY <1>1, StoreFacts DEF HistoryInv
<1>4. HistoryInv'
  <2>1. << >> \in Seq(Message)
    OBVIOUS
  <2>2. history' \in [Sessions -> Seq(Message)]
    BY <1>1, <1>3, <2>1
  <2> QED
    BY <1>1, <1>3, <2>2 DEF HistoryInv, IsTurn
<1>5. OwnInv'
  BY <1>2, <1>3, OwnShrinks
<1>6. DueInv'
  <2> SUFFICES ASSUME NEW t \in Sessions \ lost', NEW i \in DOMAIN history'[t], Due(t, i)'
               PROVE  \A id \in Ids(history'[t][i].calls) : Has(t, id, history[t][i].age)'
    BY DEF DueInv, Ids
  <2>1. t \in Sessions \ lost /\ history'[t] = history[t]
    BY <1>1, <1>3
  <2>2. Due(t, i)
    BY <2>1 DEF Due, LastHuman, Ages, Ignored, IsTurn
  <2> QED
    BY <1>2, <2>1, <2>2 DEF DueInv, Has
<1> QED
  BY <1>2, <1>4, <1>5, <1>6

LEMMA BreaksIInv ==
  ASSUME IInv, NEW s \in Sessions, Breaks(s)
  PROVE  IInv'
<1> USE DEF IInv
<1>1. /\ UNCHANGED <<storeVars, history, lost>> /\ waiting' \subseteq waiting
      /\ DOMAIN body' = DOMAIN body
  BY DEF Breaks, Returns
<1>2. StoreInv' /\ Stored' = Stored /\ UNCHANGED store
  BY <1>1, SameStore DEF storeVars
<1>3. HistoryInv'
  BY <1>1 DEF HistoryInv, IsTurn
<1>4. OwnInv'
  BY <1>1, <1>2 DEF OwnInv, Ids
<1>5. DueInv'
  BY <1>1, <1>2 DEF DueInv, Due, LastHuman, Ages, Ignored, IsTurn, Has, Ids
<1> QED
  BY <1>2, <1>3, <1>4, <1>5

\* A final answer, of this conversation or of another of the session.
LEMMA ClearIInv ==
  ASSUME IInv, NEW s \in Sessions, Clear(s), UNCHANGED history,
         waiting' \subseteq waiting, DOMAIN body' = DOMAIN body
  PROVE  IInv'
<1> USE DEF IInv
<1>1. /\ StoreInv' /\ lost' = lost \cup {s} /\ Stored' = Stored \ {s}
      /\ \A t \in Stored' : store'[t] = store[t]
  BY ClearStep
<1>2. HistoryInv'
  BY <1>1 DEF HistoryInv, IsTurn
<1>3. OwnInv'
  BY <1>1 DEF OwnInv, Ids
<1>4. DueInv'
  BY <1>1, DueShrinks DEF Has
<1> QED
  BY <1>1, <1>2, <1>3, <1>4

LEMMA RequestIInv ==
  ASSUME IInv, NEW s \in Sessions, Request(s)
  PROVE  IInv'
<1> USE DEF IInv
<1>1. /\ StoreInv' /\ Stored' = Stored /\ UNCHANGED <<history, lost>>
      /\ \A t \in Stored \ {s} : store'[t] = store[t]
      /\ s \in Stored =>
           /\ DOMAIN store'[s].entries = DOMAIN store[s].entries \ Gone(s)
           /\ \A id \in DOMAIN store'[s].entries :
                store'[s].entries[id] = store[s].entries[id]
  BY RequestStore DEF Request
<1>2. HistoryInv'
  BY <1>1 DEF HistoryInv, Request, IsTurn
<1>3. OwnInv'
  <2>1. \A t \in Stored' : t \in Stored /\ \A id \in DOMAIN store'[t].entries :
           /\ id \in DOMAIN store[t].entries
           /\ store'[t].entries[id].of = store[t].entries[id].of
    BY <1>1
  <2> QED
    BY <1>1, <2>1, OwnShrinks
<1>4. DueInv'
  \* What is dropped has expired.
  <2>1. ASSUME NEW id \in Gone(s)
        PROVE  s \in Stored /\ Expired(store[s].entries[id])
    BY <2>1 DEF Gone, Dropped, Hit, Found
  <2>2. ASSUME NEW t \in Sessions \ lost', NEW i \in DOMAIN history[t], Due(t, i),
               NEW id \in Ids(history[t][i].calls), Has(t, id, history[t][i].age)
        PROVE  /\ t \in Stored' /\ id \in DOMAIN store'[t].entries
               /\ store'[t].entries[id].age = store[t].entries[id].age
    <3>1. history[t][i].age \in Nat
      BY MessageFacts DEF HistoryInv
    <3>2. ~ Expired(store[t].entries[id])
      BY <2>2, <3>1, LimitTypes DEF Has, Due, Expired
    <3>3. t = s => id \notin Gone(s)
      BY <2>1, <3>2
    <3>4. t \in Stored /\ id \in DOMAIN store[t].entries
      BY <2>2 DEF Has
    <3> QED
      BY <1>1, <3>3, <3>4
  <2> QED
    BY <1>1, <2>2, DueShrinks
<1> QED
  BY <1>1, <1>2, <1>3, <1>4

LEMMA TickHistory ==
  ASSUME HistoryInv, Tick
  PROVE  /\ HistoryInv'
         /\ \A t \in Sessions : DOMAIN history'[t] = DOMAIN history[t]
         /\ \A t \in Sessions : \A i \in DOMAIN history[t] :
              /\ history'[t][i].calls = history[t][i].calls
              /\ history'[t][i].size = history[t][i].size
              /\ history'[t][i].age =
                   IF Ages(history[t][i]) /\ history[t][i].age <= Ttl
                   THEN history[t][i].age + 1 ELSE history[t][i].age
<1>1. history \in [Sessions -> Seq(Message)]
  BY DEF HistoryInv
<1>2. ASSUME NEW m \in Message
      PROVE  /\ Older(m) \in Message /\ Older(m).calls = m.calls /\ Older(m).size = m.size
             /\ Older(m).age = IF m.age <= Ttl THEN m.age + 1 ELSE m.age
  BY LimitTypes DEF Message, Older
<1>3. ASSUME NEW t \in Sessions
      PROVE  /\ history'[t] \in Seq(Message) /\ DOMAIN history'[t] = DOMAIN history[t]
             /\ \A i \in DOMAIN history[t] :
                  history'[t][i] =
                    IF Ages(history[t][i]) THEN Older(history[t][i]) ELSE history[t][i]
  <2>1. history[t] \in Seq(Message) /\ Len(history[t]) \in Nat
        /\ DOMAIN history[t] = 1 .. Len(history[t])
        /\ \A i \in DOMAIN history[t] : history[t][i] \in Message
    BY <1>1
  <2>2. history'[t] = [i \in DOMAIN history[t] |->
          IF Ages(history[t][i]) THEN Older(history[t][i]) ELSE history[t][i]]
    BY DEF Tick
  <2> QED
    BY <1>2, <2>1, <2>2
<1>4. \A t \in Sessions : \A i \in DOMAIN history[t] : history[t][i] \in Message
  BY <1>1
<1>5. \A t \in Sessions : \A i \in DOMAIN history[t] :
        /\ history'[t][i].calls = history[t][i].calls
        /\ history'[t][i].size = history[t][i].size
        /\ history'[t][i].age =
             IF Ages(history[t][i]) /\ history[t][i].age <= Ttl
             THEN history[t][i].age + 1 ELSE history[t][i].age
  BY <1>2, <1>3, <1>4
<1>6. HistoryInv'
  <2>1. history' \in [Sessions -> Seq(Message)]
    BY <1>3 DEF Tick
  <2>2. \A t \in Sessions : (history'[t] = << >>) <=> (history[t] = << >>)
    BY <1>1, <1>3
  <2>3. \A t \in Sessions : history[t] # << >> => 1 \in DOMAIN history[t]
    BY <1>1
  <2>4. waiting' = waiting /\ lost' = lost /\ body' = body
    BY DEF Tick
  <2> QED
    BY <1>5, <2>1, <2>2, <2>3, <2>4 DEF HistoryInv, IsTurn
<1> QED
  BY <1>3, <1>5, <1>6

LEMMA TickIInv == IInv /\ Tick => IInv'
<1> SUFFICES ASSUME IInv, Tick
             PROVE  IInv'
  OBVIOUS
<1> USE DEF IInv
<1>1. /\ StoreInv' /\ Stored' = Stored /\ lost' = lost
      /\ \A s \in Stored : /\ DOMAIN store'[s].entries = DOMAIN store[s].entries
                           /\ \A id \in DOMAIN store[s].entries :
                                store'[s].entries[id] = Older(store[s].entries[id])
  BY TickStore DEF Tick
<1>2. /\ HistoryInv'
      /\ \A t \in Sessions : DOMAIN history'[t] = DOMAIN history[t]
      /\ \A t \in Sessions : \A i \in DOMAIN history[t] :
           /\ history'[t][i].calls = history[t][i].calls
           /\ history'[t][i].size = history[t][i].size
           /\ history'[t][i].age =
                IF Ages(history[t][i]) /\ history[t][i].age <= Ttl
                THEN history[t][i].age + 1 ELSE history[t][i].age
  BY TickHistory
<1>3. /\ store \in [Stored -> Slot] /\ Stored \subseteq Sessions
      /\ \A s \in Stored : \A id \in DOMAIN store[s].entries : store[s].entries[id] \in Entry
  BY StoreFacts, SlotFacts
<1>4. OwnInv'
  <2>1. \A t \in Stored' : t \in Stored /\ \A id \in DOMAIN store'[t].entries :
           /\ id \in DOMAIN store[t].entries
           /\ store'[t].entries[id].of = store[t].entries[id].of
    BY <1>1, <1>3, OlderEntry
  <2> QED
    BY <1>1, <1>2, <1>3, <2>1, OwnShrinks
<1>5. DueInv'
  <2> SUFFICES ASSUME NEW t \in Sessions \ lost', NEW i \in DOMAIN history'[t], Due(t, i)',
                      NEW id \in Ids(history'[t][i].calls)
               PROVE  Has(t, id, history[t][i].age)'
    BY DEF DueInv, Ids
  <2>1. /\ t \in Sessions \ lost /\ i \in DOMAIN history[t] /\ Len(history'[t]) = Len(history[t])
        /\ id \in Ids(history[t][i].calls) /\ history[t][i].age \in Nat
        /\ DOMAIN history[t] = 1 .. Len(history[t]) /\ Len(history[t]) \in Nat
    <3>1. t \in Sessions \ lost /\ i \in DOMAIN history[t]
      BY <1>1, <1>2
    <3>2. id \in Ids(history[t][i].calls)
      BY <1>2, <3>1
    <3>3. history[t] \in Seq(Message) /\ history'[t] \in Seq(Message)
      BY <1>2, <3>1 DEF HistoryInv
    <3>4. history[t][i] \in Message
      BY <3>1, <3>3
    <3> QED
      BY <1>2, <3>1, <3>2, <3>3, <3>4, MessageFacts
  <2>2. Ages(history[t][i])
    BY <1>2, <2>1 DEF Due, Ages, IsTurn
  <2>3. LastHuman(t, i)
    <3>1. \A j \in i .. Len(history[t]) : j \in DOMAIN history[t]
      BY <2>1
    <3> QED
      BY <1>2, <2>1, <3>1 DEF Due, LastHuman, IsTurn
  <2>4. history'[t][i].age <= Ttl
    BY DEF Due
  <2>5. history[t][i].age <= Ttl /\ history'[t][i].age = history[t][i].age + 1
    BY <1>2, <2>1, <2>2, <2>4, LimitTypes
  <2>6. Has(t, id, history[t][i].age)
    BY <2>1, <2>2, <2>3, <2>5 DEF DueInv, Due
  <2>7. t \in Stored /\ id \in DOMAIN store[t].entries /\ store[t].entries[id] \in Entry
    BY <1>3, <2>6 DEF Has
  <2>8. store'[t].entries[id].age = history[t][i].age + 1
    <3>1. store[t].entries[id].age = history[t][i].age
      BY <2>6 DEF Has
    <3>2. ~ (store[t].entries[id].age > Ttl)
      BY <2>1, <2>5, <3>1, LimitTypes
    <3>3. Older(store[t].entries[id]).age = history[t][i].age + 1
      BY <2>7, <3>1, <3>2, OlderEntry
    <3> QED
      BY <1>1, <2>7, <3>3
  <2> QED
    BY <1>1, <2>5, <2>7, <2>8 DEF Has
<1> QED
  BY <1>1, <1>2, <1>4, <1>5

\* A turn of this conversation (turn is its position) or of another (0) is stored.
LEMMA StoredDue ==
  ASSUME IInv, NEW s \in Sessions, NEW calls \in CallLists, NEW size \in Sizes,
         NEW turn \in Nat, Store(s, calls, size, turn), ~ Ignored(calls, size),
         Ids(calls) \cap UsedIn(s) = {},
         NEW t \in Sessions \ lost', NEW i \in DOMAIN history[t], Due(t, i),
         NEW id \in Ids(history[t][i].calls)
  PROVE  /\ t \in Stored' /\ id \in DOMAIN store'[t].entries
         /\ store'[t].entries[id].age = history[t][i].age
<1>1. /\ \A u \in Stored' \ {s} : u \in Stored /\ store'[u] = store[u]
      /\ s \in Stored' =>
           store'[s].entries = Merged(OldSlot(Current, s), calls, NewEntry(s, size, turn))
      /\ lost' = lost \cup Dropping(s)
  BY StoreStep DEF IInv
<1>2. t \in Sessions \ lost /\ t \notin Dropping(s)
  BY <1>1
<1>3. Has(t, id, history[t][i].age)
  BY <1>2 DEF IInv, DueInv
<1>4. t \in Stored \ ExpiredSessions(Current)
  BY <1>2, DueIsInUse
<1>5. t \in Stored'
  BY <1>2, <1>4 DEF Dropping
<1>6. CASE t # s
  BY <1>1, <1>3, <1>5, <1>6 DEF Has
<1>7. CASE t = s
  <2>1. id \notin Ids(calls)
    BY <1>7 DEF UsedIn
  <2>2. OldSlot(Current, s) = store[s]
    BY <1>4, <1>7 DEF OldSlot, Current, Stored
  <2>3. /\ id \in DOMAIN store'[s].entries
        /\ store'[s].entries[id] = store[s].entries[id]
    BY <1>1, <1>3, <1>5, <1>7, <2>1, <2>2 DEF Merged, Has
  <2> QED
    BY <1>3, <1>5, <1>7, <2>3 DEF Has
<1> QED
  BY <1>6, <1>7

\* Whose reasoning an entry of the store is, after a turn was stored.
LEMMA StoredOwn ==
  ASSUME IInv, NEW s \in Sessions, NEW calls \in CallLists, NEW size \in Sizes,
         NEW turn \in Nat, Store(s, calls, size, turn), ~ Ignored(calls, size),
         NEW t \in Stored', NEW id \in DOMAIN store'[t].entries
  PROVE  \/ /\ t = s /\ id \in Ids(calls)
            /\ store'[t].entries[id] = NewEntry(s, size, turn)
         \/ /\ t \in Stored /\ id \in DOMAIN store[t].entries
            /\ ~ (t = s /\ id \in Ids(calls))
            /\ store'[t].entries[id] = store[t].entries[id]
<1>1. /\ \A u \in Stored' \ {s} : u \in Stored /\ store'[u] = store[u]
      /\ s \in Stored' =>
           store'[s].entries = Merged(OldSlot(Current, s), calls, NewEntry(s, size, turn))
  BY StoreStep DEF IInv
<1>2. CASE t # s
  BY <1>1, <1>2
<1>3. CASE t = s
  <2>1. s \in Stored => OldSlot(Current, s) = store[s]
    BY DEF OldSlot, Current, Stored
  <2>2. s \notin Stored => DOMAIN OldSlot(Current, s).entries = {}
    BY DEF OldSlot, Current, Stored, NoSession
  <2>3. /\ id \in DOMAIN OldSlot(Current, s).entries \cup Ids(calls)
        /\ store'[s].entries[id] =
             IF id \in Ids(calls) THEN NewEntry(s, size, turn)
             ELSE OldSlot(Current, s).entries[id]
    BY <1>1, <1>3 DEF Merged
  <2> QED
    BY <1>3, <2>1, <2>2, <2>3
<1> QED
  BY <1>2, <1>3

LEMMA UsedCalls ==
  ASSUME NEW s, NEW calls, Ids(calls) \cap UsedIn(s) = {}
  PROVE  /\ \A i \in DOMAIN history[s] : Ids(history[s][i].calls) \cap Ids(calls) = {}
         /\ s \in Stored => DOMAIN store[s].entries \cap Ids(calls) = {}
BY DEF UsedIn

LEMMA OtherTurnIInv ==
  ASSUME IInv, NEW s \in Sessions, NEW calls \in CallLists, NEW size \in Sizes,
         OtherTurn(s, calls, size)
  PROVE  IInv'
<1>1. /\ Store(s, calls, size, 0) /\ UNCHANGED <<history, waiting, body>>
      /\ Ids(calls) \cap UsedIn(s) = {} /\ 0 \in Nat
  BY DEF OtherTurn
<1>2. CASE Ignored(calls, size)
  <2>1. UNCHANGED <<storeVars, history, waiting, body, lost>>
    BY <1>1, <1>2 DEF Store
  <2>2. StoreInv' /\ Stored' = Stored /\ UNCHANGED store
    BY <2>1, SameStore DEF IInv, storeVars
  <2>3. HistoryInv'
    BY <2>1 DEF IInv, HistoryInv, IsTurn
  <2>4. OwnInv'
    BY <2>1, <2>2 DEF IInv, OwnInv, Ids
  <2>5. DueInv'
    BY <2>1, <2>2 DEF IInv, DueInv, Due, LastHuman, Ages, Ignored, IsTurn, Has, Ids
  <2> QED
    BY <2>2, <2>3, <2>4, <2>5 DEF IInv
<1>3. CASE ~ Ignored(calls, size)
  <2>1. StoreInv' /\ lost' = lost \cup Dropping(s)
    BY <1>1, <1>3, StoreStep DEF IInv
  <2>2. HistoryInv'
    <3>1. Dropping(s) \subseteq Sessions
      BY StoreFacts DEF Dropping, IInv
    <3> QED
      BY <1>1, <2>1, <3>1 DEF IInv, HistoryInv, IsTurn
  <2>3. OwnInv'
    <3> SUFFICES ASSUME NEW t \in Stored', NEW id \in DOMAIN store'[t].entries,
                        NEW i \in DOMAIN history[t], id \in Ids(history[t][i].calls)
                 PROVE  store'[t].entries[id].of = <<t, i>>
      BY <1>1 DEF OwnInv, Ids
    <3>1. ~ (t = s /\ id \in Ids(calls))
      BY <1>1, UsedCalls
    <3>2. /\ t \in Stored /\ id \in DOMAIN store[t].entries
          /\ store'[t].entries[id] = store[t].entries[id]
      BY <1>1, <1>3, <3>1, StoredOwn
    <3> QED
      BY <3>2 DEF IInv, OwnInv
  <2>4. DueInv'
    <3> SUFFICES ASSUME NEW t \in Sessions \ lost', NEW i \in DOMAIN history[t], Due(t, i)',
                        NEW id \in Ids(history[t][i].calls)
                 PROVE  /\ t \in Stored' /\ id \in DOMAIN store'[t].entries
                        /\ store'[t].entries[id].age = history[t][i].age
      BY <1>1 DEF DueInv, Has, Ids
    <3>1. Due(t, i)
      BY <1>1 DEF Due, LastHuman, Ages, Ignored, IsTurn
    <3> QED
      BY <1>1, <1>3, <3>1, StoredDue
  <2> QED
    BY <2>1, <2>2, <2>3, <2>4 DEF IInv
<1> QED
  BY <1>2, <1>3

LEMMA ToolTurnIInv ==
  ASSUME IInv, NEW s \in Sessions, NEW calls \in CallLists, NEW size \in Sizes,
         ToolTurn(s, calls, size)
  PROVE  IInv'
<1> DEFINE m == [calls |-> calls, size |-> size, age |-> 0]
           n == Len(history[s]) + 1
<1>1. /\ Store(s, calls, size, n) /\ Appends(s, m) /\ s \in waiting
      /\ waiting' = waiting \ {s} /\ DOMAIN body' = DOMAIN body
      /\ Ids(calls) \cap UsedIn(s) = {}
  BY DEF ToolTurn, Returns, Appends
<1>2. history \in [Sessions -> Seq(Message)] /\ history[s] # << >> /\ m \in Message
  BY <1>1, MessageFacts DEF IInv, HistoryInv
<1>3. m.calls = calls /\ m.size = size /\ m.age = 0
  OBVIOUS
<1> HIDE DEF m
<1>4. /\ history' \in [Sessions -> Seq(Message)]
      /\ \A t \in Sessions : history'[t] # << >> => ~ IsTurn(history'[t][1])
      /\ \A t \in Sessions : history[t] # << >> => history'[t] # << >>
      /\ history'[s] = Append(history[s], m)
      /\ \A t \in Sessions \ {s} : history'[t] = history[t]
  BY <1>1, <1>2, AppendHistory DEF IInv
<1>5. /\ n \in Nat /\ Len(history[s]) \in Nat /\ DOMAIN history[s] = 1 .. n - 1
      /\ DOMAIN history'[s] = 1 .. n /\ Len(history'[s]) = n
      /\ history'[s][n] = m
      /\ \A i \in DOMAIN history[s] : history'[s][i] = history[s][i]
  BY <1>2, <1>4, AppendFacts
<1>6. \A t \in Sessions : \A i \in DOMAIN history'[t] :
        \/ i \in DOMAIN history[t] /\ history'[t][i] = history[t][i]
        \/ t = s /\ i = n /\ history'[t][i] = m
  <2> TAKE t \in Sessions
  <2> TAKE i \in DOMAIN history'[t]
  <2>1. CASE t # s
    BY <1>4, <2>1
  <2>2. CASE t = s /\ i # n
    BY <1>5, <2>2
  <2>3. CASE t = s /\ i = n
    BY <1>5, <2>3
  <2> QED
    BY <2>1, <2>2, <2>3
<1> HIDE DEF n
<1>7. ASSUME NEW t \in Sessions, NEW i \in DOMAIN history[t], history'[t][i] = history[t][i],
             Due(t, i)'
      PROVE  Due(t, i)
  <2>1. LastHuman(t, i)
    <3>1. ASSUME NEW j \in i .. Len(history[t])
          PROVE  j \in i .. Len(history'[t]) /\ history'[t][j] = history[t][j]
      <4>1. DOMAIN history[t] = 1 .. Len(history[t]) /\ Len(history[t]) \in Nat
        BY <1>2
      <4>2. j \in DOMAIN history[t]
        BY <4>1
      <4>3. CASE t # s
        BY <1>4, <4>3
      <4>4. CASE t = s
        BY <1>5, <4>1, <4>2, <4>4
      <4> QED
        BY <4>3, <4>4
    <3>2. \A j \in i .. Len(history'[t]) : history'[t][j].calls # << >>
      BY <1>7 DEF Due, LastHuman, IsTurn
    <3>3. \A j \in i .. Len(history[t]) : history[t][j].calls # << >>
      BY <3>1, <3>2
    <3> QED
      BY <3>3 DEF LastHuman, IsTurn
  <2> QED
    BY <1>7, <2>1 DEF Due, Ages, Ignored, IsTurn
<1>8. lost' \subseteq Sessions => HistoryInv'
  BY <1>1, <1>4 DEF IInv, HistoryInv, IsTurn
<1>9. CASE Ignored(calls, size)
  <2>1. UNCHANGED <<storeVars, lost>>
    BY <1>1, <1>9 DEF Store
  <2>2. StoreInv' /\ Stored' = Stored /\ UNCHANGED store /\ Stored \subseteq Sessions
    BY <2>1, SameStore, StoreFacts DEF IInv, storeVars
  <2>3. HistoryInv'
    BY <1>8, <2>1 DEF IInv, HistoryInv
  <2>4. OwnInv'
    <3> SUFFICES ASSUME NEW t \in Stored, NEW id \in DOMAIN store[t].entries,
                        NEW i \in DOMAIN history'[t], id \in Ids(history'[t][i].calls)
                 PROVE  store[t].entries[id].of = <<t, i>>
      BY <2>2 DEF OwnInv, Ids
    <3>1. ~ (t = s /\ id \in Ids(calls))
      BY <1>1, UsedCalls
    <3>2. i \in DOMAIN history[t] /\ history'[t][i] = history[t][i]
      BY <1>3, <1>6, <2>2, <3>1
    <3> QED
      BY <3>2 DEF IInv, OwnInv
  <2>5. DueInv'
    <3> SUFFICES ASSUME NEW t \in Sessions \ lost, NEW i \in DOMAIN history'[t], Due(t, i)'
                 PROVE  \A id \in Ids(history'[t][i].calls) : Has(t, id, history'[t][i].age)
      BY <2>1, <2>2 DEF DueInv, Has, Ids
    <3>1. ~ (history'[t][i] = m)
      BY <1>3, <1>9 DEF Due, Ages, Ignored
    <3>2. i \in DOMAIN history[t] /\ history'[t][i] = history[t][i]
      BY <1>6, <3>1
    <3>3. Due(t, i)
      BY <1>7, <3>2
    <3> QED
      BY <3>2, <3>3 DEF IInv, DueInv
  <2> QED
    BY <2>2, <2>3, <2>4, <2>5 DEF IInv
<1>10. CASE ~ Ignored(calls, size)
  <2>1. /\ StoreInv' /\ lost' = lost \cup Dropping(s)
        /\ s \in Stored' =>
             store'[s].entries = Merged(OldSlot(Current, s), calls, NewEntry(s, size, n))
    BY <1>1, <1>5, <1>10, StoreStep DEF IInv, n
  <2>2. HistoryInv' /\ Stored' \subseteq Sessions
    <3>1. Dropping(s) \subseteq Sessions
      BY StoreFacts DEF Dropping, IInv
    <3>2. Stored' \subseteq Sessions
      BY <2>1 DEF StoreInv, Agrees, Values, Maps, Current, Stored
    <3> QED
      BY <1>8, <2>1, <3>1, <3>2 DEF IInv, HistoryInv
  <2>3. OwnInv'
    <3> SUFFICES ASSUME NEW t \in Stored', NEW id \in DOMAIN store'[t].entries,
                        NEW i \in DOMAIN history'[t], id \in Ids(history'[t][i].calls)
                 PROVE  store'[t].entries[id].of = <<t, i>>
      BY DEF OwnInv, Ids
    <3>1. \/ /\ t = s /\ id \in Ids(calls)
             /\ store'[t].entries[id] = NewEntry(s, size, n)
          \/ /\ t \in Stored /\ id \in DOMAIN store[t].entries
             /\ ~ (t = s /\ id \in Ids(calls))
             /\ store'[t].entries[id] = store[t].entries[id]
      BY <1>1, <1>5, <1>10, StoredOwn DEF n
    <3>2. CASE t = s /\ id \in Ids(calls)
      <4>1. ~ (i \in DOMAIN history[t] /\ history'[t][i] = history[t][i])
        BY <1>1, <3>2, UsedCalls
      <4>2. i = n
        BY <1>6, <2>2, <4>1
      <4> QED
        BY <3>1, <3>2, <4>2 DEF NewEntry
    <3>3. CASE ~ (t = s /\ id \in Ids(calls))
      <4>1. i \in DOMAIN history[t] /\ history'[t][i] = history[t][i]
        BY <1>3, <1>6, <2>2, <3>3
      <4> QED
        BY <3>1, <3>3, <4>1 DEF IInv, OwnInv
    <3> QED
      BY <3>2, <3>3
  <2>4. DueInv'
    <3> SUFFICES ASSUME NEW t \in Sessions \ lost', NEW i \in DOMAIN history'[t], Due(t, i)',
                        NEW id \in Ids(history'[t][i].calls)
                 PROVE  /\ t \in Stored' /\ id \in DOMAIN store'[t].entries
                        /\ store'[t].entries[id].age = history'[t][i].age
      BY DEF DueInv, Has, Ids
    <3>1. CASE i \in DOMAIN history[t] /\ history'[t][i] = history[t][i]
      <4>1. Due(t, i) /\ id \in Ids(history[t][i].calls)
        BY <1>7, <3>1
      <4> QED
        BY <1>1, <1>5, <1>10, <3>1, <4>1, StoredDue DEF n
    <3>2. CASE t = s /\ i = n /\ history'[t][i] = m
      <4>1. t \in Stored'
        BY <2>1, <3>2 DEF Dropping
      <4>2. id \in Ids(calls)
        BY <1>3, <3>2
      <4> QED
        BY <1>3, <2>1, <3>2, <4>1, <4>2 DEF Merged, NewEntry
    <3> QED
      BY <1>6, <3>1, <3>2
  <2> QED
    BY <2>1, <2>2, <2>3, <2>4 DEF IInv
<1> QED
  BY <1>9, <1>10

LEMMA NextIInv == IInv /\ [Next]_vars => IInv'
<1> SUFFICES ASSUME IInv, [Next]_vars
             PROVE  IInv'
  OBVIOUS
<1>1. CASE UNCHANGED vars
  <2>1. StoreInv' /\ Stored' = Stored /\ UNCHANGED store
    BY <1>1, SameStore DEF IInv, vars, storeVars
  <2>2. HistoryInv'
    BY <1>1 DEF IInv, HistoryInv, IsTurn, vars
  <2>3. OwnInv'
    BY <1>1, <2>1 DEF IInv, OwnInv, Ids, vars
  <2>4. DueInv'
    BY <1>1, <2>1 DEF IInv, DueInv, Due, LastHuman, Ages, Ignored, IsTurn, Has, Ids, vars
  <2> QED
    BY <2>1, <2>2, <2>3, <2>4 DEF IInv
<1>2. CASE Tick
  BY <1>2, TickIInv
<1>3. ASSUME NEW s \in Sessions, Asks(s)
      PROVE  IInv'
  BY <1>3, AsksIInv
<1>4. ASSUME NEW s \in Sessions, Restarts(s)
      PROVE  IInv'
  BY <1>4, RestartsIInv
<1>5. ASSUME NEW s \in Sessions, Request(s)
      PROVE  IInv'
  BY <1>5, RequestIInv
<1>6. ASSUME NEW s \in Sessions, Answer(s)
      PROVE  IInv'
  <2>1. /\ Clear(s) /\ UNCHANGED history /\ waiting' \subseteq waiting
        /\ DOMAIN body' = DOMAIN body
    BY <1>6 DEF Answer, Returns
  <2> QED
    BY <2>1, ClearIInv
<1>7. ASSUME NEW s \in Sessions, Breaks(s)
      PROVE  IInv'
  BY <1>7, BreaksIInv
<1>8. ASSUME NEW s \in Sessions, OtherAnswer(s)
      PROVE  IInv'
  <2>1. /\ Clear(s) /\ UNCHANGED history /\ waiting' \subseteq waiting
        /\ DOMAIN body' = DOMAIN body
    BY <1>8 DEF OtherAnswer
  <2> QED
    BY <2>1, ClearIInv
<1>9. ASSUME NEW s \in Sessions, NEW calls \in CallLists, NEW size \in Sizes,
             ToolTurn(s, calls, size)
      PROVE  IInv'
  BY <1>9, ToolTurnIInv
<1>10. ASSUME NEW s \in Sessions, NEW calls \in CallLists, NEW size \in Sizes,
              OtherTurn(s, calls, size)
       PROVE  IInv'
  BY <1>10, OtherTurnIInv
<1> QED
  BY <1>1, <1>2, <1>3, <1>4, <1>5, <1>6, <1>7, <1>8, <1>9, <1>10 DEF Next

(***************************************************************************)
(* The inductive invariant: the store is consistent and fits, an entry is  *)
(* of the turn its call belongs to, and a turn that is due has its entries *)
(* (store, restore, clear_session and enforce_limits under their callers). *)
(***************************************************************************)
THEOREM Invariance == Spec => []IInv
<1> QED
  BY InitIInv, NextIInv, PTL DEF Spec

-----------------------------------------------------------------------------
(***************************************************************************)
(* The store's map, queue and counter agree and the limits hold, after any *)
(* mix of store, restore, clear, expiry and eviction (enforce_limits).     *)
(***************************************************************************)
THEOREM StoreIsBounded == Spec => []StoreConsistent
<1>1. IInv => StoreConsistent
  <2> SUFFICES ASSUME IInv
               PROVE  StoreConsistent
    OBVIOUS
  <2>1. /\ Members(lru) = Stored /\ Distinct(lru) /\ lru \in Seq(Sessions)
        /\ total = BytesOf(Current, Stored) /\ Fits(Current)
        /\ \A s \in Stored : Covers(store[s])
    BY ValueFacts DEF IInv, StoreInv, Agrees, Current, Stored
  <2>2. Len(lru) = Cardinality(Stored)
    BY <2>1, MembersCount
  <2>3. \A s \in Stored : Kept(s) <= store[s].bytes
    BY <2>1 DEF Covers, SizesOf, Kept
  <2> QED
    BY <2>1, <2>2, <2>3 DEF StoreConsistent
<1> QED
  BY <1>1, Invariance, PTL

\* A request begins in Request alone.
LEMMA OnlyRequestBegins ==
  ASSUME [Next]_vars, NEW s \in Sessions, Begins(s)
  PROVE  Request(s)
<1>1. CASE UNCHANGED vars
  BY <1>1 DEF Begins, vars
<1>2. CASE Tick
  BY <1>2 DEF Tick, Begins
<1>3. ASSUME NEW r \in Sessions,
             Asks(r) \/ Restarts(r) \/ Answer(r) \/ Breaks(r) \/ OtherAnswer(r)
      PROVE  waiting' \subseteq waiting
  BY <1>3 DEF Asks, Restarts, Answer, Breaks, OtherAnswer, Returns
<1>4. ASSUME NEW r \in Sessions, NEW calls \in CallLists, NEW size \in Sizes,
             ToolTurn(r, calls, size) \/ OtherTurn(r, calls, size)
      PROVE  waiting' \subseteq waiting
  BY <1>4 DEF ToolTurn, OtherTurn, Returns
<1>5. ASSUME NEW r \in Sessions, Request(r)
      PROVE  r = s
  BY <1>5 DEF Request, Begins
<1> QED
  BY <1>1, <1>2, <1>3, <1>4, <1>5 DEF Next, Begins

\* The position of the newest human message, and the turns behind it.
LEMMA EpochIsLastHuman ==
  ASSUME HistoryInv, NEW s \in Sessions, NEW i \in DOMAIN history[s]
  PROVE  i \in TurnsOf(history[s]) <=> LastHuman(s, i)
<1> DEFINE h == history[s]
           humans == {j \in DOMAIN h : ~ IsTurn(h[j])}
           T == {Len(h) - j : j \in humans}
<1>1. h \in Seq(Message) /\ Len(h) \in Nat /\ DOMAIN h = 1 .. Len(h) /\ i \in 1 .. Len(h)
  BY DEF HistoryInv
<1>2. 1 \in humans
  BY <1>1 DEF HistoryInv
<1>3. PICK n \in T : \A k \in T : n <= k
  <2> DEFINE len == Len(h)
  <2>1. \A j \in humans : j \in 1 .. len
    BY <1>1
  <2>2. len \in Nat /\ T = {len - j : j \in humans}
    BY <1>1
  <2> HIDE DEF humans, T, len
  <2>3. \A j \in humans : len - j \in Nat
    BY <2>1, <2>2
  <2>4. T \subseteq Nat /\ T # {}
    BY <1>2, <2>2, <2>3
  <2> QED
    BY <2>4, LeastNatural
<1>4. PICK top \in humans : n = Len(h) - top
  BY <1>3
<1>5. \A j \in humans : top >= j
  <2> TAKE j \in humans
  <2>1. n <= Len(h) - j
    BY <1>3
  <2>2. top \in Nat /\ j \in Nat
    BY <1>1
  <2> QED
    BY <1>1, <1>4, <2>1, <2>2
<1>6. EpochStart(h) = Max(humans)
  BY <1>2 DEF EpochStart
<1>7. Max(humans) \in humans /\ \A j \in humans : Max(humans) >= j
  BY <1>4, <1>5 DEF Max
<1>8. i \in TurnsOf(h) <=> IsTurn(h[i]) /\ i >= Max(humans)
  BY <1>1, <1>6 DEF TurnsOf
<1>9. LastHuman(s, i) <=> \A j \in humans : j < i
  BY <1>1 DEF LastHuman
<1> HIDE DEF h, T
<1>10. i \in humans <=> ~ IsTurn(h[i])
  BY <1>1
<1>11. \A j \in humans : j \in Nat
  BY <1>1
<1> HIDE DEF humans
<1>12. IsTurn(h[i]) /\ i >= Max(humans) <=> \A j \in humans : j < i
  BY <1>1, <1>7, <1>10, <1>11
<1> QED
  BY <1>8, <1>9, <1>12 DEF h

\* The call that restore answers for is one of the turn's and has an entry.
LEMMA FirstFoundIsFound ==
  ASSUME NEW s, NEW calls \in CallLists, Found(s, calls) # {}
  PROVE  /\ s \in Stored
         /\ FirstFound(s, calls) \in Ids(calls) \cap DOMAIN store[s].entries
<1>1. s \in Stored /\ Found(s, calls) = {i \in DOMAIN calls : calls[i] \in DOMAIN store[s].entries}
  BY DEF Found
<1>2. Found(s, calls) \in SUBSET Nat
  BY <1>1, LimitTypes
<1>3. Min(Found(s, calls)) \in Found(s, calls)
  BY <1>2, MinNat
<1> QED
  BY <1>1, <1>3 DEF FirstFound, Ids, Members

Restored(s) ==
  [i \in {i \in TurnsOf(history[s]) : Hit(s, history[s][i].calls)} |->
     store[s].entries[FirstFound(s, history[s][i].calls)].of]

LEMMA RequestBody ==
  ASSUME HistoryInv, NEW s \in Sessions, Request(s)
  PROVE  body'[s] = Restored(s) /\ UNCHANGED history
BY DEF Request, Restored, HistoryInv

(***************************************************************************)
(* What restore_into gives a turn is its own reasoning, not expired, and   *)
(* the turn is of the current epoch.                                       *)
(***************************************************************************)
RestoreStep ==
  \A s \in Sessions : Begins(s) =>
    \A i \in DOMAIN body'[s] :
       body'[s][i] = <<s, i>> /\ LastHuman(s, i) /\ FreshEntry(s, i)

THEOREM OwnReasoningOnly == Spec => RestoresOwnTurn
<1>1. IInv /\ [Next]_vars => [RestoreStep]_vars
  <2> SUFFICES ASSUME IInv, [Next]_vars, NEW s \in Sessions, Begins(s),
                      NEW i \in DOMAIN body'[s]
               PROVE  body'[s][i] = <<s, i>> /\ LastHuman(s, i) /\ FreshEntry(s, i)
    BY DEF RestoreStep
  <2> DEFINE calls == history[s][i].calls
             id    == FirstFound(s, calls)
  <2>1. body'[s] = Restored(s)
    BY OnlyRequestBegins, RequestBody DEF IInv
  <2>2. /\ i \in TurnsOf(history[s]) /\ Hit(s, calls)
        /\ body'[s][i] = store[s].entries[id].of
    BY <2>1 DEF Restored
  <2>3. i \in DOMAIN history[s] /\ IsTurn(history[s][i])
    BY <2>2 DEF TurnsOf
  <2>4. history[s][i] \in Message
    BY <2>3 DEF IInv, HistoryInv
  <2>5. calls \in CallLists
    BY <2>3, <2>4, MessageFacts
  <2>6. s \in Stored /\ id \in Ids(calls) /\ id \in DOMAIN store[s].entries
    BY <2>2, <2>5, FirstFoundIsFound DEF Hit
  <2>7. store[s].entries[id].of = <<s, i>>
    BY <2>3, <2>6 DEF IInv, OwnInv
  <2>8. store[s].entries[id] \in Entry
    BY <2>6, StoreFacts, SlotFacts DEF IInv
  <2>9. FreshEntry(s, i)
    BY <2>2, <2>6, <2>8, EntryFacts, LimitTypes DEF FreshEntry, Hit, Expired
  <2>10. LastHuman(s, i)
    BY <2>2, <2>3, EpochIsLastHuman DEF IInv
  <2> QED
    BY <2>2, <2>7, <2>9, <2>10
<1> QED
  BY <1>1, Invariance, PTL DEF Spec, RestoresOwnTurn, RestoreStep

(***************************************************************************)
(* A tool loop keeps its reasoning: every turn of the epoch within the ttl *)
(* is restored, unless the session's entries were cleared or evicted.      *)
(***************************************************************************)
ContinuityStep ==
  \A s \in Sessions \ lost : Begins(s) =>
    \A i \in DOMAIN history[s] :
       LET m == history[s][i] IN
       Ages(m) /\ m.age <= Ttl /\ LastHuman(s, i) => i \in DOMAIN body'[s]

THEOREM ToolLoopKeepsReasoning == Spec => KeepsContinuity
<1>1. IInv /\ [Next]_vars => [ContinuityStep]_vars
  <2> SUFFICES ASSUME IInv, [Next]_vars, NEW s \in Sessions \ lost, Begins(s),
                      NEW i \in DOMAIN history[s], Due(s, i)
               PROVE  i \in DOMAIN body'[s]
    BY DEF ContinuityStep, Due
  <2> DEFINE calls == history[s][i].calls
             id    == FirstFound(s, calls)
             age   == history[s][i].age
  <2>1. body'[s] = Restored(s)
    BY OnlyRequestBegins, RequestBody DEF IInv
  <2>2. i \in TurnsOf(history[s])
    BY EpochIsLastHuman DEF IInv, Due
  <2>3. history[s][i] \in Message /\ IsTurn(history[s][i])
    BY DEF IInv, HistoryInv, Due, Ages
  <2>4. calls \in CallLists /\ age \in Nat /\ 1 \in DOMAIN calls
    <3>1. calls \in CallLists /\ age \in Nat
      BY <2>3, MessageFacts
    <3>2. Len(calls) \in Nat /\ DOMAIN calls = 1 .. Len(calls) /\ calls \in Seq(Ids(calls))
      BY <3>1, LimitTypes
    <3>3. calls # << >>
      BY <2>3 DEF IsTurn
    <3> QED
      BY <3>1, <3>2, <3>3
  <2>5. \A c \in Ids(calls) : Has(s, c, age)
    BY DEF IInv, DueInv
  <2>6. Found(s, calls) # {}
    BY <2>4, <2>5 DEF Found, Has, Ids, Members
  <2>7. id \in Ids(calls)
    BY <2>4, <2>6, FirstFoundIsFound
  <2>8. ~ Expired(store[s].entries[id])
    BY <2>4, <2>5, <2>7, LimitTypes DEF Has, Expired, Due
  <2>9. Hit(s, calls)
    BY <2>6, <2>8 DEF Hit
  <2> QED
    BY <2>1, <2>2, <2>9 DEF Restored
<1> QED
  BY <1>1, Invariance, PTL DEF Spec, KeepsContinuity, ContinuityStep
=============================================================================
