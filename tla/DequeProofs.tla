---------------------------- MODULE DequeProofs ----------------------------
(***************************************************************************)
(* What the retain operation of Deque returns, for every sequence.         *)
(***************************************************************************)
EXTENDS Deque, Integers, FiniteSetTheorems, WellFoundedInduction, TLAPS

(***************************************************************************)
(* A set of naturals that has an element has a least one.  It is derived   *)
(* from the well-foundedness of strict inclusion between finite sets.      *)
(***************************************************************************)
LEMMA LeastNatural ==
  ASSUME NEW T \in SUBSET Nat, NEW n \in T
  PROVE  \E m \in T : \A k \in T : m <= k
<1> DEFINE R == StrictSubsetOrdering(1 .. n)
           S == FiniteSubsetsOf(1 .. n)
           D == {1 .. k : k \in {j \in T : j <= n}}
<1>1. IsWellFoundedOn(R, S)
  BY FS_StrictSubsetOrderingWellFounded
<1>2. D \subseteq S
  <2> SUFFICES ASSUME NEW k \in T, k <= n
               PROVE  1 .. k \in S
    OBVIOUS
  <2>1. IsFiniteSet(1 .. k)
    BY FS_Interval
  <2>2. 1 .. k \in SUBSET (1 .. n)
    OBVIOUS
  <2> QED
    BY <2>1, <2>2 DEF FiniteSubsetsOf
<1>3. D # {}
  OBVIOUS
<1>4. PICK x \in D : \A y \in D : <<y, x>> \notin R
  <2> HIDE DEF R, S, D
  <2> QED
    BY <1>1, <1>2, <1>3, WFMin
<1>5. PICK m \in T : m <= n /\ x = 1 .. m
  BY <1>4
<1>6. ASSUME NEW k \in T, k < m
      PROVE  FALSE
  <2>1. 1 .. k \in D
    BY <1>5, <1>6
  <2>2. 1 .. k \in SUBSET (1 .. n) /\ x \in SUBSET (1 .. n)
    BY <1>5, <1>6
  <2>3. 1 .. k \subseteq x
    BY <1>5, <1>6
  <2>4. 1 .. k # x
    <3>1. m \in x /\ m \notin 1 .. k
      BY <1>5, <1>6
    <3> QED
      BY <3>1
  <2>5. <<1 .. k, x>> \in R
    BY <2>2, <2>3, <2>4 DEF StrictSubsetOrdering
  <2> QED
    BY <1>4, <2>1, <2>5
<1> QED
  BY <1>6

(***************************************************************************)
(* Every set of positions not above n has an increasing enumeration.       *)
(***************************************************************************)
HasEnumeration(I, n) ==
  \E m \in 0 .. n : \E f \in [1 .. m -> I] : Enumerates(f, I)

\* Every set of positions within 1 .. n has an increasing enumeration.
LEMMA EnumerationExists ==
  \A n \in Nat : \A I \in SUBSET (1 .. n) : HasEnumeration(I, n)
<1> DEFINE T == {n \in Nat : \E I \in SUBSET (1 .. n) : ~ HasEnumeration(I, n)}
<1> SUFFICES ASSUME T # {}
             PROVE  FALSE
  OBVIOUS
<1>1. PICK n \in T : \A k \in T : n <= k
  BY LeastNatural
<1>2. PICK I \in SUBSET (1 .. n) : ~ HasEnumeration(I, n)
  OBVIOUS
<1>3. n # 0
  <2> SUFFICES ASSUME n = 0
               PROVE  HasEnumeration(I, n)
    BY <1>2
  <2> DEFINE f == [i \in 1 .. 0 |-> i]
  <2>1. I = {} /\ f \in [1 .. 0 -> I] /\ Enumerates(f, I)
    BY DEF Enumerates, IsIncreasing
  <2>2. 0 \in 0 .. n
    OBVIOUS
  <2> HIDE DEF f
  <2> QED
    BY <2>1, <2>2 DEF HasEnumeration
<1> DEFINE J == I \ {n}
<1>4. n - 1 \in Nat /\ n - 1 \notin T /\ J \in SUBSET (1 .. n - 1)
  BY <1>1, <1>3
<1>5. PICK m \in 0 .. n - 1 : \E g \in [1 .. m -> J] : Enumerates(g, J)
  BY <1>4 DEF HasEnumeration
<1>6. PICK g \in [1 .. m -> J] : Enumerates(g, J)
  BY <1>5
<1>7. CASE n \notin I
  <2>1. I = J /\ m \in 0 .. n
    BY <1>7
  <2> QED
    BY <1>2, <1>6, <2>1 DEF HasEnumeration
<1>8. CASE n \in I
  <2> DEFINE f == [i \in 1 .. m + 1 |-> IF i = m + 1 THEN n ELSE g[i]]
  <2>1. m + 1 \in 0 .. n /\ f \in [1 .. m + 1 -> I]
    BY <1>3, <1>8
  <2>2. ASSUME NEW i \in 1 .. m + 1, NEW j \in 1 .. m + 1, i < j
        PROVE  f[i] < f[j]
    <3>1. i \in 1 .. m /\ f[i] = g[i] /\ g[i] \in 1 .. n - 1
      <4>1. i \in 1 .. m /\ i # m + 1
        BY <2>2
      <4>2. g[i] \in J
        BY <4>1
      <4> HIDE DEF J
      <4> QED
        BY <1>4, <4>1, <4>2
    <3>2. CASE j = m + 1
      BY <3>1, <3>2
    <3>3. CASE j # m + 1
      BY <1>6, <2>2, <3>1, <3>3 DEF Enumerates, IsIncreasing
    <3> QED
      BY <3>2, <3>3
  <2>3. I = {f[i] : i \in DOMAIN f}
    <3>1. J = {g[i] : i \in 1 .. m}
      BY <1>6 DEF Enumerates
    <3>2. ASSUME NEW x \in I
          PROVE  \E i \in 1 .. m + 1 : x = f[i]
      <4>1. CASE x = n
        BY <4>1
      <4>2. CASE x # n
        <5>1. PICK i \in 1 .. m : x = g[i]
          BY <3>1, <4>2
        <5>2. i \in 1 .. m + 1 /\ f[i] = g[i]
          OBVIOUS
        <5> QED
          BY <5>1, <5>2
      <4> QED
        BY <4>1, <4>2
    <3>3. DOMAIN f = 1 .. m + 1 /\ \A i \in 1 .. m + 1 : f[i] \in I
      BY <2>1
    <3> HIDE DEF f
    <3> QED
      BY <3>2, <3>3
  <2>4. DOMAIN f = 1 .. m + 1
    OBVIOUS
  <2> HIDE DEF f
  <2>5. Enumerates(f, I)
    BY <2>2, <2>3, <2>4 DEF Enumerates, IsIncreasing
  <2> QED
    BY <1>2, <2>1, <2>5 DEF HasEnumeration
<1> QED
  BY <1>7, <1>8

(***************************************************************************)
(* So the operator Enumerate, a CHOOSE, returns one.                       *)
(***************************************************************************)
LEMMA EnumerateIsOne ==
  ASSUME NEW n \in Nat, NEW I \in SUBSET (1 .. n)
  PROVE  \E m \in 0 .. n : /\ Enumerate(I, n) \in [1 .. m -> I]
                           /\ Enumerates(Enumerate(I, n), I)
<1> DEFINE F == UNION {[1 .. m -> I] : m \in 0 .. n}
<1>1. \E f \in F : Enumerates(f, I)
  <2>1. PICK m \in 0 .. n : \E f \in [1 .. m -> I] : Enumerates(f, I)
    BY EnumerationExists DEF HasEnumeration
  <2> QED
    BY <2>1
<1>2. Enumerate(I, n) \in F /\ Enumerates(Enumerate(I, n), I)
  BY <1>1 DEF Enumerate
<1> QED
  BY <1>2

(***************************************************************************)
(* Compact takes the elements of s at an increasing list of positions, all *)
(* those of I: it drops the rest, keeps the order, and repeats none.       *)
(***************************************************************************)
IsSelection(r, s, I) ==
  \E m \in 0 .. Len(s) : \E f \in [1 .. m -> I] :
     /\ IsIncreasing(f)
     /\ I = {f[i] : i \in 1 .. m}
     /\ r = [i \in 1 .. m |-> s[f[i]]]

\* Compacting s to I is s read along the increasing enumeration of I.
LEMMA CompactIsSelection ==
  ASSUME NEW S, NEW s \in Seq(S), NEW I \in SUBSET DOMAIN s
  PROVE  IsSelection(Compact(s, I), s, I)
<1> DEFINE f == Enumerate(I, Len(s))
<1>1. Len(s) \in Nat /\ DOMAIN s = 1 .. Len(s)
  OBVIOUS
<1>2. PICK m \in 0 .. Len(s) : f \in [1 .. m -> I] /\ Enumerates(f, I)
  BY <1>1, EnumerateIsOne
<1>3. Compact(s, I) = [i \in 1 .. m |-> s[f[i]]]
  BY <1>2 DEF Compact
<1>4. IsIncreasing(f) /\ I = {f[i] : i \in 1 .. m}
  BY <1>2 DEF Enumerates
<1> HIDE DEF f
<1> QED
  BY <1>2, <1>3, <1>4 DEF IsSelection

(***************************************************************************)
(* The same, as facts about the result r of compacting s to I.             *)
(***************************************************************************)
InOrderOf(r, s) ==
  \A i, j \in DOMAIN r :
     i < j => \E p, q \in DOMAIN s : p < q /\ r[i] = s[p] /\ r[j] = s[q]

\* What compacting keeps: type, at most the length, members and order (retain).
LEMMA CompactProperties ==
  ASSUME NEW S, NEW s \in Seq(S), NEW I \in SUBSET DOMAIN s
  PROVE  /\ Compact(s, I) \in Seq(S)
         /\ Len(Compact(s, I)) <= Len(s)
         /\ Members(Compact(s, I)) = {s[i] : i \in I}
         /\ InOrderOf(Compact(s, I), s)
<1> DEFINE r == Compact(s, I)
<1>0. IsSelection(r, s, I)
  BY CompactIsSelection
<1> HIDE DEF r
<1>1. PICK m \in 0 .. Len(s) :
        \E f \in [1 .. m -> I] : /\ IsIncreasing(f)
                                 /\ I = {f[i] : i \in 1 .. m}
                                 /\ r = [i \in 1 .. m |-> s[f[i]]]
  BY <1>0 DEF IsSelection
<1>2. PICK f \in [1 .. m -> I] : /\ IsIncreasing(f)
                                 /\ I = {f[i] : i \in 1 .. m}
                                 /\ r = [i \in 1 .. m |-> s[f[i]]]
  BY <1>1
<1>3. DOMAIN s = 1 .. Len(s) /\ Len(s) \in Nat
  OBVIOUS
<1>4. \A i \in 1 .. m : f[i] \in DOMAIN s /\ s[f[i]] \in S
  BY <1>3
<1>5. r \in Seq(S) /\ Len(r) = m /\ DOMAIN r = 1 .. m
  <2>1. DOMAIN r = 1 .. m /\ \A i \in 1 .. m : r[i] = s[f[i]]
    BY <1>2
  <2>2. r = [i \in 1 .. m |-> r[i]]
    BY <1>2
  <2>3. r \in [1 .. m -> S]
    BY <1>4, <2>1, <2>2
  <2>4. m \in Nat
    BY <1>3
  <2> QED
    BY <2>1, <2>3, <2>4
<1>6. Members(r) = {s[i] : i \in I}
  <2>1. Members(r) = {r[i] : i \in 1 .. m}
    BY <1>5 DEF Members
  <2>2. \A i \in 1 .. m : r[i] = s[f[i]]
    BY <1>2
  <2>3. {r[i] : i \in 1 .. m} = {s[f[i]] : i \in 1 .. m}
    BY <2>2
  <2>4. {s[f[i]] : i \in 1 .. m} = {s[i] : i \in I}
    BY <1>2
  <2> QED
    BY <2>1, <2>3, <2>4
<1>7. InOrderOf(r, s)
  <2> SUFFICES ASSUME NEW i \in 1 .. m, NEW j \in 1 .. m, i < j
               PROVE  \E p, q \in DOMAIN s : p < q /\ r[i] = s[p] /\ r[j] = s[q]
    BY <1>5 DEF InOrderOf
  <2>1. f[i] < f[j] /\ f[i] \in DOMAIN s /\ f[j] \in DOMAIN s
    BY <1>2, <1>4 DEF IsIncreasing
  <2> QED
    BY <1>2, <2>1
<1> QED
  BY <1>3, <1>5, <1>6, <1>7 DEF r

(***************************************************************************)
(* s.retain(keep): the members of s that are in keep, in the order of s.   *)
(***************************************************************************)
LEMMA RetainProperties ==
  ASSUME NEW S, NEW s \in Seq(S), NEW keep
  PROVE  /\ Retain(s, keep) \in Seq(S)
         /\ Members(Retain(s, keep)) = Members(s) \cap keep
         /\ InOrderOf(Retain(s, keep), s)
<1> DEFINE I == {i \in DOMAIN s : s[i] \in keep}
<1>1. I \in SUBSET DOMAIN s /\ Retain(s, keep) = Compact(s, I)
  BY DEF Retain
<1>2. {s[i] : i \in I} = Members(s) \cap keep
  BY DEF Members
<1> HIDE DEF I
<1> QED
  BY <1>1, <1>2, CompactProperties

(***************************************************************************)
(* A sequence that repeats nothing still repeats nothing when compacted.   *)
(***************************************************************************)
Distinct(s) == \A i, j \in DOMAIN s : s[i] = s[j] => i = j

\* A sequence without repetition stays one when some of it is dropped.
LEMMA InOrderKeepsDistinct ==
  ASSUME NEW S, NEW s \in Seq(S), NEW T, NEW r \in Seq(T),
         InOrderOf(r, s), Distinct(s)
  PROVE  Distinct(r)
<1> SUFFICES ASSUME NEW i \in DOMAIN r, NEW j \in DOMAIN r, i < j
             PROVE  r[i] # r[j]
  BY DEF Distinct
<1>1. PICK p \in DOMAIN s, q \in DOMAIN s : p < q /\ r[i] = s[p] /\ r[j] = s[q]
  BY DEF InOrderOf
<1> QED
  BY <1>1 DEF Distinct
============================================================================
