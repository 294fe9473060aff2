----------------------------- MODULE PoolProofs -----------------------------
(***************************************************************************)
(* The account pool's safety properties, for every number of accounts,     *)
(* sessions, models and credential files and for every limit.              *)
(*                                                                         *)
(* The inductive invariant is the conjunction of one part per group of     *)
(* variables; each part is shown to be kept by every action of Next.       *)
(* The first section is about one table of sticky sessions: what each of   *)
(* its operations preserves.  The last shows that housekeeping implements  *)
(* Pool, so that what holds of the pool under its most general callers     *)
(* holds of it under housekeeping.                                         *)
(***************************************************************************)
EXTENDS Housekeeping, DequeProofs

Good(t) == TableTypeOK(t) /\ Consistent(t)

(***************************************************************************)
(* A binding's fields.                                                     *)
(***************************************************************************)
LEMMA BindingFields ==
  ASSUME NEW t, TableTypeOK(t), NEW s \in Keys(t)
  PROVE  /\ t.map[s] \in Binding
         /\ t.map[s].id \in Accounts
         /\ t.map[s].age \in Nat /\ t.map[s].age <= StickyTtl + 1
  BY StickyAssumption DEF TableTypeOK, Binding, Ages

(***************************************************************************)
(* Only the two fields of a table matter.                                  *)
(***************************************************************************)
LEMMA SameFields ==
  ASSUME NEW t, NEW u, t.map = u.map, t.order = u.order
  PROVE  /\ TableTypeOK(t) => TableTypeOK(u)
         /\ Consistent(t) => Consistent(u)
  BY DEF TableTypeOK, Consistent, OrderHoldsKeysOnce, OrderIsByUse,
         WithinLimit, Keys

(***************************************************************************)
(* The fields after keys were removed.                                     *)
(***************************************************************************)
LEMMA RemoveKeysFields ==
  ASSUME NEW t, TableTypeOK(t), NEW K
  PROVE  LET r == RemoveKeys(t, K)
         IN  /\ Keys(r) = Keys(t) \ K
             /\ \A s \in Keys(r) : r.map[s] = t.map[s]
             /\ r.order \in Seq(Sessions)
             /\ Members(r.order) = Members(t.order) \ K
             /\ InOrderOf(r.order, t.order)
             /\ IsFiniteSet(Keys(r))
             /\ Cardinality(Keys(r)) <= Cardinality(Keys(t))
             /\ Cardinality(Keys(r)) \in Nat /\ Cardinality(Keys(t)) \in Nat
<1> DEFINE r == RemoveKeys(t, K)
<1>1. Keys(r) = Keys(t) \ K /\ \A s \in Keys(r) : r.map[s] = t.map[s]
  BY DEF RemoveKeys, Keys
<1>2. r.order = Retain(t.order, Sessions \ K)
  BY DEF RemoveKeys
<1>3. t.order \in Seq(Sessions) /\ Members(t.order) \subseteq Sessions
  BY DEF TableTypeOK, Members
<1>4. /\ r.order \in Seq(Sessions)
      /\ Members(r.order) = Members(t.order) \cap (Sessions \ K)
      /\ InOrderOf(r.order, t.order)
  BY <1>2, <1>3, RetainProperties
<1>5. /\ IsFiniteSet(Keys(r))
      /\ Cardinality(Keys(r)) <= Cardinality(Keys(t))
      /\ Cardinality(Keys(r)) \in Nat /\ Cardinality(Keys(t)) \in Nat
  BY <1>1, FS_Subset, FS_CardinalityType DEF TableTypeOK
<1> QED
  BY <1>1, <1>3, <1>4, <1>5

(***************************************************************************)
(* Removing keys keeps a table well typed and consistent.                  *)
(***************************************************************************)
LEMMA RemoveKeysGood ==
  ASSUME NEW t, TableTypeOK(t), NEW K
  PROVE  /\ TableTypeOK(RemoveKeys(t, K))
         /\ Consistent(t) => Consistent(RemoveKeys(t, K))
<1> DEFINE r == RemoveKeys(t, K)
<1>1. /\ Keys(r) = Keys(t) \ K
      /\ \A s \in Keys(r) : r.map[s] = t.map[s]
      /\ r.order \in Seq(Sessions)
      /\ Members(r.order) = Members(t.order) \ K
      /\ InOrderOf(r.order, t.order)
      /\ IsFiniteSet(Keys(r))
      /\ Cardinality(Keys(r)) <= Cardinality(Keys(t))
      /\ Cardinality(Keys(r)) \in Nat /\ Cardinality(Keys(t)) \in Nat
  BY RemoveKeysFields
<1>2. r.map = [s \in Keys(r) |-> t.map[s]]
  BY <1>1 DEF RemoveKeys
<1> HIDE DEF r
<1>3. TableTypeOK(r)
  BY <1>1, <1>2, BindingFields DEF TableTypeOK
<1>4. ASSUME Consistent(t)
      PROVE  Consistent(r)
  <2>1. OrderHoldsKeysOnce(r)
    <3>1. t.order \in Seq(Sessions) /\ Distinct(t.order)
      BY <1>4 DEF TableTypeOK, Consistent, OrderHoldsKeysOnce, Distinct
    <3>2. Distinct(r.order)
      BY <1>1, <3>1, InOrderKeepsDistinct
    <3> QED
      BY <1>1, <1>4, <3>2 DEF Consistent, OrderHoldsKeysOnce, Distinct
  <2>2. OrderIsByUse(r)
    <3> SUFFICES ASSUME NEW i \in DOMAIN r.order, NEW j \in DOMAIN r.order, i < j
                 PROVE  r.map[r.order[i]].age >= r.map[r.order[j]].age
      BY DEF OrderIsByUse
    <3>1. PICK p \in DOMAIN t.order, q \in DOMAIN t.order :
             p < q /\ r.order[i] = t.order[p] /\ r.order[j] = t.order[q]
      BY <1>1 DEF InOrderOf
    <3>2. t.map[t.order[p]].age >= t.map[t.order[q]].age
      BY <1>4, <3>1 DEF Consistent, OrderIsByUse
    <3>3. r.order[i] \in Keys(r) /\ r.order[j] \in Keys(r)
      BY <2>1 DEF OrderHoldsKeysOnce, Members
    <3> QED
      BY <1>1, <3>1, <3>2, <3>3
  <2>3. WithinLimit(r)
    BY <1>1, <1>4, StickyAssumption DEF Consistent, WithinLimit
  <2> QED
    BY <2>1, <2>2, <2>3 DEF Consistent
<1> QED
  BY <1>3, <1>4 DEF r

(***************************************************************************)
(* Eviction keeps a table good and leaves no expired binding, although it  *)
(* stops at the first key that stays: the keys before an expired one were  *)
(* used no later, so they are expired as well.                             *)
(***************************************************************************)
LEMMA EvictGood ==
  ASSUME NEW t, Good(t)
  PROVE  /\ Good(Evict(t))
         /\ \A s \in Keys(Evict(t)) : s \in Keys(t) /\ Evict(t).map[s] = t.map[s]
         /\ \A s \in Keys(Evict(t)) : Evict(t).map[s].age <= StickyTtl
<1>1. Good(Evict(t))
  BY RemoveKeysGood DEF Evict, Good
<1>2. /\ Keys(Evict(t)) = Keys(t) \ Popped(t)
      /\ \A s \in Keys(Evict(t)) : Evict(t).map[s] = t.map[s]
  BY RemoveKeysFields DEF Evict, Good
<1>3. ASSUME NEW s \in Keys(t), t.map[s].age > StickyTtl
      PROVE  s \in Popped(t)
  <2>1. PICK i \in DOMAIN t.order : t.order[i] = s
    BY DEF Good, Consistent, OrderHoldsKeysOnce, Members
  <2>2. DOMAIN t.order \subseteq Nat
        /\ \A j \in 1 .. i : j \in DOMAIN t.order
    BY DEF Good, TableTypeOK
  <2>3. ASSUME NEW j \in 1 .. i
        PROVE  PopsAt(t, j)
    <3>1. t.order[j] \in Keys(t)
      BY <2>2 DEF Good, Consistent, OrderHoldsKeysOnce, Members
    <3>2. t.map[t.order[j]].age >= t.map[s].age
      <4>1. CASE j = i
        BY <4>1, <2>1, BindingFields DEF Good
      <4>2. CASE j < i
        BY <4>2, <2>1, <2>2 DEF Good, Consistent, OrderIsByUse
      <4> QED
        BY <4>1, <4>2, <2>2
    <3>3. t.map[t.order[j]].age > StickyTtl
      BY <1>3, <3>1, <3>2, BindingFields, StickyAssumption DEF Good
    <3> QED
      BY <3>3 DEF PopsAt, Stale
  <2> QED
    BY <2>1, <2>3 DEF Popped
<1>4. ASSUME NEW s \in Keys(Evict(t))
      PROVE  Evict(t).map[s].age <= StickyTtl
  BY <1>2, <1>3, BindingFields, StickyAssumption DEF Good
<1> QED
  BY <1>1, <1>2, <1>4

(***************************************************************************)
(* Appending a key that the deque does not hold and that was just used.    *)
(***************************************************************************)
LEMMA AppendGood ==
  ASSUME NEW r, Good(r), NEW u, NEW s \in Sessions, s \notin Keys(r),
         Keys(u) = Keys(r) \cup {s},
         \A k \in Keys(r) : u.map[k] = r.map[k],
         u.map \in [Keys(u) -> Binding],
         u.map[s].age = 0,
         u.order = Append(r.order, s),
         WithinLimit(u)
  PROVE  Good(u)
<1>1. r.order \in Seq(Sessions) /\ Members(r.order) = Keys(r)
  BY DEF Good, TableTypeOK, Consistent, OrderHoldsKeysOnce
<1> DEFINE n == Len(r.order)
<1>2. /\ n \in Nat /\ DOMAIN r.order = 1 .. n
      /\ u.order \in Seq(Sessions) /\ DOMAIN u.order = 1 .. n + 1
      /\ u.order[n + 1] = s
      /\ \A i \in 1 .. n : u.order[i] = r.order[i]
  BY <1>1
<1>3. \A i \in 1 .. n : u.order[i] \in Keys(r)
  BY <1>1, <1>2 DEF Members
<1> HIDE DEF n
<1>4. TableTypeOK(u)
  <2>1. IsFiniteSet(Keys(u)) /\ Keys(u) \subseteq Sessions
    BY FS_AddElement DEF Good, TableTypeOK
  <2> QED
    BY <1>2, <2>1 DEF TableTypeOK
<1>5. Members(u.order) = Keys(u)
  <2>1. Members(u.order) \subseteq Keys(u)
    BY <1>2, <1>3 DEF Members
  <2>2. ASSUME NEW k \in Keys(r)
        PROVE  k \in Members(u.order)
    <3>1. PICK i \in 1 .. n : r.order[i] = k
      BY <1>1, <1>2 DEF Members
    <3>2. i \in 1 .. n + 1 /\ u.order[i] = k
      BY <1>2, <3>1
    <3> QED
      BY <1>2, <3>2 DEF Members
  <2>3. s \in Members(u.order)
    BY <1>2 DEF Members
  <2> QED
    BY <2>1, <2>2, <2>3
<1>6. ASSUME NEW i \in DOMAIN u.order, NEW j \in DOMAIN u.order, i < j
      PROVE  u.order[i] # u.order[j] /\ u.map[u.order[i]].age >= u.map[u.order[j]].age
  <2>1. i \in 1 .. n /\ u.order[i] = r.order[i] /\ r.order[i] \in Keys(r)
    BY <1>2, <1>3, <1>6
  <2>2. CASE j = n + 1
    BY <1>2, <2>1, <2>2, BindingFields DEF Good
  <2>3. CASE j # n + 1
    <3>1. j \in 1 .. n /\ u.order[j] = r.order[j] /\ r.order[j] \in Keys(r)
      BY <1>2, <1>3, <2>3
    <3>2. r.order[i] # r.order[j]
      BY <1>2, <1>6, <2>1, <3>1 DEF Good, Consistent, OrderHoldsKeysOnce
    <3>3. r.map[r.order[i]].age >= r.map[r.order[j]].age
      BY <1>2, <1>6, <2>1, <3>1 DEF Good, Consistent, OrderIsByUse
    <3> QED
      BY <2>1, <3>1, <3>2, <3>3
  <2> QED
    BY <2>2, <2>3
<1>7. OrderHoldsKeysOnce(u)
  <2>1. ASSUME NEW i \in DOMAIN u.order, NEW j \in DOMAIN u.order, i # j
        PROVE  u.order[i] # u.order[j]
    <3>1. i \in Nat /\ j \in Nat
      BY <1>2
    <3>2. i < j \/ j < i
      BY <2>1, <3>1
    <3> QED
      BY <1>6, <3>2
  <2> QED
    BY <1>5, <2>1 DEF OrderHoldsKeysOnce
<1>8. OrderIsByUse(u)
  BY <1>6 DEF OrderIsByUse
<1> QED
  BY <1>4, <1>7, <1>8 DEF Good, Consistent

(***************************************************************************)
(* A sticky hit.                                                           *)
(***************************************************************************)
LEMMA TouchGood ==
  ASSUME NEW t, Good(t), NEW s \in Keys(t)
  PROVE  /\ Good(Touch(t, s))
         /\ Keys(Touch(t, s)) = Keys(t)
         /\ \A k \in Keys(t) \ {s} : Touch(t, s).map[k] = t.map[k]
         /\ Touch(t, s).map[s].id = t.map[s].id
         /\ Touch(t, s).map[s].age = 0
<1> DEFINE u == Touch(t, s)
           r == RemoveKeys(t, {s})
<1>1. u.map = [t.map EXCEPT ![s].age = 0] /\ u.order = Append(r.order, s)
  BY DEF Touch, RemoveKeys
<1>2. t.map \in [Keys(t) -> Binding] /\ Keys(t) \subseteq Sessions
  BY DEF Good, TableTypeOK
<1>3. /\ Keys(u) = Keys(t)
      /\ u.map \in [Keys(t) -> Binding]
      /\ \A k \in Keys(t) \ {s} : u.map[k] = t.map[k]
      /\ u.map[s].id = t.map[s].id
      /\ u.map[s].age = 0
  BY <1>1, <1>2, StickyAssumption DEF Keys, Binding, Ages
<1>4. Good(r)
  BY RemoveKeysGood DEF Good
<1>5. Keys(r) = Keys(t) \ {s} /\ \A k \in Keys(r) : r.map[k] = t.map[k]
  BY RemoveKeysFields DEF Good
<1>6. WithinLimit(u)
  BY <1>3 DEF Good, Consistent, WithinLimit
<1> HIDE DEF u, r
<1>7. /\ s \in Sessions /\ s \notin Keys(r) /\ Keys(u) = Keys(r) \cup {s}
      /\ u.map \in [Keys(u) -> Binding]
      /\ \A k \in Keys(r) : u.map[k] = r.map[k]
  BY <1>2, <1>3, <1>5
<1>8. Good(u)
  BY <1>1, <1>3, <1>4, <1>6, <1>7, AppendGood
<1> QED
  BY <1>3, <1>8 DEF u

(***************************************************************************)
(* One tick of time.                                                       *)
(***************************************************************************)
LEMMA AgeAllGood ==
  ASSUME NEW t, TableTypeOK(t)
  PROVE  /\ TableTypeOK(AgeAll(t))
         /\ Consistent(t) => Consistent(AgeAll(t))
         /\ Keys(AgeAll(t)) = Keys(t)
         /\ \A s \in Keys(t) : /\ AgeAll(t).map[s].id = t.map[s].id
                               /\ AgeAll(t).map[s].age <= t.map[s].age + 1
<1> DEFINE u == AgeAll(t)
<1>1. u.order = t.order /\ Keys(u) = Keys(t)
  BY DEF AgeAll, Keys
<1>2. ASSUME NEW s \in Keys(t)
      PROVE  /\ u.map[s] \in Binding
             /\ u.map[s].id = t.map[s].id
             /\ u.map[s].age = Older(t.map[s].age)
             /\ u.map[s].age <= t.map[s].age + 1
  <2>1. t.map[s] \in Binding /\ t.map[s].age \in Nat /\ t.map[s].age <= StickyTtl + 1
    BY BindingFields
  <2>2. u.map[s] = [t.map[s] EXCEPT !.age = Older(t.map[s].age)]
    BY DEF AgeAll
  <2>3. Older(t.map[s].age) \in Ages /\ Older(t.map[s].age) <= t.map[s].age + 1
    BY <2>1, StickyAssumption DEF Older, Ages
  <2> QED
    BY <2>1, <2>2, <2>3 DEF Binding
<1>3. u.map = [s \in Keys(u) |-> u.map[s]]
  BY <1>1 DEF AgeAll, Keys
<1> HIDE DEF u
<1>4. TableTypeOK(u)
  BY <1>1, <1>2, <1>3 DEF TableTypeOK
<1>5. ASSUME Consistent(t)
      PROVE  Consistent(u)
  <2>1. OrderHoldsKeysOnce(u) /\ WithinLimit(u)
    BY <1>1, <1>5 DEF Consistent, OrderHoldsKeysOnce, WithinLimit
  <2>2. OrderIsByUse(u)
    <3> SUFFICES ASSUME NEW i \in DOMAIN t.order, NEW j \in DOMAIN t.order, i < j
                 PROVE  u.map[t.order[i]].age >= u.map[t.order[j]].age
      BY <1>1 DEF OrderIsByUse
    <3>1. t.order[i] \in Keys(t) /\ t.order[j] \in Keys(t)
      BY <1>5 DEF Consistent, OrderHoldsKeysOnce, Members
    <3>2. t.map[t.order[i]].age >= t.map[t.order[j]].age
      BY <1>5 DEF Consistent, OrderIsByUse
    <3> QED
      BY <1>2, <3>1, <3>2, BindingFields, StickyAssumption DEF Older
  <2> QED
    BY <2>1, <2>2 DEF Consistent
<1> QED
  BY <1>1, <1>2, <1>4, <1>5 DEF u

(***************************************************************************)
(* Binding a session that has none: room is made first, so the limit holds.*)
(***************************************************************************)
LEMMA MakeRoomGood ==
  ASSUME NEW t, Good(t), NEW s \in Sessions, s \notin Keys(t)
  PROVE  LET r == MakeRoom(t, s)
         IN  /\ Good(r)
             /\ s \notin Keys(r)
             /\ Keys(r) \subseteq Keys(t)
             /\ \A k \in Keys(r) : r.map[k] = t.map[k]
             /\ Cardinality(Keys(r)) + 1 <= (IF StickyMax = 0 THEN 1 ELSE StickyMax)
<1>1. IsFiniteSet(Keys(t)) /\ Cardinality(Keys(t)) \in Nat
  BY FS_CardinalityType DEF Good, TableTypeOK
<1>2. CASE Cardinality(Keys(t)) >= StickyMax /\ t.order # << >>
  <2> DEFINE h == Head(t.order)
  <2>1. MakeRoom(t, s) = RemoveKeys(t, {h})
    BY <1>2 DEF MakeRoom
  <2>2. h \in Keys(t)
    <3>1. 1 \in DOMAIN t.order /\ h = t.order[1]
      BY <1>2 DEF Good, TableTypeOK
    <3> QED
      BY <3>1 DEF Good, Consistent, OrderHoldsKeysOnce, Members
  <2>3. Good(RemoveKeys(t, {h}))
    BY RemoveKeysGood DEF Good
  <2>4. /\ Keys(RemoveKeys(t, {h})) = Keys(t) \ {h}
        /\ \A k \in Keys(RemoveKeys(t, {h})) : RemoveKeys(t, {h}).map[k] = t.map[k]
    BY RemoveKeysFields DEF Good
  <2>5. Cardinality(Keys(t) \ {h}) = Cardinality(Keys(t)) - 1
    BY <1>1, <2>2, FS_RemoveElement
  <2>6. Cardinality(Keys(t)) <= (IF StickyMax = 0 THEN 1 ELSE StickyMax)
    BY DEF Good, Consistent, WithinLimit
  <2> HIDE DEF h
  <2>7. Cardinality(Keys(RemoveKeys(t, {h}))) = Cardinality(Keys(t)) - 1
    BY <2>4, <2>5
  <2>8. Cardinality(Keys(RemoveKeys(t, {h}))) + 1
           <= (IF StickyMax = 0 THEN 1 ELSE StickyMax)
    BY <1>1, <2>6, <2>7
  <2>9. s \notin Keys(RemoveKeys(t, {h})) /\ Keys(RemoveKeys(t, {h})) \subseteq Keys(t)
    BY <2>4
  <2> QED
    BY <2>1, <2>3, <2>4, <2>8, <2>9
<1>3. CASE ~ (Cardinality(Keys(t)) >= StickyMax /\ t.order # << >>)
  <2>1. MakeRoom(t, s) = t
    BY <1>3 DEF MakeRoom
  <2>2. CASE t.order = << >>
    <3>1. Keys(t) = {}
      BY <2>2 DEF Good, Consistent, OrderHoldsKeysOnce, Members
    <3>2. Cardinality(Keys(t)) = 0
      BY <3>1, FS_EmptySet
    <3> QED
      BY <2>1, <3>2, StickyAssumption
  <2>3. CASE t.order # << >>
    BY <1>1, <1>3, <2>1, <2>3, StickyAssumption
  <2> QED
    BY <2>2, <2>3
<1> QED
  BY <1>2, <1>3

\* Binding a key that the table does not hold keeps it consistent (bind_sticky).
LEMMA BindGood ==
  ASSUME NEW t, Good(t), NEW s \in Sessions, s \notin Keys(t), NEW id \in Accounts
  PROVE  /\ Good(Bind(t, s, id))
         /\ s \in Keys(Bind(t, s, id))
         /\ Bind(t, s, id).map[s] = [id |-> id, age |-> 0]
         /\ Keys(Bind(t, s, id)) \subseteq Keys(t) \cup {s}
         /\ \A k \in Keys(Bind(t, s, id)) \ {s} : Bind(t, s, id).map[k] = t.map[k]
<1> DEFINE u == Bind(t, s, id)
           r == MakeRoom(t, s)
<1>1. /\ Good(r) /\ s \notin Keys(r) /\ Keys(r) \subseteq Keys(t)
      /\ \A k \in Keys(r) : r.map[k] = t.map[k]
      /\ Cardinality(Keys(r)) + 1 <= (IF StickyMax = 0 THEN 1 ELSE StickyMax)
  BY MakeRoomGood
<1>2. /\ u.map = [k \in Keys(r) \cup {s} |->
                    IF k = s THEN [id |-> id, age |-> 0] ELSE r.map[k]]
      /\ u.order = Append(r.order, s)
  BY DEF Bind
<1> HIDE DEF u, r
<1>3. /\ Keys(u) = Keys(r) \cup {s}
      /\ \A k \in Keys(r) : u.map[k] = r.map[k]
      /\ u.map[s] = [id |-> id, age |-> 0] /\ u.map[s].age = 0
  BY <1>1, <1>2 DEF Keys
<1>4. u.map \in [Keys(u) -> Binding]
  <2>1. r.map \in [Keys(r) -> Binding]
    BY <1>1 DEF Good, TableTypeOK
  <2>2. [id |-> id, age |-> 0] \in Binding
    BY StickyAssumption DEF Binding, Ages
  <2> QED
    BY <1>2, <1>3, <2>1, <2>2
<1>5. WithinLimit(u)
  <2>1. IsFiniteSet(Keys(r))
    BY <1>1 DEF Good, TableTypeOK
  <2>2. Cardinality(Keys(u)) = Cardinality(Keys(r)) + 1
    BY <1>1, <1>3, <2>1, FS_AddElement
  <2> QED
    BY <1>1, <2>2 DEF WithinLimit
<1>6. Good(u)
  BY <1>1, <1>2, <1>3, <1>4, <1>5, AppendGood
<1> QED
  BY <1>1, <1>3, <1>6 DEF u
-----------------------------------------------------------------------------

RosterInv ==
  /\ files \in [Paths -> Contents]
  /\ entries \in Seq(Entry)
  /\ known \in SUBSET Credential
  /\ hk \in [phase : HkPhases, ids : SUBSET Accounts]
  /\ picking \in Nat
  /\ AccountsAreDistinct
  /\ hk.phase = "clean" => OwnUids(entries) \subseteq hk.ids

HealthInv ==
  /\ fail_until \in [Accounts -> [CoolKinds -> Nat]]
  /\ \A u \in Accounts : /\ fail_until[u]["HardCredit"] <= HardCooldown
                         /\ fail_until[u]["ErrThreshold"] <= CredCooldown
  /\ model_fail \in [Accounts -> [Models -> Int]]
  /\ \A u \in Accounts, m \in Models : model_fail[u][m] <= ModelCooldown
  /\ credits \in [Accounts -> Int]
  /\ err_counts \in [Accounts -> Nat]

IInv == RosterInv /\ HealthInv /\ Good(Table) /\ rr \in Nat /\ ReboundAfter429

-----------------------------------------------------------------------------
(***************************************************************************)
(* Entries and the credential directory.                                   *)
(***************************************************************************)
DistinctEntries(es) ==
  \A i, j \in DOMAIN es : i # j => Apart(es[i], es[j])

\* The uids of entries are accounts.
LEMMA UidsAreAccounts ==
  ASSUME NEW es \in Seq(Entry)
  PROVE  UidsOf(es) \in SUBSET Accounts
<1>1. \A i \in DOMAIN es : es[i] \in Entry
  OBVIOUS
<1>2. \A x \in Entry : x.uid \in Accounts
  BY DEF Entry
<1> QED
  BY <1>1, <1>2 DEF UidsOf

\* The uids an entry was loaded with are among all uids.
LEMMA OwnAmongUids ==
  ASSUME NEW es
  PROVE  OwnUids(es) \subseteq UidsOf(es)
BY DEF OwnUids, UidsOf

\* The credentials of entries.
LEMMA CredsAreCredentials ==
  ASSUME NEW es \in Seq(Entry)
  PROVE  CredsOf(es) \in SUBSET Credential
<1>1. \A i \in DOMAIN es : es[i] \in Entry
  OBVIOUS
<1>2. \A x \in Entry : Cred(x) \in Credential
  BY DEF Entry, Cred, Credential
<1> QED
  BY <1>1, <1>2 DEF CredsOf

\* What is held are accounts.
LEMMA HeldAreAccounts ==
  ASSUME known \in SUBSET Credential
  PROVE  Held \in SUBSET Accounts
BY DEF Held, Credential

\* Entries of an ascending pair of places are distinct, so all are.
LEMMA DistinctWhenOrdered ==
  ASSUME NEW es \in Seq(Entry),
         \A i, j \in DOMAIN es : i < j => Apart(es[i], es[j])
  PROVE  DistinctEntries(es)
<1> SUFFICES ASSUME NEW i \in DOMAIN es, NEW j \in DOMAIN es, i # j
             PROVE  Apart(es[i], es[j])
  BY DEF DistinctEntries
<1>1. i < j \/ j < i
  OBVIOUS
<1>2. CASE i < j
  BY <1>2
<1>3. CASE j < i
  <2>1. Apart(es[j], es[i])
    BY <1>3
  <2> QED
    BY <2>1 DEF Apart
<1> QED
  BY <1>1, <1>2, <1>3

\* A refresh keeps the paths, and the uid of every entry that stays its own.
LEMMA RenewedProperties ==
  ASSUME NEW es \in Seq(Entry), NEW c, NEW v \in Accounts
  PROVE  LET r == Renewed(es, c, v)
         IN  /\ r \in Seq(Entry)
             /\ OwnUids(r) \subseteq OwnUids(es)
             /\ DistinctEntries(es) => DistinctEntries(r)
             /\ CredsOf(r) \subseteq CredsOf(es) \cup {[c EXCEPT !.uid = v]}
<1> DEFINE r == Renewed(es, c, v)
<1>1. DOMAIN es = 1 .. Len(es) /\ Len(es) \in Nat
  OBVIOUS
<1>2. DOMAIN r = DOMAIN es
  BY DEF Renewed
<1>3. ASSUME NEW i \in DOMAIN es
      PROVE  /\ r[i] \in Entry /\ r[i].path = es[i].path
             /\ r[i].own => es[i].own /\ r[i].uid = es[i].uid
             /\ Cred(r[i]) = Cred(es[i]) \/ Cred(r[i]) = [c EXCEPT !.uid = v]
  <2>1. es[i] \in Entry
    OBVIOUS
  <2>2. CASE Cred(es[i]) = c
    <3>1. r[i] = [es[i] EXCEPT !.uid = v, !.own = @ /\ v = c.uid]
      BY <2>2 DEF Renewed
    <3>2. /\ r[i].path = es[i].path /\ r[i].uid = v
          /\ r[i].own = (es[i].own /\ v = c.uid)
      BY <2>1, <3>1 DEF Entry
    <3>3. r[i] \in Entry
      <4>1. r[i] = [path |-> es[i].path, uid |-> v, own |-> (es[i].own /\ v = c.uid)]
        BY <2>1, <3>1 DEF Entry
      <4>2. es[i].path \in Paths /\ es[i].own \in BOOLEAN
        BY <2>1 DEF Entry
      <4>3. (es[i].own /\ v = c.uid) \in BOOLEAN
        BY <4>2
      <4> QED
        BY <4>1, <4>2, <4>3 DEF Entry
    <3>4. c = [path |-> es[i].path, uid |-> es[i].uid]
      BY <2>2 DEF Cred
    <3>5. Cred(r[i]) = [c EXCEPT !.uid = v]
      BY <3>2, <3>4 DEF Cred
    <3>6. c.uid = es[i].uid
      BY <3>4
    <3> QED
      BY <3>2, <3>3, <3>5, <3>6
  <2>3. CASE Cred(es[i]) # c
    BY <2>1, <2>3 DEF Renewed
  <2> QED
    BY <2>2, <2>3
<1> HIDE DEF r
<1>4. r \in Seq(Entry)
  <2>1. r \in [1 .. Len(es) -> Entry]
    <3>1. r = [i \in DOMAIN es |-> r[i]]
      BY <1>2 DEF r, Renewed
    <3> QED
      BY <1>1, <1>3, <3>1
  <2> QED
    BY <1>1, <2>1
<1>5. OwnUids(r) \subseteq OwnUids(es)
  BY <1>2, <1>3 DEF OwnUids
<1>6. DistinctEntries(es) => DistinctEntries(r)
  BY <1>2, <1>3 DEF DistinctEntries, Apart
<1>7. CredsOf(r) \subseteq CredsOf(es) \cup {[c EXCEPT !.uid = v]}
  BY <1>2, <1>3 DEF CredsOf
<1> QED
  BY <1>4, <1>5, <1>6, <1>7 DEF r

\* Compacting the entries, to those on disk or to the healthy ones.
LEMMA CompactEntries ==
  ASSUME NEW es \in Seq(Entry), NEW I \in SUBSET DOMAIN es
  PROVE  LET r == Compact(es, I)
         IN  /\ r \in Seq(Entry)
             /\ Len(r) <= Len(es)
             /\ UidsOf(r) = {es[i].uid : i \in I}
             /\ UidsOf(r) \subseteq UidsOf(es)
             /\ OwnUids(r) \subseteq OwnUids(es)
             /\ CredsOf(r) \subseteq CredsOf(es)
             /\ DistinctEntries(es) => DistinctEntries(r)
<1> DEFINE r == Compact(es, I)
<1>1. /\ r \in Seq(Entry) /\ Len(r) <= Len(es)
      /\ Members(r) = {es[i] : i \in I}
      /\ InOrderOf(r, es)
  BY CompactProperties
<1> HIDE DEF r
<1>2. UidsOf(r) = {es[i].uid : i \in I}
  <2>1. UidsOf(r) = {x.uid : x \in Members(r)}
    BY DEF UidsOf, Members
  <2>2. {x.uid : x \in {es[i] : i \in I}} = {es[i].uid : i \in I}
    OBVIOUS
  <2> QED
    BY <1>1, <2>1, <2>2
<1>3. UidsOf(r) \subseteq UidsOf(es)
  BY <1>2 DEF UidsOf
<1>4. ASSUME DistinctEntries(es)
      PROVE  DistinctEntries(r)
  <2> SUFFICES ASSUME NEW i \in DOMAIN r, NEW j \in DOMAIN r, i < j
               PROVE  Apart(r[i], r[j])
    BY <1>1, DistinctWhenOrdered
  <2>1. PICK p \in DOMAIN es, q \in DOMAIN es :
          p < q /\ r[i] = es[p] /\ r[j] = es[q]
    BY <1>1 DEF InOrderOf
  <2>2. p # q
    BY <2>1
  <2> QED
    BY <1>4, <2>1, <2>2 DEF DistinctEntries
<1>5. \A i \in DOMAIN r : \E p \in DOMAIN es : r[i] = es[p]
  BY <1>1 DEF Members
<1>6. OwnUids(r) \subseteq OwnUids(es) /\ CredsOf(r) \subseteq CredsOf(es)
  BY <1>5 DEF OwnUids, CredsOf
<1> QED
  BY <1>1, <1>2, <1>3, <1>4, <1>6 DEF r

\* Dropping the entries whose file is gone adds none and keeps them distinct.
LEMMA OnDiskProperties ==
  ASSUME NEW es \in Seq(Entry)
  PROVE  /\ OnDisk(es) \in Seq(Entry)
         /\ UidsOf(OnDisk(es)) \subseteq UidsOf(es)
         /\ OwnUids(OnDisk(es)) \subseteq OwnUids(es)
         /\ CredsOf(OnDisk(es)) \subseteq CredsOf(es)
         /\ DistinctEntries(es) => DistinctEntries(OnDisk(es))
<1> DEFINE I == {i \in DOMAIN es : files[es[i].path] # NoFile}
<1>1. I \in SUBSET DOMAIN es /\ OnDisk(es) = Compact(es, I)
  BY DEF OnDisk
<1> HIDE DEF I
<1> QED
  BY <1>1, CompactEntries

\* load_files keeps the entries and adds new ones, each of a new path and uid.
LEMMA LoadFilesProperties ==
  ASSUME NEW es \in Seq(Entry), files \in [Paths -> Contents], DistinctEntries(es)
  PROVE  /\ LoadFiles(es) \in Seq(Entry)
         /\ DistinctEntries(LoadFiles(es))
<1> DEFINE I == Fresh(es)
           f == Enumerate(I, NPaths)
           g == [i \in DOMAIN f |->
                   [path |-> f[i], uid |-> files[f[i]], own |-> TRUE]]
<1>1. NPaths \in Nat /\ I \in SUBSET (1 .. NPaths)
  BY PoolAssumption DEF Fresh, Loadable, Paths
<1>2. PICK m \in 0 .. NPaths : f \in [1 .. m -> I] /\ Enumerates(f, I)
  BY <1>1, EnumerateIsOne
<1>3. LoadFiles(es) = es \o g
  BY DEF LoadFiles
<1> HIDE DEF f
<1>4. \A p \in I : /\ p \in Paths /\ files[p] \in Accounts
                   /\ p \notin PathsOf(es) /\ files[p] \notin UidsOf(es)
  BY DEF Fresh, Loadable
<1>5. \A p, q \in I : files[p] = files[q] => p = q
  <2> SUFFICES ASSUME NEW p \in I, NEW q \in I, files[p] = files[q]
               PROVE  p = q
    OBVIOUS
  <2>1. p \in Loadable(es) /\ q \in Loadable(es)
    BY DEF Fresh
  <2>2. ~ (q < p) /\ ~ (p < q)
    BY <2>1 DEF Fresh
  <2>3. p \in Int /\ q \in Int
    BY <1>1
  <2> HIDE DEF I
  <2> QED
    BY <2>2, <2>3
<1> HIDE DEF I
<1>6. g \in Seq(Entry) /\ Len(g) = m /\ DOMAIN g = 1 .. m
  <2>1. DOMAIN f = 1 .. m /\ \A i \in 1 .. m : f[i] \in I
    BY <1>2
  <2>2. ASSUME NEW i \in 1 .. m
        PROVE  [path |-> f[i], uid |-> files[f[i]], own |-> TRUE] \in Entry
    BY <1>4, <2>1 DEF Entry
  <2>3. g \in [1 .. m -> Entry]
    BY <2>1, <2>2
  <2>4. m \in Nat
    BY <1>1
  <2> HIDE DEF g
  <2> QED
    BY <2>3, <2>4
<1>7. \A i \in 1 .. m : g[i].path = f[i] /\ g[i].uid = files[f[i]] /\ f[i] \in I
  BY <1>2
<1> HIDE DEF g
<1>8. ASSUME NEW i \in 1 .. m, NEW j \in 1 .. m, i < j
      PROVE  g[i].uid # g[j].uid /\ g[i].path # g[j].path
  <2>1. IsIncreasing(f) /\ DOMAIN f = 1 .. m
    BY <1>2 DEF Enumerates
  <2>2. f[i] < f[j]
    BY <1>8, <2>1 DEF IsIncreasing
  <2>3. f[i] # f[j]
    <3>1. f[i] \in I /\ f[j] \in I /\ I \subseteq Int
      BY <1>1, <1>7
    <3>2. f[i] \in Int /\ f[j] \in Int
      BY <3>1
    <3> QED
      BY <2>2, <3>2
  <2> QED
    <3>1. files[f[i]] # files[f[j]]
      BY <1>5, <1>7, <2>3
    <3> QED
      BY <1>7, <2>3, <3>1
<1> DEFINE r == es \o g
           n == Len(es)
<1>9. /\ r \in Seq(Entry) /\ n \in Nat /\ DOMAIN es = 1 .. n
      /\ DOMAIN r = 1 .. n + m
      /\ \A i \in 1 .. n : r[i] = es[i]
      /\ \A i \in n + 1 .. n + m : r[i] = g[i - n] /\ i - n \in 1 .. m
  BY <1>6
<1> HIDE DEF r, n
<1>10. ASSUME NEW i \in 1 .. n + m, NEW j \in 1 .. n + m, i < j
       PROVE  Apart(r[i], r[j])
  <2>1. CASE j \in 1 .. n
    <3>1. i \in DOMAIN es /\ j \in DOMAIN es /\ i # j /\ r[i] = es[i] /\ r[j] = es[j]
      BY <1>9, <1>10, <2>1
    <3> QED
      BY <3>1 DEF DistinctEntries
  <2>2. CASE i \in 1 .. n /\ j \in n + 1 .. n + m
    <3>1. r[i] = es[i] /\ r[j] = g[j - n] /\ j - n \in 1 .. m
      BY <1>9, <2>2
    <3>2. es[i].uid \in UidsOf(es) /\ es[i].path \in PathsOf(es)
      BY <1>9, <2>2 DEF UidsOf, PathsOf
    <3> QED
      BY <1>4, <1>7, <3>1, <3>2 DEF Apart
  <2>3. CASE i \in n + 1 .. n + m /\ j \in n + 1 .. n + m
    <3>1. r[i] = g[i - n] /\ i - n \in 1 .. m
      BY <1>9, <2>3
    <3>2. r[j] = g[j - n] /\ j - n \in 1 .. m
      BY <1>9, <2>3
    <3>3. i - n < j - n
      BY <1>9, <1>10
    <3> QED
      BY <1>8, <3>1, <3>2, <3>3 DEF Apart
  <2>4. m \in Nat
    BY <1>1
  <2>5. i \in 1 .. n \/ i \in n + 1 .. n + m
    BY <1>9, <2>4
  <2>6. j \in 1 .. n \/ j \in n + 1 .. n + m
    BY <1>9, <2>4
  <2>7. ~ (i \in n + 1 .. n + m /\ j \in 1 .. n)
    BY <1>9, <1>10, <2>4
  <2> QED
    BY <2>1, <2>2, <2>3, <2>5, <2>6, <2>7
<1>11. DistinctEntries(r)
  BY <1>9, <1>10, DistinctWhenOrdered
<1> QED
  BY <1>3, <1>9, <1>11 DEF r

-----------------------------------------------------------------------------
(***************************************************************************)
(* Candidates and the top rank.                                            *)
(***************************************************************************)
\* A non-empty sequence of integers has a greatest element.
HasGreatest(f) == \E i \in DOMAIN f : \A j \in DOMAIN f : f[j] <= f[i]

\* Among the candidates one has the most credits (the rank of pick).
LEMMA GreatestExists ==
  \A n \in Nat \ {0} : \A f \in [1 .. n -> Int] : HasGreatest(f)
<1> DEFINE T == {n \in Nat \ {0} : \E f \in [1 .. n -> Int] : ~ HasGreatest(f)}
<1> SUFFICES ASSUME T # {}
             PROVE  FALSE
  OBVIOUS
<1>1. PICK n \in T : \A k \in T : n <= k
  BY LeastNatural
<1>2. PICK f \in [1 .. n -> Int] : ~ HasGreatest(f)
  OBVIOUS
<1>3. n \in Nat \ {0}
  OBVIOUS
<1>4. n # 1
  BY <1>2 DEF HasGreatest
<1> DEFINE g == [i \in 1 .. n - 1 |-> f[i]]
<1>5. n - 1 \in Nat \ {0} /\ n - 1 \notin T /\ g \in [1 .. n - 1 -> Int]
  BY <1>1, <1>3, <1>4
<1>6. HasGreatest(g)
  BY <1>5
<1>7. PICK i \in 1 .. n - 1 : \A j \in 1 .. n - 1 : f[j] <= f[i]
  BY <1>6 DEF HasGreatest
<1>8. \A j \in 1 .. n : j \in 1 .. n - 1 \/ j = n
  BY <1>3
<1>9. i \in 1 .. n /\ n \in 1 .. n /\ f[i] \in Int /\ f[n] \in Int
  BY <1>3
<1> HIDE DEF T, g
<1>10. CASE f[i] <= f[n]
  <2>1. \A j \in 1 .. n : f[j] <= f[n]
    BY <1>2, <1>7, <1>8, <1>9, <1>10
  <2> QED
    BY <1>2, <1>9, <2>1 DEF HasGreatest
<1>11. CASE f[n] <= f[i]
  <2>1. \A j \in 1 .. n : f[j] <= f[i]
    BY <1>7, <1>8, <1>9, <1>11
  <2> QED
    BY <1>2, <1>9, <2>1 DEF HasGreatest
<1> QED
  BY <1>9, <1>10, <1>11

\* The candidates are the healthy loaded accounts.
LEMMA CandidatesProperties ==
  ASSUME RosterInv, NEW m
  PROVE  /\ Candidates(m) \in Seq(Entry)
         /\ UidsOf(Candidates(m)) = {u \in Loaded : Healthy(u, m)}
<1> DEFINE I == {i \in DOMAIN entries : Healthy(entries[i].uid, m)}
<1>1. I \in SUBSET DOMAIN entries /\ Candidates(m) = Compact(entries, I)
  BY DEF Candidates
<1>2. {entries[i].uid : i \in I} = {u \in Loaded : Healthy(u, m)}
  BY DEF Loaded, UidsOf
<1>3. entries \in Seq(Entry)
  BY DEF RosterInv
<1> HIDE DEF I
<1> QED
  BY <1>1, <1>2, <1>3, CompactEntries

\* The top rank is not empty, and its accounts have the most credits.
LEMMA TopProperties ==
  ASSUME RosterInv, HealthInv, NEW m, Candidates(m) # << >>
  PROVE  /\ Top(m) \in Seq(Entry) /\ Len(Top(m)) \in Nat \ {0}
         /\ \A i \in DOMAIN Top(m) :
              LET u == Top(m)[i].uid
              IN  /\ u \in Loaded /\ Healthy(u, m) /\ u \in Accounts
                  /\ \A v \in Loaded : Healthy(v, m) => credits[v] <= credits[u]
<1> DEFINE c == Candidates(m)
           I == {i \in DOMAIN c : \A j \in DOMAIN c : credits[c[j].uid] <= credits[c[i].uid]}
           r == Top(m)
<1>1. c \in Seq(Entry) /\ UidsOf(c) = {u \in Loaded : Healthy(u, m)}
  BY CandidatesProperties
<1>2. I \in SUBSET DOMAIN c /\ r = Compact(c, I)
  BY DEF Top
<1>3. c # << >>
  OBVIOUS
<1> HIDE DEF c
<1> DEFINE n == Len(c)
           f == [i \in 1 .. n |-> credits[c[i].uid]]
<1>4. n \in Nat \ {0} /\ DOMAIN c = 1 .. n /\ \A i \in 1 .. n : c[i] \in Entry
  BY <1>1, <1>3
<1>5. f \in [1 .. n -> Int]
  BY <1>4 DEF HealthInv, Entry
<1>6. HasGreatest(f)
  BY <1>4, <1>5, GreatestExists
<1>7. PICK i \in 1 .. n : \A j \in 1 .. n : credits[c[j].uid] <= credits[c[i].uid]
  BY <1>6 DEF HasGreatest
<1>8. i \in I
  BY <1>4, <1>7
<1>9. /\ r \in Seq(Entry)
      /\ UidsOf(r) = {c[k].uid : k \in I}
  <2> HIDE DEF I, r
  <2> QED
    BY <1>1, <1>2, CompactEntries
<1>10. Len(r) \in Nat \ {0}
  <2>1. c[i].uid \in UidsOf(r)
    BY <1>8, <1>9
  <2>2. DOMAIN r # {}
    BY <2>1 DEF UidsOf
  <2> HIDE DEF r
  <2> QED
    BY <1>9, <2>2
<1>11. ASSUME NEW k \in DOMAIN r
       PROVE  /\ r[k].uid \in Loaded /\ Healthy(r[k].uid, m) /\ r[k].uid \in Accounts
              /\ \A v \in Loaded : Healthy(v, m) => credits[v] <= credits[r[k].uid]
  <2>1. r[k].uid \in UidsOf(r)
    BY DEF UidsOf
  <2>2. PICK p \in I : r[k].uid = c[p].uid
    BY <1>9, <2>1
  <2>3. c[p].uid \in UidsOf(c) /\ c[p].uid \in Accounts
    BY <1>4, <2>2 DEF UidsOf, Entry
  <2>4. ASSUME NEW v \in Loaded, Healthy(v, m)
        PROVE  credits[v] <= credits[c[p].uid]
    <3>1. PICK q \in DOMAIN c : v = c[q].uid
      BY <1>1, <2>4 DEF UidsOf
    <3> QED
      BY <2>2, <3>1
  <2> QED
    BY <1>1, <2>2, <2>3, <2>4
<1> QED
  BY <1>9, <1>10, <1>11

-----------------------------------------------------------------------------
(***************************************************************************)
(* The second half of pick.                                                *)
(***************************************************************************)
\* An operation that replaces the table by a good one leaves a good table.
LEMMA SetTableGood ==
  ASSUME NEW t, Good(t), SetTable(t)
  PROVE  Good(Table')
<1>1. Table'.map = t.map /\ Table'.order = t.order
  BY DEF Table, SetTable
<1> QED
  BY <1>1, SameFields DEF Good

\* The table is unchanged when its two variables are.
LEMMA TableUnchanged ==
  ASSUME Good(Table), UNCHANGED stickyVars
  PROVE  Good(Table')
  BY DEF Table, stickyVars

\* What eviction leaves of the pool's table.
LEMMA EvictedTable ==
  ASSUME Good(Table)
  PROVE  LET t == Evict(Table)
         IN  /\ Good(t)
             /\ \A k \in Keys(t) : /\ k \in DOMAIN sticky /\ t.map[k] = sticky[k]
                                   /\ sticky[k].age <= StickyTtl
  BY EvictGood DEF Table, Keys

\* A binding that is expired now, or one key too many, is what eviction takes.
LEMMA EvictionSpares ==
  ASSUME Good(Table), NEW s \in DOMAIN sticky,
         sticky[s].age <= StickyTtl, Cardinality(DOMAIN sticky) <= StickyMax
  PROVE  s \in Keys(Evict(Table))
<1> DEFINE t == Table
<1>1. Keys(t) = DOMAIN sticky /\ t.map = sticky
  BY DEF Table, Keys
<1>2. Good(t)
  OBVIOUS
<1> HIDE DEF t
<1>3. s \notin Popped(t)
  <2> SUFFICES ASSUME NEW i \in DOMAIN t.order, s = t.order[i],
                      \A j \in 1 .. i : PopsAt(t, j)
               PROVE  FALSE
    BY DEF Popped
  <2>1. i \in 1 .. i
    BY <1>2 DEF Good, TableTypeOK
  <2>2. PopsAt(t, i)
    BY <2>1
  <2>3. ~ Stale(t, s)
    BY <1>1, <1>2, BindingFields, StickyAssumption DEF Stale, Good
  <2>4. LeftAt(t, i) \subseteq Keys(t)
    BY DEF LeftAt
  <2>5. /\ Cardinality(LeftAt(t, i)) <= Cardinality(Keys(t))
        /\ Cardinality(LeftAt(t, i)) \in Nat /\ Cardinality(Keys(t)) \in Nat
    BY <1>2, <2>4, FS_Subset, FS_CardinalityType DEF Good, TableTypeOK
  <2>6. ~ (Cardinality(LeftAt(t, i)) > StickyMax)
    BY <1>1, <2>5, StickyAssumption
  <2> QED
    BY <2>2, <2>3, <2>6 DEF PopsAt
<1>4. Keys(Evict(t)) = Keys(t) \ Popped(t)
  BY <1>2, RemoveKeysFields DEF Evict, Good
<1> QED
  BY <1>1, <1>3, <1>4 DEF t

\* The effect of each of the three ways to answer, on a table after eviction.
TouchesOnly(t) ==
  \A k \in DOMAIN sticky' :
     sticky'[k].age = 0 \/ (k \in Keys(t) /\ sticky'[k] = t.map[k])

Answered(t, s, m, u) ==
  /\ Good(Table')
  /\ rr' \in Nat
  /\ TouchesOnly(t)
  /\ u = NoAccount => \A v \in Loaded : ~ Healthy(v, m)
  /\ u # NoAccount =>
       /\ u \in Loaded /\ Healthy(u, m)
       /\ \/ s \in Keys(t) /\ t.map[s].id = u
          \/ \A v \in Loaded : Healthy(v, m) => credits[v] <= credits[u]
  /\ StickyServes(t, s, m) =>
       u = t.map[s].id /\ s \in DOMAIN sticky' /\ sticky'[s].id = u

\* A sticky hit answers with the loaded, healthy account of the binding.
LEMMA StickyHitAnswers ==
  ASSUME IInv, NEW t, Good(t), NEW s, NEW m, NEW u, StickyHit(t, s, m, u)
  PROVE  Answered(t, s, m, u)
<1>1. s \in Keys(t) /\ u = t.map[s].id /\ u \in Loaded /\ Healthy(u, m)
  BY DEF StickyHit, StickyServes
<1> DEFINE r == Touch(t, s)
<1>2. /\ Good(r) /\ Keys(r) = Keys(t)
      /\ \A k \in Keys(t) \ {s} : r.map[k] = t.map[k]
      /\ r.map[s].id = t.map[s].id /\ r.map[s].age = 0
  BY <1>1, TouchGood
<1>3. SetTable(r) /\ rr' = rr
  BY DEF StickyHit
<1> HIDE DEF r
<1>4. Good(Table')
  BY <1>2, <1>3, SetTableGood
<1>5. sticky' = r.map /\ DOMAIN sticky' = Keys(t)
  BY <1>2, <1>3 DEF SetTable, Keys
<1>6. u # NoAccount
  BY <1>1, PoolAssumption, BindingFields DEF Good
<1>7. rr' \in Nat
  BY <1>3 DEF IInv
<1>8. TouchesOnly(t)
  BY <1>2, <1>5 DEF TouchesOnly
<1> QED
  BY <1>1, <1>2, <1>4, <1>5, <1>6, <1>7, <1>8 DEF Answered

\* Pick answers none only when no loaded account is healthy.
LEMMA NoCandidateAnswers ==
  ASSUME IInv, NEW t, Good(t), NEW s, NEW m, NEW u, NoCandidate(t, s, m, u)
  PROVE  Answered(t, s, m, u)
<1>1. ~ StickyServes(t, s, m) /\ Candidates(m) = << >> /\ u = NoAccount
  BY DEF NoCandidate
<1> DEFINE r == RemoveKeys(t, {s})
<1>2. Good(r) /\ Keys(r) \subseteq Keys(t) /\ \A k \in Keys(r) : r.map[k] = t.map[k]
  BY RemoveKeysGood, RemoveKeysFields DEF Good
<1>3. SetTable(r) /\ rr' = rr
  BY DEF NoCandidate
<1> HIDE DEF r
<1>4. Good(Table')
  BY <1>2, <1>3, SetTableGood
<1>5. TouchesOnly(t)
  BY <1>2, <1>3 DEF SetTable, Keys, TouchesOnly
<1>6. \A v \in Loaded : ~ Healthy(v, m)
  <2>1. UidsOf(Candidates(m)) = {v \in Loaded : Healthy(v, m)}
    BY CandidatesProperties DEF IInv
  <2>2. UidsOf(Candidates(m)) = {}
    BY <1>1 DEF UidsOf
  <2> QED
    BY <2>1, <2>2
<1>7. rr' \in Nat
  BY <1>3 DEF IInv
<1> QED
  BY <1>1, <1>4, <1>5, <1>6, <1>7 DEF Answered

\* A ranked pick answers with a loaded, healthy account of the top rank.
LEMMA RankedPickAnswers ==
  ASSUME IInv, NEW t, Good(t), NEW s \in Sessions \cup {NoSession}, NEW m, NEW u,
         RankedPick(t, s, m, u)
  PROVE  Answered(t, s, m, u)
<1> DEFINE top == Top(m)
           n == Len(top)
<1>1. ~ StickyServes(t, s, m) /\ u = top[(rr % n) + 1].uid
  BY DEF RankedPick
<1>2. /\ top \in Seq(Entry) /\ n \in Nat \ {0}
      /\ \A i \in DOMAIN top :
           /\ top[i].uid \in Loaded /\ Healthy(top[i].uid, m) /\ top[i].uid \in Accounts
           /\ \A v \in Loaded : Healthy(v, m) => credits[v] <= credits[top[i].uid]
  BY TopProperties DEF IInv, RankedPick
<1>3. (rr % n) + 1 \in DOMAIN top
  <2>1. rr \in Nat
    BY DEF IInv
  <2>2. DOMAIN top = 1 .. n
    BY <1>2
  <2> HIDE DEF top, n
  <2>3. rr % n \in 0 .. n - 1
    BY <1>2, <2>1
  <2> QED
    BY <1>2, <2>2, <2>3
<1>4. /\ u \in Loaded /\ Healthy(u, m) /\ u \in Accounts /\ u # NoAccount
      /\ \A v \in Loaded : Healthy(v, m) => credits[v] <= credits[u]
  BY <1>1, <1>2, <1>3, PoolAssumption
<1>5. rr' \in Nat
  <2>1. rr \in Nat /\ RrModulus \in Nat \ {0} /\ rr' = (rr + 1) % RrModulus
    BY PoolAssumption DEF IInv, RankedPick
  <2> QED
    BY <2>1
<1>6. CASE s = NoSession
  <2>1. SetTable(t)
    BY <1>6 DEF RankedPick
  <2>2. Good(Table') /\ TouchesOnly(t)
    BY <2>1, SetTableGood DEF SetTable, Keys, TouchesOnly
  <2> QED
    BY <1>1, <1>4, <1>5, <2>2 DEF Answered
<1>7. CASE s # NoSession
  <2> DEFINE r == RemoveKeys(t, {s})
             b == Bind(r, s, u)
  <2>1. SetTable(b) /\ s \in Sessions
    BY <1>7 DEF RankedPick
  <2>2. /\ Good(r) /\ Keys(r) = Keys(t) \ {s}
        /\ \A k \in Keys(r) : r.map[k] = t.map[k]
    BY RemoveKeysGood, RemoveKeysFields DEF Good
  <2> HIDE DEF r
  <2>3. /\ Good(b) /\ b.map[s] = [id |-> u, age |-> 0]
        /\ Keys(b) \subseteq Keys(r) \cup {s}
        /\ \A k \in Keys(b) \ {s} : b.map[k] = r.map[k]
    BY <1>4, <2>1, <2>2, BindGood
  <2> HIDE DEF b
  <2>4. Good(Table')
    BY <2>1, <2>3, SetTableGood
  <2>5. sticky' = b.map /\ DOMAIN sticky' = Keys(b)
    BY <2>1 DEF SetTable, Keys
  <2>6. ASSUME NEW k \in DOMAIN sticky'
        PROVE  sticky'[k].age = 0 \/ (k \in Keys(t) /\ sticky'[k] = t.map[k])
    <3>1. CASE k = s
      BY <2>3, <2>5, <3>1
    <3>2. CASE k # s
      BY <2>2, <2>3, <2>5, <3>2
    <3> QED
      BY <3>1, <3>2
  <2> QED
    BY <1>1, <1>4, <1>5, <2>4, <2>6 DEF Answered, TouchesOnly
<1> QED
  BY <1>6, <1>7

\* The three cases of the second half of pick together.
LEMMA PickAnswers ==
  ASSUME IInv, NEW s \in Sessions \cup {NoSession}, NEW m, NEW u, PickSelect(s, m, u)
  PROVE  Good(Evict(Table)) /\ Answered(Evict(Table), s, m, u)
<1> DEFINE t == Evict(Table)
<1>1. Good(t)
  BY EvictedTable DEF IInv
<1>2. StickyHit(t, s, m, u) \/ NoCandidate(t, s, m, u) \/ RankedPick(t, s, m, u)
  BY DEF PickSelect
<1> HIDE DEF t
<1>3. Answered(t, s, m, u)
  BY <1>1, <1>2, StickyHitAnswers, NoCandidateAnswers, RankedPickAnswers
<1> QED
  BY <1>1, <1>3 DEF t

-----------------------------------------------------------------------------
(***************************************************************************)
(* The roster: files, entries and the housekeeping task.                   *)
(***************************************************************************)
LEMMA RosterUnchanged ==
  ASSUME RosterInv, UNCHANGED rosterVars
  PROVE  RosterInv'
  BY DEF RosterInv, rosterVars, AccountsAreDistinct, OwnUids

\* Every step keeps the part about the directory, the entries and housekeeping.
LEMMA RosterStep ==
  ASSUME RosterInv, [Next]_vars
  PROVE  RosterInv'
<1> USE DEF RosterInv
<1>0. DistinctEntries(entries)
  BY DEF DistinctEntries, AccountsAreDistinct
<1>1. ASSUME NEW p \in Paths, NEW c \in Contents, FileChange(p, c)
      PROVE  RosterInv'
  BY <1>1 DEF FileChange, AccountsAreDistinct, OwnUids
<1> DEFINE kept == OnDisk(entries)
<1>2. /\ kept \in Seq(Entry) /\ UidsOf(kept) \subseteq UidsOf(entries)
      /\ DistinctEntries(kept) /\ UidsOf(kept) \in SUBSET Accounts
      /\ OwnUids(kept) \subseteq UidsOf(kept) /\ OwnUids(kept) \subseteq OwnUids(entries)
  <2>1. kept \in Seq(Entry) /\ UidsOf(kept) \subseteq UidsOf(entries)
    BY OnDiskProperties
  <2>2. DistinctEntries(kept)
    BY <1>0, OnDiskProperties
  <2>3. UidsOf(kept) \in SUBSET Accounts
    BY <2>1, UidsAreAccounts
  <2>4. OwnUids(kept) \subseteq UidsOf(kept) /\ OwnUids(kept) \subseteq OwnUids(entries)
    BY OwnAmongUids, OnDiskProperties
  <2> QED
    BY <2>1, <2>2, <2>3, <2>4
<1> HIDE DEF kept
<1>3. CASE Prune
  <2>1. entries' = kept /\ UNCHANGED <<files, known, picking>>
    BY <1>3 DEF Prune, kept
  <2>2. \/ hk' = [phase |-> "clean", ids |-> UidsOf(kept)]
        \/ hk' = [phase |-> "load", ids |-> {}]
    BY <1>3 DEF Prune, kept
  <2>3. AccountsAreDistinct'
    BY <1>2, <2>1 DEF AccountsAreDistinct, DistinctEntries
  <2>4. hk' \in [phase : HkPhases, ids : SUBSET Accounts]
        /\ (hk'.phase = "clean" => OwnUids(entries') \subseteq hk'.ids)
    BY <1>2, <2>1, <2>2 DEF HkPhases
  <2> QED
    BY <1>2, <2>1, <2>3, <2>4
<1>4. CASE PruneState
  <2>1. hk' = [phase |-> "load", ids |-> {}] /\ UNCHANGED <<files, entries, known, picking>>
    BY <1>4 DEF PruneState
  <2> QED
    BY <2>1 DEF HkPhases, AccountsAreDistinct
<1>5. CASE Load
  <2>1. /\ hk' = [phase |-> "rest", ids |-> {}] /\ UNCHANGED <<files, picking>>
        /\ entries' = LoadFiles(entries) /\ known' = known \cup CredsOf(entries')
    BY <1>5 DEF Load
  <2>2. entries' \in Seq(Entry) /\ DistinctEntries(entries')
    BY <1>0, <2>1, LoadFilesProperties
  <2>3. known' \in SUBSET Credential
    BY <2>1, <2>2, CredsAreCredentials
  <2> QED
    BY <2>1, <2>2, <2>3 DEF HkPhases, AccountsAreDistinct, DistinctEntries
<1>6. CASE PickRetain
  <2>1. entries' = kept /\ picking' = picking + 1 /\ UNCHANGED <<files, known, hk>>
    BY <1>6 DEF PickRetain, kept
  <2>2. AccountsAreDistinct'
    BY <1>2, <2>1 DEF AccountsAreDistinct, DistinctEntries
  <2>3. hk'.phase = "clean" => OwnUids(entries') \subseteq hk'.ids
    BY <1>2, <2>1
  <2> QED
    BY <1>2, <2>1, <2>2, <2>3
<1>7. ASSUME NEW s, NEW m, NEW u, PickSelect(s, m, u)
      PROVE  RosterInv'
  BY <1>7 DEF PickSelect, AccountsAreDistinct, OwnUids
<1>8. ASSUME NEW u, NoteStatus(u) \/ NoteHardCredit(u) \/ NoteError(u)
      PROVE  RosterInv'
  BY <1>8, RosterUnchanged DEF NoteStatus, NoteHardCredit, NoteError
<1>9. ASSUME NEW u, NEW m, NoteRateLimit(u, m)
      PROVE  RosterInv'
  BY <1>9, RosterUnchanged DEF NoteRateLimit
<1>10. ASSUME NEW u, NEW c, SetCredits(u, c)
       PROVE  RosterInv'
  BY <1>10, RosterUnchanged DEF SetCredits
<1>11. CASE Tick
  BY <1>11, RosterUnchanged DEF Tick
<1>12. CASE UNCHANGED vars
  BY <1>12, RosterUnchanged DEF vars
<1>13. ASSUME NEW c \in known, NEW v \in Accounts, Refresh(c, v)
       PROVE  RosterInv'
  <2>1. /\ files' = [files EXCEPT ![c.path] = v]
        /\ known' = known \cup {[c EXCEPT !.uid = v]}
        /\ entries' = Renewed(entries, c, v) \/ entries' = entries
        /\ UNCHANGED <<hk, picking>>
    BY <1>13 DEF Refresh
  <2>2. files' \in [Paths -> Contents]
    BY <2>1 DEF Contents
  <2>3. known' \in SUBSET Credential
    BY <2>1 DEF Credential
  <2>4. /\ entries' \in Seq(Entry) /\ DistinctEntries(entries')
        /\ OwnUids(entries') \subseteq OwnUids(entries)
    BY <1>0, <2>1, RenewedProperties
  <2>5. AccountsAreDistinct'
    BY <2>4 DEF AccountsAreDistinct, DistinctEntries
  <2> QED
    BY <2>1, <2>2, <2>3, <2>4, <2>5
<1> QED
  BY <1>1, <1>3, <1>4, <1>5, <1>6, <1>7, <1>8, <1>9, <1>10, <1>11, <1>12, <1>13 DEF Next

-----------------------------------------------------------------------------
(***************************************************************************)
(* What is known of the accounts' health.                                  *)
(***************************************************************************)
LEMMA HealthUnchanged ==
  ASSUME HealthInv, UNCHANGED healthVars
  PROVE  HealthInv'
  BY DEF HealthInv, healthVars

\* Every step keeps the part about cooldowns, credits and error counts.
LEMMA HealthStep ==
  ASSUME RosterInv, HealthInv, [Next]_vars
  PROVE  HealthInv'
<1> USE PoolAssumption DEF HealthInv, CoolKinds
<1>0. Held \in SUBSET Accounts
  BY HeldAreAccounts DEF RosterInv
<1>1. ASSUME NEW p, NEW c, FileChange(p, c)
      PROVE  HealthInv'
  BY <1>1, HealthUnchanged DEF FileChange
<1>2. CASE Prune \/ Load \/ PickRetain
  BY <1>2, HealthUnchanged DEF Prune, Load, PickRetain
<1>3. CASE PruneState
  BY <1>3 DEF PruneState, Never, Unknown
<1>4. ASSUME NEW s, NEW m, NEW u, PickSelect(s, m, u)
      PROVE  HealthInv'
  BY <1>4, HealthUnchanged DEF PickSelect
<1>5. ASSUME NEW u \in Held, NoteStatus(u)
      PROVE  HealthInv'
  BY <1>0, <1>5 DEF NoteStatus, Cool
<1>6. ASSUME NEW u \in Held, NoteHardCredit(u)
      PROVE  HealthInv'
  BY <1>0, <1>6 DEF NoteHardCredit, Cool
<1>7. ASSUME NEW u \in Held, NoteError(u)
      PROVE  HealthInv'
  <2>1. u \in Accounts /\ UNCHANGED <<model_fail, credits>>
    BY <1>0, <1>7 DEF NoteError
  <2>2. CASE err_counts[u] + 1 >= ErrThreshold
    <3>1. /\ err_counts' = [err_counts EXCEPT ![u] = 0]
          /\ fail_until' = [fail_until EXCEPT ![u]["ErrThreshold"] = CredCooldown]
      BY <1>7, <2>2 DEF NoteError, Cool
    <3> QED
      BY <2>1, <3>1
  <2>3. CASE ~ (err_counts[u] + 1 >= ErrThreshold)
    BY <1>7, <2>1, <2>3 DEF NoteError
  <2> QED
    BY <2>2, <2>3
<1>8. ASSUME NEW u \in Held, NEW m \in Models, NoteRateLimit(u, m)
      PROVE  HealthInv'
  <2>1. /\ model_fail' = [model_fail EXCEPT ![u][m] = ModelCooldown]
        /\ UNCHANGED <<fail_until, credits, err_counts>>
    BY <1>8 DEF NoteRateLimit
  <2>2. ASSUME NEW v \in Accounts
        PROVE  /\ model_fail'[v] \in [Models -> Int]
               /\ \A k \in Models : model_fail'[v][k] <= ModelCooldown
    BY <2>1
  <2>3. model_fail' = [v \in Accounts |-> model_fail'[v]]
    BY <2>1
  <2> QED
    BY <2>1, <2>2, <2>3
<1>9. ASSUME NEW u \in Held, NEW c \in CreditLevels, SetCredits(u, c)
      PROVE  HealthInv'
  BY <1>9 DEF SetCredits
<1>10. CASE Tick
  <2>1. \A n \in Int : Less(n) \in Int /\ Less(n) <= n
    BY DEF Less
  <2>2. \A n \in Nat : Less(n) \in Nat
    BY DEF Less
  <2> QED
    BY <1>10, <2>1, <2>2 DEF Tick
<1>11. CASE UNCHANGED vars
  BY <1>11, HealthUnchanged DEF vars
<1>12. ASSUME NEW c, NEW v, Refresh(c, v)
       PROVE  HealthInv'
  BY <1>12, HealthUnchanged DEF Refresh
<1> QED
  BY <1>1, <1>2, <1>3, <1>4, <1>5, <1>6, <1>7, <1>8, <1>9, <1>10, <1>11, <1>12 DEF Next

-----------------------------------------------------------------------------
(***************************************************************************)
(* The sticky-session table.                                               *)
(***************************************************************************)
LEMMA TableStep ==
  ASSUME IInv, [Next]_vars
  PROVE  Good(Table') /\ rr' \in Nat
<1>0. Good(Table) /\ rr \in Nat
  BY DEF IInv
<1>1. ASSUME NEW p, NEW c, FileChange(p, c)
      PROVE  Good(Table') /\ rr' \in Nat
  BY <1>0, <1>1, TableUnchanged DEF FileChange
<1>2. CASE Prune \/ Load \/ PickRetain
  BY <1>0, <1>2, TableUnchanged DEF Prune, Load, PickRetain
<1>3. CASE PruneState
  <2>1. Good(RemoveKeys(Table, OwnedBy(Table, Accounts \ hk.ids)))
    BY <1>0, RemoveKeysGood DEF Good
  <2> QED
    BY <1>0, <1>3, <2>1, SetTableGood DEF PruneState
<1>4. ASSUME NEW s \in Sessions \cup {NoSession}, NEW m, NEW u, PickSelect(s, m, u)
      PROVE  Good(Table') /\ rr' \in Nat
  BY <1>4, PickAnswers DEF Answered
<1>5. ASSUME NEW u, NoteStatus(u) \/ NoteHardCredit(u) \/ NoteError(u)
      PROVE  Good(Table') /\ rr' \in Nat
  BY <1>0, <1>5, TableUnchanged DEF NoteStatus, NoteHardCredit, NoteError
<1>6. ASSUME NEW u, NEW m, NoteRateLimit(u, m)
      PROVE  Good(Table') /\ rr' \in Nat
  <2>1. Good(RemoveKeys(Table, OwnedBy(Table, {u})))
    BY <1>0, RemoveKeysGood DEF Good
  <2> QED
    BY <1>0, <1>6, <2>1, SetTableGood DEF NoteRateLimit
<1>7. ASSUME NEW u, NEW c, SetCredits(u, c)
      PROVE  Good(Table') /\ rr' \in Nat
  BY <1>0, <1>7, TableUnchanged DEF SetCredits
<1>8. CASE Tick
  <2>1. Good(AgeAll(Table))
    BY <1>0, AgeAllGood DEF Good
  <2> QED
    BY <1>0, <1>8, <2>1, SetTableGood DEF Tick
<1>9. CASE UNCHANGED vars
  BY <1>0, <1>9, TableUnchanged DEF vars
<1>10. ASSUME NEW c, NEW v, Refresh(c, v)
       PROVE  Good(Table') /\ rr' \in Nat
  BY <1>0, <1>10, TableUnchanged DEF Refresh
<1> QED
  BY <1>1, <1>2, <1>3, <1>4, <1>5, <1>6, <1>7, <1>8, <1>9, <1>10 DEF Next

-----------------------------------------------------------------------------
(***************************************************************************)
(* A binding of a rate-limited account is younger than the rate limit.     *)
(***************************************************************************)
LEMMA ReboundUnchanged ==
  ASSUME ReboundAfter429, UNCHANGED <<sticky, model_fail>>
  PROVE  ReboundAfter429'
  BY DEF ReboundAfter429

\* A binding of the table after keys were removed is one that was there.
LEMMA SetRemovedKeys ==
  ASSUME Good(Table), NEW ids, SetTable(RemoveKeys(Table, OwnedBy(Table, ids)))
  PROVE  \A s \in DOMAIN sticky' :
           s \in DOMAIN sticky /\ sticky'[s] = sticky[s] /\ sticky[s].id \notin ids
<1> DEFINE t == Table
           r == RemoveKeys(t, OwnedBy(t, ids))
<1>1. t.map = sticky /\ Keys(t) = DOMAIN sticky
  BY DEF Table, Keys
<1>2. sticky' = r.map /\ DOMAIN sticky' = Keys(r)
  BY DEF SetTable, Keys
<1>3. Keys(r) = Keys(t) \ OwnedBy(t, ids) /\ \A s \in Keys(r) : r.map[s] = t.map[s]
  BY RemoveKeysFields DEF Good
<1> HIDE DEF t, r
<1> QED
  BY <1>1, <1>2, <1>3 DEF OwnedBy

\* Every step keeps bindings younger than the 429 of their account.
LEMMA ReboundStep ==
  ASSUME IInv, [Next]_vars
  PROVE  ReboundAfter429'
<1>0. /\ ReboundAfter429 /\ Good(Table) /\ ModelCooldown \in Nat
      /\ model_fail \in [Accounts -> [Models -> Int]]
      /\ \A u \in Accounts, m \in Models : model_fail[u][m] <= ModelCooldown
      /\ Held \in SUBSET Accounts
  BY PoolAssumption, HeldAreAccounts DEF IInv, HealthInv, RosterInv
<1>a. ASSUME NEW s \in DOMAIN sticky
      PROVE  sticky[s].id \in Accounts /\ sticky[s].age \in Nat
  BY <1>0, BindingFields DEF Good, Table, Keys
<1>1. ASSUME NEW p, NEW c, FileChange(p, c)
      PROVE  ReboundAfter429'
  BY <1>0, <1>1, ReboundUnchanged DEF FileChange, healthVars, stickyVars
<1>2. CASE Prune \/ Load \/ PickRetain
  BY <1>0, <1>2, ReboundUnchanged DEF Prune, Load, PickRetain, healthVars, stickyVars
<1>3. CASE PruneState
  <2>1. \A s \in DOMAIN sticky' :
          s \in DOMAIN sticky /\ sticky'[s] = sticky[s] /\ sticky[s].id \in hk.ids
    BY <1>0, <1>3, <1>a, SetRemovedKeys DEF PruneState
  <2>2. \A u \in Accounts : u \in hk.ids => model_fail'[u] = model_fail[u]
    BY <1>3 DEF PruneState
  <2> QED
    BY <1>0, <1>a, <2>1, <2>2 DEF ReboundAfter429
<1>4. ASSUME NEW s \in Sessions \cup {NoSession}, NEW m, NEW u, PickSelect(s, m, u)
      PROVE  ReboundAfter429'
  <2> DEFINE t == Evict(Table)
  <2>1. TouchesOnly(t) /\ Good(Table')
    BY <1>4, PickAnswers DEF Answered
  <2>2. \A k \in Keys(t) : k \in DOMAIN sticky /\ t.map[k] = sticky[k]
    BY <1>0, EvictedTable
  <2>3. model_fail' = model_fail
    BY <1>4 DEF PickSelect, healthVars
  <2> HIDE DEF t
  <2> SUFFICES ASSUME NEW k \in DOMAIN sticky', NEW n \in Models,
                      model_fail'[sticky'[k].id][n] > 0
               PROVE  sticky'[k].age <= ModelCooldown - model_fail'[sticky'[k].id][n]
    BY DEF ReboundAfter429
  <2>4. sticky'[k].id \in Accounts
    BY <2>1, BindingFields DEF Good, Table, Keys
  <2>5. CASE sticky'[k].age = 0
    BY <1>0, <2>3, <2>4, <2>5
  <2>6. CASE k \in DOMAIN sticky /\ sticky'[k] = sticky[k]
    BY <1>0, <2>3, <2>6 DEF ReboundAfter429
  <2> QED
    BY <2>1, <2>2, <2>5, <2>6 DEF TouchesOnly
<1>5. ASSUME NEW u, NoteStatus(u) \/ NoteHardCredit(u) \/ NoteError(u)
      PROVE  ReboundAfter429'
  BY <1>0, <1>5, ReboundUnchanged DEF NoteStatus, NoteHardCredit, NoteError, stickyVars
<1>6. ASSUME NEW u \in Held, NEW m \in Models, NoteRateLimit(u, m)
      PROVE  ReboundAfter429'
  <2>1. \A s \in DOMAIN sticky' :
          s \in DOMAIN sticky /\ sticky'[s] = sticky[s] /\ sticky[s].id # u
    BY <1>0, <1>6, SetRemovedKeys DEF NoteRateLimit
  <2>2. \A v \in Accounts : v # u => model_fail'[v] = model_fail[v]
    BY <1>0, <1>6 DEF NoteRateLimit
  <2> QED
    BY <1>0, <1>a, <2>1, <2>2 DEF ReboundAfter429
<1>7. ASSUME NEW u, NEW c, SetCredits(u, c)
      PROVE  ReboundAfter429'
  BY <1>0, <1>7, ReboundUnchanged DEF SetCredits, stickyVars
<1>8. CASE Tick
  <2>1. /\ DOMAIN sticky' = DOMAIN sticky
        /\ \A s \in DOMAIN sticky : /\ sticky'[s].id = sticky[s].id
                                    /\ sticky'[s].age <= sticky[s].age + 1
    BY <1>0, <1>8, AgeAllGood DEF Tick, SetTable, Good, Table, Keys
  <2>2. Good(Table')
    <3>1. Good(AgeAll(Table))
      BY <1>0, AgeAllGood DEF Good
    <3> QED
      BY <1>8, <3>1, SetTableGood DEF Tick
  <2> SUFFICES ASSUME NEW s \in DOMAIN sticky, NEW m \in Models,
                      model_fail'[sticky[s].id][m] > 0
               PROVE  sticky'[s].age <= ModelCooldown - model_fail'[sticky[s].id][m]
    BY <2>1 DEF ReboundAfter429
  <2> DEFINE left == model_fail[sticky[s].id][m]
  <2>3. model_fail'[sticky[s].id][m] = Less(left) /\ left \in Int
    BY <1>0, <1>8, <1>a DEF Tick
  <2>4. left > 0 /\ Less(left) = left - 1
    BY <2>3 DEF Less
  <2>5. sticky[s].age <= ModelCooldown - left
    BY <1>0, <2>4 DEF ReboundAfter429
  <2>6. sticky'[s].age \in Nat
    BY <2>1, <2>2, BindingFields DEF Good, Table, Keys
  <2> HIDE DEF left
  <2> QED
    BY <1>0, <1>a, <2>1, <2>3, <2>4, <2>5, <2>6
<1>9. CASE UNCHANGED vars
  BY <1>0, <1>9, ReboundUnchanged DEF vars, healthVars, stickyVars
<1>10. ASSUME NEW c, NEW v, Refresh(c, v)
       PROVE  ReboundAfter429'
  BY <1>0, <1>10, ReboundUnchanged DEF Refresh, healthVars, stickyVars
<1> QED
  BY <1>1, <1>2, <1>3, <1>4, <1>5, <1>6, <1>7, <1>8, <1>9, <1>10 DEF Next

-----------------------------------------------------------------------------
(***************************************************************************)
(* The inductive invariant.                                                *)
(***************************************************************************)
LEMMA InitIInv == Init => IInv
<1> SUFFICES ASSUME Init
             PROVE  IInv
  OBVIOUS
<1>1. RosterInv
  <2>1. /\ files \in [Paths -> Contents] /\ entries = LoadFiles(<< >>)
        /\ known = CredsOf(entries) /\ hk = [phase |-> "rest", ids |-> {}] /\ picking = 0
    BY DEF Init
  <2>2. << >> \in Seq(Entry) /\ DistinctEntries(<< >>)
    BY DEF DistinctEntries
  <2>3. entries \in Seq(Entry) /\ DistinctEntries(entries)
    BY <2>1, <2>2, LoadFilesProperties
  <2>4. known \in SUBSET Credential
    BY <2>1, <2>3, CredsAreCredentials
  <2> QED
    BY <2>1, <2>3, <2>4 DEF RosterInv, HkPhases, AccountsAreDistinct, DistinctEntries
<1>2. HealthInv
  BY PoolAssumption DEF Init, HealthInv, Never, Unknown, CoolKinds
<1>3. Good(Table)
  <2>1. Table.map = EmptyTable.map /\ Table.order = << >>
    BY DEF Init, Table, EmptyTable
  <2>2. Keys(Table) = {}
    BY <2>1 DEF Keys, EmptyTable
  <2>3. IsFiniteSet({}) /\ Cardinality({}) = 0
    BY FS_EmptySet
  <2>4. TableTypeOK(Table)
    BY <2>1, <2>2, <2>3 DEF TableTypeOK, EmptyTable
  <2>5. Consistent(Table)
    BY <2>1, <2>2, <2>3, StickyAssumption
       DEF Consistent, OrderHoldsKeysOnce, OrderIsByUse, WithinLimit, Members
  <2> QED
    BY <2>4, <2>5 DEF Good
<1>4. rr \in Nat /\ ReboundAfter429
  BY DEF Init, EmptyTable, ReboundAfter429
<1> QED
  BY <1>1, <1>2, <1>3, <1>4 DEF IInv

\* Every step of the pool keeps the invariant.
LEMMA StepIInv == IInv /\ [Next]_vars => IInv'
<1> SUFFICES ASSUME IInv, [Next]_vars
             PROVE  IInv'
  OBVIOUS
<1>1. RosterInv'
  BY RosterStep DEF IInv
<1>2. HealthInv'
  BY HealthStep DEF IInv
<1>3. Good(Table') /\ rr' \in Nat
  BY TableStep
<1>4. ReboundAfter429'
  BY ReboundStep
<1> QED
  BY <1>1, <1>2, <1>3, <1>4 DEF IInv

(***************************************************************************)
(* The inductive invariant holds in every reachable state of the pool.     *)
(***************************************************************************)
THEOREM PoolInvariant == Spec => []IInv
  BY InitIInv, StepIInv, PTL DEF Spec

(***************************************************************************)
(* Every variable of the pool keeps its type (PoolState of pool.rs).       *)
(***************************************************************************)
THEOREM TypeCorrect == Spec => []TypeOK
<1>1. IInv => TypeOK
  BY DEF IInv, RosterInv, HealthInv, Good, TypeOK
<1> QED
  BY <1>1, PoolInvariant, PTL

(***************************************************************************)
(* The sticky map and the eviction deque never drift apart (pick,          *)
(* note_status, prune, evict_sticky, bind_sticky of pool.rs).              *)
(***************************************************************************)
THEOREM StickyTableConsistent == Spec => []StickyConsistent
<1>1. IInv => StickyConsistent
  BY DEF IInv, Good, StickyConsistent
<1> QED
  BY <1>1, PoolInvariant, PTL

(***************************************************************************)
(* A binding of a rate-limited account is younger than the rate limit      *)
(* (note_status against pick).                                             *)
(***************************************************************************)
THEOREM RateLimitUnbinds == Spec => []ReboundAfter429
<1>1. IInv => ReboundAfter429
  BY DEF IInv
<1> QED
  BY <1>1, PoolInvariant, PTL

(***************************************************************************)
(* No file is loaded twice, and no account but by a refresh that took over *)
(* the account of a replaced file (load_files, prune, pick,                *)
(* apply_refresh).                                                         *)
(***************************************************************************)
THEOREM EntriesDistinct == Spec => []AccountsAreDistinct
<1>1. IInv => AccountsAreDistinct
  BY DEF IInv, RosterInv
<1> QED
  BY <1>1, PoolInvariant, PTL

-----------------------------------------------------------------------------
(***************************************************************************)
(* A loaded account's cooldown ends by the passing of time only: the set   *)
(* prune cleans by is captured before other tasks run, and still holds     *)
(* every account that is loaded when it is used (note_status,              *)
(* note_hard_credit, note_error_threshold, prune).                         *)
(***************************************************************************)
LEMMA CooldownStep ==
  ASSUME IInv, [Next]_vars
  PROVE  [NotShortened \/ Tick]_vars
<1> USE DEF HealthInv
<1>0. HealthInv /\ PoolAssumption
  BY PoolAssumption DEF IInv
<1>1. entries' \in Seq(Entry)
  BY RosterStep DEF IInv, RosterInv
<1>2. OwnUids(entries') \in SUBSET Accounts
  BY <1>1, UidsAreAccounts, OwnAmongUids
<1> DEFINE NoLess(u) == /\ \A k \in CoolKinds : fail_until'[u][k] >= fail_until[u][k]
                        /\ \A m \in Models : model_fail'[u][m] >= model_fail[u][m]
<1>3. ASSUME \A u \in OwnUids(entries') : NoLess(u)
      PROVE  NotShortened
  BY <1>3 DEF NotShortened
<1>4. ASSUME UNCHANGED <<fail_until, model_fail>>
      PROVE  NotShortened
  BY <1>0, <1>2, <1>3, <1>4
<1>5. ASSUME NEW p, NEW c, FileChange(p, c)
      PROVE  NotShortened
  BY <1>4, <1>5 DEF FileChange, healthVars
<1>6. CASE Prune \/ Load \/ PickRetain
  BY <1>4, <1>6 DEF Prune, Load, PickRetain, healthVars
<1>7. CASE PruneState
  <2>1. OwnUids(entries') \subseteq hk.ids
    BY <1>7 DEF PruneState, IInv, RosterInv
  <2>2. \A u \in Accounts : u \in hk.ids =>
           fail_until'[u] = fail_until[u] /\ model_fail'[u] = model_fail[u]
    BY <1>7 DEF PruneState
  <2> QED
    BY <1>0, <1>2, <1>3, <2>1, <2>2
<1>8. ASSUME NEW s, NEW m, NEW u, PickSelect(s, m, u)
      PROVE  NotShortened
  BY <1>4, <1>8 DEF PickSelect, healthVars
<1>9. Held \in SUBSET Accounts
  BY HeldAreAccounts DEF IInv, RosterInv
<1>10. ASSUME NEW u \in Held, NEW k \in CoolKinds, NEW n \in Nat,
              fail_until' = [fail_until EXCEPT ![u][k] = n],
              n >= fail_until[u][k], UNCHANGED model_fail
       PROVE  NotShortened
  <2>1. ASSUME NEW v \in Accounts
        PROVE  NoLess(v)
    <3>1. \A j \in CoolKinds : fail_until'[v][j] >= fail_until[v][j]
      BY <1>0, <1>9, <1>10
    <3>2. \A m \in Models : model_fail'[v][m] >= model_fail[v][m]
      BY <1>0, <1>10
    <3> QED
      BY <3>1, <3>2
  <2> QED
    BY <1>2, <1>3, <2>1
<1>11. ASSUME NEW u \in Held, NoteStatus(u)
       PROVE  NotShortened
  BY <1>0, <1>9, <1>10, <1>11 DEF NoteStatus, Cool, CoolKinds, PoolAssumption
<1>12. ASSUME NEW u \in Held, NoteHardCredit(u)
       PROVE  NotShortened
  BY <1>0, <1>9, <1>10, <1>12 DEF NoteHardCredit, Cool, CoolKinds, PoolAssumption
<1>13. ASSUME NEW u \in Held, NoteError(u)
       PROVE  NotShortened
  <2>1. CASE err_counts[u] + 1 >= ErrThreshold
    BY <1>0, <1>9, <1>10, <1>13, <2>1 DEF NoteError, Cool, CoolKinds, PoolAssumption
  <2>2. CASE ~ (err_counts[u] + 1 >= ErrThreshold)
    BY <1>4, <1>13, <2>2 DEF NoteError
  <2> QED
    BY <2>1, <2>2
<1>14. ASSUME NEW u \in Held, NEW m \in Models, NoteRateLimit(u, m)
       PROVE  NotShortened
  <2>1. /\ model_fail' = [model_fail EXCEPT ![u][m] = ModelCooldown]
        /\ UNCHANGED fail_until
    BY <1>14 DEF NoteRateLimit
  <2>2. ASSUME NEW v \in Accounts
        PROVE  NoLess(v)
    <3>1. ASSUME NEW n \in Models
          PROVE  model_fail'[v][n] >= model_fail[v][n]
      BY <1>0, <1>9, <2>1 DEF PoolAssumption
    <3>2. \A j \in CoolKinds : fail_until'[v][j] >= fail_until[v][j]
      BY <1>0, <2>1
    <3> QED
      BY <3>1, <3>2
  <2> QED
    BY <1>2, <1>3, <2>2
<1>15. ASSUME NEW u, NEW c, SetCredits(u, c)
       PROVE  NotShortened
  BY <1>4, <1>15 DEF SetCredits
<1>16. ASSUME NEW c, NEW v, Refresh(c, v)
       PROVE  NotShortened
  BY <1>4, <1>16 DEF Refresh, healthVars
<1> QED
  BY <1>5, <1>6, <1>7, <1>8, <1>11, <1>12, <1>13, <1>14, <1>15, <1>16 DEF Next

\* CooldownNeverShortened holds of every behaviour of the pool.
THEOREM CooldownHolds == Spec => CooldownNeverShortened
<1>1. IInv /\ [Next]_vars => [NotShortened \/ Tick]_vars
  BY CooldownStep
<1> QED
  BY <1>1, PoolInvariant, PTL DEF Spec, CooldownNeverShortened

(***************************************************************************)
(* The account pick returns is loaded, healthy for the model, and of the   *)
(* top rank unless it is the session's own; it returns none only when none *)
(* is healthy (pick).                                                      *)
(***************************************************************************)
THEOREM PickSound == Spec => PickIsSound
<1> DEFINE A == picking' < picking =>
                  \A s \in Sessions \cup {NoSession}, m \in Models,
                     u \in Accounts \cup {NoAccount} :
                       SoundAnswer(s, m, u) \/ ~ PickSelect(s, m, u)
<1>1. ASSUME IInv
      PROVE  A
  <2> SUFFICES ASSUME NEW s \in Sessions \cup {NoSession}, NEW m \in Models,
                      NEW u \in Accounts \cup {NoAccount}, PickSelect(s, m, u)
               PROVE  SoundAnswer(s, m, u)
    OBVIOUS
  <2> DEFINE t == Evict(Table)
  <2>1. Answered(t, s, m, u)
    BY <1>1, PickAnswers
  <2>2. \A k \in Keys(t) : k \in DOMAIN sticky /\ t.map[k] = sticky[k]
    BY <1>1, EvictedTable DEF IInv
  <2> HIDE DEF t
  <2> QED
    BY <2>1, <2>2 DEF Answered, SoundAnswer
<1>2. IInv /\ [Next]_vars => [A]_vars
  BY <1>1
<1> QED
  BY <1>2, PoolInvariant, PTL DEF Spec, PickIsSound

(***************************************************************************)
(* A session keeps its account while the binding is within its ttl and the *)
(* account is loaded and healthy (pick, evict_sticky).                     *)
(***************************************************************************)
THEOREM SessionKeepsAccount == Spec => StickyAffinity
<1> DEFINE A == picking' < picking =>
                  \A s \in Sessions, m \in Models, u \in Accounts \cup {NoAccount} :
                     KeepsAccount(s, m, u) \/ ~ PickSelect(s, m, u)
<1>1. ASSUME IInv
      PROVE  A
  <2> SUFFICES ASSUME NEW s \in Sessions, NEW m \in Models,
                      NEW u \in Accounts \cup {NoAccount}, PickSelect(s, m, u),
                      s \in DOMAIN sticky, sticky[s].age <= StickyTtl,
                      sticky[s].id \in Loaded, Healthy(sticky[s].id, m),
                      Cardinality(DOMAIN sticky) <= StickyMax
               PROVE  u = sticky[s].id /\ s \in DOMAIN sticky' /\ sticky'[s].id = u
    BY DEF KeepsAccount
  <2> DEFINE t == Evict(Table)
  <2>1. Answered(t, s, m, u)
    BY <1>1, PickAnswers
  <2>2. s \in Keys(t)
    BY <1>1, EvictionSpares DEF IInv
  <2>3. t.map[s] = sticky[s]
    BY <1>1, <2>2, EvictedTable DEF IInv
  <2> HIDE DEF t
  <2>4. StickyServes(t, s, m)
    BY <2>2, <2>3 DEF StickyServes
  <2> QED
    BY <2>1, <2>3, <2>4 DEF Answered
<1>2. IInv /\ [Next]_vars => [A]_vars
  BY <1>1
<1> QED
  BY <1>2, PoolInvariant, PTL DEF Spec, StickyAffinity

(***************************************************************************)
(* No binding older than the ttl survives a pick (evict_sticky).           *)
(***************************************************************************)
THEOREM NoExpiredBindingSurvives == Spec => EvictionIsComplete
<1>1. ASSUME IInv, [Next]_vars, picking' < picking
      PROVE  NoneExpired
  <2>0. picking \in Nat
    BY <1>1 DEF IInv, RosterInv
  <2>1. PICK s \in Sessions \cup {NoSession}, m \in Models,
             u \in Accounts \cup {NoAccount} : PickSelect(s, m, u)
    <3>1. picking' # picking
      BY <1>1, <2>0
    <3>2. picking' = picking + 1 => FALSE
      BY <1>1, <2>0
    <3>3. ASSUME NEW c, NEW v, Refresh(c, v)
          PROVE  picking' = picking
      BY <3>3 DEF Refresh
    <3> QED
      BY <1>1, <3>1, <3>2, <3>3
         DEF Next, vars, FileChange, Prune, PruneState, Load, PickRetain, NoteStatus,
             NoteHardCredit, NoteError, NoteRateLimit, SetCredits, Tick, rosterVars
  <2> DEFINE t == Evict(Table)
  <2>2. Answered(t, s, m, u)
    BY <1>1, <2>1, PickAnswers
  <2>3. \A k \in Keys(t) : /\ k \in DOMAIN sticky /\ t.map[k] = sticky[k]
                           /\ sticky[k].age <= StickyTtl
    BY <1>1, EvictedTable DEF IInv
  <2> HIDE DEF t
  <2> QED
    BY <2>2, <2>3, StickyAssumption DEF NoneExpired, Answered, TouchesOnly
<1>2. IInv /\ [Next]_vars => [picking' < picking => NoneExpired]_vars
  BY <1>1
<1> QED
  BY <1>2, PoolInvariant, PTL DEF Spec, EvictionIsComplete

-----------------------------------------------------------------------------
(***************************************************************************)
(* Whatever pass the task is in, the credentials it has left and those     *)
(* that are loaded are ones that have been handed out, each under the      *)
(* account it is of by now.                                                *)
(***************************************************************************)
InPass == {"refresh", "checkin", "retry", "credits"}

InHand ==
  /\ CredsOf(entries) \subseteq known
  /\ todo \in Seq(Credential)
  /\ \A i \in 1 .. Len(todo) : todo[i] \in known
  /\ at \in InPass => todo # << >>

HInv == IInv /\ InHand

-----------------------------------------------------------------------------
\* A credential that was handed out stays known.
LEMMA KnownStep ==
  ASSUME IInv, CredsOf(entries) \subseteq known, [Next]_vars
  PROVE  known \subseteq known' /\ CredsOf(entries') \subseteq known'
<1>0. entries \in Seq(Entry)
  BY DEF IInv, RosterInv
<1>1. CredsOf(OnDisk(entries)) \subseteq known
  BY <1>0, OnDiskProperties
<1>2. CASE Prune \/ PickRetain
  BY <1>1, <1>2 DEF Prune, PickRetain
<1>3. CASE Load
  BY <1>3 DEF Load
<1>4. CASE entries' = entries /\ known' = known
  BY <1>4
<1>5. ASSUME NEW c, NEW v \in Accounts, Refresh(c, v)
      PROVE  known \subseteq known' /\ CredsOf(entries') \subseteq known'
  <2>1. /\ known' = known \cup {[c EXCEPT !.uid = v]}
        /\ entries' = Renewed(entries, c, v) \/ entries' = entries
    BY <1>5 DEF Refresh
  <2>2. CredsOf(Renewed(entries, c, v)) \subseteq CredsOf(entries) \cup {[c EXCEPT !.uid = v]}
    BY <1>0, RenewedProperties
  <2> QED
    BY <2>1, <2>2
<1> QED
  BY <1>2, <1>3, <1>4, <1>5 DEF Next, FileChange, PruneState, PickSelect, NoteStatus,
     NoteHardCredit, NoteError, NoteRateLimit, SetCredits, Tick, vars, rosterVars

\* The snapshot holds known credentials.
LEMMA SnapshotKnown ==
  ASSUME IInv, CredsOf(entries) \subseteq known
  PROVE  /\ Snapshot \in Seq(Credential)
         /\ \A i \in 1 .. Len(Snapshot) : Snapshot[i] \in known
<1>1. entries \in Seq(Entry) /\ known \in SUBSET Credential
  BY DEF IInv, RosterInv
<1>2. DOMAIN entries = 1 .. Len(entries) /\ Len(entries) \in Nat
  BY <1>1
<1>3. \A i \in 1 .. Len(entries) : Cred(entries[i]) \in known
  BY <1>2 DEF CredsOf
<1>4. Snapshot = [i \in 1 .. Len(entries) |-> Cred(entries[i])]
  BY <1>2 DEF Snapshot
<1>5. Snapshot \in Seq(Credential) /\ Len(Snapshot) = Len(entries)
  BY <1>1, <1>2, <1>3, <1>4
<1> QED
  BY <1>3, <1>4, <1>5

\* What is left after the next credential.
LEMMA RestInHand ==
  ASSUME InHand, at \in InPass
  PROVE  /\ Head(todo) \in known
         /\ Tail(todo) \in Seq(Credential)
         /\ \A i \in 1 .. Len(Tail(todo)) : Tail(todo)[i] \in known
<1>1. todo \in Seq(Credential) /\ todo # << >>
  BY DEF InHand
<1>2. Len(todo) \in Nat \ {0} /\ Head(todo) = todo[1]
  BY <1>1
<1>3. Tail(todo) \in Seq(Credential) /\ Len(Tail(todo)) = Len(todo) - 1
  BY <1>1
<1>4. \A i \in 1 .. Len(Tail(todo)) : Tail(todo)[i] = todo[i + 1]
  BY <1>1, <1>3
<1> QED
  BY <1>2, <1>3, <1>4 DEF InHand

-----------------------------------------------------------------------------
\* Every step of the task is one of the pool's, or leaves the pool alone.
LEMMA TaskOnPool ==
  ASSUME HInv, TaskStep
  PROVE  [Next]_vars
<1>1. CASE Rescan
  BY <1>1 DEF Rescan, Next
<1>2. ASSUME at \in InPass
      PROVE  Head(todo) \in known /\ Head(todo).uid \in Held
  BY <1>2, RestInHand DEF HInv, Held
<1>3. CASE RefreshFails
  <2>1. NoteStatus(Head(todo).uid) /\ at \in InPass
    BY <1>3 DEF RefreshFails, InPass
  <2> QED
    BY <1>2, <2>1 DEF Next
<1>4. CASE FetchCredits
  <2>1. at \in InPass
    BY <1>4 DEF FetchCredits, InPass
  <2>2. ASSUME NEW c \in CreditLevels, SetCredits(Head(todo).uid, c)
        PROVE  [Next]_vars
    BY <1>2, <2>1, <2>2 DEF Next
  <2> QED
    BY <1>4, <2>2 DEF FetchCredits
<1>5. CASE RefreshOk \/ Retry
  <2>1. at \in InPass
    BY <1>5 DEF RefreshOk, Retry, InPass
  <2>2. ASSUME NEW v \in Accounts, Refresh(Head(todo), v)
        PROVE  [Next]_vars
    BY <1>2, <2>1, <2>2 DEF Next
  <2> QED
    BY <1>5, <2>2 DEF RefreshOk, Retry, Renew
<1>6. CASE CheckinDue \/ Stop \/ StartRefresh \/ Checkin
  BY <1>6 DEF CheckinDue, Stop, StartRefresh, Checkin, StartPass
<1> QED
  BY <1>1, <1>3, <1>4, <1>5, <1>6 DEF TaskStep

\* So is every step of the others.
LEMMA StepOnPool == HInv /\ [HNext]_hvars => [Next]_vars
<1> SUFFICES ASSUME HInv, [HNext]_hvars
             PROVE  [Next]_vars
  OBVIOUS
<1>1. CASE TaskStep
  BY <1>1, TaskOnPool
<1>2. CASE Others
  BY <1>2 DEF Others, Next
<1>3. CASE OthersRefresh
  BY <1>3 DEF OthersRefresh, Next
<1>4. CASE RequestShutdown \/ UNCHANGED hvars
  BY <1>4 DEF RequestShutdown, hvars
<1> QED
  BY <1>1, <1>2, <1>3, <1>4 DEF HNext

\* A step of the task keeps what it has in hand among what is known.
LEMMA TaskInHand ==
  ASSUME HInv, TaskStep
  PROVE  InHand'
<1>1. known \subseteq known' /\ CredsOf(entries') \subseteq known'
  BY TaskOnPool, KnownStep DEF HInv, InHand
<1>2. CASE Rescan \/ Stop
  <2>1. CASE todo' = << >> /\ at' \in {"reload", "stopped"}
    BY <1>1, <2>1 DEF InHand, InPass
  <2>2. CASE todo' = todo /\ at' = at
    BY <1>1, <2>2 DEF InHand, HInv
  <2> QED
    BY <1>2, <2>1, <2>2 DEF Rescan, Stop, GoTo, taskVars
<1>3. CASE CheckinDue \/ StartRefresh
  <2>1. CASE todo' = << >> /\ at' = "select"
    BY <1>1, <2>1 DEF InHand, InPass
  <2>2. CASE todo' = Snapshot /\ (Snapshot = << >> => at' = "select")
    BY <1>1, <2>2, SnapshotKnown DEF InHand, HInv, InPass
  <2> QED
    BY <1>3, <2>1, <2>2 DEF CheckinDue, StartRefresh, StartPass, GoTo
<1>4. CASE Checkin \/ Retry \/ RefreshOk \/ RefreshFails \/ FetchCredits
  <2>1. at \in InPass
    BY <1>4 DEF Checkin, Retry, RefreshOk, RefreshFails, FetchCredits, InPass
  <2>2. CASE todo' = todo
    BY <1>1, <2>1, <2>2 DEF InHand, HInv
  <2>3. CASE todo' = Tail(todo) /\ (Tail(todo) = << >> => at' = "select")
    BY <1>1, <2>1, <2>3, RestInHand DEF InHand, HInv, InPass
  <2> QED
    BY <1>4, <2>2, <2>3 DEF Checkin, Retry, RefreshOk, RefreshFails, FetchCredits, GoTo,
       Continue
<1> QED
  BY <1>2, <1>3, <1>4 DEF TaskStep

\* A refresh by a request renews the credential in the pass too.
LEMMA OthersInHand ==
  ASSUME HInv, OthersRefresh
  PROVE  InHand'
<1>1. CredsOf(entries') \subseteq known' /\ known \subseteq known'
  BY StepOnPool, KnownStep DEF HInv, InHand, HNext
<1>2. PICK c \in known, v \in Accounts :
        /\ Refresh(c, v)
        /\ \/ todo' = [i \in DOMAIN todo |-> IF todo[i] = c THEN [c EXCEPT !.uid = v]
                                             ELSE todo[i]]
           \/ todo' = todo
        /\ at' = at
  BY DEF OthersRefresh
<1>3. todo \in Seq(Credential) /\ known \in SUBSET Credential
  BY DEF HInv, InHand, IInv, RosterInv
<1>4. [c EXCEPT !.uid = v] \in Credential
  BY <1>3 DEF Credential
<1>5. [c EXCEPT !.uid = v] \in known'
  BY <1>2 DEF Refresh
<1>6. CASE todo' = todo
  BY <1>1, <1>2, <1>6 DEF HInv, InHand
<1>7. CASE todo' = [i \in DOMAIN todo |-> IF todo[i] = c THEN [c EXCEPT !.uid = v]
                                          ELSE todo[i]]
  <2>1. DOMAIN todo = 1 .. Len(todo) /\ Len(todo) \in Nat
    BY <1>3
  <2>2. \A i \in 1 .. Len(todo) : todo[i] \in Credential /\ todo[i] \in known
    BY <1>3, <2>1 DEF HInv, InHand
  <2>3. todo' \in [1 .. Len(todo) -> Credential]
    BY <1>4, <1>7, <2>1, <2>2
  <2>4. todo' \in Seq(Credential) /\ Len(todo') = Len(todo)
    BY <2>1, <2>3
  <2>5. \A i \in 1 .. Len(todo') : todo'[i] \in known'
    BY <1>1, <1>5, <1>7, <2>1, <2>2, <2>4
  <2>6. at' \in InPass => todo' # << >>
    <3>1. at' \in InPass => Len(todo) # 0
      BY <1>2, <1>3 DEF HInv, InHand
    <3> QED
      BY <2>4, <3>1
  <2> QED
    BY <1>1, <2>4, <2>5, <2>6 DEF InHand
<1> QED
  BY <1>2, <1>6, <1>7

LEMMA InitHInv == HInit => HInv
<1> SUFFICES ASSUME HInit
             PROVE  HInv
  OBVIOUS
<1>1. IInv
  BY InitIInv DEF HInit
<1>2. CredsOf(entries) \subseteq known
  BY DEF HInit, Init
<1> QED
  BY <1>1, <1>2 DEF HInit, HInv, InHand, InPass

LEMMA NextHInv == HInv /\ [HNext]_hvars => HInv'
<1> SUFFICES ASSUME HInv, [HNext]_hvars
             PROVE  HInv'
  OBVIOUS
<1>1. [Next]_vars
  BY StepOnPool
<1>2. IInv'
  BY <1>1, StepIInv DEF HInv
<1>3. CASE TaskStep
  BY <1>2, <1>3, TaskInHand DEF HInv
<1>4. CASE OthersRefresh
  BY <1>2, <1>4, OthersInHand DEF HInv
<1>5. CASE UNCHANGED <<at, todo>>
  <2>1. known \subseteq known' /\ CredsOf(entries') \subseteq known'
    BY <1>1, KnownStep DEF HInv, InHand
  <2> QED
    BY <1>2, <1>5, <2>1 DEF HInv, InHand
<1> QED
  BY <1>3, <1>4, <1>5 DEF HNext, hvars, taskVars, RequestShutdown

-----------------------------------------------------------------------------
(***************************************************************************)
(* Housekeeping, with its passes, retries and shutdown at any point, uses  *)
(* the pool as Pool allows (housekeep.rs, refresh_due, checkin_all).       *)
(***************************************************************************)
THEOREM Implementation == HSpec => ImplementsPool
<1>1. HInit => Init
  BY DEF HInit
<1>2. QED
  BY <1>1, InitHInv, NextHInv, StepOnPool, PTL DEF HSpec, ImplementsPool

(***************************************************************************)
(* The same under every housekeeping schedule, whose passes refresh tokens *)
(* and so replace accounts (load_files, prune, pick, apply_refresh).       *)
(***************************************************************************)
THEOREM EntriesDistinctInPasses == HSpec => []AccountsAreDistinct
BY Implementation, EntriesDistinct, PTL DEF ImplementsPool, Spec
=============================================================================
