------------------------------- MODULE Sticky -------------------------------
(***************************************************************************)
(* The sticky-session table of the account pool: the map from a session    *)
(* fingerprint to the account that serves it and the time since it was     *)
(* last used, and the deque that gives the order of eviction.              *)
(*                                                                         *)
(* The code keeps Instants and only ever compares their distance to now.   *)
(* Here a binding carries that distance, its age, counted in ticks; every  *)
(* age above the ttl means the same to the code and is StickyTtl + 1.      *)
(***************************************************************************)
EXTENDS Naturals, Sequences, FiniteSets, Deque

CONSTANTS Sessions,   (* session fingerprints                              *)
          Accounts,   (* account uids                                      *)
          StickyMax,  (* limits.sticky_max                                 *)
          StickyTtl   (* limits.sticky_ttl_secs, in ticks                  *)

ASSUME StickyAssumption == StickyMax \in Nat /\ StickyTtl \in Nat

Ages    == 0 .. StickyTtl + 1
Binding == [id : Accounts, age : Ages]

(***************************************************************************)
(* A table is a record of the map and of the order.                        *)
(***************************************************************************)
Keys(t) == DOMAIN t.map

EmptyTable == [map |-> [s \in {} |-> s], order |-> << >>]

\* remove_sticky, for every key of K.
RemoveKeys(t, K) ==
  [map   |-> [s \in Keys(t) \ K |-> t.map[s]],
   order |-> Retain(t.order, Sessions \ K)]

OwnedBy(t, ids) == {s \in Keys(t) : t.map[s].id \in ids}

(***************************************************************************)
(* evict_sticky pops the front while it is expired, or missing from the    *)
(* map, or the map is above its limit.  The keys popped are those of the   *)
(* longest prefix every element of which is popped when it becomes front.  *)
(***************************************************************************)
\* Mutant of Stale: a binding that is exactly ttl old counts as expired.
StaleAtTtl(t, key) == key \notin Keys(t) \/ t.map[key].age >= StickyTtl

Stale(t, key) == key \notin Keys(t) \/ t.map[key].age > StickyTtl

LeftAt(t, i) == Keys(t) \ {t.order[j] : j \in 1 .. i - 1}

PopsAt(t, i) ==
  Stale(t, t.order[i]) \/ Cardinality(LeftAt(t, i)) > StickyMax

Popped(t) ==
  {t.order[i] : i \in {n \in DOMAIN t.order : \A j \in 1 .. n : PopsAt(t, j)}}

\* Mutant of Evict: the loop became an if.
EvictFrontOnly(t) ==
  IF t.order # << >> /\ PopsAt(t, 1) THEN RemoveKeys(t, {Head(t.order)}) ELSE t

Evict(t) == RemoveKeys(t, Popped(t))

\* A sticky hit: touch the binding and move its key to the back.
Touch(t, s) ==
  [map   |-> [t.map EXCEPT ![s].age = 0],
   order |-> Append(Retain(t.order, Sessions \ {s}), s)]

\* Mutant of MakeRoom: the front is dropped only when the limit is exceeded.
MakeRoomLate(t, s) ==
  IF s \notin Keys(t) /\ Cardinality(Keys(t)) > StickyMax /\ t.order # << >>
  THEN RemoveKeys(t, {Head(t.order)})
  ELSE t

\* bind_sticky: make room by dropping the front, then insert and push back.
MakeRoom(t, s) ==
  IF s \notin Keys(t) /\ Cardinality(Keys(t)) >= StickyMax /\ t.order # << >>
  THEN RemoveKeys(t, {Head(t.order)})
  ELSE t

Bind(t, s, id) ==
  LET r == MakeRoom(t, s)
  IN  [map   |-> [k \in Keys(r) \cup {s} |->
                    IF k = s THEN [id |-> id, age |-> 0] ELSE r.map[k]],
       order |-> Append(r.order, s)]

\* One tick passes.
Older(age) == IF age > StickyTtl THEN age ELSE age + 1

AgeAll(t) ==
  [map   |-> [s \in Keys(t) |-> [t.map[s] EXCEPT !.age = Older(@)]],
   order |-> t.order]

(***************************************************************************)
(* What makes a table consistent: the deque holds each key of the map      *)
(* exactly once and nothing else, from the least to the most recently      *)
(* used, and the map stays within its limit.  bind_sticky inserts before   *)
(* it looks at the limit of an empty table, so a limit of 0 still lets     *)
(* one binding in until the next eviction.                                 *)
(***************************************************************************)
TableTypeOK(t) ==
  /\ Keys(t) \subseteq Sessions
  /\ IsFiniteSet(Keys(t))
  /\ t.map \in [Keys(t) -> Binding]
  /\ t.order \in Seq(Sessions)

OrderHoldsKeysOnce(t) ==
  /\ Members(t.order) = Keys(t)
  /\ \A i, j \in DOMAIN t.order : t.order[i] = t.order[j] => i = j

OrderIsByUse(t) ==
  \A i, j \in DOMAIN t.order :
     i < j => t.map[t.order[i]].age >= t.map[t.order[j]].age

WithinLimit(t) == Cardinality(Keys(t)) <= (IF StickyMax = 0 THEN 1 ELSE StickyMax)

Consistent(t) == OrderHoldsKeysOnce(t) /\ OrderIsByUse(t) /\ WithinLimit(t)
=============================================================================
