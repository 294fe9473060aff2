------------------------------- MODULE Deque -------------------------------
(***************************************************************************)
(* The retain operation of the sequences the account pool keeps: the       *)
(* VecDeque of sticky keys and the Vec of pool entries.  It is stated      *)
(* through an increasing enumeration of the kept positions, a form that    *)
(* theorems can be proved about, and not through the recursive SelectSeq.  *)
(* The enumeration is also what a walk over a BTreeMap visits.             *)
(***************************************************************************)
EXTENDS Naturals, Sequences

IsIncreasing(f) == \A i, j \in DOMAIN f : i < j => f[i] < f[j]

(***************************************************************************)
(* The elements of I, a set of positions not above n, in increasing order. *)
(***************************************************************************)
Enumerates(f, I) == IsIncreasing(f) /\ I = {f[i] : i \in DOMAIN f}

Enumerate(I, n) ==
  CHOOSE f \in UNION {[1 .. m -> I] : m \in 0 .. n} : Enumerates(f, I)

(***************************************************************************)
(* s.retain(...): the elements of s at the positions in I, order kept.     *)
(***************************************************************************)
Compact(s, I) ==
  LET f == Enumerate(I, Len(s)) IN [i \in DOMAIN f |-> s[f[i]]]

Retain(s, keep) == Compact(s, {i \in DOMAIN s : s[i] \in keep})

Members(s) == {s[i] : i \in DOMAIN s}
============================================================================
