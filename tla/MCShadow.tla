------------------------------ MODULE MCShadow ------------------------------
(***************************************************************************)
(* Instances of Shadow for TLC.                                            *)
(***************************************************************************)
EXTENDS Shadow, TLC

CONSTANTS c1, c2, c3

\* A turn with two calls and a turn with one.
Lists == {<<c1, c2>>, <<c3>>}

Symmetry == Permutations(Sessions)
=============================================================================
