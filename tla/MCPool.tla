------------------------------- MODULE MCPool -------------------------------
(***************************************************************************)
(* Instances of Pool for TLC.                                              *)
(***************************************************************************)
EXTENDS Pool, TLC

CONSTANTS a, b, s1, s2, s3

\* The first file may be deleted, until a refresh writes it again.
Deletions == {1} \X {NoFile}

\* Files come, go and are replaced by those of another account.
AnyFileChange == Paths \X Contents

Symmetry == Permutations(Sessions) \cup Permutations(Accounts)
=============================================================================
