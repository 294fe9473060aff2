---------------------------- MODULE MCHousekeeping ----------------------------
(***************************************************************************)
(* Instances of Housekeeping for TLC.                                      *)
(***************************************************************************)
EXTENDS Housekeeping, TLC

CONSTANTS a, b

\* Credits play no part here: the level is the one of an account not looked up.
InDebt == {Unknown}

\* The first file comes and goes; the second may hold anything.
FilesComeAndGo == ({1} \X {a, NoFile}) \cup ({2} \X Contents)
=============================================================================
