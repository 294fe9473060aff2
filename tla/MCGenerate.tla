----------------------------- MODULE MCGenerate -----------------------------
(***************************************************************************)
(* Instances of Generate for TLC.                                          *)
(***************************************************************************)
EXTENDS Generate

Small(k) == [kind |-> k, huge |-> FALSE]
Huge(k)  == [kind |-> k, huge |-> TRUE]

\* Every kind of head, oversized ones, and errors behind data and a note.
SampleBodies ==
  {<< >>, <<Small("fault")>>, <<Small("quota")>>,
   <<Huge("quota")>>, <<Huge("data")>>,
   <<Small("data"), Small("quota")>>, <<Small("note"), Small("quota")>>}
=============================================================================
