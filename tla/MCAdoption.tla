----------------------------- MODULE MCAdoption ------------------------------
(***************************************************************************)
(* A small instance of Adoption for TLC.                                   *)
(***************************************************************************)
EXTENDS Adoption, TLC

\* Processes are interchangeable: they differ in nothing but their state.
ProcSymmetry == Permutations(Procs)
=============================================================================
