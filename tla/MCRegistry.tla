----------------------------- MODULE MCRegistry ------------------------------
(***************************************************************************)
(* A small instance of Registry for TLC.                                   *)
(***************************************************************************)
EXTENDS Registry, TLC

\* Processes are interchangeable.
ProcSymmetry == Permutations(Procs)
=============================================================================
