---------------------------- MODULE MCLifecycle -----------------------------
(***************************************************************************)
(* A small instance of Lifecycle for TLC.                                  *)
(***************************************************************************)
EXTENDS Lifecycle, TLC

\* Processes are interchangeable.
ProcSymmetry == Permutations(Procs)
=============================================================================
