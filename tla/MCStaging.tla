----------------------------- MODULE MCStaging ------------------------------
(***************************************************************************)
(* A small instance of Staging for TLC.                                    *)
(***************************************************************************)
EXTENDS Staging, TLC

\* Processes and contents are interchangeable.
Symmetry == Permutations(Procs) \cup Permutations(Values)
=============================================================================
