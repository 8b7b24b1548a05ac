------------------------------ MODULE MCOverlay ------------------------------
(***************************************************************************)
(* A small instance of Overlay for TLC.                                    *)
(***************************************************************************)
EXTENDS Overlay, TLC

\* Processes and addresses are interchangeable.
Symmetry == Permutations(Procs) \cup Permutations(IPs)
=============================================================================
