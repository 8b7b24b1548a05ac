----------------------------- MODULE MCAuthKeys ------------------------------
(***************************************************************************)
(* A small instance of AuthKeys for TLC.                                   *)
(***************************************************************************)
EXTENDS AuthKeys, TLC

\* Processes are interchangeable.
ProcSymmetry == Permutations(Syncs)
=============================================================================
