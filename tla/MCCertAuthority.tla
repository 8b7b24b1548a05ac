--------------------------- MODULE MCCertAuthority ---------------------------
(***************************************************************************)
(* A small instance of CertAuthority for TLC.                              *)
(***************************************************************************)
EXTENDS CertAuthority, TLC

\* Processes and lists of names are interchangeable.
Symmetry == Permutations(Procs) \cup Permutations(Sans)
=============================================================================
