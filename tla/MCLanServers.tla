--------------------------- MODULE MCLanServers -----------------------------
(***************************************************************************)
(* A small instance of LanServers for TLC.                                 *)
(***************************************************************************)
EXTENDS LanServers, TLC

\* Processes, names and addresses are interchangeable.
Symmetry == Permutations(Procs) \cup Permutations(Names) \cup Permutations(Addrs)
=============================================================================
