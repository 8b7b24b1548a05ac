----------------------------- MODULE MCSshConfig -----------------------------
(***************************************************************************)
(* A small instance of SshConfig for TLC.                                  *)
(***************************************************************************)
EXTENDS SshConfig, TLC

\* Processes, VMs, addresses and lines are interchangeable.
Symmetry == Permutations(Procs) \cup Permutations(VMs) \cup Permutations(IPs) \cup Permutations(Own)

\* No property of the run says anything of a torn file, nor, once an update was
\* lost, anything but StripsCleanly, which is not about the records: neither is
\* explored further, the latter from where a record may be missing.
Bounded == ~ torn /\ (lost => adrift = {})
=============================================================================
