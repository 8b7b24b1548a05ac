------------------------------ MODULE MCAssets -------------------------------
(***************************************************************************)
(* A small instance of Assets for TLC.                                     *)
(***************************************************************************)
EXTENDS Assets, TLC

\* Processes, files and versions are interchangeable.
Symmetry == Permutations(Pushes) \cup Permutations(Files) \cup Permutations(Versions)

\* No property of the run says anything once two pushes overlapped or a tree
\* changed under one: such a state is not explored further.
NotCrossed == ~ crossed
=============================================================================
