----------------------------- MODULE MCDownloads -----------------------------
(***************************************************************************)
(* Downloads on the instance of Downloads.cfg: one version is shorter than *)
(* the others.                                                             *)
(***************************************************************************)
EXTENDS Downloads, TLC

CONSTANT Short  \* the shorter version

Sizes == [v \in Versions |-> IF v = Short THEN 1 ELSE Blocks]

\* Calls and lock objects are interchangeable.
NameSymmetry == Permutations(Calls) \cup Permutations(Locks)
=============================================================================
