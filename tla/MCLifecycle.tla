---------------------------- MODULE MCLifecycle ----------------------------
(***************************************************************************)
(* Instances of Lifecycle for TLC.                                         *)
(***************************************************************************)
EXTENDS Lifecycle, TLC

CONSTANTS o1, o2, o3, r1, r2

\* Objects, like requests, are interchangeable.
LifecycleSymmetry == Permutations(Objects) \cup Permutations(Requests)
=============================================================================
