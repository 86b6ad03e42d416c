------------------------- MODULE MCLifecycleAdapter -------------------------
(* Instances of LifecycleAdapter for TLC.                                  *)
EXTENDS LifecycleAdapter, TLC

Symmetry == Permutations(Pid) \cup Permutations(Context)
=============================================================================
