------------------------------- MODULE MCAbort -------------------------------
EXTENDS AbortReconciler, TLC

(* Timers are alike, and so are workers.                                   *)
Symmetry == Permutations(Timers) \cup Permutations(Workers)
==============================================================================
