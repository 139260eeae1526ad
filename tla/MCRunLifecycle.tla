--------------------------- MODULE MCRunLifecycle ---------------------------
(* RunLifecycle for TLC.  The properties of the safety runs treat all runs, *)
(* workers and callers alike; the run with liveness uses no symmetry.       *)
EXTENDS RunSessionInvariant, TLC

Symmetry == Permutations(Runs) \cup Permutations(Workers) \cup Permutations(Callers)
=============================================================================
