-------------------------- MODULE MCRuntimeMonitor --------------------------
(* Small instances of RuntimeMonitor for TLC. *)
EXTENDS RuntimeMonitor, TLC

Symmetric == Permutations(Threads)
=============================================================================
