---------------------------- MODULE MCController ----------------------------
(* Small instances of Controller for TLC. *)
EXTENDS Controller, TLC

Symmetric == Permutations(AuthIds) \cup Permutations(PlayIds)
               \cup Permutations(SetupIds) \cup Permutations(Origins)

\* What was posted last: every handler writes it and none reads it.
View == <<state, authVars, setupVars, viewVars, pageVars, told>>
=============================================================================
