---------------------------- MODULE MCExtension -----------------------------
(* Small instances of Extension for TLC. *)
EXTENDS Extension, TLC

Symmetric == Permutations(AuthIds) \cup Permutations(PlayIds) \cup Permutations(Origins)
=============================================================================
