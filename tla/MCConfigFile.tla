---------------------------- MODULE MCConfigFile ----------------------------
(* Small instances of ConfigFile for TLC. *)
EXTENDS ConfigFile, TLC

Budgets == {1, 2, 3}
Fresh == [mode |-> "standalone", url |-> CHOOSE url \in Urls : TRUE, limit |-> 2]
Symmetric == Permutations(Processes) \cup Permutations(Inodes)
=============================================================================
