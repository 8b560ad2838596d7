--------------------------- MODULE MCUpgradeBackup ---------------------------
(* Small instances of UpgradeBackup for TLC. *)
EXTENDS UpgradeBackup

\* Versions 0.9 and 0.10, with the place of their names in a directory listing.
Releases == {9, 10}
NameOrder == [v \in Releases |-> IF v = 10 THEN 1 ELSE 2]
=============================================================================
