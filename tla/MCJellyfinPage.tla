--------------------------- MODULE MCJellyfinPage ---------------------------
(* Small instances of JellyfinPage for TLC.  They check liveness, for which
   the symmetry of the items and the sessions is of no use. *)
EXTENDS JellyfinPage
=============================================================================
