------------------------------- MODULE MCSetup -------------------------------
(* Small instances of Setup for TLC.  They check liveness, for which the
   symmetry of the ids and the servers is of no use. *)
EXTENDS Setup
=============================================================================
