---------------------------- MODULE Supervision ----------------------------
(***************************************************************************)
(* What the standalone mode promises of the bundled server, whoever does   *)
(* it and in whatever steps: a server that fails is replaced by itself     *)
(* once in the life of an application, every further replacement is the    *)
(* user's own, and nobody is given up before that one attempt was spent    *)
(* (automatic_restart_attempted and runtime_failed of src/extension.rs).   *)
(* RuntimeMonitor implements it with threads that race for a mutex,        *)
(* UpgradeBackup with a start that may fail at each of its steps.          *)
(***************************************************************************)

VARIABLES
  phase,  \* who is looked after, and how
  spent   \* the automatic restart of this application was used

vars == <<phase, spent>>

Init == phase = "off" /\ spent = FALSE

\* CEF is live over a server that was ready once: it is watched from here on.
Serve ==
  /\ phase = "off" /\ phase' = "serving"
  /\ spent' = FALSE

\* The monitor replaces the server, once.
Restart ==
  /\ phase = "serving" /\ ~spent
  /\ phase' = "replacing"
  /\ spent' = TRUE

\* The replacement is ready.
Recover ==
  /\ phase = "replacing" /\ phase' = "serving"
  /\ UNCHANGED spent

\* The server is left to the recovery view.
GiveUp ==
  /\ phase \in {"serving", "replacing"} /\ spent
  /\ phase' = "down"
  /\ UNCHANGED spent

\* runtime.retry of the recovery view.
Retry ==
  /\ phase = "down" /\ phase' = "replacing"
  /\ UNCHANGED spent

\* The application ends, or its monitor does because it is ending.
End ==
  /\ phase # "off" /\ phase' = "off"
  /\ spent' = FALSE

Next == Serve \/ Restart \/ Recover \/ GiveUp \/ Retry \/ End

Spec == Init /\ [][Next]_vars
=============================================================================
