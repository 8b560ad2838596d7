--------------------------- MODULE RuntimeMonitor ---------------------------
(***************************************************************************)
(* Who keeps the bundled server alive in standalone mode: the threads that *)
(* watch it and restart it (monitor_standalone_runtime and                 *)
(* retry_standalone_runtime of src/extension.rs), the supervisor they lock *)
(* (src/supervisor.rs), the recovery view (foreseer-native.js) and the two *)
(* places that shut the server down (on_runtime_event, main).              *)
(***************************************************************************)
EXTENDS Naturals, FiniteSets

CONSTANTS
  Threads,    \* threads that can run at once
  Free,       \* the supervisor's mutex is not held
  Threshold   \* unhealthy probes in a row that count as a failure: 3

ASSUME ThresholdAssumption == Threshold \in Nat \ {0}
ASSUME FreeAssumption == Free \notin Threads

VARIABLES
  child,         \* the supervisor's Node child
  starting,      \* a replacement child was spawned and is not yet ready
  heard,         \* the last playback state the child was sent
  lock,          \* who restarts the child under the supervisor's mutex
  role,          \* what each running thread is
  pc,            \* where it stands
  unhealthy,     \* consecutive_unhealthy of its tracker
  restartTried,  \* automatic_restart_attempted
  runtimeFailed, \* runtime_failed
  shuttingDown,  \* runtime_shutting_down
  view,          \* what the frontend shows
  live,          \* on_runtime_ready has run
  notice,        \* the ShutdownBeginning callback
  main           \* the main thread

childVars == <<child, starting, heard, lock>>
threadVars == <<role, pc, unhealthy>>
flagVars == <<restartTried, runtimeFailed, shuttingDown>>
exitVars == <<notice, main>>
vars == <<childVars, threadVars, flagVars, exitVars, view, live>>

Roles == {"monitor", "retry"}
Steps == {"idle", "wake", "probe", "confirm", "restart", "stopped", "starting",
          "giveUp", "report", "announce", "handOver"}

TypeOK ==
  /\ child \in {"up", "sick", "dead"} /\ starting \in BOOLEAN
  /\ heard \in {"nothing", "idle", "playing"}
  /\ lock \in Threads \cup {Free}
  /\ role \in [Threads -> Roles] /\ pc \in [Threads -> Steps]
  /\ unhealthy \in [Threads -> 0 .. Threshold]
  /\ restartTried \in BOOLEAN /\ runtimeFailed \in BOOLEAN /\ shuttingDown \in BOOLEAN
  /\ view \in {"ok", "failed", "retrying"} /\ live \in BOOLEAN
  /\ notice \in {"none", "begun", "done"}
  /\ main \in {"running", "leaving", "exited"}

Init ==
  /\ child = "up" /\ starting = FALSE /\ heard = "nothing" /\ lock = Free
  /\ role = [t \in Threads |-> "monitor"] /\ pc = [t \in Threads |-> "idle"]
  /\ unhealthy = [t \in Threads |-> 0]
  /\ restartTried = FALSE /\ runtimeFailed = FALSE /\ shuttingDown = FALSE
  /\ view = "ok" /\ live = FALSE /\ notice = "none" /\ main = "running"

\* Nothing of the process is left to act once main has exited.
Alive == main # "exited"

Goto(t, step) == pc' = [pc EXCEPT ![t] = step]

Start(t, as) ==
  /\ pc[t] = "idle"
  /\ role' = [role EXCEPT ![t] = as]
  /\ unhealthy' = [unhealthy EXCEPT ![t] = 0]

(***************************************************************************)
(* The child on its own, and the callbacks that talk to it.                *)
(***************************************************************************)
ChildChanges(health) ==
  /\ child \notin {"dead", health}
  /\ child' = health
  /\ UNCHANGED <<starting, heard, lock, threadVars, flagVars, exitVars, view, live>>

\* on_runtime_ready tells the child nothing plays and starts the monitor.
RuntimeReady(t) ==
  /\ Alive /\ ~live /\ lock = Free
  /\ live' = TRUE
  /\ heard' = "idle"
  /\ Start(t, "monitor") /\ Goto(t, "wake")
  /\ UNCHANGED <<child, starting, lock, flagVars, exitVars, view>>

\* set_playback_active waits for the mutex.
PlaybackChanges(state) ==
  /\ Alive /\ live /\ lock = Free
  /\ heard' = state
  /\ UNCHANGED <<child, starting, lock, threadVars, flagVars, exitVars, view, live>>

(***************************************************************************)
(* monitor_standalone_runtime                                              *)
(***************************************************************************)
Wake(t) ==
  /\ Alive /\ pc[t] = "wake"
  /\ Goto(t, IF shuttingDown THEN "idle" ELSE "probe")
  /\ UNCHANGED <<childVars, role, unhealthy, flagVars, exitVars, view, live>>

\* Mutant: the threshold is passed before the tracker reports it.
ProbeLate(t) ==
  /\ Alive /\ pc[t] = "probe" /\ lock = Free
  /\ \/ /\ child = "up"
        /\ unhealthy' = [unhealthy EXCEPT ![t] = 0] /\ Goto(t, "wake")
     \/ /\ child = "dead"
        /\ UNCHANGED unhealthy /\ Goto(t, "confirm")
     \/ /\ child = "sick"
        /\ unhealthy' = [unhealthy EXCEPT ![t] = @ + 1]
        /\ Goto(t, IF unhealthy[t] >= Threshold THEN "confirm" ELSE "wake")
  /\ UNCHANGED <<childVars, role, flagVars, exitVars, view, live>>

\* Mutant: a child that exited is taken for one that answers.
ProbeBlind(t) ==
  /\ Alive /\ pc[t] = "probe" /\ lock = Free
  /\ \/ /\ child # "sick"
        /\ unhealthy' = [unhealthy EXCEPT ![t] = 0] /\ Goto(t, "wake")
     \/ /\ child = "sick"
        /\ unhealthy' = [unhealthy EXCEPT ![t] = IF @ < Threshold THEN @ + 1 ELSE @]
        /\ Goto(t, IF unhealthy[t] + 1 >= Threshold THEN "confirm" ELSE "wake")
  /\ UNCHANGED <<childVars, role, flagVars, exitVars, view, live>>

\* health and RuntimeHealthTracker.observe, under the mutex.
Probe(t) ==
  /\ Alive /\ pc[t] = "probe" /\ lock = Free
  /\ \/ /\ child = "up"
        /\ unhealthy' = [unhealthy EXCEPT ![t] = 0] /\ Goto(t, "wake")
     \/ /\ child = "dead"
        /\ UNCHANGED unhealthy /\ Goto(t, "confirm")
     \/ /\ child = "sick"
        /\ unhealthy' = [unhealthy EXCEPT ![t] = IF @ < Threshold THEN @ + 1 ELSE @]
        /\ Goto(t, IF unhealthy[t] + 1 >= Threshold THEN "confirm" ELSE "wake")
  /\ UNCHANGED <<childVars, role, flagVars, exitVars, view, live>>

\* Mutant: the attempt is not remembered.
ConfirmForgetting(t) ==
  /\ Alive /\ pc[t] = "confirm"
  /\ Goto(t, IF shuttingDown THEN "idle" ELSE IF restartTried THEN "giveUp" ELSE "restart")
  /\ UNCHANGED <<childVars, role, unhealthy, flagVars, exitVars, view, live>>

\* The first failure of the application's life is answered by a restart.
Confirm(t) ==
  /\ Alive /\ pc[t] = "confirm"
  /\ IF shuttingDown
       THEN Goto(t, "idle") /\ UNCHANGED restartTried
       ELSE /\ Goto(t, IF restartTried THEN "giveUp" ELSE "restart")
            /\ restartTried' = TRUE
  /\ UNCHANGED <<childVars, role, unhealthy, runtimeFailed, shuttingDown, exitVars, view,
                 live>>

(***************************************************************************)
(* retry_on_original_port, called with the mutex held: the old child is    *)
(* shut down, then a replacement is spawned and awaited.                   *)
(***************************************************************************)
\* Mutant: the old child is left running.
StopOldNot(t) ==
  /\ Alive /\ pc[t] = "restart" /\ lock = Free
  /\ lock' = t
  /\ Goto(t, "stopped")
  /\ UNCHANGED <<child, starting, heard, role, unhealthy, flagVars, exitVars, view, live>>

StopOld(t) ==
  /\ Alive /\ pc[t] = "restart" /\ lock = Free
  /\ lock' = t
  /\ child' = "dead"
  /\ Goto(t, "stopped")
  /\ UNCHANGED <<starting, heard, role, unhealthy, flagVars, exitVars, view, live>>

SpawnNew(t) ==
  /\ Alive /\ pc[t] = "stopped"
  /\ starting' = TRUE
  /\ Goto(t, "starting")
  /\ UNCHANGED <<child, heard, lock, role, unhealthy, flagVars, exitVars, view, live>>

StartSucceeds(t) ==
  /\ Alive /\ pc[t] = "starting"
  /\ starting' = FALSE
  /\ child' = "up" /\ heard' = "nothing"
  /\ lock' = Free
  /\ Goto(t, "announce")
  /\ UNCHANGED <<role, unhealthy, flagVars, exitVars, view, live>>

\* Mutant: a failed start leaves the mutex locked.
StartFailsLocked(t) ==
  /\ Alive /\ pc[t] \in {"stopped", "starting"}
  /\ starting' = FALSE
  /\ Goto(t, "giveUp")
  /\ UNCHANGED <<child, heard, lock, role, unhealthy, flagVars, exitVars, view, live>>

\* Nothing was spawned, it was not ready in time, or it took another port.
StartFails(t) ==
  /\ Alive /\ pc[t] \in {"stopped", "starting"}
  /\ starting' = FALSE
  /\ lock' = Free
  /\ Goto(t, "giveUp")
  /\ UNCHANGED <<child, heard, role, unhealthy, flagVars, exitVars, view, live>>

(***************************************************************************)
(* What the two kinds of threads do next.                                  *)
(***************************************************************************)

\* runtime-recovered: the frontend reloads.
Announce(t) ==
  /\ Alive /\ pc[t] = "announce"
  /\ view' = "ok"
  /\ unhealthy' = [unhealthy EXCEPT ![t] = 0]
  /\ Goto(t, IF role[t] = "monitor" THEN "wake" ELSE "handOver")
  /\ UNCHANGED <<childVars, role, flagVars, exitVars, live>>

\* A retry that succeeded starts a new monitor and ends.
HandOver(t, u) ==
  /\ Alive /\ pc[t] = "handOver"
  /\ Start(u, "monitor")
  /\ pc' = [pc EXCEPT ![t] = "idle", ![u] = "wake"]
  /\ UNCHANGED <<childVars, flagVars, exitVars, view, live>>

\* Mutant: only a retry puts the failure up for another one.
GiveUpUnflagged(t) ==
  /\ Alive /\ pc[t] = "giveUp"
  /\ runtimeFailed' = (role[t] = "retry" \/ runtimeFailed)
  /\ Goto(t, IF role[t] = "monitor" THEN "report" ELSE "idle")
  /\ UNCHANGED <<childVars, role, unhealthy, restartTried, shuttingDown, exitVars, view,
                 live>>

\* The failure can be retried from here on; a monitor reports it and ends, a
\* retry only answers its request, which the recovery view does not look at.
GiveUp(t) ==
  /\ Alive /\ pc[t] = "giveUp"
  /\ runtimeFailed' = TRUE
  /\ Goto(t, IF role[t] = "monitor" THEN "report" ELSE "idle")
  /\ UNCHANGED <<childVars, role, unhealthy, restartTried, shuttingDown, exitVars, view,
                 live>>

\* runtime-failed: the frontend shows the recovery view.
Report(t) ==
  /\ Alive /\ pc[t] = "report"
  /\ view' = "failed"
  /\ Goto(t, "idle")
  /\ UNCHANGED <<childVars, role, unhealthy, flagVars, exitVars, live>>

\* Mutant: runtime.retry reads the failure without taking it.
UserRetriesReading(t) ==
  /\ Alive /\ view = "failed"
  /\ view' = "retrying"
  /\ IF runtimeFailed
       THEN UNCHANGED runtimeFailed /\ Start(t, "retry") /\ Goto(t, "restart")
       ELSE UNCHANGED <<runtimeFailed, threadVars>>
  /\ UNCHANGED <<childVars, restartTried, shuttingDown, exitVars, live>>

\* The Retry button disables itself; runtime.retry takes the failure.
UserRetries(t) ==
  /\ Alive /\ view = "failed"
  /\ view' = "retrying"
  /\ IF runtimeFailed
       THEN runtimeFailed' = FALSE /\ Start(t, "retry") /\ Goto(t, "restart")
       ELSE UNCHANGED <<runtimeFailed, threadVars>>
  /\ UNCHANGED <<childVars, restartTried, shuttingDown, exitVars, live>>

(***************************************************************************)
(* Shutting down.                                                          *)
(***************************************************************************)
ShutdownBegins ==
  /\ Alive /\ notice = "none"
  /\ notice' = "begun"
  /\ shuttingDown' = TRUE
  /\ UNCHANGED <<childVars, threadVars, restartTried, runtimeFailed, main, view, live>>

\* ShutdownBeginning waits for the mutex and shuts the child down.
NoticeStopsChild ==
  /\ Alive /\ notice = "begun" /\ lock = Free
  /\ notice' = "done"
  /\ child' = "dead"
  /\ UNCHANGED <<starting, heard, lock, threadVars, flagVars, main, view, live>>

\* jfn_app_main_with returned: main shuts the child down once more ...
MainStopsChild ==
  /\ main = "running" /\ notice = "done" /\ lock = Free
  /\ main' = "leaving"
  /\ child' = "dead"
  /\ UNCHANGED <<starting, heard, lock, threadVars, flagVars, notice, view, live>>

\* ... and exits, whatever the other threads are doing.
Exit ==
  /\ main = "leaving"
  /\ main' = "exited"
  /\ UNCHANGED <<childVars, threadVars, flagVars, notice, view, live>>

ThreadStep(t) ==
  \/ Wake(t)
  \/ Probe(t)
  \/ Confirm(t)
  \/ StopOld(t)
  \/ SpawnNew(t)
  \/ StartSucceeds(t)
  \/ StartFails(t)
  \/ Announce(t)
  \/ \E u \in Threads : HandOver(t, u)
  \/ GiveUp(t)
  \/ Report(t)

Environment ==
  \/ \E health \in {"up", "sick", "dead"} : ChildChanges(health)
  \/ \E t \in Threads : RuntimeReady(t)
  \/ \E state \in {"idle", "playing"} : PlaybackChanges(state)
  \/ \E t \in Threads : UserRetries(t)
  \/ ShutdownBegins

Next ==
  \/ \E t \in Threads : ThreadStep(t)
  \/ Environment
  \/ NoticeStopsChild
  \/ MainStopsChild
  \/ Exit

Spec == Init /\ [][Next]_vars

\* Threads are scheduled, a start has a timeout of 90 seconds and a shutdown
\* one of 2, CEF reports itself ready, and Jellium returns to main.
FairSpec ==
  /\ Spec
  /\ \A t \in Threads : WF_vars(ThreadStep(t))
  /\ WF_vars(\E t \in Threads : RuntimeReady(t))
  /\ WF_vars(NoticeStopsChild) /\ WF_vars(MainStopsChild) /\ WF_vars(Exit)

(***************************************************************************)
(* What must hold.                                                         *)
(***************************************************************************)
Running == {t \in Threads : pc[t] # "idle"}

\* One keeper at a time: there are never two monitors, nor a monitor and a
\* retry, to restart the child under each other's feet; when the failure is up
\* for retrying nobody works on it but the monitor still reporting it.
OneKeeper ==
  /\ \A t, u \in Running : t = u
  /\ runtimeFailed => \A t \in Running : pc[t] = "report"

\* Two children never share the database and its instance lock: a replacement
\* is spawned only when the old child is gone, and nobody else touches the
\* supervisor until it is ready.
NeverTwoChildren == starting => child = "dead" /\ lock # Free

\* The Retry button works whenever the user can press it: runtime_failed is
\* set before the recovery view appears and taken by nobody else.
RetryIsHonored == view = "failed" => runtimeFailed

\* A server that died, or hangs for good, does not stay so behind a working
\* frontend: it is restarted, or the recovery view appears, or the application
\* goes down.  One that answers now and then is left alone.
FailureSurfaces == []<>(live => child = "up" \/ view # "ok" \/ shuttingDown)

\* Quitting ends, whoever holds the supervisor's mutex.
QuitTerminates == shuttingDown ~> main = "exited"

\* The whole of it, whatever the threads and the mutex do, is the supervision
\* Supervision describes: one restart by itself, every other one the user's.
\* The phase is where the one running thread stands, or whether it left the
\* failure up for a retry; an application without a thread is ending.
At(steps) == \E t \in Threads : pc[t] \in steps

Phase ==
  IF ~live \/ ~Alive \/ (Running = {} /\ ~runtimeFailed) THEN "off"
  ELSE IF At({"restart", "stopped", "starting"}) THEN "replacing"
  ELSE IF At({"wake", "probe", "confirm", "announce", "handOver"}) THEN "serving"
  ELSE "down"

Spent == restartTried /\ Phase # "off"

Promise == INSTANCE Supervision WITH phase <- Phase, spent <- Spent
SupervisionSpec == Promise!Spec

\* Comment in on_runtime_event: the child is shut down on that thread lest a
\* spinning Node child be left when the process exits.  A restart that was
\* waiting for the mutex leaves one all the same.
NoOrphan == main = "exited" => child = "dead" /\ ~starting
=============================================================================
