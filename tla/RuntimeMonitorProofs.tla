------------------------ MODULE RuntimeMonitorProofs ------------------------
(***************************************************************************)
(* Proofs about RuntimeMonitor, for any number of threads and any          *)
(* threshold of unhealthy probes: its types, one keeper, one child, and    *)
(* that it implements Supervision.                                         *)
(***************************************************************************)
EXTENDS RuntimeMonitor, TLAPS

USE DEF Roles, Steps

\* A thread that moves on stands at a step it can stand at.
LEMMA GotoType ==
  ASSUME TypeOK, NEW t \in Threads, NEW step \in Steps, Goto(t, step)
  PROVE  pc' \in [Threads -> Steps]
  BY DEF TypeOK, Goto

\* Every step of every thread and of its environment keeps the variables in
\* their types.
LEMMA StepType ==
  ASSUME TypeOK, [Next]_vars
  PROVE TypeOK'
<1> USE ThresholdAssumption DEF ThresholdAssumption
<1>1. ASSUME NEW t \in Threads, Wake(t) PROVE TypeOK'
  <2>1. pc' \in [Threads -> Steps]
    BY <1>1, GotoType DEF Wake, Steps
  <2> QED BY <1>1, <2>1 DEF TypeOK, Wake, childVars, flagVars, exitVars
<1>2. ASSUME NEW t \in Threads, Probe(t) PROVE TypeOK'
  <2>1. UNCHANGED <<childVars, role, flagVars, exitVars, view, live>>
    BY <1>2 DEF Probe
  <2>2. unhealthy' \in [Threads -> 0 .. Threshold]
    BY <1>2 DEF TypeOK, Probe
  <2>3. pc' \in [Threads -> Steps]
    BY <1>2 DEF TypeOK, Probe, Goto
  <2> QED BY <2>1, <2>2, <2>3 DEF TypeOK, childVars, flagVars, exitVars
<1>3. ASSUME NEW t \in Threads, Confirm(t) PROVE TypeOK'
  <2>1. UNCHANGED <<childVars, role, unhealthy, runtimeFailed, shuttingDown, exitVars, view,
                    live>>
    BY <1>3 DEF Confirm
  <2>2. pc' \in [Threads -> Steps]
    BY <1>3 DEF TypeOK, Confirm, Goto
  <2>3. restartTried' \in BOOLEAN
    BY <1>3, Zenon DEF TypeOK, Confirm
  <2> QED BY <2>1, <2>2, <2>3 DEF TypeOK, childVars, exitVars
<1>4. ASSUME NEW t \in Threads, StopOld(t) PROVE TypeOK'
  <2>1. pc' \in [Threads -> Steps]
    BY <1>4, GotoType DEF StopOld, Steps
  <2> QED BY <1>4, <2>1 DEF TypeOK, StopOld, flagVars, exitVars
<1>5. ASSUME NEW t \in Threads, SpawnNew(t) PROVE TypeOK'
  <2>1. pc' \in [Threads -> Steps]
    BY <1>5, GotoType DEF SpawnNew, Steps
  <2> QED BY <1>5, <2>1 DEF TypeOK, SpawnNew, flagVars, exitVars
<1>6. ASSUME NEW t \in Threads, StartSucceeds(t) PROVE TypeOK'
  <2>1. pc' \in [Threads -> Steps]
    BY <1>6, GotoType DEF StartSucceeds, Steps
  <2>2. /\ starting' = FALSE /\ child' = "up" /\ heard' = "nothing" /\ lock' = Free
        /\ UNCHANGED <<role, unhealthy, flagVars, exitVars, view, live>>
    BY <1>6 DEF StartSucceeds
  <2> QED BY <2>1, <2>2 DEF TypeOK, flagVars, exitVars
<1>7. ASSUME NEW t \in Threads, StartFails(t) PROVE TypeOK'
  <2>1. pc' \in [Threads -> Steps]
    BY <1>7, GotoType DEF StartFails, Steps
  <2>2. /\ starting' = FALSE /\ lock' = Free
        /\ UNCHANGED <<child, heard, role, unhealthy, flagVars, exitVars, view, live>>
    BY <1>7 DEF StartFails
  <2>3. starting' \in BOOLEAN /\ lock' \in Threads \cup {Free}
    BY <2>2
  <2>4. UNCHANGED <<restartTried, runtimeFailed, shuttingDown, notice, main>>
    BY <2>2 DEF flagVars, exitVars
  <2> QED BY <2>1, <2>2, <2>3, <2>4 DEF TypeOK
<1>8. ASSUME NEW t \in Threads, Announce(t) PROVE TypeOK'
  <2>1. pc' \in [Threads -> Steps]
    BY <1>8, GotoType DEF Announce, Steps
  <2>2. view' = "ok" /\ UNCHANGED <<childVars, role, flagVars, exitVars, live>>
    BY <1>8 DEF Announce
  <2>3. unhealthy' \in [Threads -> 0 .. Threshold]
    BY <1>8 DEF TypeOK, Announce
  <2> QED BY <2>1, <2>2, <2>3 DEF TypeOK, childVars, flagVars, exitVars
<1>9. ASSUME NEW t \in Threads, NEW u \in Threads, HandOver(t, u) PROVE TypeOK'
  BY <1>9 DEF TypeOK, HandOver, Start, childVars, flagVars, exitVars
<1>10. ASSUME NEW t \in Threads, GiveUp(t) PROVE TypeOK'
  <2>1. pc' \in [Threads -> Steps]
    BY <1>10, GotoType DEF GiveUp, Steps
  <2>2. /\ runtimeFailed' = TRUE
        /\ UNCHANGED <<childVars, role, unhealthy, restartTried, shuttingDown, exitVars, view,
                       live>>
    BY <1>10 DEF GiveUp
  <2> QED BY <2>1, <2>2 DEF TypeOK, childVars, exitVars
<1>11. ASSUME NEW t \in Threads, Report(t) PROVE TypeOK'
  <2>1. pc' \in [Threads -> Steps]
    BY <1>11, GotoType DEF Report, Steps
  <2> QED BY <1>11, <2>1 DEF TypeOK, Report, childVars, flagVars, exitVars
<1>12. ASSUME NEW health \in {"up", "sick", "dead"}, ChildChanges(health) PROVE TypeOK'
  BY <1>12 DEF TypeOK, ChildChanges, threadVars, flagVars, exitVars
<1>13. ASSUME NEW t \in Threads, RuntimeReady(t) PROVE TypeOK'
  BY <1>13 DEF TypeOK, RuntimeReady, Start, Goto, flagVars, exitVars
<1>14. ASSUME NEW state \in {"idle", "playing"}, PlaybackChanges(state) PROVE TypeOK'
  BY <1>14 DEF TypeOK, PlaybackChanges, threadVars, flagVars, exitVars
<1>15. ASSUME NEW t \in Threads, UserRetries(t) PROVE TypeOK'
  <2>1. UNCHANGED <<childVars, restartTried, shuttingDown, exitVars, live>> /\ view' = "retrying"
    BY <1>15 DEF UserRetries
  <2>2. role' \in [Threads -> Roles] /\ pc' \in [Threads -> Steps]
    BY <1>15 DEF TypeOK, UserRetries, Start, Goto, threadVars
  <2>3. unhealthy' \in [Threads -> 0 .. Threshold]
    BY <1>15 DEF TypeOK, UserRetries, Start, threadVars
  <2>4. runtimeFailed' \in BOOLEAN
    BY <1>15, Zenon DEF TypeOK, UserRetries
  <2> QED BY <2>1, <2>2, <2>3, <2>4 DEF TypeOK, childVars, exitVars
<1>16. ASSUME ShutdownBegins \/ NoticeStopsChild \/ MainStopsChild \/ Exit PROVE TypeOK'
  <2>1. CASE ShutdownBegins
    BY <2>1 DEF TypeOK, ShutdownBegins, childVars, threadVars
  <2>2. CASE NoticeStopsChild
    BY <2>2 DEF TypeOK, NoticeStopsChild, threadVars, flagVars
  <2>3. CASE MainStopsChild
    BY <2>3 DEF TypeOK, MainStopsChild, threadVars, flagVars
  <2>4. CASE Exit
    BY <2>4 DEF TypeOK, Exit, childVars, threadVars, flagVars
  <2> QED BY <1>16, <2>1, <2>2, <2>3, <2>4
<1>17. ASSUME UNCHANGED vars PROVE TypeOK'
  BY <1>17 DEF TypeOK, vars, childVars, threadVars, flagVars, exitVars
<1> QED
  BY <1>1, <1>2, <1>3, <1>4, <1>5, <1>6, <1>7, <1>8, <1>9, <1>10, <1>11, <1>12, <1>13,
     <1>14, <1>15, <1>16, <1>17 DEF Next, ThreadStep, Environment

\* The type invariant of the monitor, the retries and the supervisor.
THEOREM TypeCorrect == Spec => []TypeOK
<1>1. Init => TypeOK
  <2> SUFFICES ASSUME Init PROVE TypeOK
    OBVIOUS
  <2>1. /\ role \in [Threads -> Roles] /\ pc \in [Threads -> Steps]
        /\ unhealthy \in [Threads -> 0 .. Threshold]
    BY ThresholdAssumption DEF ThresholdAssumption, Init
  <2>2. /\ starting \in BOOLEAN /\ restartTried \in BOOLEAN /\ runtimeFailed \in BOOLEAN
        /\ shuttingDown \in BOOLEAN /\ live \in BOOLEAN
    BY Zenon DEF Init
  <2>3. /\ child \in {"up", "sick", "dead"} /\ heard \in {"nothing", "idle", "playing"}
        /\ lock \in Threads \cup {Free} /\ view \in {"ok", "failed", "retrying"}
        /\ notice \in {"none", "begun", "done"} /\ main \in {"running", "leaving", "exited"}
    BY DEF Init
  <2> QED BY <2>1, <2>2, <2>3 DEF TypeOK
<1> QED BY <1>1, StepType, PTL DEF Spec

(***************************************************************************)
(* One keeper.  The failure is a token: either one thread is at work, or   *)
(* runtime_failed is set and the view may offer a retry.                   *)
(***************************************************************************)
KeeperInv ==
  /\ OneKeeper
  /\ RetryIsHonored
  /\ view = "failed" => Running = {}
  /\ \A t \in Threads : pc[t] = "report" => runtimeFailed
  /\ ~live => Running = {} /\ ~runtimeFailed /\ view = "ok"

USE DEF Running

\* A step of a thread other than its last one leaves the token with it.
LEMMA ThreadKeeps ==
  ASSUME TypeOK, KeeperInv, NEW t \in Threads, ThreadStep(t)
  PROVE KeeperInv'
<1> USE DEF KeeperInv, OneKeeper, RetryIsHonored, TypeOK
<1>0. (pc[t] # "idle") => /\ \A u \in Threads : u # t => pc[u] = "idle"
                          /\ view # "failed" /\ live
  OBVIOUS
<1>1. CASE Wake(t)
  BY <1>0, <1>1 DEF Wake, Goto, flagVars
<1>2. CASE Probe(t)
  BY <1>0, <1>2 DEF Probe, Goto, flagVars
<1>3. CASE Confirm(t)
  BY <1>0, <1>3 DEF Confirm, Goto
<1>4. CASE StopOld(t)
  BY <1>0, <1>4 DEF StopOld, Goto, flagVars
<1>5. CASE SpawnNew(t)
  BY <1>0, <1>5 DEF SpawnNew, Goto, flagVars
<1>6. CASE StartSucceeds(t)
  BY <1>0, <1>6 DEF StartSucceeds, Goto, flagVars
<1>7. CASE StartFails(t)
  BY <1>0, <1>7 DEF StartFails, Goto, flagVars
<1>8. CASE Announce(t)
  BY <1>0, <1>8 DEF Announce, Goto, flagVars
<1>9. ASSUME NEW u \in Threads, HandOver(t, u) PROVE KeeperInv'
  BY <1>0, <1>9 DEF HandOver, Start, flagVars
<1>10. CASE GiveUp(t)
  BY <1>0, <1>10 DEF GiveUp, Goto
<1>11. CASE Report(t)
  BY <1>0, <1>11 DEF Report, Goto, flagVars
<1> QED
  BY <1>1, <1>2, <1>3, <1>4, <1>5, <1>6, <1>7, <1>8, <1>9, <1>10, <1>11 DEF ThreadStep

\* The environment hands the token to a thread: once when CEF is live, and to
\* a retry that takes it out of runtime_failed.
LEMMA EnvironmentKeeps ==
  ASSUME TypeOK, KeeperInv,
         Environment \/ NoticeStopsChild \/ MainStopsChild \/ Exit \/ UNCHANGED vars
  PROVE KeeperInv'
<1> USE DEF KeeperInv, OneKeeper, RetryIsHonored, TypeOK
<1>1. ASSUME NEW health \in {"up", "sick", "dead"}, ChildChanges(health) PROVE KeeperInv'
  BY <1>1 DEF ChildChanges, threadVars, flagVars
<1>2. ASSUME NEW t \in Threads, RuntimeReady(t) PROVE KeeperInv'
  BY <1>2 DEF RuntimeReady, Start, Goto, flagVars
<1>3. ASSUME NEW state \in {"idle", "playing"}, PlaybackChanges(state) PROVE KeeperInv'
  BY <1>3 DEF PlaybackChanges, threadVars, flagVars
<1>4. ASSUME NEW t \in Threads, UserRetries(t) PROVE KeeperInv'
  BY <1>4 DEF UserRetries, Start, Goto
<1>5. ASSUME ShutdownBegins \/ NoticeStopsChild \/ MainStopsChild \/ Exit PROVE KeeperInv'
  BY <1>5 DEF ShutdownBegins, NoticeStopsChild, MainStopsChild, Exit, threadVars, flagVars
<1>6. ASSUME UNCHANGED vars PROVE KeeperInv'
  BY <1>6 DEF vars, threadVars, flagVars
<1> QED BY <1>1, <1>2, <1>3, <1>4, <1>5, <1>6 DEF Environment

\* The token invariant of the keepers.
LEMMA KeeperAlways == Spec => []KeeperInv
<1>1. Init => KeeperInv
  BY DEF Init, KeeperInv, OneKeeper, RetryIsHonored
<1>2. TypeOK /\ KeeperInv /\ [Next]_vars => KeeperInv'
  BY ThreadKeeps, EnvironmentKeeps DEF Next
<1> QED BY <1>1, <1>2, TypeCorrect, PTL DEF Spec

\* Never two monitors, nor a monitor and a retry, at work on one child.
THEOREM KeepersAreAlone == Spec => []OneKeeper
<1>1. KeeperInv => OneKeeper
  BY DEF KeeperInv
<1> QED BY <1>1, KeeperAlways, PTL

\* A retry the recovery view offers is never refused as unavailable.
THEOREM RetriesAreHonored == Spec => []RetryIsHonored
<1>1. KeeperInv => RetryIsHonored
  BY DEF KeeperInv
<1> QED BY <1>1, KeeperAlways, PTL

(***************************************************************************)
(* One child.  Between stopping the old child and the end of the start the *)
(* thread holds the mutex, so nobody else can spawn one.                   *)
(***************************************************************************)
ChildInv ==
  /\ \A t \in Threads : pc[t] \in {"stopped", "starting"} => lock = t /\ child = "dead"
  /\ starting => \E t \in Threads : pc[t] = "starting"

\* A step of a thread keeps the mutex with the thread that restarts.
LEMMA ThreadGuards ==
  ASSUME TypeOK, ChildInv, NEW t \in Threads, ThreadStep(t)
  PROVE ChildInv'
<1> USE FreeAssumption DEF ChildInv, TypeOK
<1>1. CASE Wake(t)
  BY <1>1 DEF Wake, Goto, childVars
<1>2. CASE Probe(t)
  BY <1>2 DEF Probe, Goto, childVars
<1>3. CASE Confirm(t)
  BY <1>3 DEF Confirm, Goto, childVars
<1>4. CASE StopOld(t)
  BY <1>4 DEF StopOld, Goto
<1>5. CASE SpawnNew(t)
  BY <1>5 DEF SpawnNew, Goto
<1>6. CASE StartSucceeds(t)
  BY <1>6 DEF StartSucceeds, Goto
<1>7. CASE StartFails(t)
  BY <1>7 DEF StartFails, Goto
<1>8. CASE Announce(t)
  BY <1>8 DEF Announce, Goto, childVars
<1>9. ASSUME NEW u \in Threads, HandOver(t, u) PROVE ChildInv'
  BY <1>9 DEF HandOver, Start, childVars
<1>10. CASE GiveUp(t)
  BY <1>10 DEF GiveUp, Goto, childVars
<1>11. CASE Report(t)
  BY <1>11 DEF Report, Goto, childVars
<1> QED
  BY <1>1, <1>2, <1>3, <1>4, <1>5, <1>6, <1>7, <1>8, <1>9, <1>10, <1>11 DEF ThreadStep

\* Nothing outside the threads revives or spawns a child.
LEMMA EnvironmentGuards ==
  ASSUME TypeOK, ChildInv,
         Environment \/ NoticeStopsChild \/ MainStopsChild \/ Exit \/ UNCHANGED vars
  PROVE ChildInv'
<1> USE FreeAssumption DEF ChildInv, TypeOK
<1>1. ASSUME NEW health \in {"up", "sick", "dead"}, ChildChanges(health) PROVE ChildInv'
  BY <1>1 DEF ChildChanges, threadVars
<1>2. ASSUME NEW t \in Threads, RuntimeReady(t) PROVE ChildInv'
  BY <1>2 DEF RuntimeReady, Start, Goto
<1>3. ASSUME NEW state \in {"idle", "playing"}, PlaybackChanges(state) PROVE ChildInv'
  BY <1>3 DEF PlaybackChanges, threadVars
<1>4. ASSUME NEW t \in Threads, UserRetries(t) PROVE ChildInv'
  BY <1>4 DEF UserRetries, Start, Goto, childVars, threadVars
<1>5. ASSUME ShutdownBegins \/ NoticeStopsChild \/ MainStopsChild \/ Exit PROVE ChildInv'
  BY <1>5 DEF ShutdownBegins, NoticeStopsChild, MainStopsChild, Exit, childVars, threadVars
<1>6. ASSUME UNCHANGED vars PROVE ChildInv'
  BY <1>6 DEF vars, childVars, threadVars
<1> QED BY <1>1, <1>2, <1>3, <1>4, <1>5, <1>6 DEF Environment

\* No replacement child is spawned next to a living one, and none can be
\* while it starts.
THEOREM ChildrenAreAlone == Spec => []NeverTwoChildren
<1>1. Init => ChildInv
  BY DEF Init, ChildInv
<1>2. TypeOK /\ ChildInv /\ [Next]_vars => ChildInv'
  BY ThreadGuards, EnvironmentGuards DEF Next
<1>3. ChildInv => NeverTwoChildren
  BY FreeAssumption DEF ChildInv, NeverTwoChildren
<1> QED BY <1>1, <1>2, <1>3, TypeCorrect, PTL DEF Spec

(***************************************************************************)
(* The supervision the threads implement.  One thread at most runs, so     *)
(* where it stands is the phase, and its steps are the abstract ones or    *)
(* stutters.                                                               *)
(***************************************************************************)
PhaseAt(step) ==
  IF step \in {"restart", "stopped", "starting"} THEN "replacing"
  ELSE IF step \in {"wake", "probe", "confirm", "announce", "handOver"} THEN "serving"
  ELSE "down"

\* A restart was tried when the server is replaced or given up, and none while
\* CEF is not live.
Tried ==
  /\ ~live => ~restartTried
  /\ \A t \in Threads :
       pc[t] \in {"restart", "stopped", "starting", "giveUp", "report"} => restartTried
  /\ runtimeFailed => restartTried

LEMMA TriedStep == TypeOK /\ KeeperInv /\ Tried /\ [Next]_vars => Tried'
<1> SUFFICES ASSUME TypeOK, KeeperInv, Tried, [Next]_vars
             PROVE  Tried'
  OBVIOUS
<1> USE DEF Tried, TypeOK
<1>1. ASSUME NEW t \in Threads, ThreadStep(t)
      PROVE  Tried'
  <2> USE <1>1
  <2>1. CASE Wake(t) \/ Probe(t)
    BY <2>1 DEF Wake, Probe, Goto, flagVars
  <2>2. CASE Confirm(t)
    BY <2>2 DEF Confirm, Goto, KeeperInv
  <2>3. CASE StopOld(t) \/ SpawnNew(t) \/ StartSucceeds(t) \/ StartFails(t)
    BY <2>3 DEF StopOld, SpawnNew, StartSucceeds, StartFails, Goto, flagVars
  <2>4. CASE Announce(t) \/ Report(t)
    BY <2>4 DEF Announce, Report, Goto, flagVars
  <2>5. CASE \E u \in Threads : HandOver(t, u)
    BY <2>5 DEF HandOver, Start, flagVars
  <2>6. CASE GiveUp(t)
    BY <2>6 DEF GiveUp, Goto
  <2> QED
    BY <2>1, <2>2, <2>3, <2>4, <2>5, <2>6 DEF ThreadStep
<1>2. ASSUME NEW t \in Threads, RuntimeReady(t)
      PROVE  Tried'
  BY <1>2 DEF RuntimeReady, Start, Goto, flagVars, KeeperInv
<1>3. ASSUME NEW t \in Threads, UserRetries(t)
      PROVE  Tried'
  BY <1>3 DEF UserRetries, Start, Goto, threadVars, KeeperInv, RetryIsHonored
<1>4. CASE (\E health \in {"up", "sick", "dead"} : ChildChanges(health))
           \/ (\E state \in {"idle", "playing"} : PlaybackChanges(state))
  BY <1>4 DEF ChildChanges, PlaybackChanges, threadVars, flagVars
<1>5. CASE ShutdownBegins \/ NoticeStopsChild \/ MainStopsChild \/ Exit \/ UNCHANGED vars
  BY <1>5 DEF ShutdownBegins, NoticeStopsChild, MainStopsChild, Exit, vars, threadVars, flagVars
<1> QED
  BY <1>1, <1>2, <1>3, <1>4, <1>5 DEF Next, Environment

\* The phase before and after a step of the one thread that runs.
LEMMA ThreadPhase ==
  ASSUME TypeOK, KeeperInv, NEW t \in Threads, NEW step \in Steps, pc[t] # "idle",
         Goto(t, step), Alive, live' = live, main' = main
  PROVE  /\ Phase = PhaseAt(pc[t])
         /\ step # "idle" => Phase' = PhaseAt(step)
         /\ step = "idle" => Phase' = IF runtimeFailed' THEN "down" ELSE "off"
<1>1. live /\ \A u \in Threads : u # t => pc[u] = "idle"
  BY DEF KeeperInv, OneKeeper
<1>2. pc' \in [Threads -> Steps] /\ pc'[t] = step /\ \A u \in Threads : u # t => pc'[u] = "idle"
  BY <1>1 DEF Goto, TypeOK
<1>3. Phase = PhaseAt(pc[t])
  BY <1>1 DEF Phase, PhaseAt, At, Alive
<1>4. step # "idle" => Phase' = PhaseAt(step)
  BY <1>1, <1>2 DEF Phase, PhaseAt, At, Alive
<1>5. step = "idle" => Phase' = IF runtimeFailed' THEN "down" ELSE "off"
  BY <1>1, <1>2 DEF Phase, At, Alive
<1> QED
  BY <1>3, <1>4, <1>5

\* What a step of the monitor must do to be one of the supervision.
LEMMA Supervises ==
  /\ Phase' = Phase /\ restartTried' = restartTried => UNCHANGED Promise!vars
  /\ Phase = "off" /\ Phase' = "serving" /\ restartTried' = FALSE => Promise!Serve
  /\ Phase = "serving" /\ Phase' = "replacing" /\ ~restartTried /\ restartTried' = TRUE =>
       Promise!Restart
  /\ Phase = "replacing" /\ Phase' = "serving" /\ restartTried' = restartTried => Promise!Recover
  /\ Phase \in {"serving", "replacing"} /\ Phase' = "down" /\ restartTried
       /\ restartTried' = restartTried => Promise!GiveUp
  /\ Phase = "down" /\ Phase' = "replacing" /\ restartTried' = restartTried => Promise!Retry
  /\ Phase # "off" /\ Phase' = "off" => Promise!End
<1>1. Phase' = Phase /\ restartTried' = restartTried => Spent' = Spent
  BY SMT DEF Spent
<1>2. Phase = "off" => Spent = FALSE
  BY SMT DEF Spent
<1>3. Phase' = "off" => Spent' = FALSE
  BY SMT DEF Spent
<1>4. Phase' # "off" /\ Phase # "off" /\ restartTried' = restartTried => Spent' = Spent
  BY SMT DEF Spent
<1>5. restartTried' = FALSE => Spent' = FALSE
  BY SMT DEF Spent
<1>6. restartTried' = TRUE /\ Phase' # "off" => Spent' = TRUE
  BY SMT DEF Spent
<1>7. ~restartTried => ~Spent
  BY SMT DEF Spent
<1>8. restartTried /\ Phase # "off" => Spent
  BY SMT DEF Spent
<1> QED
  BY <1>1, <1>2, <1>3, <1>4, <1>5, <1>6, <1>7, <1>8
  DEF Promise!vars, Promise!Serve, Promise!Restart, Promise!Recover, Promise!GiveUp,
      Promise!Retry, Promise!End

\* Where a step leaves the phase and the attempt: as they were, or as the
\* supervision moves them.
Supervised ==
  \/ Phase' = Phase /\ restartTried' = restartTried
  \/ Phase = "off" /\ Phase' = "serving" /\ restartTried' = FALSE
  \/ Phase = "serving" /\ Phase' = "replacing" /\ ~restartTried /\ restartTried' = TRUE
  \/ Phase = "replacing" /\ Phase' = "serving" /\ restartTried' = restartTried
  \/ /\ Phase \in {"serving", "replacing"} /\ Phase' = "down"
     /\ restartTried /\ restartTried' = restartTried
  \/ Phase = "down" /\ Phase' = "replacing" /\ restartTried' = restartTried
  \/ Phase # "off" /\ Phase' = "off"

LEMMA SupervisedSteps == Supervised => [Promise!Next]_(Promise!vars)
  BY Supervises DEF Supervised, Promise!Next

\* Every step of a thread is a step of the supervision, or none.
LEMMA ThreadSupervises ==
  ASSUME TypeOK, KeeperInv, Tried, NEW t \in Threads, ThreadStep(t)
  PROVE  Supervised
<1> USE DEF Supervised, PhaseAt
<1>0. \A step \in Steps :
        pc[t] # "idle" /\ Goto(t, step) /\ Alive /\ live' = live /\ main' = main =>
          /\ Phase = PhaseAt(pc[t])
          /\ step # "idle" => Phase' = PhaseAt(step)
          /\ step = "idle" => Phase' = IF runtimeFailed' THEN "down" ELSE "off"
  BY ThreadPhase
<1>1. CASE Wake(t)
  <2>1. Goto(t, "idle") \/ Goto(t, "probe")
    BY <1>1 DEF Wake
  <2> QED
    BY <1>0, <1>1, <2>1 DEF Wake, flagVars, exitVars, KeeperInv, OneKeeper
<1>2. CASE Probe(t)
  <2>1. Goto(t, "wake") \/ Goto(t, "confirm")
    BY <1>2 DEF Probe
  <2> QED
    BY <1>0, <1>2, <2>1 DEF Probe, flagVars, exitVars
<1>3. CASE Confirm(t)
  <2>1. /\ pc[t] = "confirm" /\ Alive /\ live' = live /\ main' = main
        /\ runtimeFailed' = runtimeFailed
    BY <1>3 DEF Confirm, exitVars
  <2>2. ~runtimeFailed
    BY <2>1 DEF KeeperInv, OneKeeper
  <2>3. CASE shuttingDown
    <3>1. Goto(t, "idle") /\ ~runtimeFailed'
      BY <1>3, <2>1, <2>2, <2>3 DEF Confirm
    <3>2. Phase = "serving" /\ Phase' = "off"
      BY <1>0, <2>1, <3>1
    <3> QED
      BY <3>2
  <2>4. CASE ~shuttingDown /\ restartTried
    BY <1>0, <1>3, <2>1, <2>2, <2>4 DEF Confirm, TypeOK
  <2>5. CASE ~shuttingDown /\ ~restartTried
    BY <1>0, <1>3, <2>1, <2>2, <2>5 DEF Confirm
  <2> QED
    BY <2>3, <2>4, <2>5
<1>4. CASE StopOld(t) \/ SpawnNew(t)
  BY <1>0, <1>4 DEF StopOld, SpawnNew, flagVars, exitVars
<1>5. CASE StartSucceeds(t)
  BY <1>0, <1>5 DEF StartSucceeds, flagVars, exitVars
<1>6. CASE StartFails(t)
  BY <1>0, <1>6 DEF StartFails, flagVars, exitVars, Tried
<1>7. CASE Announce(t)
  BY <1>0, <1>7 DEF Announce, flagVars, exitVars
<1>8. ASSUME NEW u \in Threads, HandOver(t, u) PROVE Supervised
  <2>1. live /\ \A w \in Threads : w # t => pc[w] = "idle"
    BY <1>8 DEF HandOver, KeeperInv, OneKeeper
  <2>2. pc'[u] = "wake" /\ \A w \in Threads : w # u => pc'[w] = "idle"
    BY <1>8, <2>1 DEF HandOver, Start, TypeOK
  <2>3. Phase = "serving" /\ Phase' = "serving"
    BY <1>8, <2>1, <2>2 DEF HandOver, Phase, At, Alive, exitVars
  <2> QED
    BY <1>8, <2>3 DEF HandOver, flagVars
<1>9. CASE GiveUp(t)
  <2>1. Goto(t, "report") \/ Goto(t, "idle")
    BY <1>9 DEF GiveUp
  <2> QED
    BY <1>0, <1>9, <2>1 DEF GiveUp, exitVars
<1>10. CASE Report(t)
  BY <1>0, <1>10 DEF Report, flagVars, exitVars, KeeperInv
<1> QED
  BY <1>1, <1>2, <1>3, <1>4, <1>5, <1>6, <1>7, <1>8, <1>9, <1>10 DEF ThreadStep

\* CEF going live begins the supervision, a retry goes on with it, the exit
\* ends it; nothing else touches it.
LEMMA EnvironmentSupervises ==
  ASSUME TypeOK, KeeperInv, Tried,
         Environment \/ NoticeStopsChild \/ MainStopsChild \/ Exit \/ UNCHANGED vars
  PROVE  Supervised
<1> USE DEF Supervised
<1>1. ASSUME UNCHANGED <<pc, live, main, runtimeFailed, restartTried>>
      PROVE  Supervised
  BY <1>1 DEF Phase, At, Alive
<1>2. ASSUME NEW t \in Threads, RuntimeReady(t) PROVE Supervised
  <2>1. ~live /\ live' /\ pc'[t] = "wake" /\ \A u \in Threads : pc'[u] \in {"idle", "wake"}
    BY <1>2 DEF RuntimeReady, Start, Goto, KeeperInv, TypeOK
  <2>2. Phase = "off" /\ Phase' = "serving"
    BY <1>2, <2>1 DEF RuntimeReady, Phase, At, Alive, exitVars
  <2>3. restartTried' = FALSE
    BY <1>2 DEF RuntimeReady, flagVars, Tried, TypeOK
  <2> QED
    BY <2>2, <2>3
<1>3. ASSUME NEW t \in Threads, UserRetries(t) PROVE Supervised
  <2>1. runtimeFailed /\ live /\ \A u \in Threads : pc[u] = "idle"
    BY <1>3 DEF UserRetries, KeeperInv, RetryIsHonored
  <2>2. pc'[t] = "restart"
    BY <1>3, <2>1 DEF UserRetries, Start, Goto, TypeOK
  <2>3. Phase = "down" /\ Phase' = "replacing"
    BY <1>3, <2>1, <2>2 DEF UserRetries, Phase, At, Alive, exitVars
  <2> QED
    BY <1>3, <2>3 DEF UserRetries
<1>4. CASE Exit
  <2>1. Phase' = "off"
    BY <1>4 DEF Exit, Phase, Alive
  <2> QED
    BY <1>4, <2>1 DEF Exit, flagVars
<1>5. CASE ShutdownBegins \/ NoticeStopsChild \/ MainStopsChild \/ UNCHANGED vars
  <2>1. Alive => Alive'
    BY <1>5 DEF Alive, ShutdownBegins, NoticeStopsChild, MainStopsChild, vars, exitVars
  <2>2. Alive' => Alive
    BY <1>5 DEF Alive, ShutdownBegins, NoticeStopsChild, MainStopsChild, vars, exitVars
  <2>3. UNCHANGED <<pc, live, runtimeFailed, restartTried>>
    BY <1>5 DEF ShutdownBegins, NoticeStopsChild, MainStopsChild, vars, exitVars, threadVars,
                flagVars
  <2> QED
    BY <2>1, <2>2, <2>3 DEF Phase, At
<1>6. ASSUME NEW health \in {"up", "sick", "dead"}, ChildChanges(health) PROVE Supervised
  BY <1>1, <1>6 DEF ChildChanges, threadVars, flagVars, exitVars
<1>7. ASSUME NEW state \in {"idle", "playing"}, PlaybackChanges(state) PROVE Supervised
  BY <1>1, <1>7 DEF PlaybackChanges, threadVars, flagVars, exitVars
<1> QED
  BY <1>2, <1>3, <1>4, <1>5, <1>6, <1>7 DEF Environment

\* The threads keep the promise of Supervision: the server is restarted once by
\* itself, given up only after that, and restarted again only by the user.
THEOREM ImplementsSupervision == Spec => SupervisionSpec
<1>1. Init => Promise!Init
  <2> SUFFICES ASSUME Init PROVE Promise!Init
    OBVIOUS
  <2>1. Phase = "off"
    BY DEF Init, Phase
  <2>2. Spent = FALSE
    BY <2>1 DEF Spent
  <2> QED
    BY <2>1, <2>2 DEF Promise!Init
<1>2. TypeOK /\ KeeperInv /\ Tried /\ [Next]_vars => [Promise!Next]_(Promise!vars)
  BY ThreadSupervises, EnvironmentSupervises, SupervisedSteps DEF Next
<1>3. Init => Tried
  BY DEF Init, Tried
<1> QED
  BY <1>1, <1>2, <1>3, TriedStep, TypeCorrect, KeeperAlways, PTL DEF Spec, SupervisionSpec, Promise!Spec
=============================================================================
