---------------------------- MODULE UpgradeBackup ----------------------------
(***************************************************************************)
(* The bundled server's data across upgrades: the backup taken before a    *)
(* new version starts, the record of the last verified version, and how a  *)
(* start that fails or crashes half way leaves both (start_on_port,        *)
(* backup_before_upgrade, record_successful_status of src/supervisor.rs),  *)
(* with the one automatic restart of the monitor (src/extension.rs).       *)
(*                                                                         *)
(* One application runs at a time; a server it spawned may outlive it.  A  *)
(* server takes the instance lock by itself, some time after its spawn and *)
(* before it opens the database, and leaves when another one has it.       *)
(***************************************************************************)
EXTENDS Naturals, FiniteSets

CONSTANTS
  Versions,   \* server versions that are ever installed
  Rank,       \* place of each version's name in the order of directory names
  Keep,       \* backups kept: 3
  Threshold,  \* unhealthy probes in a row that count as a failure: 3
  MaxStarts,  \* bound: starts of the server
  Slots,      \* bound: places for servers that outlive their application
  None

ASSUME VersionsAssumption == None \notin Versions
ASSUME RankAssumption == Rank \in [Versions -> Nat]
ASSUME LimitsAssumption == Keep \in Nat /\ Threshold \in Nat \ {0} /\ MaxStarts \in Nat

VARIABLES
  pc,         \* where the application stands
  live,       \* the server was ready once since the application was opened
  restartTried, \* automatic_restart_attempted
  misses,     \* consecutive_unhealthy
  recorded,   \* successful_status_recorded
  fresh,      \* upgrade_backup, by its timestamp; 0 when there is none
  bundled,    \* the installed version
  clock,      \* the timestamp of the last start; every start gets its own second
  record,     \* state/runtime-version.json; None when missing or truncated
  db,         \* the version whose server last wrote the database
  backups,    \* backups/: each directory's two parts, its copy, its metadata
  child,      \* the application's server: its version and condition
  survivors,  \* those whose application was killed
  staleLock,  \* state/instance.lock names a server that is gone
  made,       \* history: the backups that were ever complete
  overlooked, \* history: when the lock was last looked at, a server had yet to take it
  blamed      \* history: since it was opened, something failed the application

appVars == <<pc, live, restartTried, misses, recorded, fresh>>
diskVars == <<record, db, backups, made>>
serverVars == <<child, survivors, staleLock>>
vars == <<appVars, diskVars, serverVars, bundled, clock, overlooked, blamed>>

StartSteps == {"check", "backup", "copy", "prune", "spawn", "await"}
ProbeSteps == {"running", "truncate", "write", "complete", "confirm"}
AtRest == {"off", "failed", "recovery"}

Server == [ver : Versions, st : {"launched", "starting", "up", "sick"}]
ASSUME ServerAssumption == None \notin Server

Backup == [prev : Versions, at : Nat, db : Versions \cup {None}, done : BOOLEAN]

TypeOK ==
  /\ pc \in StartSteps \cup ProbeSteps \cup AtRest
  /\ live \in BOOLEAN /\ restartTried \in BOOLEAN /\ recorded \in BOOLEAN
  /\ misses \in 0 .. Threshold
  /\ fresh \in Nat /\ clock \in Nat
  /\ bundled \in Versions
  /\ record \in Versions \cup {None} /\ db \in Versions \cup {None}
  /\ backups \in SUBSET Backup /\ made \in SUBSET Backup
  /\ child \in Server \cup {None}
  /\ survivors \in [Slots -> Server \cup {None}]
  /\ staleLock \in BOOLEAN /\ overlooked \in BOOLEAN /\ blamed \in BOOLEAN

Init ==
  /\ pc = "off" /\ live = FALSE /\ restartTried = FALSE /\ misses = 0
  /\ recorded = FALSE /\ fresh = 0
  /\ bundled \in Versions /\ clock = 0
  /\ record = None /\ db = None /\ backups = {} /\ made = {}
  /\ child = None /\ survivors = [n \in Slots |-> None] /\ staleLock = FALSE
  /\ overlooked = FALSE /\ blamed = FALSE

Alive == ({child} \cup {survivors[n] : n \in Slots}) \ {None}

\* A server that lives is named by state/instance.lock.
Locked == \E s \in Alive : s.st # "launched"

\* Whether a server that goes takes its lock file along depends on how.
Leaves(s) == staleLock' \in IF s = None \/ s.st = "launched" THEN {staleLock} ELSE BOOLEAN

ChildGone == child' = None /\ Leaves(child) /\ UNCHANGED survivors

(***************************************************************************)
(* start_on_port                                                           *)
(***************************************************************************)
Begin ==
  /\ clock' = clock + 1
  /\ pc' = "check" /\ misses' = 0 /\ recorded' = FALSE /\ fresh' = 0

Open ==
  /\ pc = "off" /\ clock + 1 < MaxStarts
  /\ Begin
  /\ UNCHANGED <<live, restartTried, diskVars, serverVars, bundled, overlooked, blamed>>

\* A server that has yet to take the lock is not seen.
Looks == overlooked' = \E s \in Alive : s.st = "launched"

\* Mutant: the instance lock is not looked at.
CheckNothing ==
  /\ pc = "check"
  /\ pc' = "backup" /\ Looks
  /\ UNCHANGED <<live, restartTried, misses, recorded, fresh, diskVars, serverVars, bundled,
                 clock, blamed>>

\* ensure_no_active_instance_lock: no lock, or one of a server that is gone.
CheckLock ==
  /\ pc = "check" /\ ~Locked
  /\ pc' = "backup" /\ Looks
  /\ UNCHANGED <<live, restartTried, misses, recorded, fresh, diskVars, serverVars, bundled,
                 clock, blamed>>

\* backup_before_upgrade has nothing to compare with, or the same version.
NoBackup ==
  /\ pc = "backup" /\ record \in {None, bundled}
  /\ pc' = "spawn"
  /\ UNCHANGED <<live, restartTried, misses, recorded, fresh, diskVars, serverVars, bundled,
                 clock, overlooked, blamed>>

\* It makes the directory "<record>-<timestamp>" ...
MakeDirectory ==
  /\ pc = "backup" /\ record \notin {None, bundled}
  /\ pc' = "copy"
  /\ backups' = backups \cup {[prev |-> record, at |-> clock, db |-> None, done |-> FALSE]}
  /\ UNCHANGED <<live, restartTried, misses, recorded, fresh, record, db, made, serverVars,
                 bundled, clock, overlooked, blamed>>

\* The backup of this start with a copy of the data, and its metadata.
Filled(b, copy) == [b EXCEPT !.db = copy, !.done = TRUE]

Copied(copy) ==
  /\ backups' = {IF b.at = clock THEN Filled(b, copy) ELSE b : b \in backups}
  /\ made' = made \cup {b \in backups' : b.done}

\* Mutant: a copy that fails does not stop the start.
CopyOrGoOn ==
  /\ pc = "copy"
  /\ Copied(db) \/ UNCHANGED <<backups, made>>
  /\ fresh' = clock
  /\ pc' = "prune"
  /\ UNCHANGED <<live, restartTried, misses, recorded, record, db, serverVars, bundled, clock,
                 overlooked, blamed>>

\* ... copies settings and database into it, and writes its metadata.  A copy
\* made under a server that was overlooked may fit no state of the database.
CopyData ==
  /\ pc = "copy"
  /\ \E copy \in IF overlooked THEN {db, None} ELSE {db} : Copied(copy)
  /\ fresh' = clock
  /\ pc' = "prune"
  /\ UNCHANGED <<live, restartTried, misses, recorded, record, db, serverVars, bundled, clock,
                 overlooked, blamed>>

\* The order of directory names: the version's name first, then the timestamp.
NamedBefore(b, c) ==
  \/ Rank[b.prev] < Rank[c.prev]
  \/ Rank[b.prev] = Rank[c.prev] /\ b.at <= c.at

\* One round of the loop that removes the first directory by name.
Prune ==
  /\ pc = "prune"
  /\ IF Cardinality(backups) > Keep
       THEN /\ \E b \in backups : /\ \A c \in backups : NamedBefore(b, c)
                                  /\ backups' = backups \ {b}
            /\ UNCHANGED pc
       ELSE pc' = "spawn" /\ UNCHANGED backups
  /\ UNCHANGED <<live, restartTried, misses, recorded, fresh, record, db, made, serverVars,
                 bundled, clock, overlooked, blamed>>

Spawn ==
  /\ pc = "spawn"
  /\ pc' = "await"
  /\ child' = [ver |-> bundled, st |-> "launched"]
  /\ UNCHANGED <<live, restartTried, misses, recorded, fresh, diskVars, survivors, staleLock,
                 bundled, clock, overlooked, blamed>>

Ready ==
  /\ pc = "await" /\ child # None /\ child.st \notin {"launched", "starting"}
  /\ pc' = "running" /\ live' = TRUE
  /\ UNCHANGED <<restartTried, misses, recorded, fresh, diskVars, serverVars, bundled, clock,
                 overlooked, blamed>>

\* Any step may fail: a server that lives, or another process under the pid of
\* a stale lock, owns the data; a file operation or the spawn fails; the server
\* exits, is late, or answers for another version or port, and is killed.  The
\* first start leaves the recovery page (main.rs), a restart the recovery view.
StartFails ==
  /\ pc \in StartSteps
  /\ pc = "check" => Locked \/ staleLock
  /\ pc' = IF live THEN "failed" ELSE "recovery"
  /\ fresh' = 0
  /\ IF pc = "await" THEN ChildGone ELSE UNCHANGED serverVars
  /\ blamed' = TRUE
  /\ UNCHANGED <<live, restartTried, misses, recorded, diskVars, bundled, clock, overlooked>>

(***************************************************************************)
(* health, observed by the monitor.                                        *)
(***************************************************************************)
\* Mutant: a probe whose record failed counts for nothing.
MissedUncounted ==
  /\ pc' = "running"
  /\ UNCHANGED <<live, restartTried, misses, recorded, fresh>>

\* Mutant: the threshold is passed before the tracker reports it.
MissedLate ==
  /\ misses' = misses + 1
  /\ pc' = IF misses >= Threshold THEN "confirm" ELSE "running"
  /\ UNCHANGED <<live, restartTried, recorded, fresh>>

Missed ==
  /\ misses' = misses + 1
  /\ pc' = IF misses + 1 >= Threshold THEN "confirm" ELSE "running"
  /\ UNCHANGED <<live, restartTried, recorded, fresh>>

\* A successful probe is recorded once; the record completes before it counts.
Verified ==
  /\ misses' = 0 /\ recorded' = TRUE /\ fresh' = 0
  /\ pc' = "running"
  /\ UNCHANGED <<live, restartTried>>

Probe ==
  /\ pc = "running"
  /\ \/ child = None /\ pc' = "confirm" /\ UNCHANGED <<live, restartTried, misses, recorded, fresh>>
     \/ child # None /\ child.st = "sick" /\ Missed
     \/ child # None /\ child.st = "up" /\ recorded /\ Verified
     \/ /\ child # None /\ child.st = "up" /\ ~recorded
        /\ pc' = "truncate"
        /\ UNCHANGED <<live, restartTried, misses, recorded, fresh>>
  /\ UNCHANGED <<diskVars, serverVars, bundled, clock, overlooked, blamed>>

\* Mutant: the backup's metadata is completed before the record is written.
CompleteBeforeRecord ==
  /\ pc = "truncate"
  /\ IF fresh = 0 \/ \E b \in backups : b.at = fresh
       THEN /\ record' = None
            /\ pc' = "write"
            /\ UNCHANGED <<live, restartTried, misses, recorded, fresh>>
       ELSE UNCHANGED record /\ Missed
  /\ UNCHANGED <<db, backups, made, serverVars, bundled, clock, overlooked, blamed>>

\* write_runtime_version overwrites the record in place: it is emptied ...
TruncateRecord ==
  /\ pc = "truncate"
  /\ record' = None
  /\ pc' = "write"
  /\ UNCHANGED <<live, restartTried, misses, recorded, fresh, db, backups, made, serverVars,
                 bundled, clock, overlooked, blamed>>

\* ... and written.
WriteRecord ==
  /\ pc = "write"
  /\ record' = bundled
  /\ IF fresh = 0 THEN Verified
     ELSE pc' = "complete" /\ UNCHANGED <<live, restartTried, misses, recorded, fresh>>
  /\ UNCHANGED <<db, backups, made, serverVars, bundled, clock, overlooked, blamed>>

\* complete_upgrade_backup needs the metadata of the backup to be there still.
CompleteBackup ==
  /\ pc = "complete"
  /\ IF \E b \in backups : b.at = fresh THEN Verified ELSE Missed
  /\ UNCHANGED <<diskVars, serverVars, bundled, clock, overlooked, blamed>>

\* A file operation of the three fails, which makes the probe an unhealthy one.
RecordFails ==
  /\ pc \in {"truncate", "write", "complete"}
  /\ Missed
  /\ blamed' = TRUE
  /\ UNCHANGED <<diskVars, serverVars, bundled, clock, overlooked>>

\* Mutant: the attempt is not remembered.
ConfirmForgetting ==
  /\ pc = "confirm"
  /\ IF restartTried
       THEN pc' = "failed" /\ UNCHANGED <<misses, recorded, fresh, serverVars, clock>>
       ELSE Begin /\ ChildGone
  /\ UNCHANGED <<live, restartTried, diskVars, bundled, overlooked, blamed>>

\* monitor_standalone_runtime restarts the server once, and then gives up.
Confirm ==
  /\ pc = "confirm"
  /\ IF restartTried
       THEN /\ pc' = "failed"
            /\ UNCHANGED <<restartTried, misses, recorded, fresh, serverVars, clock>>
       ELSE restartTried' = TRUE /\ Begin /\ ChildGone
  /\ UNCHANGED <<live, diskVars, bundled, overlooked, blamed>>

\* runtime.retry of the recovery view.
UserRetries ==
  /\ pc = "failed" /\ clock + 1 < MaxStarts
  /\ Begin /\ ChildGone
  /\ UNCHANGED <<live, restartTried, diskVars, bundled, overlooked, blamed>>

(***************************************************************************)
(* The end of the application, and what goes on without it.                *)
(***************************************************************************)
Gone ==
  /\ pc' = "off" /\ live' = FALSE /\ restartTried' = FALSE /\ misses' = 0
  /\ recorded' = FALSE /\ fresh' = 0 /\ blamed' = FALSE

\* The server is shut down, where there is one.
Quit ==
  /\ pc \in {"running", "failed", "recovery"}
  /\ Gone /\ ChildGone
  /\ UNCHANGED <<diskVars, bundled, clock, overlooked>>

\* The application is killed; its server notices, or lives on.
Crash ==
  /\ pc # "off"
  /\ Gone
  /\ \/ ChildGone
     \/ /\ child # None /\ child' = None /\ UNCHANGED staleLock
        /\ \E n \in Slots : /\ survivors[n] = None
                            /\ survivors' = [survivors EXCEPT ![n] = child]
  /\ UNCHANGED <<diskVars, bundled, clock, overlooked>>

Install(v) ==
  /\ pc = "off" /\ v # bundled
  /\ bundled' = v
  /\ UNCHANGED <<appVars, diskVars, serverVars, clock, overlooked, blamed>>

(***************************************************************************)
(* The server by itself: t is what becomes of s.                           *)
(***************************************************************************)
TakesLock(s, t) ==
  /\ s.st = "launched" /\ ~Locked
  /\ t = [s EXCEPT !.st = "starting"]
  /\ staleLock' = FALSE
  /\ UNCHANGED db

\* The server brings the database to its version before it is ready.
Migrates(s, t) ==
  /\ s.st = "starting" /\ db # s.ver
  /\ t = s
  /\ db' = s.ver
  /\ UNCHANGED staleLock

Answers(s, t) ==
  /\ s.st \in {"starting", "sick"} /\ (s.st = "starting" => db = s.ver)
  /\ t = [s EXCEPT !.st = "up"]
  /\ UNCHANGED <<db, staleLock>>

Hangs(s, t) ==
  /\ s.st = "up"
  /\ t = [s EXCEPT !.st = "sick"]
  /\ UNCHANGED <<db, staleLock>>

Exits(s, t) == t = None /\ Leaves(s) /\ UNCHANGED db

Becomes(s, t) ==
  TakesLock(s, t) \/ Migrates(s, t) \/ Answers(s, t) \/ Hangs(s, t) \/ Exits(s, t)

ChildChanges ==
  /\ child # None
  /\ \E t \in Server \cup {None} :
       /\ Becomes(child, t) /\ child' = t
       /\ blamed' = (blamed \/ t = None \/ t.st = "sick")
  /\ UNCHANGED <<appVars, record, backups, made, survivors, bundled, clock, overlooked>>

SurvivorChanges(n) ==
  /\ survivors[n] # None
  /\ \E t \in Server \cup {None} :
       Becomes(survivors[n], t) /\ survivors' = [survivors EXCEPT ![n] = t]
  /\ UNCHANGED <<appVars, record, backups, made, child, bundled, clock, overlooked, blamed>>

StartStep == CheckLock \/ NoBackup \/ MakeDirectory \/ CopyData \/ Prune \/ Spawn \/ Ready \/ StartFails
ProbeStep == Probe \/ TruncateRecord \/ WriteRecord \/ CompleteBackup \/ RecordFails \/ Confirm

Next ==
  \/ StartStep
  \/ ProbeStep
  \/ Open
  \/ UserRetries
  \/ Quit
  \/ Crash
  \/ \E v \in Versions : Install(v)
  \/ ChildChanges
  \/ \E n \in Slots : SurvivorChanges(n)

Spec == Init /\ [][Next]_vars

\* The application's threads run and a start times out after 90 seconds;
\* nothing is assumed of the server, the user or the disk.
FairSpec == Spec /\ WF_vars(StartStep) /\ WF_vars(ProbeStep)

(***************************************************************************)
(* What must hold.                                                         *)
(***************************************************************************)

\* No server lives while the database is copied, not even one that outlived the
\* application that spawned it, except one that had yet to take the instance
\* lock when this start looked at it (ensure_no_active_instance_lock).
CopyIsQuiet == pc = "copy" /\ ~overlooked => Alive = {}

\* README.md, "Standalone mode": before a server of another version than the
\* last verified one first writes the database, a complete backup of the
\* database as it stands was made, whatever crashed or failed before, and
\* whichever application spawned that server, with the same exception.
UpgradeIsBackedUp ==
  [][db' # db /\ ~overlooked /\ record \notin {None, db'} =>
       \E b \in made : b.prev = record /\ b.db = db]_vars

\* The recovery view is never shown over a server and a disk that did nothing
\* wrong since the application was opened: what the supervisor trips over by
\* itself is put right by the one restart (record_successful_status).
HealthyNeverGivenUp == pc = "failed" => blamed

\* A start comes to an end: the server is verified, or its failure is shown,
\* or the application is gone.
RuntimeSettles == []<>(pc \in AtRest \/ recorded)

\* However a start fails, the supervision is the one Supervision describes: one
\* restart by itself, given up only after it, every other one the user's.
Phase ==
  IF ~live THEN "off"
  ELSE IF pc \in StartSteps THEN "replacing"
  ELSE IF pc \in ProbeSteps THEN "serving"
  ELSE "down"

Spent == restartTried /\ Phase # "off"

Promise == INSTANCE Supervision WITH phase <- Phase, spent <- Spent
SupervisionSpec == Promise!Spec

\* README.md, "Standalone mode": only the three newest automatic backups are
\* kept, so what is removed is older than what stays.
NewestAreKept ==
  [][\A b \in backups \ backups', c \in backups' : b.at < c.at]_vars
=============================================================================
