------------------------- MODULE UpgradeBackupProofs -------------------------
(***************************************************************************)
(* Theorems about UpgradeBackup, for every set of versions, order of names *)
(* and limits: its types, that a copy is quiet, that an upgrade is backed  *)
(* up, that a healthy server is never given up, and that it implements     *)
(* Supervision.                                                            *)
(***************************************************************************)
EXTENDS UpgradeBackup, TLAPS

\* TypeOK in two parts, the flags apart, and the count below the threshold
\* until it is reached.
Flags ==
  /\ live \in BOOLEAN /\ restartTried \in BOOLEAN /\ recorded \in BOOLEAN
  /\ staleLock \in BOOLEAN /\ overlooked \in BOOLEAN /\ blamed \in BOOLEAN

TypeInv ==
  /\ pc \in StartSteps \cup ProbeSteps \cup AtRest
  /\ misses \in 0 .. Threshold
  /\ pc \notin {"confirm", "failed"} => misses < Threshold
  /\ fresh \in Nat /\ clock \in Nat
  /\ bundled \in Versions
  /\ record \in Versions \cup {None} /\ db \in Versions \cup {None}
  /\ backups \in SUBSET Backup /\ made \in SUBSET Backup
  /\ child \in Server \cup {None}
  /\ survivors \in [Slots -> Server \cup {None}]

\* Whatever a server does by itself, it stays a server or is gone.
LEMMA BecomesServer ==
  ASSUME NEW s \in Server, NEW t, Becomes(s, t)
  PROVE  t \in Server \cup {None}
BY DEF Becomes, TakesLock, Migrates, Answers, Hangs, Exits, Server

\* It writes nothing but the database, and that as its own version.
LEMMA BecomesWrites ==
  ASSUME NEW s \in Server, NEW t, Becomes(s, t)
  PROVE  /\ db' \in {db, s.ver}
         /\ db' # db => s.st = "starting" /\ db' = s.ver
BY DEF Becomes, TakesLock, Migrates, Answers, Hangs, Exits

\* A backup that is filled keeps what names it.
LEMMA FilledBackup ==
  ASSUME NEW b \in Backup, NEW copy \in Versions \cup {None}
  PROVE  /\ Filled(b, copy) \in Backup
         /\ Filled(b, copy).prev = b.prev /\ Filled(b, copy).db = copy /\ Filled(b, copy).done
BY DEF Filled, Backup

LEMMA InitType == Init => TypeInv
  BY LimitsAssumption DEF Init, TypeInv, AtRest

\* The start of the server keeps the types.
LEMMA StartType == TypeInv /\ StartStep => TypeInv'
<1> SUFFICES ASSUME TypeInv, StartStep
             PROVE  TypeInv'
  OBVIOUS
<1> USE DEF TypeInv, StartSteps, ProbeSteps, AtRest, diskVars, serverVars
<1>1. CASE CheckLock \/ NoBackup \/ Ready
  BY <1>1 DEF CheckLock, NoBackup, Ready
<1>2. CASE MakeDirectory
  <2>1. [prev |-> record, at |-> clock, db |-> None, done |-> FALSE] \in Backup
    BY <1>2 DEF MakeDirectory, Backup
  <2> QED
    BY <1>2, <2>1 DEF MakeDirectory
<1>3. CASE CopyData
  <2>1. PICK copy \in {db, None} : Copied(copy)
    BY <1>3 DEF CopyData
  <2>2. \A b \in backups : Filled(b, copy) \in Backup
    BY FilledBackup
  <2>3. backups' \in SUBSET Backup /\ made' \in SUBSET Backup
    BY <2>1, <2>2 DEF Copied
  <2>4. /\ pc' = "prune" /\ fresh' = clock
        /\ UNCHANGED <<misses, record, db, child, survivors, bundled, clock>>
    BY <1>3 DEF CopyData
  <2> QED
    BY <2>3, <2>4, <1>3 DEF CopyData
<1>4. CASE Prune
  BY <1>4 DEF Prune
<1>5. CASE Spawn
  BY <1>5 DEF Spawn, Server
<1>6. CASE StartFails
  BY <1>6 DEF StartFails, ChildGone
<1> QED
  BY <1>1, <1>2, <1>3, <1>4, <1>5, <1>6 DEF StartStep

\* So do the monitor's probes.
LEMMA ProbeType == TypeInv /\ ProbeStep => TypeInv'
<1> SUFFICES ASSUME TypeInv, ProbeStep
             PROVE  TypeInv'
  OBVIOUS
<1> USE LimitsAssumption
    DEF TypeInv, StartSteps, ProbeSteps, AtRest, diskVars, serverVars
<1>1. CASE Probe
  BY <1>1 DEF Probe, Missed, Verified
<1>2. CASE TruncateRecord \/ WriteRecord
  BY <1>2 DEF TruncateRecord, WriteRecord, Verified
<1>3. CASE CompleteBackup \/ RecordFails
  BY <1>3 DEF CompleteBackup, RecordFails, Missed, Verified
<1>4. CASE Confirm
  BY <1>4 DEF Confirm, Begin, ChildGone
<1> QED
  BY <1>1, <1>2, <1>3, <1>4 DEF ProbeStep

LEMMA StepType == TypeInv /\ [Next]_vars => TypeInv'
<1> SUFFICES ASSUME TypeInv, [Next]_vars
             PROVE  TypeInv'
  OBVIOUS
<1> USE DEF TypeInv, StartSteps, ProbeSteps, AtRest, diskVars, serverVars,
            appVars
<1>1. CASE Open \/ UserRetries
  BY <1>1, LimitsAssumption DEF Open, UserRetries, Begin, ChildGone
<1>2. CASE Quit \/ Crash
  BY <1>2, LimitsAssumption DEF Quit, Crash, Gone, ChildGone
<1>3. ASSUME NEW v \in Versions, Install(v)
      PROVE  TypeInv'
  BY <1>3 DEF Install
<1>4. CASE ChildChanges
  <2>1. PICK t \in Server \cup {None} : Becomes(child, t) /\ child' = t
    BY <1>4 DEF ChildChanges
  <2>2. child \in Server
    BY <1>4 DEF ChildChanges
  <2>3. db' \in Versions \cup {None}
    BY <2>1, <2>2, BecomesWrites DEF Server
  <2> QED
    BY <1>4, <2>1, <2>3 DEF ChildChanges
<1>5. ASSUME NEW n \in Slots, SurvivorChanges(n)
      PROVE  TypeInv'
  <2>1. PICK t \in Server \cup {None} :
          Becomes(survivors[n], t) /\ survivors' = [survivors EXCEPT ![n] = t]
    BY <1>5 DEF SurvivorChanges
  <2>2. survivors[n] \in Server
    BY <1>5 DEF SurvivorChanges
  <2>3. db' \in Versions \cup {None}
    BY <2>1, <2>2, BecomesWrites DEF Server
  <2> QED
    BY <1>5, <2>1, <2>3 DEF SurvivorChanges
<1>6. CASE UNCHANGED vars
  BY <1>6 DEF vars
<1> QED
  BY <1>1, <1>2, <1>3, <1>4, <1>5, <1>6, StartType, ProbeType DEF Next

LEMMA InitFlags == Init => Flags
  BY Zenon DEF Init, Flags

\* The lock file is there or not, whatever a server does.
LEMMA BecomesFlag ==
  ASSUME staleLock \in BOOLEAN, NEW s, NEW t, Becomes(s, t)
  PROVE  staleLock' \in BOOLEAN
BY Zenon DEF Becomes, TakesLock, Migrates, Answers, Hangs, Exits, Leaves

LEMMA LeavesFlag == ASSUME staleLock \in BOOLEAN, NEW s, Leaves(s) PROVE staleLock' \in BOOLEAN
BY Zenon DEF Leaves

LEMMA StepFlags == Flags /\ [Next]_vars => Flags'
<1> SUFFICES ASSUME Flags, [Next]_vars
             PROVE  Flags'
  OBVIOUS
<1> USE DEF Flags, diskVars, serverVars, appVars
<1>0. ChildGone => staleLock' \in BOOLEAN
  BY LeavesFlag DEF ChildGone
<1>1. CASE StartStep
  <2>1. CASE CheckLock
    BY <2>1, Zenon DEF CheckLock, Looks
  <2>2. CASE NoBackup \/ MakeDirectory \/ CopyData \/ Prune \/ Spawn \/ Ready
    BY <2>2, Zenon DEF NoBackup, MakeDirectory, CopyData, Prune, Spawn, Ready
  <2>3. CASE StartFails
    BY <2>3, <1>0, Zenon DEF StartFails
  <2> QED
    BY <1>1, <2>1, <2>2, <2>3 DEF StartStep
<1>2. CASE ProbeStep
  BY <1>0, <1>2, Zenon DEF ProbeStep, Probe, TruncateRecord, WriteRecord, CompleteBackup,
                     RecordFails, Confirm, Missed, Verified, Begin
<1>3. CASE Open \/ UserRetries \/ Quit \/ Crash
  BY <1>0, <1>3, Zenon DEF Open, UserRetries, Begin, Quit, Crash, Gone
<1>4. CASE ChildChanges
  <2>1. PICK t \in Server \cup {None} :
          Becomes(child, t) /\ blamed' = (blamed \/ t = None \/ t.st = "sick")
    BY <1>4, Zenon DEF ChildChanges
  <2>2. staleLock' \in BOOLEAN
    BY <2>1, BecomesFlag
  <2>3. blamed' \in BOOLEAN
    BY <2>1, Zenon
  <2> QED
    BY <1>4, <2>2, <2>3, Zenon DEF ChildChanges
<1>5. ASSUME NEW n \in Slots, SurvivorChanges(n)
      PROVE  Flags'
  <2>1. staleLock' \in BOOLEAN
    BY <1>5, BecomesFlag DEF SurvivorChanges
  <2> QED
    BY <1>5, <2>1, Zenon DEF SurvivorChanges
<1>6. CASE (\E v \in Versions : Install(v)) \/ UNCHANGED vars
  BY <1>6, Zenon DEF Install, vars
<1> QED
  BY <1>1, <1>2, <1>3, <1>4, <1>5, <1>6 DEF Next

\* Every variable keeps its type.
THEOREM TypeCorrect == Spec => []TypeOK
<1>1. TypeInv /\ Flags => TypeOK
  BY DEF TypeInv, Flags, TypeOK
<1> QED
  BY <1>1, InitType, StepType, InitFlags, StepFlags, PTL DEF Spec

(***************************************************************************)
(* A quiet copy.                                                           *)
(***************************************************************************)

\* An application has no server of its own before it spawns one, nor when it
\* is not there.
Quiet == pc \in {"off", "check", "backup", "copy", "prune", "spawn"} => child = None

\* Unless a server was overlooked, a start that passed the check is alone, and
\* so is its server, also when it outlives the application.
Single ==
  ~overlooked =>
    /\ pc \in (StartSteps \ {"check"}) \cup ProbeSteps => \A n \in Slots : survivors[n] = None
    /\ child # None => \A n \in Slots : survivors[n] = None
    /\ \A m, n \in Slots : survivors[m] # None /\ survivors[n] # None => m = n

QuietInv == Quiet /\ Single

LEMMA StepQuiet == Quiet /\ [Next]_vars => Quiet'
<1> SUFFICES ASSUME Quiet, [Next]_vars
             PROVE  Quiet'
  OBVIOUS
<1> USE DEF Quiet, StartSteps, diskVars, serverVars, appVars
<1>1. CASE StartStep
  BY <1>1 DEF StartStep, CheckLock, NoBackup, MakeDirectory, CopyData, Prune, Spawn, Ready,
              StartFails
<1>2. CASE ProbeStep
  BY <1>2 DEF ProbeStep, Probe, TruncateRecord, WriteRecord, CompleteBackup, RecordFails,
              Confirm, Missed, Verified, Begin, ChildGone
<1>3. CASE Open \/ UserRetries \/ Quit \/ Crash
  BY <1>3 DEF Open, UserRetries, Begin, Quit, Crash, Gone, ChildGone
<1>4. CASE ChildChanges \/ (\E n \in Slots : SurvivorChanges(n))
  BY <1>4 DEF ChildChanges, SurvivorChanges
<1>5. CASE (\E v \in Versions : Install(v)) \/ UNCHANGED vars
  BY <1>5 DEF Install, vars
<1> QED
  BY <1>1, <1>2, <1>3, <1>4, <1>5 DEF Next

\* Who is alive when the check passes has yet to take the lock.
LEMMA CheckedAlone == CheckLock /\ ~overlooked' => \A n \in Slots : survivors[n] = None
BY DEF CheckLock, Looks, Locked, Alive

LEMMA StepSingle == TypeInv /\ QuietInv /\ [Next]_vars => Single'
<1> SUFFICES ASSUME TypeInv, QuietInv, [Next]_vars
             PROVE  Single'
  OBVIOUS
<1> USE DEF QuietInv, Quiet, Single, StartSteps, ProbeSteps, diskVars, serverVars, appVars
<1>1. CASE CheckLock
  BY <1>1, CheckedAlone DEF CheckLock
<1>2. CASE NoBackup \/ MakeDirectory \/ CopyData \/ Prune
  BY <1>2 DEF NoBackup, MakeDirectory, CopyData, Prune
<1>3. CASE Spawn \/ Ready
  BY <1>3 DEF Spawn, Ready
<1>4. CASE StartFails
  BY <1>4 DEF StartFails, ChildGone
<1>5. CASE ProbeStep
  BY <1>5 DEF ProbeStep, Probe, TruncateRecord, WriteRecord, CompleteBackup, RecordFails,
              Confirm, Missed, Verified, Begin, ChildGone
<1>6. CASE Open \/ UserRetries \/ Quit
  BY <1>6 DEF Open, UserRetries, Begin, Quit, Gone, ChildGone
<1>7. CASE Crash
  BY <1>7 DEF Crash, Gone, ChildGone, TypeInv
<1>8. CASE ChildChanges
  BY <1>8 DEF ChildChanges
<1>9. ASSUME NEW n \in Slots, SurvivorChanges(n)
      PROVE  Single'
  BY <1>9 DEF SurvivorChanges, TypeInv
<1>10. CASE (\E v \in Versions : Install(v)) \/ UNCHANGED vars
  BY <1>10 DEF Install, vars
<1> QED
  BY <1>1, <1>2, <1>3, <1>4, <1>5, <1>6, <1>7, <1>8, <1>9, <1>10 DEF Next, StartStep

LEMMA QuietAlways == Spec => [](TypeInv /\ QuietInv)
<1>1. Init => QuietInv
  BY DEF Init, QuietInv, Quiet, Single, StartSteps, ProbeSteps
<1> QED
  BY <1>1, InitType, StepType, StepQuiet, StepSingle, PTL DEF Spec, QuietInv

\* No server lives while the database is copied, except one that had yet to
\* take the lock when the start looked at it.
THEOREM CopiesAreQuiet == Spec => []CopyIsQuiet
<1>1. QuietInv => CopyIsQuiet
  BY DEF QuietInv, Quiet, Single, StartSteps, CopyIsQuiet, Alive
<1> QED
  BY <1>1, QuietAlways, PTL

(***************************************************************************)
(* An upgrade is backed up.                                                *)
(***************************************************************************)
HasBackup == \E b \in made : b.prev = record /\ b.db = db

\* A server that has yet to write the database may do so.
MayMigrate(s) ==
  s # None /\ s.st \in {"launched", "starting"} /\ db # s.ver /\ record \notin {None, s.ver}
    => HasBackup

\* The backup from its directory to the server that may need it; the last
\* conjunct keeps the record still until that server is ready.
BackupInv ==
  /\ pc = "copy" => \E b \in backups : b.prev = record /\ b.at = clock
  /\ ~overlooked /\ pc \in {"prune", "spawn"} /\ record \notin {None, bundled} => HasBackup
  /\ ~overlooked => MayMigrate(child) /\ \A n \in Slots : MayMigrate(survivors[n])
  /\ pc \in ProbeSteps => child = None \/ child.st \notin {"launched", "starting"}

BackupAll == TypeInv /\ QuietInv /\ BackupInv

\* From the check to the spawn the backup is made that the new server needs.
LEMMA StartBackup == BackupAll /\ StartStep => BackupInv'
<1> SUFFICES ASSUME BackupAll, StartStep
             PROVE  BackupInv'
  OBVIOUS
<1> USE DEF BackupAll, QuietInv, Quiet, BackupInv, MayMigrate, HasBackup, ProbeSteps, StartSteps,
            diskVars, serverVars
<1>1. CASE CheckLock
  BY <1>1, CheckedAlone DEF CheckLock
<1>2. CASE NoBackup \/ Ready
  BY <1>2 DEF NoBackup, Ready
<1>3. CASE MakeDirectory
  <2> DEFINE dir == [prev |-> record, at |-> clock, db |-> None, done |-> FALSE]
  <2>1. dir \in backups' /\ dir.prev = record' /\ dir.at = clock'
    BY <1>3 DEF MakeDirectory
  <2> QED
    BY <1>3, <2>1 DEF MakeDirectory
<1>4. CASE CopyData
  <2>1. PICK b \in backups : b.prev = record /\ b.at = clock
    BY <1>4 DEF CopyData
  <2>2. b \in Backup
    BY DEF TypeInv
  <2>3. PICK copy \in IF overlooked THEN {db, None} ELSE {db} : Copied(copy)
    BY <1>4 DEF CopyData
  <2>4. /\ Filled(b, copy) \in made'
        /\ Filled(b, copy).prev = record /\ Filled(b, copy).db = copy
    <3>1. copy \in Versions \cup {None}
      BY <2>3 DEF TypeInv
    <3>2. Filled(b, copy).done /\ Filled(b, copy).prev = record /\ Filled(b, copy).db = copy
      BY <2>1, <2>2, <3>1, FilledBackup
    <3> QED
      BY <2>1, <2>3, <3>2 DEF Copied
  <2>5. ~overlooked => HasBackup'
    <3>1. ~overlooked => copy = db
      BY <2>3
    <3>2. UNCHANGED <<record, db>>
      BY <1>4 DEF CopyData
    <3> QED
      BY <2>4, <3>1, <3>2
  <2>6. \A n \in Slots : ~overlooked => survivors[n] = None
    BY <1>4 DEF CopyData, Single
  <2>7. /\ pc = "copy" /\ pc' = "prune"
        /\ UNCHANGED <<record, db, child, survivors, bundled, overlooked>>
    BY <1>4 DEF CopyData
  <2> QED
    BY <2>5, <2>6, <2>7
<1>5. CASE Prune
  BY <1>5 DEF Prune
<1>6. CASE Spawn
  <2>1. \A n \in Slots : ~overlooked => survivors[n] = None
    BY <1>6 DEF Spawn, Single
  <2>2. ~overlooked => MayMigrate([ver |-> bundled, st |-> "launched"])
    BY <1>6 DEF Spawn
  <2> QED
    BY <1>6, <2>1, <2>2 DEF Spawn
<1>7. CASE StartFails
  BY <1>7 DEF StartFails, ChildGone
<1> QED
  BY <1>1, <1>2, <1>3, <1>4, <1>5, <1>6, <1>7 DEF StartStep

\* The probes rewrite the record when no server can still want a backup.
LEMMA ProbeBackup == BackupAll /\ ProbeStep => BackupInv'
<1> SUFFICES ASSUME BackupAll, ProbeStep
             PROVE  BackupInv'
  OBVIOUS
<1> USE DEF BackupAll, BackupInv, MayMigrate, HasBackup, ProbeSteps, diskVars, serverVars
<1>1. CASE Probe
  BY <1>1 DEF Probe, Missed, Verified
<1>2. CASE TruncateRecord \/ WriteRecord
  <2>1. ~overlooked => \A n \in Slots : survivors[n] = None
    BY <1>2 DEF TruncateRecord, WriteRecord, QuietInv, Single
  <2> QED
    BY <1>2, <2>1 DEF TruncateRecord, WriteRecord, Verified
<1>3. CASE CompleteBackup \/ RecordFails
  BY <1>3 DEF CompleteBackup, RecordFails, Missed, Verified
<1>4. CASE Confirm
  BY <1>4 DEF Confirm, Begin, ChildGone
<1> QED
  BY <1>1, <1>2, <1>3, <1>4 DEF ProbeStep

\* A server that moves on has the backup it had: who writes the database was
\* the only one to want it.
LEMMA BecomesBackup ==
  ASSUME TypeInv, NEW s \in Server, NEW t, Becomes(s, t), MayMigrate(s),
         record' = record, made' = made
  PROVE  /\ t # None /\ t.st \in {"launched", "starting"} /\ db' # t.ver
            /\ record \notin {None, t.ver} => HasBackup'
         /\ t # None /\ s.st \notin {"launched", "starting"} => t.st \notin {"launched", "starting"}
<1> USE DEF MayMigrate, HasBackup, Server
<1>0. s # None
  BY ServerAssumption
<1>1. CASE TakesLock(s, t)
  BY <1>0, <1>1 DEF TakesLock
<1>2. CASE Migrates(s, t)
  BY <1>2 DEF Migrates
<1>3. CASE Answers(s, t) \/ Hangs(s, t)
  BY <1>3 DEF Answers, Hangs
<1>4. CASE Exits(s, t)
  BY <1>4 DEF Exits
<1> QED
  BY <1>1, <1>2, <1>3, <1>4 DEF Becomes

LEMMA ChildBackup == BackupAll /\ ChildChanges => BackupInv'
<1> SUFFICES ASSUME BackupAll, ChildChanges
             PROVE  BackupInv'
  OBVIOUS
<1>1. PICK t \in Server \cup {None} : Becomes(child, t) /\ child' = t
  BY DEF ChildChanges
<1>2. child \in Server
  BY DEF ChildChanges, BackupAll, TypeInv
<1>3. UNCHANGED <<pc, record, backups, made, survivors, bundled, clock, overlooked>>
  BY DEF ChildChanges, appVars
<1>4. pc \notin {"copy", "prune", "spawn"}
  BY DEF ChildChanges, BackupAll, QuietInv, Quiet
<1>5. ~overlooked => \A n \in Slots : survivors'[n] = None
  BY <1>3 DEF ChildChanges, BackupAll, QuietInv, Single
<1>6. ~overlooked => MayMigrate(child)'
  <2> SUFFICES ASSUME ~overlooked PROVE MayMigrate(child)'
    OBVIOUS
  <2>1. MayMigrate(child)
    BY DEF BackupAll, BackupInv
  <2> QED
    BY <1>1, <1>2, <1>3, <2>1, BecomesBackup DEF BackupAll, MayMigrate
<1>7. pc' \in ProbeSteps => child' = None \/ child'.st \notin {"launched", "starting"}
  <2> SUFFICES ASSUME pc \in ProbeSteps, t # None PROVE t.st \notin {"launched", "starting"}
    BY <1>1, <1>3
  <2>1. child.st \notin {"launched", "starting"}
    BY <1>2, ServerAssumption DEF BackupAll, BackupInv
  <2> QED
    BY <1>1, <2>1 DEF Becomes, TakesLock, Migrates, Answers, Hangs, Exits, Server
<1> QED
  BY <1>3, <1>4, <1>5, <1>6, <1>7 DEF BackupInv, MayMigrate

LEMMA SurvivorBackup ==
  ASSUME BackupAll, NEW n \in Slots, SurvivorChanges(n)
  PROVE  BackupInv'
<1>1. PICK t \in Server \cup {None} :
        Becomes(survivors[n], t) /\ survivors' = [survivors EXCEPT ![n] = t]
  BY DEF SurvivorChanges
<1>2. survivors[n] \in Server
  BY DEF SurvivorChanges, BackupAll, TypeInv
<1>3. UNCHANGED <<pc, record, backups, made, child, bundled, clock, overlooked>>
  BY DEF SurvivorChanges, appVars
<1>4. survivors'[n] = t /\ \A m \in Slots \ {n} : survivors'[m] = survivors[m]
  BY <1>1 DEF BackupAll, TypeInv
<1>5. ~overlooked => /\ child = None /\ \A m \in Slots \ {n} : survivors[m] = None
                     /\ pc \notin {"copy", "prune", "spawn"}
  BY DEF SurvivorChanges, BackupAll, QuietInv, Single, StartSteps
<1>6. ~overlooked => MayMigrate(survivors[n])'
  <2> SUFFICES ASSUME ~overlooked PROVE MayMigrate(survivors[n])'
    OBVIOUS
  <2>1. MayMigrate(survivors[n])
    BY DEF BackupAll, BackupInv
  <2> QED
    BY <1>1, <1>2, <1>3, <1>4, <2>1, BecomesBackup DEF BackupAll, MayMigrate
<1> QED
  BY <1>3, <1>4, <1>5, <1>6 DEF BackupInv, BackupAll, MayMigrate

LEMMA StepBackup == BackupAll /\ [Next]_vars => BackupAll'
<1> SUFFICES ASSUME BackupAll, [Next]_vars
             PROVE  BackupInv'
  BY StepType, StepQuiet, StepSingle DEF BackupAll, QuietInv
<1> USE DEF BackupAll, QuietInv, Quiet, BackupInv, MayMigrate, HasBackup, ProbeSteps, diskVars,
            serverVars, appVars
<1>1. CASE Open \/ UserRetries
  BY <1>1 DEF Open, UserRetries, Begin, ChildGone
<1>2. CASE Quit
  BY <1>2 DEF Quit, Gone, ChildGone
<1>3. CASE Crash
  BY <1>3 DEF Crash, Gone, ChildGone, TypeInv
<1>4. CASE \E v \in Versions : Install(v)
  BY <1>4 DEF Install
<1>5. CASE UNCHANGED vars
  BY <1>5 DEF vars
<1> QED
  BY <1>1, <1>2, <1>3, <1>4, <1>5, StartBackup, ProbeBackup, ChildBackup, SurvivorBackup DEF Next

LEMMA BackupAlways == Spec => []BackupAll
<1>1. Init => BackupAll
  BY InitType DEF Init, BackupAll, QuietInv, Quiet, Single, BackupInv, MayMigrate, StartSteps,
                  ProbeSteps
<1> QED
  BY <1>1, StepBackup, PTL DEF Spec

\* Only servers write the database, while they start.
LEMMA MigrationIsBackedUp ==
  BackupAll /\ [Next]_vars =>
    (db' # db /\ ~overlooked /\ record \notin {None, db'} => HasBackup)
<1> SUFFICES ASSUME BackupAll, [Next]_vars, db' # db, ~overlooked, record \notin {None, db'}
             PROVE  HasBackup
  OBVIOUS
<1> USE DEF diskVars, serverVars, appVars
<1>1. CASE ChildChanges
  <2>1. child \in Server /\ child # None
    BY <1>1 DEF ChildChanges, BackupAll, TypeInv
  <2>2. child.st = "starting" /\ db' = child.ver
    BY <1>1, <2>1, BecomesWrites DEF ChildChanges
  <2> QED
    BY <2>1, <2>2 DEF BackupAll, BackupInv, MayMigrate
<1>2. ASSUME NEW n \in Slots, SurvivorChanges(n)
      PROVE  HasBackup
  <2>1. survivors[n] \in Server /\ survivors[n] # None
    BY <1>2 DEF SurvivorChanges, BackupAll, TypeInv
  <2>2. survivors[n].st = "starting" /\ db' = survivors[n].ver
    BY <1>2, <2>1, BecomesWrites DEF SurvivorChanges
  <2> QED
    BY <2>1, <2>2 DEF BackupAll, BackupInv, MayMigrate
<1>3. CASE StartStep
  BY <1>3 DEF StartStep, CheckLock, NoBackup, MakeDirectory, CopyData, Prune, Spawn, Ready,
              StartFails
<1>4. CASE ProbeStep
  BY <1>4 DEF ProbeStep, Probe, TruncateRecord, WriteRecord, CompleteBackup, RecordFails,
              Confirm
<1>5. CASE Open \/ UserRetries \/ Quit \/ Crash
  BY <1>5 DEF Open, UserRetries, Quit, Crash
<1>6. CASE (\E v \in Versions : Install(v)) \/ UNCHANGED vars
  BY <1>6 DEF Install, vars
<1> QED
  BY <1>1, <1>2, <1>3, <1>4, <1>5, <1>6 DEF Next

\* Before a server of another version than the last verified one first writes
\* the database, that database was copied into a complete backup, unless a
\* server was overlooked.
THEOREM UpgradesAreBackedUp == Spec => UpgradeIsBackedUp
<1>1. BackupAll /\ [Next]_vars =>
        [db' # db /\ ~overlooked /\ record \notin {None, db'} =>
           \E b \in made : b.prev = record /\ b.db = db]_vars
  BY MigrationIsBackedUp DEF HasBackup
<1> QED
  BY <1>1, BackupAlways, PTL DEF Spec, UpgradeIsBackedUp

(***************************************************************************)
(* A healthy server is not given up.                                       *)
(***************************************************************************)

\* While nothing is to blame the server answers, a probe is missed only after
\* the record was written, and the restart that follows finds the record of
\* its own version: it takes no backup that could be missing.
Blameless ==
  /\ pc \in ProbeSteps => child # None /\ child.st = "up"
  /\ pc = "await" => child # None /\ child.st # "sick"
  /\ pc = "confirm" => ~restartTried /\ record = bundled
  /\ restartTried =>
       /\ pc \notin {"copy", "prune", "complete", "confirm"}
       /\ pc \in {"check", "backup"} => record = bundled
       /\ fresh = 0
  /\ pc \notin {"failed", "recovery"}

BlameInv ==
  /\ pc = "complete" => record = bundled
  /\ pc = "off" => ~restartTried
  /\ ~blamed => Blameless

BlameAll == TypeInv /\ Flags /\ Quiet /\ BlameInv

LEMMA StartBlame == BlameAll /\ StartStep => BlameInv'
<1> SUFFICES ASSUME BlameAll, StartStep
             PROVE  BlameInv'
  OBVIOUS
<1> USE DEF BlameAll, Quiet, BlameInv, Blameless, ProbeSteps, diskVars, serverVars
<1>1. CASE CheckLock \/ NoBackup
  BY <1>1 DEF CheckLock, NoBackup
<1>2. CASE MakeDirectory
  BY <1>2 DEF MakeDirectory
<1>7. CASE CopyData
  BY <1>7 DEF CopyData
<1>3. CASE Prune
  BY <1>3 DEF Prune
<1>4. CASE Spawn
  <2>1. [ver |-> bundled, st |-> "launched"] # None
    BY ServerAssumption DEF TypeInv, Server
  <2> QED
    BY <1>4, <2>1 DEF Spawn
<1>5. CASE Ready
  BY <1>5 DEF Ready, TypeInv, Server
<1>6. CASE StartFails
  BY <1>6 DEF StartFails, StartSteps
<1> QED
  BY <1>1, <1>2, <1>3, <1>4, <1>5, <1>6, <1>7 DEF StartStep

LEMMA ProbeBlame == BlameAll /\ ProbeStep => BlameInv'
<1> SUFFICES ASSUME BlameAll, ProbeStep
             PROVE  BlameInv'
  OBVIOUS
<1> USE DEF BlameAll, BlameInv, Blameless, ProbeSteps, diskVars, serverVars
<1>1. CASE Probe
  BY <1>1 DEF Probe, Missed, Verified
<1>2. CASE TruncateRecord \/ WriteRecord
  BY <1>2 DEF TruncateRecord, WriteRecord, Verified
<1>3. CASE CompleteBackup
  BY <1>3 DEF CompleteBackup, Missed, Verified
<1>4. CASE RecordFails
  BY <1>4 DEF RecordFails, Missed
<1>5. CASE Confirm
  BY <1>5 DEF Confirm, Begin
<1> QED
  BY <1>1, <1>2, <1>3, <1>4, <1>5 DEF ProbeStep

LEMMA StepBlame == BlameAll /\ [Next]_vars => BlameAll'
<1> SUFFICES ASSUME BlameAll, [Next]_vars
             PROVE  BlameInv'
  BY StepType, StepFlags, StepQuiet DEF BlameAll
<1> USE DEF BlameAll, BlameInv, Blameless, ProbeSteps, diskVars, serverVars, appVars
<1>1. CASE Open \/ UserRetries
  BY <1>1 DEF Open, UserRetries, Begin
<1>2. CASE Quit \/ Crash
  BY <1>2 DEF Quit, Crash, Gone
<1>3. CASE \E v \in Versions : Install(v)
  BY <1>3 DEF Install
<1>4. CASE ChildChanges
  <2>1. PICK t \in Server \cup {None} :
          /\ Becomes(child, t) /\ child' = t
          /\ blamed' = (blamed \/ t = None \/ t.st = "sick")
    BY <1>4 DEF ChildChanges
  <2>2. CASE blamed'
    BY <1>4, <2>2 DEF ChildChanges
  <2>3. CASE ~blamed'
    <3>1. ~blamed /\ t # None /\ t.st # "sick"
      BY <2>1, <2>3, Zenon
    <3>2. child.st = "up" => FALSE
      BY <2>1, <3>1 DEF Becomes, TakesLock, Migrates, Answers, Hangs, Exits, Server
    <3> QED
      BY <1>4, <2>1, <3>1, <3>2 DEF ChildChanges
  <2> QED
    BY <2>2, <2>3
<1>5. CASE \E n \in Slots : SurvivorChanges(n)
  BY <1>5 DEF SurvivorChanges
<1>6. CASE UNCHANGED vars
  BY <1>6 DEF vars
<1> QED
  BY <1>1, <1>2, <1>3, <1>4, <1>5, <1>6, StartBlame, ProbeBlame DEF Next

\* The recovery view is never shown over a server and a disk that did nothing wrong.
THEOREM HealthyIsNeverGivenUp == Spec => []HealthyNeverGivenUp
<1>1. Init => BlameAll
  BY InitType, InitFlags DEF Init, BlameAll, Quiet, BlameInv, Blameless, ProbeSteps
<1>2. BlameAll => HealthyNeverGivenUp
  BY DEF BlameAll, BlameInv, Blameless, HealthyNeverGivenUp
<1> QED
  BY <1>1, <1>2, StepBlame, PTL DEF Spec

(***************************************************************************)
(* The supervision the start implements.                                   *)
(***************************************************************************)

\* The automatic restart belongs to an application whose server was ready, and
\* is spent when that server is started again or was given up.
Tried ==
  /\ live => pc \notin {"off", "recovery"}
  /\ ~live => ~restartTried /\ pc \notin ProbeSteps \cup {"failed"}
  /\ live /\ pc \notin ProbeSteps => restartTried

\* The steps of a start before the server is ready leave it at a start.
LEMMA StartGoesOn ==
  ASSUME CheckLock \/ NoBackup \/ MakeDirectory \/ CopyData \/ Prune \/ Spawn
  PROVE  pc \in StartSteps /\ pc' \in StartSteps /\ UNCHANGED <<live, restartTried>>
<1> USE DEF StartSteps
<1>1. CASE CheckLock \/ NoBackup
  BY <1>1 DEF CheckLock, NoBackup
<1>2. CASE MakeDirectory \/ CopyData
  BY <1>2 DEF MakeDirectory, CopyData
<1>3. CASE Prune
  BY <1>3 DEF Prune
<1>4. CASE Spawn
  BY <1>4 DEF Spawn
<1> QED
  BY <1>1, <1>2, <1>3, <1>4

LEMMA TriedStep == TypeInv /\ Flags /\ Tried /\ [Next]_vars => Tried'
<1> SUFFICES ASSUME TypeInv, Flags, Tried, [Next]_vars
             PROVE  Tried'
  OBVIOUS
<1> USE DEF Tried, TypeInv, StartSteps, ProbeSteps, AtRest, appVars
<1>1. CASE StartStep
  <2>1. CASE Ready \/ StartFails
    BY <2>1 DEF Ready, StartFails
  <2>2. CASE ~(Ready \/ StartFails)
    BY <1>1, <2>2, StartGoesOn DEF StartStep
  <2> QED
    BY <2>1, <2>2
<1>2. CASE ProbeStep
  BY <1>2 DEF ProbeStep, Probe, TruncateRecord, WriteRecord, CompleteBackup, RecordFails,
              Confirm, Missed, Verified, Begin
<1>3. CASE Open \/ UserRetries
  BY <1>3 DEF Open, UserRetries, Begin
<1>4. CASE Quit \/ Crash
  BY <1>4 DEF Quit, Crash, Gone
<1>5. CASE ChildChanges \/ (\E n \in Slots : SurvivorChanges(n))
  BY <1>5 DEF ChildChanges, SurvivorChanges
<1>6. CASE (\E v \in Versions : Install(v)) \/ UNCHANGED vars
  BY <1>6 DEF Install, vars
<1> QED
  BY <1>1, <1>2, <1>3, <1>4, <1>5, <1>6 DEF Next

\* What a step must do to the phase and the attempt to be one of the supervision.
Supervised ==
  \/ Phase' = Phase /\ restartTried' = restartTried
  \/ Phase = "off" /\ Phase' = "serving" /\ restartTried' = FALSE
  \/ Phase = "serving" /\ Phase' = "replacing" /\ ~restartTried /\ restartTried' = TRUE
  \/ Phase = "replacing" /\ Phase' = "serving" /\ restartTried' = restartTried
  \/ /\ Phase \in {"serving", "replacing"} /\ Phase' = "down"
     /\ restartTried /\ restartTried' = restartTried
  \/ Phase = "down" /\ Phase' = "replacing" /\ restartTried' = restartTried
  \/ Phase # "off" /\ Phase' = "off"

LEMMA SupervisedSteps == Supervised => [Promise!Next]_(Promise!vars)
<1>1. Phase' = Phase /\ restartTried' = restartTried => Spent' = Spent
  BY SMT DEF Spent
<1>2. Phase = "off" => Spent = FALSE
  BY SMT DEF Spent
<1>3. Phase' = "off" => Spent' = FALSE
  BY SMT DEF Spent
<1>4. Phase' # "off" /\ Phase # "off" /\ restartTried' = restartTried => Spent' = Spent
  BY SMT DEF Spent
<1>5. restartTried' = FALSE => Spent' = FALSE
  BY SMT DEF Spent
<1>6. restartTried' = TRUE /\ Phase' # "off" => Spent' = TRUE
  BY SMT DEF Spent
<1>7. ~restartTried => ~Spent
  BY SMT DEF Spent
<1>8. restartTried /\ Phase # "off" => Spent
  BY SMT DEF Spent
<1> QED
  BY <1>1, <1>2, <1>3, <1>4, <1>5, <1>6, <1>7, <1>8
  DEF Supervised, Promise!Next, Promise!vars, Promise!Serve, Promise!Restart, Promise!Recover,
      Promise!GiveUp, Promise!Retry, Promise!End

\* Every step of the start, the monitor and the application is one of them.
LEMMA StepSupervised == TypeInv /\ Flags /\ Tried /\ [Next]_vars => Supervised
<1> SUFFICES ASSUME TypeInv, Flags, Tried, [Next]_vars
             PROVE  Supervised
  OBVIOUS
<1> USE DEF Supervised, Phase, Tried, TypeInv, StartSteps, ProbeSteps, AtRest, appVars
<1>1. CASE CheckLock \/ NoBackup \/ MakeDirectory \/ CopyData \/ Prune \/ Spawn
  BY <1>1, StartGoesOn
<1>2. CASE Ready
  BY <1>2, Zenon DEF Ready, Flags
<1>3. CASE StartFails
  BY <1>3 DEF StartFails
<1>4. CASE Probe \/ TruncateRecord \/ WriteRecord \/ CompleteBackup \/ RecordFails
  BY <1>4 DEF Probe, TruncateRecord, WriteRecord, CompleteBackup, RecordFails, Missed, Verified
<1>5. CASE Confirm
  BY <1>5 DEF Confirm, Begin
<1>6. CASE Open \/ UserRetries
  BY <1>6 DEF Open, UserRetries, Begin
<1>7. CASE Quit \/ Crash
  BY <1>7 DEF Quit, Crash, Gone, Flags
<1>8. CASE ChildChanges \/ (\E n \in Slots : SurvivorChanges(n))
  BY <1>8 DEF ChildChanges, SurvivorChanges
<1>9. CASE (\E v \in Versions : Install(v)) \/ UNCHANGED vars
  BY <1>9 DEF Install, vars
<1> QED
  BY <1>1, <1>2, <1>3, <1>4, <1>5, <1>6, <1>7, <1>8, <1>9 DEF Next, StartStep, ProbeStep

\* However the start fails and whatever is killed, the supervision is the
\* promised one: restarted once by itself, given up only after that, and
\* restarted again only by the user.
THEOREM ImplementsSupervision == Spec => SupervisionSpec
<1>1. Init => Promise!Init
  BY DEF Init, Promise!Init, Phase, Spent
<1>2. Init => TypeInv /\ Flags /\ Tried
  BY InitType, InitFlags DEF Init, Tried, ProbeSteps
<1>3. TypeInv /\ Flags /\ Tried /\ [Next]_vars => [Promise!Next]_(Promise!vars)
  BY StepSupervised, SupervisedSteps
<1> QED
  BY <1>1, <1>2, <1>3, StepType, StepFlags, TriedStep, PTL
  DEF Spec, SupervisionSpec, Promise!Spec
=============================================================================
