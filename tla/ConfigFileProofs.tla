-------------------------- MODULE ConfigFileProofs --------------------------
(***************************************************************************)
(* config.json is whole and says what was asked, for any processes, URLs   *)
(* and limits.  The invariant behind it follows the process that writes    *)
(* alone: nobody else has its inode, which is the one config.json.tmp      *)
(* names, and the inode of config.json is open to nobody.                  *)
(***************************************************************************)
EXTENDS ConfigFile, TLAPS

\* A process that writes and has met no other.
Alone(p) == Writing(p) /\ p \notin met

Handles ==
  /\ \A p \in Processes : Writing(p) => fd[p] \in Inodes
  /\ \A p \in Processes : pc[p] # "idle" => plan[p] \in Sound
  /\ \A p \in met : Writing(p)

Apart == tmp # None => tmp # config

Solo ==
  \A p \in Processes : Alone(p) =>
    /\ fd[p] = tmp
    /\ \A q \in Processes : Writing(q) => q = p
    /\ pc[p] = "opened" => data[fd[p]] = Empty
    /\ pc[p] = "written" => data[fd[p]] = plan[p]

Settled ==
  ~exposed /\ config # None =>
    /\ data[config] \in Document
    /\ \A q \in Processes : Writing(q) => fd[q] # config

\* A process that was neither overtaken nor met, and that no environment
\* misled, saves what it was asked to.
Current ==
  \A p \in Processes : pc[p] # "idle" /\ p \notin stale \cup met \cup overridden
                       => plan[p] \in Edits(Loaded)

Inv == TypeOK /\ Handles /\ Apart /\ Solo /\ Settled /\ Current

(***************************************************************************)
(* Reading and editing.                                                    *)
(***************************************************************************)

\* Whatever the file holds, load returns a configuration within its limits.
LEMMA ReadSound == ASSUME NEW doc PROVE Read(doc) \in Sound
BY LimitAssumption, DefaultAssumption DEF Read, Migrated, Sound, Config, Legacy

LEMMA LoadedSound == Loaded \in Sound
BY ReadSound, DefaultAssumption DEF Loaded

LEMMA EditsSound == ASSUME NEW c \in Sound PROVE Edits(c) \subseteq Sound
BY LimitAssumption DEF Edits, Sound, Config

LEMMA MergeSound ==
  ASSUME NEW c \in Sound, NEW env \in Overrides \cup {None} PROVE Merge(c, env) \in Sound
BY OverridesAssumption DEF Merge, Sound, Config

\* What was saved within its limits is read as it is.
LEMMA ReadBack == ASSUME NEW c \in Sound PROVE Read(c) = c
BY LimitAssumption DEF Read, Sound, Config

LEMMA SoundIsDocument == Sound \subseteq Document
BY DEF Sound, Document

(***************************************************************************)
(* The steps.                                                              *)
(***************************************************************************)
LEMMA InitInv == Init => Inv
<1> SUFFICES ASSUME Init PROVE Inv
  OBVIOUS
<1>1. TypeOK
  BY DEF Init, TypeOK
<1>2. Handles /\ Apart /\ Solo /\ Current
  BY ContentAssumption DEF Init, Handles, Apart, Solo, Current, Alone, Writing
<1>3. Settled
  BY DEF Init, Settled, Writing
<1> QED
  BY <1>1, <1>2, <1>3 DEF Inv

\* A step that only moves one process keeps what the file reads.
LEMMA LoadInv == ASSUME Inv, NEW p \in Processes, Load(p) PROVE Inv' /\ Loaded' = Loaded
<1>0. PICK env \in Overrides \cup {None} : Plans(p, Loaded, env)
  BY DEF Load
<1>1. PICK new \in Edits(Merge(Loaded, env)) : plan' = [plan EXCEPT ![p] = new]
  BY <1>0 DEF Plans
<1>2. new \in Sound
  BY LoadedSound, MergeSound, EditsSound
<1>3. Loaded' = Loaded
  BY DEF Load, fileVars, Loaded
<1>4. TypeOK'
  BY <1>0, <1>1, <1>2 DEF Inv, TypeOK, Load, Plans, fileVars
<1>5. \A q \in Processes : Writing(q)' <=> Writing(q) /\ q # p
  BY DEF Inv, TypeOK, Load, Writing
<1>6. ~ Writing(p)
  BY DEF Load, Writing
<1>7. Handles' /\ Apart'
  BY <1>1, <1>2, <1>5, <1>6 DEF Inv, TypeOK, Load, Handles, Apart, fileVars
<1>8. Solo'
  BY <1>1, <1>5, <1>6 DEF Inv, TypeOK, Load, Solo, Alone, fileVars
<1>9. Settled'
  BY <1>5 DEF Inv, TypeOK, Load, Settled, fileVars
<1>10. Current'
  <2> SUFFICES ASSUME NEW q \in Processes, pc'[q] # "idle",
                      q \notin stale' \cup met' \cup overridden'
               PROVE plan'[q] \in Edits(Loaded')
    BY DEF Current
  <2>1. CASE q = p
    <3>1. env = None
      BY <2>1, <1>0 DEF Plans
    <3>2. new \in Edits(Loaded)
      BY <3>1, <1>1 DEF Merge
    <3> QED
      BY <3>2, <2>1, <1>1, <1>3 DEF Inv, TypeOK
  <2>2. CASE q # p
    BY <2>2, <1>0, <1>1, <1>3 DEF Inv, TypeOK, Load, Plans, Current
  <2> QED
    BY <2>1, <2>2
<1> QED
  BY <1>3, <1>4, <1>7, <1>8, <1>9, <1>10 DEF Inv

LEMMA StopsInv == ASSUME Inv, NEW p \in Processes, Stops(p) PROVE Inv' /\ Loaded' = Loaded
<1>1. Loaded' = Loaded
  BY DEF Stops, fileVars, Loaded
<1>2. TypeOK'
  BY DEF Inv, TypeOK, Stops, Ends, fileVars
<1>3. \A q \in Processes : Writing(q)' <=> Writing(q) /\ q # p
  BY DEF Inv, TypeOK, Stops, Ends, Writing
<1>4. Handles' /\ Apart' /\ Settled'
  BY <1>3 DEF Inv, TypeOK, Stops, Ends, Handles, Apart, Settled, fileVars
<1>5. Solo'
  BY <1>3 DEF Inv, TypeOK, Stops, Ends, Solo, Alone, fileVars
<1>6. Current'
  BY <1>1 DEF Inv, TypeOK, Stops, Ends, Current
<1> QED
  BY <1>1, <1>2, <1>4, <1>5, <1>6 DEF Inv

LEMMA RenameFailsInv ==
  ASSUME Inv, NEW p \in Processes, RenameFails(p) PROVE Inv' /\ Loaded' = Loaded
<1>1. Stops(p)
  BY DEF RenameFails, Stops
<1> QED
  BY <1>1, StopsInv

LEMMA TruncateInv ==
  ASSUME Inv, NEW p \in Processes, Truncate(p) PROVE Inv' /\ Loaded' = Loaded
<1>1. PICK i \in Inodes :
        /\ IF tmp = None THEN i \notin {config} \cup {fd[q] : q \in Processes} ELSE i = tmp
        /\ tmp' = i /\ data' = [data EXCEPT ![i] = Empty] /\ fd' = [fd EXCEPT ![p] = i]
  BY DEF Truncate
<1>2. i # config
  BY <1>1 DEF Inv, Apart
<1>3. Loaded' = Loaded
  BY <1>1, <1>2 DEF Truncate, Loaded, Inv, TypeOK
<1>4. TypeOK'
  BY <1>1 DEF Inv, TypeOK, Truncate, Meets
<1>5. \A q \in Processes : Writing(q)' <=> Writing(q) \/ q = p
  BY DEF Inv, TypeOK, Truncate, Writing
<1>6. \A q \in met' : q \in met \/ Writing(q) \/ q = p
  BY DEF Truncate, Meets
<1>7. Handles' /\ Apart'
  BY <1>1, <1>2, <1>4, <1>5, <1>6 DEF Inv, TypeOK, Truncate, Handles, Apart
<1>8. Solo'
  <2> SUFFICES ASSUME NEW q \in Processes, Alone(q)'
               PROVE /\ fd'[q] = tmp'
                     /\ \A r \in Processes : Writing(r)' => r = q
                     /\ pc'[q] = "opened" => data'[fd'[q]] = Empty
                     /\ pc'[q] = "written" => data'[fd'[q]] = plan'[q]
    BY DEF Solo
  <2>1. \A r \in Processes : Writing(r) => r = p
    BY <1>5 DEF Alone, Truncate, Meets
  <2>2. q = p
    BY <2>1, <1>5 DEF Alone
  <2> QED
    BY <2>1, <2>2, <1>1, <1>5 DEF Inv, TypeOK, Truncate
<1>9. Settled'
  BY <1>1, <1>2, <1>5 DEF Inv, TypeOK, Truncate, Settled
<1>10. Current'
  <2>1. \A q \in Processes : q \notin met' => q \notin met
    BY DEF Truncate, Meets
  <2> QED
    BY <2>1, <1>3 DEF Inv, TypeOK, Truncate, Current
<1> QED
  BY <1>3, <1>4, <1>7, <1>8, <1>9, <1>10 DEF Inv

\* Writing disturbs what is read only through an inode a save that overlapped
\* another one put in place.
LEMMA WriteInv ==
  ASSUME Inv, NEW p \in Processes, Write(p) \/ WriteFails(p)
  PROVE  Inv' /\ (~exposed' => Loaded' = Loaded)
<1>0. PICK content \in Sound \cup {Torn} :
        /\ data' = [data EXCEPT ![fd[p]] = content]
        /\ p \notin met /\ Write(p) => content = plan[p]
  BY DEF Inv, Handles, Solo, Alone, Writing, Write, WriteFails
<1>1. Writing(p) /\ fd[p] \in Inodes
  BY DEF Write, WriteFails, Writing, Inv, Handles
<1>2. ~exposed' => Loaded' = Loaded
  BY <1>0, <1>1 DEF Inv, TypeOK, Settled, Write, WriteFails, Loaded
<1>3. TypeOK'
  BY <1>0, <1>1, SoundIsDocument DEF Inv, TypeOK, Write, WriteFails, Ends, Overtakes
<1>4. \A q \in Processes : Writing(q)' => Writing(q)
  BY DEF Inv, TypeOK, Write, WriteFails, Ends, Writing
<1>5. Handles' /\ Apart'
  BY DEF Inv, TypeOK, Write, WriteFails, Ends, Handles, Apart, Writing
<1>6. Solo'
  <2> SUFFICES ASSUME NEW q \in Processes, Alone(q)'
               PROVE /\ fd'[q] = tmp'
                     /\ \A r \in Processes : Writing(r)' => r = q
                     /\ pc'[q] = "opened" => data'[fd'[q]] = Empty
                     /\ pc'[q] = "written" => data'[fd'[q]] = plan'[q]
    BY DEF Solo
  <2>1. Alone(q)
    <3>1. q \in met => q = p /\ WriteFails(p)
      BY DEF Alone, Write, WriteFails, Ends
    <3>2. WriteFails(p) => ~ Writing(p)'
      BY DEF WriteFails, Ends, Writing, Inv, TypeOK
    <3> QED
      BY <3>1, <3>2, <1>4 DEF Alone
  <2>2. \A r \in Processes : Writing(r) => r = q
    BY <2>1 DEF Inv, Solo
  <2>3. q = p
    BY <2>2, <1>1
  <2>4. Write(p)
    BY <2>3 DEF Alone, WriteFails, Ends, Writing, Inv, TypeOK
  <2> QED
    BY <2>1, <2>2, <2>3, <2>4, <1>0, <1>1, <1>4 DEF Inv, TypeOK, Solo, Alone, Write
<1>7. Settled'
  BY <1>0, <1>1, <1>4 DEF Inv, TypeOK, Settled, Write, WriteFails, Ends
<1>8. Current'
  <2> SUFFICES ASSUME NEW q \in Processes, pc'[q] # "idle",
                      q \notin stale' \cup met' \cup overridden'
               PROVE plan'[q] \in Edits(Loaded')
    BY DEF Current
  <2>1. /\ pc[q] # "idle" /\ q \notin stale \cup overridden /\ plan'[q] = plan[q]
        /\ (q = p => Write(p))
    BY DEF Inv, TypeOK, Write, WriteFails, Ends, Overtakes
  <2>2. q \notin met
    BY <2>1 DEF Write, WriteFails, Ends
  <2>3. CASE q = p
    <3>1. Alone(p)
      BY <2>2, <2>3, <1>1 DEF Alone
    <3>2. fd[p] = tmp /\ tmp # None
      BY <3>1, <1>1, ContentAssumption DEF Inv, Solo
    <3>3. Loaded' = Loaded
      BY <3>2, <1>0, <1>1, <2>1, <2>3 DEF Inv, TypeOK, Apart, Loaded, Write
    <3> QED
      BY <3>3, <2>1, <2>2 DEF Inv, Current
  <2>4. CASE q # p
    <3>1. Loaded' = Loaded
      BY <2>4, <2>1 DEF Overtakes, Write, WriteFails
    <3> QED
      BY <3>1, <2>1, <2>2 DEF Inv, Current
  <2> QED
    BY <2>3, <2>4
<1> QED
  BY <1>2, <1>3, <1>5, <1>6, <1>7, <1>8 DEF Inv

\* A save that met nobody puts its own configuration in place.
LEMMA RenameAlone ==
  ASSUME Inv, NEW p \in Processes, Rename(p), ~exposed'
  PROVE  /\ data'[config'] = plan[p] /\ plan[p] \in Sound /\ Loaded' = plan[p]
         /\ \A q \in Processes : Writing(q) => q = p
         /\ p \notin stale \cup overridden => Loaded' \in Edits(Loaded)
<1>1. Alone(p)
  BY DEF Rename, Alone, Writing
<1>2. /\ fd[p] = tmp /\ data[fd[p]] = plan[p]
      /\ \A q \in Processes : Writing(q) => q = p
  BY <1>1 DEF Inv, Solo, Rename
<1>3. plan[p] \in Sound
  BY DEF Inv, Handles, Rename
<1>4. Loaded' = plan[p]
  BY <1>2, <1>3, ReadBack DEF Rename, Loaded
<1>5. p \notin stale \cup overridden => plan[p] \in Edits(Loaded)
  BY <1>1 DEF Inv, Current, Rename, Alone
<1> QED
  BY <1>2, <1>3, <1>4, <1>5 DEF Rename

LEMMA RenameInv == ASSUME Inv, NEW p \in Processes, Rename(p) PROVE Inv'
<1>1. TypeOK'
  BY DEF Inv, TypeOK, Rename, Ends, Overtakes
<1>2. \A q \in Processes : Writing(q)' <=> Writing(q) /\ q # p
  BY DEF Inv, TypeOK, Rename, Ends, Writing
<1>3. Handles' /\ Apart'
  BY <1>2 DEF Inv, TypeOK, Rename, Ends, Handles, Apart
<1>4. Solo'
  <2>1. ASSUME NEW q \in Processes, Alone(q)' PROVE FALSE
    <3>1. q # p /\ Alone(q)
      BY <2>1, <1>2 DEF Alone, Rename, Ends
    <3>2. Writing(p)
      BY DEF Rename, Writing
    <3> QED
      BY <3>1, <3>2 DEF Inv, Solo
  <2> QED
    BY <2>1 DEF Solo
<1>5. Settled'
  BY <1>2, RenameAlone, SoundIsDocument DEF Settled
<1>6. Current'
  <2> SUFFICES ASSUME NEW q \in Processes, pc'[q] # "idle",
                      q \notin stale' \cup met' \cup overridden'
               PROVE plan'[q] \in Edits(Loaded')
    BY DEF Current
  <2>1. /\ q # p /\ pc[q] # "idle" /\ plan'[q] = plan[q]
        /\ q \notin stale \cup met \cup overridden
    BY DEF Inv, TypeOK, Rename, Ends, Overtakes
  <2>2. Loaded' = Loaded
    BY <2>1 DEF Rename, Overtakes
  <2> QED
    BY <2>1, <2>2 DEF Inv, Current
<1> QED
  BY <1>1, <1>3, <1>4, <1>5, <1>6 DEF Inv

LEMMA StepInv == Inv /\ [Next]_vars => Inv'
<1> SUFFICES ASSUME Inv, [Next]_vars PROVE Inv'
  OBVIOUS
<1>1. CASE UNCHANGED vars
  <2>1. Loaded' = Loaded
    BY <1>1 DEF vars, fileVars, Loaded
  <2> QED
    BY <1>1, <2>1 DEF Inv, TypeOK, Handles, Apart, Solo, Settled, Current, Alone, Writing,
                      vars, fileVars, historyVars
<1>2. ASSUME NEW p \in Processes, Load(p) \/ Save(p) \/ Stops(p) PROVE Inv'
  BY <1>2, LoadInv, TruncateInv, WriteInv, RenameInv, RenameFailsInv, StopsInv DEF Save
<1> QED
  BY <1>1, <1>2 DEF Next

LEMMA Invariance == Spec => []Inv
BY InitInv, StepInv, PTL DEF Spec

(***************************************************************************)
(* The theorems.                                                           *)
(***************************************************************************)

\* Every reachable state is well typed: what is saved is within its limits.
THEOREM TypeCorrect == Spec => []TypeOK
<1>1. Inv => TypeOK
  BY DEF Inv
<1> QED
  BY <1>1, Invariance, PTL

\* config.json is a whole document unless two processes wrote at the same time,
\* whatever was killed (save_to).
THEOREM SavesAreWhole == Spec => []WholeUnlessOverlapped
<1>1. Inv => WholeUnlessOverlapped
  BY DEF Inv, Settled, WholeUnlessOverlapped
<1> QED
  BY <1>1, Invariance, PTL

\* What the next start reads changes only into what was asked for (load, save).
THEOREM SavesAreAsked == Spec => SavedAsAsked
<1> DEFINE Asks == Loaded' # Loaded /\ ~exposed' =>
       \E p \in Processes : /\ pc[p] = "written" /\ pc'[p] = "idle"
                            /\ p \notin stale \cup overridden => Loaded' \in Edits(Loaded)
<1>1. Inv /\ [Next]_vars => Asks
  <2> SUFFICES ASSUME Inv, [Next]_vars, Loaded' # Loaded, ~exposed'
               PROVE \E p \in Processes : /\ pc[p] = "written" /\ pc'[p] = "idle"
                                          /\ p \notin stale \cup overridden => Loaded' \in Edits(Loaded)
    OBVIOUS
  <2>1. Next
    BY DEF vars, fileVars, Loaded
  <2>2. PICK p \in Processes : Rename(p)
    BY <2>1, LoadInv, TruncateInv, WriteInv, RenameFailsInv, StopsInv DEF Next, Save
  <2>3. pc[p] = "written" /\ pc'[p] = "idle"
    BY <2>2 DEF Rename, Ends, Inv, TypeOK
  <2> QED
    BY <2>2, <2>3, RenameAlone
<1>2. Inv /\ [Next]_vars => [Asks]_vars
  BY <1>1
<1> QED
  BY <1>2, Invariance, PTL DEF Spec, SavedAsAsked
=============================================================================
