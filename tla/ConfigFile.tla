----------------------------- MODULE ConfigFile -----------------------------
(***************************************************************************)
(* config.json and the processes that change it: the running application  *)
(* (save_setup of src/extension.rs) and the commands --remote, --set-url,  *)
(* --standalone and --cache-limit (handle_cli_args of src/main.rs).  Each  *)
(* loads the file, changes what it is about, writes config.json.tmp and    *)
(* renames it (load and save of src/config.rs); each may be killed between *)
(* any two of these.                                                       *)
(*                                                                         *)
(* Files are those of the system: a name refers to an inode, and who has   *)
(* an inode open keeps it when its name moves.                             *)
(***************************************************************************)
EXTENDS Naturals

CONSTANTS
  Processes,  \* processes that may save at the same time
  Inodes,     \* enough of them that one is always free
  Urls,       \* server URLs that validate
  Overrides,  \* those FORESEER_URL may be set to
  Default,    \* AppConfig::default
  Limits,     \* cache limits a file may hold
  MinLimit,   \* MIN_CACHE_LIMIT_BYTES
  None,
  Empty,      \* content of a file just truncated
  Torn        \* content that is no document

Config == [mode : {"standalone", "remote"}, url : Urls, limit : Limits]

\* What load returns, and so what is saved.
Sound == {c \in Config : c.limit >= MinLimit}

\* What the first releases wrote: a server, and no mode.
Legacy == [server : Urls]

Document == Config \cup Legacy

ASSUME LimitAssumption == Limits \subseteq Nat /\ MinLimit \in Limits
ASSUME OverridesAssumption == Overrides \subseteq Urls
ASSUME DefaultAssumption == Default \in Sound
ASSUME ContentAssumption ==
  /\ None \notin Inodes /\ None \notin Config
  /\ Empty \notin Document /\ Torn \notin Document \cup {Empty}

VARIABLES
  config,  \* what config.json names
  tmp,     \* what config.json.tmp names
  data,    \* what is in each inode
  pc,      \* where each process stands
  plan,    \* the configuration it saves
  fd,      \* the inode it has open
  met,     \* history: processes whose writing overlapped another's
  exposed, \* history: config.json was put in place by such a process
  stale,   \* history: processes since whose load the file reads differently
  overridden  \* history: processes that loaded with FORESEER_URL set

fileVars == <<config, tmp, data>>
historyVars == <<met, exposed, stale, overridden>>
vars == <<fileVars, pc, plan, fd, historyVars>>

TypeOK ==
  /\ config \in Inodes \cup {None} /\ tmp \in Inodes \cup {None}
  /\ data \in [Inodes -> Document \cup {Empty, Torn}]
  /\ pc \in [Processes -> {"idle", "loaded", "opened", "written"}]
  /\ plan \in [Processes -> Sound \cup {None}]
  /\ fd \in [Processes -> Inodes \cup {None}]
  /\ met \subseteq Processes /\ exposed \in BOOLEAN
  /\ stale \subseteq Processes /\ overridden \subseteq Processes

\* Any whole document, or none, and what a killed process may have left.
Init ==
  /\ \/ config = None /\ data = [i \in Inodes |-> Torn]
     \/ /\ config \in Inodes
        /\ \E doc \in Document :
             data = [i \in Inodes |-> IF i = config THEN doc ELSE Torn]
  /\ tmp \in Inodes \cup {None} /\ (tmp # None => tmp # config)
  /\ pc = [p \in Processes |-> "idle"] /\ plan = [p \in Processes |-> None]
  /\ fd = [p \in Processes |-> None]
  /\ met = {} /\ exposed = FALSE /\ stale = {} /\ overridden = {}

(***************************************************************************)
(* load                                                                    *)
(***************************************************************************)
\* A legacy document names the server of what is otherwise new.
Migrated(doc) == [mode |-> "remote", url |-> doc.server, limit |-> Default.limit]

\* Mutant: a cache limit below the minimum is taken as it is.
ReadRaw(doc) ==
  IF doc \in Config THEN doc ELSE IF doc \in Legacy THEN Migrated(doc) ELSE Default

\* A configuration, or else a legacy one, or else the defaults; the limit has
\* a minimum.
Read(doc) ==
  IF doc \in Config
    THEN IF doc.limit < MinLimit THEN [doc EXCEPT !.limit = MinLimit] ELSE doc
    ELSE IF doc \in Legacy THEN Migrated(doc) ELSE Default

\* What the next process to load the file gets from it.
Loaded == IF config = None THEN Default ELSE Read(data[config])

\* FORESEER_URL, when it is set, takes the place of what the file says.
Merge(c, env) == IF env = None THEN c ELSE [c EXCEPT !.mode = "remote", !.url = env]

\* What a process may be asked to make of a configuration.
Edits(c) ==
  {[c EXCEPT !.mode = "remote", !.url = url] : url \in Urls}
    \cup {[c EXCEPT !.mode = "standalone"]}
    \cup {[c EXCEPT !.limit = limit] : limit \in {l \in Limits : l >= MinLimit}}

\* The change is made to c, in the environment env.
Plans(p, c, env) ==
  /\ \E new \in Edits(Merge(c, env)) : plan' = [plan EXCEPT ![p] = new]
  /\ overridden' = IF env = None THEN overridden \ {p} ELSE overridden \cup {p}

\* Mutant: the change is made to the defaults.
LoadDefaults(p) ==
  /\ pc[p] = "idle"
  /\ \E env \in Overrides \cup {None} : Plans(p, Default, env)
  /\ pc' = [pc EXCEPT ![p] = "loaded"]
  /\ stale' = stale \ {p}
  /\ UNCHANGED <<fileVars, fd, met, exposed>>

Load(p) ==
  /\ pc[p] = "idle"
  /\ \E env \in Overrides \cup {None} : Plans(p, Loaded, env)
  /\ pc' = [pc EXCEPT ![p] = "loaded"]
  /\ stale' = stale \ {p}
  /\ UNCHANGED <<fileVars, fd, met, exposed>>

(***************************************************************************)
(* save_to                                                                 *)
(***************************************************************************)
Writing(p) == pc[p] \in {"opened", "written"}

\* The others notice nothing: what they loaded has become old.
Overtakes(p) ==
  stale' = IF Loaded' = Loaded THEN stale
           ELSE stale \cup {q \in Processes \ {p} : pc[q] # "idle"}

Meets(p) ==
  LET others == {q \in Processes \ {p} : Writing(q)}
  IN  met' = IF others = {} THEN met ELSE met \cup others \cup {p}

Ends(p) ==
  /\ pc' = [pc EXCEPT ![p] = "idle"]
  /\ plan' = [plan EXCEPT ![p] = None] /\ fd' = [fd EXCEPT ![p] = None]
  /\ met' = met \ {p} /\ overridden' = overridden \ {p}

\* Mutant: the file itself is written.
TruncateInPlace(p) ==
  /\ pc[p] = "loaded"
  /\ \E i \in Inodes \ ({tmp} \cup {fd[q] : q \in Processes}) :
       /\ config = None \/ i = config
       /\ config' = i /\ tmp' = tmp
       /\ data' = [data EXCEPT ![i] = Empty]
       /\ fd' = [fd EXCEPT ![p] = i]
  /\ pc' = [pc EXCEPT ![p] = "opened"]
  /\ Meets(p) /\ Overtakes(p)
  /\ UNCHANGED <<plan, exposed, overridden>>

\* fs::write creates config.json.tmp, or truncates the one that is there ...
Truncate(p) ==
  /\ pc[p] = "loaded"
  /\ \E i \in Inodes :
       /\ IF tmp = None THEN i \notin {config} \cup {fd[q] : q \in Processes} ELSE i = tmp
       /\ tmp' = i
       /\ data' = [data EXCEPT ![i] = Empty]
       /\ fd' = [fd EXCEPT ![p] = i]
  /\ pc' = [pc EXCEPT ![p] = "opened"]
  /\ Meets(p)
  /\ UNCHANGED <<config, plan, exposed, stale, overridden>>

\* ... and writes, over what another process may have written meanwhile.
Write(p) ==
  /\ pc[p] = "opened"
  /\ \E content \in {plan[p]} \cup (IF data[fd[p]] = Empty THEN {} ELSE {Torn}) :
       data' = [data EXCEPT ![fd[p]] = content]
  /\ pc' = [pc EXCEPT ![p] = "written"]
  /\ UNCHANGED <<config, tmp, plan, fd, met, exposed, overridden>>
  /\ Overtakes(p)

\* The disk is full: a part is written.
WriteFails(p) ==
  /\ pc[p] = "opened"
  /\ data' = [data EXCEPT ![fd[p]] = Torn]
  /\ Ends(p)
  /\ UNCHANGED <<config, tmp, exposed>>
  /\ Overtakes(p)

Rename(p) ==
  /\ pc[p] = "written"
  /\ tmp # None
  /\ config' = tmp /\ tmp' = None
  /\ exposed' = (p \in met)
  /\ Ends(p)
  /\ UNCHANGED data
  /\ Overtakes(p)

\* Another process has renamed the file first, and the save reports an error.
RenameFails(p) ==
  /\ pc[p] = "written"
  /\ tmp = None
  /\ Ends(p)
  /\ UNCHANGED <<fileVars, exposed, stale>>

\* The process is killed, or fails to make the directory or to open the file.
Stops(p) ==
  /\ pc[p] # "idle"
  /\ Ends(p)
  /\ UNCHANGED <<fileVars, exposed, stale>>

Save(p) == Truncate(p) \/ Write(p) \/ WriteFails(p) \/ Rename(p) \/ RenameFails(p)

Next == \E p \in Processes : Load(p) \/ Save(p) \/ Stops(p)

Spec == Init /\ [][Next]_vars

(***************************************************************************)
(* What must hold.                                                         *)
(***************************************************************************)

\* save_to: an interrupted save never leaves a partial document under the name
\* config.json, whatever is killed when and whatever an earlier kill left,
\* unless two processes were writing at the same time.
WholeUnlessOverlapped == config # None /\ ~exposed => data[config] \in Document

\* What the next start reads changes only by a save, as a whole, and into what
\* one command makes of what was read before, the server of a legacy file
\* included (load, save_to).  Two kinds of processes are excepted: one that was
\* overtaken since its load saves what it loaded, and one that loaded with
\* FORESEER_URL set may save that URL, with --cache-limit or --standalone, for
\* all that README.md:95 calls it a "temporary environment variable override
\* (does not modify config.json)".
SavedAsAsked ==
  [][Loaded' # Loaded /\ ~exposed' =>
       \E p \in Processes :
         /\ pc[p] = "written" /\ pc'[p] = "idle"
         /\ p \notin stale \cup overridden => Loaded' \in Edits(Loaded)]_vars
=============================================================================
