---------------------------- MODULE JellyfinPage ----------------------------
(***************************************************************************)
(* The controller script that runs inside Jellyfin Web                     *)
(* (src/assets/jellyfin-session.js).  One JavaScript thread runs message   *)
(* handlers, timer ticks and promise continuations to completion, in any   *)
(* order; a page load throws all of it away and installs the script again. *)
(*                                                                         *)
(* A session is named by its bootstrap generation, and the identity of the *)
(* ApiClient by the generation it was adopted from.                        *)
(***************************************************************************)
EXTENDS Naturals, Sequences, FiniteSets

CONSTANTS
  PlayIds,      \* items asked for with play.item
  Gens,         \* generations of the bootstraps
  None,         \* undefined or null
  MaxAttempts,  \* 120 in the script
  MaxPlays,     \* bound: plays and clears handled between two page loads
  MaxOutbox     \* bound: messages to the native side not yet taken

ASSUME AttemptsAssumption == MaxAttempts \in Nat \ {0}
ASSUME NoPlayAssumption == None \notin Gens \cup PlayIds

VARIABLES
  client,      \* window.ApiClient: absent, still starting, or one of two kinds
  identity,    \* whose session the ApiClient holds
  stored,      \* the session kept in localStorage by persistBootstrapServer
  boot,        \* window.__foreseerSessionBootstrap
  attempts,    \* attempts
  ticking,     \* the 250 ms interval is running
  validating,  \* validationGeneration
  lookups,     \* getCurrentUser promises not settled, by generation
  waiting,     \* pendingPlayItemId
  playGen,     \* externalPlayGeneration
  plays,       \* promise chains of playItem not settled
  outbox,      \* messages posted and not yet taken by the native side
  fresh,       \* environment: this page was not sent a bootstrap yet
  asked,       \* history: the item last asked for and not cleared since
  answered     \* history: generations answered since the page loaded

sessionVars == <<identity, stored, boot, attempts, ticking, validating, lookups>>
playVars == <<waiting, playGen, plays>>
pageVars == <<client, sessionVars, playVars, outbox, answered>>
vars == <<pageVars, fresh, asked>>

Clients == {"absent", "starting", "modern", "legacy"}
Working == {"modern", "legacy"}

Ready(g) == [type |-> "session.ready", gen |-> g]
Failed(g) == [type |-> "session.failed", gen |-> g]
\* The script names no play when one stops: of is there for the properties.
Stopped(item) == [type |-> "playback.stopped", of |-> item]
Message == [type : {"session.ready", "session.failed"}, gen : Gens]
             \cup [type : {"playback.stopped"}, of : PlayIds]

Play == [id : PlayIds, gen : Nat, stage : {"item", "play"}, guarded : BOOLEAN]

TypeOK ==
  /\ client \in Clients
  /\ identity \in Gens \cup {None} /\ stored \in Gens \cup {None}
  /\ boot \in Gens \cup {None} /\ attempts \in 0 .. MaxAttempts
  /\ ticking \in BOOLEAN /\ validating \in Gens \cup {None} /\ lookups \in SUBSET Gens
  /\ waiting \in PlayIds \cup {None} /\ playGen \in Nat /\ plays \in SUBSET Play
  /\ outbox \in Seq(Message)
  /\ fresh \in BOOLEAN /\ asked \in PlayIds \cup {None} /\ answered \in SUBSET Gens

(***************************************************************************)
(* playItem                                                                *)
(***************************************************************************)
HasToken == client # "absent" /\ identity # None

\* Without identity or playback manager the play stops at once.  With them a
\* promise chain starts: it fetches the item first, or plays without it when
\* the client cannot fetch, and then nothing guards its failure.
StartPlay(item, who, posted) ==
  IF who = None \/ client \notin Working
    THEN outbox' = posted \o <<Stopped(item)>> /\ UNCHANGED <<playGen, plays>>
    ELSE /\ playGen' = playGen + 1
         /\ \E guarded \in BOOLEAN :
              plays' = plays \cup {[id |-> item, gen |-> playGen + 1, guarded |-> guarded,
                                    stage |-> IF guarded THEN "item" ELSE "play"]}
         /\ outbox' = posted

(***************************************************************************)
(* applyBootstrap with bootstrap b, after tried attempts and with item     *)
(* wait pending: one disjunct per way it returns.                          *)
(***************************************************************************)

\* acknowledge, when the client's identity matches the bootstrap.
Acknowledge(b, wait) ==
  /\ boot' = None
  /\ ticking' = FALSE
  /\ waiting' = None
  /\ answered' = answered \cup {b}
  /\ IF wait = None
       THEN outbox' = outbox \o <<Ready(b)>> /\ UNCHANGED <<playGen, plays>>
       ELSE StartPlay(wait, b, outbox \o <<Ready(b)>>)

NothingToApply(b, tried, wait) ==
  /\ b = None \/ client = "absent"
  /\ boot' = b /\ attempts' = tried /\ waiting' = wait
  /\ UNCHANGED <<identity, stored, ticking, validating, lookups, playGen, plays, outbox,
                 answered>>

\* Mutant: the bootstrap is failed and kept.
GiveUpKeeping(b, tried, wait) ==
  /\ b # None /\ client # "absent"
  /\ tried + 1 >= MaxAttempts
  /\ ticking' = FALSE /\ boot' = b
  /\ outbox' = outbox \o <<Failed(b)>>
  /\ answered' = answered \cup {b}
  /\ attempts' = MaxAttempts /\ waiting' = wait
  /\ UNCHANGED <<identity, stored, validating, lookups, playGen, plays>>

GiveUp(b, tried, wait) ==
  /\ b # None /\ client # "absent"
  /\ tried + 1 >= MaxAttempts
  /\ ticking' = FALSE /\ boot' = None
  /\ outbox' = outbox \o <<Failed(b)>>
  /\ answered' = answered \cup {b}
  /\ attempts' = tried + 1 /\ waiting' = wait
  /\ UNCHANGED <<identity, stored, validating, lookups, playGen, plays>>

NotYet(b, tried, wait) ==
  /\ b # None /\ client = "starting"
  /\ tried + 1 < MaxAttempts
  /\ boot' = b /\ attempts' = tried + 1 /\ waiting' = wait
  /\ UNCHANGED <<identity, stored, ticking, validating, lookups, playGen, plays, outbox,
                 answered>>

\* Adopt the session and ask the server who it is, once per generation.
Validate(b, tried, wait) ==
  /\ b # None /\ client = "modern"
  /\ tried + 1 < MaxAttempts
  /\ boot' = b /\ attempts' = tried + 1 /\ waiting' = wait
  /\ identity' = b /\ stored' = b
  /\ validating' = b
  /\ lookups' = IF validating = b THEN lookups ELSE lookups \cup {b}
  /\ UNCHANGED <<ticking, playGen, plays, outbox, answered>>

\* A client without getCurrentUser is acknowledged as soon as it adopts ...
AdoptLegacy(b, tried, wait) ==
  /\ b # None /\ client = "legacy"
  /\ tried + 1 < MaxAttempts
  /\ attempts' = tried + 1
  /\ identity' = b /\ stored' = b
  /\ Acknowledge(b, wait)
  /\ UNCHANGED <<validating, lookups>>

\* ... unless it throws on the way or does not hold what it was told.
AdoptInVain(b, tried, wait) ==
  /\ b # None /\ client = "legacy"
  /\ tried + 1 < MaxAttempts
  /\ boot' = b /\ attempts' = tried + 1 /\ waiting' = wait
  /\ identity' \in {identity, b} /\ stored' = b
  /\ UNCHANGED <<ticking, validating, lookups, playGen, plays, outbox, answered>>

Apply(b, tried, wait) ==
  \/ NothingToApply(b, tried, wait)
  \/ GiveUp(b, tried, wait)
  \/ NotYet(b, tried, wait)
  \/ Validate(b, tried, wait)
  \/ AdoptLegacy(b, tried, wait)
  \/ AdoptInVain(b, tried, wait)

(***************************************************************************)
(* Messages, ticks and promises.                                           *)
(***************************************************************************)

\* session.bootstrap.  The interval is never started again once it was
\* cleared: timer keeps its old handle.
OnBootstrap(g) ==
  /\ Apply(g, 0, waiting)
  /\ UNCHANGED <<client, asked>>

\* session.clear; a client that cannot forget its session logs out later.
OnClear ==
  /\ playGen < MaxPlays
  /\ boot' = None /\ waiting' = None
  /\ playGen' = playGen + 1
  /\ identity' \in IF client = "modern" THEN {None} ELSE {None, identity}
  /\ asked' = None
  /\ UNCHANGED <<client, stored, attempts, ticking, validating, lookups, plays, outbox,
                 answered>>

\* play.item with a session at hand, or before it: then it waits for one.
OnPlay(item) ==
  /\ playGen < MaxPlays
  /\ asked' = item
  /\ IF boot = None /\ HasToken
       THEN /\ StartPlay(item, identity, outbox)
            /\ UNCHANGED <<sessionVars, waiting, answered>>
       ELSE Apply(boot, attempts, item)
  /\ UNCHANGED client

Tick ==
  /\ ticking /\ boot # None
  /\ Apply(boot, attempts, waiting)
  /\ UNCHANGED <<client, asked>>

\* Mutant: the client is not asked again whose session it holds.
LookupTrusted(g, succeeded) ==
  /\ g \in lookups
  /\ lookups' = lookups \ {g}
  /\ validating' = None
  /\ IF succeeded /\ boot = g
       THEN Acknowledge(g, waiting)
       ELSE UNCHANGED <<boot, ticking, waiting, playGen, plays, outbox, answered>>
  /\ UNCHANGED <<client, identity, stored, attempts, asked>>

\* Mutant: the bootstrap is not compared with the one that was validated.
LookupUnchecked(g, succeeded) ==
  /\ g \in lookups
  /\ lookups' = lookups \ {g}
  /\ validating' = None
  /\ IF succeeded /\ identity = g
       THEN Acknowledge(g, waiting)
       ELSE UNCHANGED <<boot, ticking, waiting, playGen, plays, outbox, answered>>
  /\ UNCHANGED <<client, identity, stored, attempts, asked>>

\* getCurrentUser settles; its continuation checks the bootstrap again.
LookupSettles(g, succeeded) ==
  /\ g \in lookups
  /\ lookups' = lookups \ {g}
  /\ validating' = None
  /\ IF succeeded /\ boot = g /\ identity = g
       THEN Acknowledge(g, waiting)
       ELSE UNCHANGED <<boot, ticking, waiting, playGen, plays, outbox, answered>>
  /\ UNCHANGED <<client, identity, stored, attempts, asked>>

\* Mutant: externalPlayGeneration is not compared after the item came.
ItemSettlesBlindly(p) ==
  /\ p \in plays /\ p.stage = "item"
  /\ plays' = (plays \ {p}) \cup {[p EXCEPT !.stage = "play"]}
  /\ UNCHANGED <<client, sessionVars, waiting, playGen, outbox, asked, answered>>

\* getItem settles either way: only the newest play goes on.
ItemSettles(p) ==
  /\ p \in plays /\ p.stage = "item"
  /\ plays' = IF p.gen = playGen THEN (plays \ {p}) \cup {[p EXCEPT !.stage = "play"]}
                                 ELSE plays \ {p}
  /\ UNCHANGED <<client, sessionVars, waiting, playGen, outbox, asked, answered>>

\* playbackManager.play settles.
PlaySettles(p, succeeded) ==
  /\ p \in plays /\ p.stage = "play"
  /\ plays' = plays \ {p}
  /\ outbox' = IF succeeded \/ (p.guarded /\ p.gen # playGen) THEN outbox
               ELSE outbox \o <<Stopped(p.id)>>
  /\ UNCHANGED <<client, sessionVars, waiting, playGen, asked, answered>>

\* Jellyfin Web, if it is what the page shows, creates its ApiClient, perhaps
\* with the stored session, and then the playback manager.
ClientStarts ==
  /\ client = "absent"
  /\ client' = "starting"
  /\ identity' \in {None, stored}
  /\ UNCHANGED <<stored, boot, attempts, ticking, validating, lookups, playVars, outbox,
                 asked, answered>>

ClientWorks ==
  /\ client = "starting"
  /\ client' \in Working
  /\ UNCHANGED <<sessionVars, playVars, outbox, asked, answered>>

\* Jellyfin Web drops the session on its own (a server mismatch, a sign-out).
ClientForgets ==
  /\ client # "absent" /\ identity # None
  /\ identity' = None
  /\ UNCHANGED <<client, stored, boot, attempts, ticking, validating, lookups, playVars,
                 outbox, asked, answered>>

\* A page load: only localStorage and the messages already posted survive.
Load ==
  /\ client' = "absent" /\ identity' = None
  /\ boot' = None /\ attempts' = 0 /\ ticking' = TRUE
  /\ validating' = None /\ lookups' = {}
  /\ waiting' = None /\ playGen' = 0 /\ plays' = {} /\ asked' = None /\ answered' = {}
  /\ UNCHANGED <<stored, outbox>>

Installed ==
  /\ client = "absent" /\ identity = None /\ stored \in Gens \cup {None}
  /\ boot = None /\ attempts = 0 /\ ticking = TRUE
  /\ validating = None /\ lookups = {}
  /\ waiting = None /\ playGen = 0 /\ plays = {}
  /\ outbox = <<>> /\ asked = None /\ answered = {}

Init == Installed /\ fresh = TRUE

\* What else happens by itself between two messages of the native side.
PageStep ==
  \/ \E g \in lookups, succeeded \in BOOLEAN : LookupSettles(g, succeeded)
  \/ \E p \in plays : ItemSettles(p)
  \/ \E p \in plays, succeeded \in BOOLEAN : PlaySettles(p, succeeded)
  \/ ClientWorks
  \/ ClientForgets

(***************************************************************************)
(* The page alone: the native side sends at most one bootstrap per load,   *)
(* plays and clears at any time, and takes what the page posts.            *)
(***************************************************************************)
Room == Len(outbox) < MaxOutbox

PageTick == Tick /\ Room /\ UNCHANGED fresh

PageClientStarts == ClientStarts /\ Room /\ UNCHANGED fresh

NativeBootstrap(g) == fresh /\ OnBootstrap(g) /\ Room /\ fresh' = FALSE

NativePlay(item) == OnPlay(item) /\ Room /\ UNCHANGED fresh

NativeClear == OnClear /\ UNCHANGED fresh

PageLoad == Load /\ fresh' = TRUE

Taken ==
  /\ outbox # <<>>
  /\ outbox' = Tail(outbox)
  /\ UNCHANGED <<client, sessionVars, playVars, answered, asked>>

NativeTakes == Taken /\ UNCHANGED fresh

Next ==
  \/ PageTick
  \/ PageClientStarts
  \/ PageStep /\ Room /\ UNCHANGED fresh
  \/ \E g \in Gens : NativeBootstrap(g)
  \/ \E item \in PlayIds : NativePlay(item)
  \/ NativeClear
  \/ PageLoad
  \/ NativeTakes

Spec == Init /\ [][Next]_vars

\* The interval fires and the native side reads its messages.  No fairness of
\* promises, since the server may never answer, nor of ClientStarts: the page
\* may be an error page, which has no ApiClient.
FairSpec ==
  /\ Spec
  /\ WF_vars(PageTick)
  /\ WF_vars(NativeTakes)

\* The script under any native side: whatever it sends, whenever it reads.
ScriptNext ==
  \/ Tick
  \/ ClientStarts
  \/ PageStep
  \/ \E g \in Gens : OnBootstrap(g)
  \/ \E item \in PlayIds : OnPlay(item)
  \/ OnClear
  \/ Load
  \/ Taken

ScriptSpec == Installed /\ fresh \in BOOLEAN /\ [][ScriptNext /\ fresh' \in BOOLEAN]_vars

(***************************************************************************)
(* What the script promises.                                               *)
(***************************************************************************)
NewMessages == {outbox'[n] : n \in Len(outbox) + 1 .. Len(outbox')}

\* session.ready is posted only while the ApiClient holds the acknowledged
\* session, although the client may change its mind between the request that
\* validates the session and its answer (applyBootstrap, acknowledge).
ReadyIsAdopted ==
  [][\A g \in Gens : Ready(g) \in NewMessages => identity' = g]_vars

\* A bootstrap is answered once per page: no second session.ready and no
\* session.failed after it, however ticks and late promises interleave.
AnsweredOnce ==
  [][\A g \in Gens : Ready(g) \in NewMessages \/ Failed(g) \in NewMessages
       => g \notin answered]_vars

\* A promise chain that was overtaken by a newer play or by session.clear
\* while it fetched its item never calls playbackManager.play: the script
\* compares externalPlayGeneration after every await (playItem, clearSession).
OvertakenPlayStops ==
  [][\A p \in plays' \ plays : p.gen = playGen' /\ asked' # None]_vars

\* On a page that has an ApiClient no bootstrap is kept waiting for ever,
\* whether or not the client gets ready and the server answers: it is
\* acknowledged, it fails after MaxAttempts, or a clear or a page load revokes
\* it.  Without one it does wait: applyBootstrap returns before it counts.
BootstrapConcludes == boot # None /\ client # "absent" ~> boot = None
=============================================================================
