----------------------------- MODULE Extension ------------------------------
(***************************************************************************)
(* The extension (src/extension.rs) between the protocol controller, the   *)
(* workers that redeem tickets and the script in Jellyfin Web: how a       *)
(* sign-in travels from the server's answer to session.ready, and a play   *)
(* from the frontend to the page.                                          *)
(*                                                                         *)
(* with_inner runs a closure under the state mutex, so each use of it is   *)
(* one action; a handler that takes the lock twice, or posts after it let  *)
(* go, is two.  The setup page and the native player are left to           *)
(* Controller.                                                             *)
(***************************************************************************)
EXTENDS Controller

CONSTANTS
  MaxAttempts,  \* of JellyfinPage
  MaxPlays,     \* of JellyfinPage, large enough never to hold a message back
  MaxOutbox,    \* bound: the user waits while the page has this many messages
  MaxToPage,    \* bound: or this many are on their way to the page
  MaxLoads,     \* bound: page loads
  Elsewhere     \* an origin no bootstrap names

ASSUME ExtBoundAssumption == MaxAttempts \in Nat \ {0} /\ MaxLoads \in Nat
ASSUME ElsewhereAssumption == Elsewhere \notin Origins \cup {None}
ASSUME SessionAssumption == None # "session"

VARIABLES
  handoff,      \* Inner.pending_bootstrap: [id, gen, url]
  delivering,   \* deliver_pending_bootstrap: the snapshot it is about to post
  failing,      \* admit_primary_web: the request id it read for session.failed
  toPage,       \* messages on their way to the page
  loading,      \* the web view was sent to target and has not arrived
  arrived,      \* PrimaryWebLoaded events not handled, by origin
  loads,        \* page loads so far
  client, identity, stored, boot, attempts, ticking, validating, lookups,
  waiting, playGen, plays, outbox, asked, answered  \* of JellyfinPage

Page == INSTANCE JellyfinPage WITH Gens <- 1 .. MaxRedeems, fresh <- FALSE

handVars == <<handoff, delivering, failing>>
webVars == <<loading, arrived, loads>>
scriptVars == <<client, identity, stored, boot, attempts, ticking, validating, lookups,
                waiting, playGen, plays, outbox, asked, answered>>
extVars == <<vars, handVars, toPage, webVars, scriptVars>>

BootstrapMsg(g) == [type |-> "session.bootstrap", arg |-> g]
PlayMsg(id) == [type |-> "play.item", arg |-> id]
ClearMsg == [type |-> "session.clear", arg |-> None]

Handoff == [id : AuthIds, gen : 1 .. MaxRedeems, url : Origins]
ASSUME HandoffAssumption == None \notin Handoff
PageMessage == {BootstrapMsg(g) : g \in 1 .. MaxRedeems}
                 \cup {PlayMsg(id) : id \in PlayIds} \cup {ClearMsg}

ExtTypeOK ==
  /\ TypeOK
  /\ handoff \in Handoff \cup {None}
  /\ delivering \in 1 .. MaxRedeems \cup {None}
  /\ failing \in PlayIds \cup {"session", None}
  /\ toPage \in Seq(PageMessage)
  /\ loading \in BOOLEAN /\ arrived \in Seq(Origins \cup {Elsewhere}) /\ loads \in 0 .. MaxLoads
  /\ Page!TypeOK

ExtInit ==
  /\ Init /\ ~inSetup
  /\ handoff = None /\ delivering = None /\ failing = None
  /\ toPage = <<>> /\ loading = FALSE /\ arrived = <<>> /\ loads = 0
  /\ client = "absent" /\ identity = None /\ stored = None
  /\ boot = None /\ attempts = 0 /\ ticking = TRUE /\ validating = None /\ lookups = {}
  /\ waiting = None /\ playGen = 0 /\ plays = {}
  /\ outbox = <<>> /\ asked = None /\ answered = {}

PostToPage(message) == toPage' = Append(toPage, message)

\* The bounds hold back the user, never the extension or the script.
UserMayAct == Len(toPage) < MaxToPage /\ Len(outbox) < MaxOutbox

(***************************************************************************)
(* Commands of the frontend (admit_frontend).                              *)
(***************************************************************************)
Authenticate ==
  /\ \/ \E id \in AuthIds : AuthChallenge(id)
     \/ \E id \in AuthIds : BeginAuthComplete(id, 0)
     \/ \E id \in AuthIds : RefuseAuthComplete(id, 0)
  /\ UNCHANGED <<handVars, toPage, webVars, scriptVars>>

\* play.item, of a new request, goes to the page when the controller accepts it.
Play(id) ==
  /\ UserMayAct /\ id # activeId
  /\ \/ PlayItem(id) /\ PostToPage(PlayMsg(id))
     \/ RefusePlay(id) /\ UNCHANGED toPage
  /\ UNCHANGED <<handVars, webVars, scriptVars>>

\* session.clear drops the handoff before it asks the controller.
Clear ==
  /\ UserMayAct
  /\ handoff' = None
  /\ SessionClear
  /\ PostToPage(ClearMsg)
  /\ UNCHANGED <<delivering, failing, webVars, scriptVars>>

(***************************************************************************)
(* enqueue: the workers' answers.  The handoff changes before the          *)
(* controller compares epochs, and whatever it decides.                    *)
(***************************************************************************)
\* Mutant: the handoff is made out for the other URL.
RedeemedArrivesElsewhere(g, url, fallback) ==
  /\ handoff' = [id |-> redeems[g].id, gen |-> g, url |-> fallback]
  /\ \/ AuthRedeemed(g, url, fallback) /\ loading' = TRUE
     \/ StaleAnswer(g) /\ UNCHANGED loading
  /\ UNCHANGED <<delivering, failing, toPage, arrived, loads, scriptVars>>

RedeemedArrives(g, url, fallback) ==
  /\ handoff' = [id |-> redeems[g].id, gen |-> g, url |-> url]
  /\ \/ AuthRedeemed(g, url, fallback) /\ loading' = TRUE
     \/ StaleAnswer(g) /\ UNCHANGED loading
  /\ UNCHANGED <<delivering, failing, toPage, arrived, loads, scriptVars>>

\* Mutant: the failure is reported whether or not the controller finds it stale.
RedemptionFailsAnyway(g) ==
  /\ handoff' = None
  /\ Answered(g)
  /\ state' = "Degraded"
  /\ Post(<<Ev(redeems[g].id, "error")>>)
  /\ UNCHANGED <<proofs, nextKey, authEpoch, setupVars, viewVars, pageVars>>
  /\ UNCHANGED <<delivering, failing, toPage, webVars, scriptVars>>

RedemptionFails(g) ==
  /\ handoff' = None
  /\ AuthFailed(g) \/ StaleAnswer(g)
  /\ UNCHANGED <<delivering, failing, toPage, webVars, scriptVars>>

\* BootstrapFailed: a fallback sends the web view to another URL.
GiveUpOn(id) ==
  \/ TryFallback(id) /\ loading' = TRUE
  \/ BootstrapFailed(id) /\ UNCHANGED loading

(***************************************************************************)
(* PrimaryWebLoaded (deliver_pending_bootstrap).                           *)
(***************************************************************************)
NothingToDeliver ==
  /\ handoff = None
  /\ UNCHANGED <<vars, handVars, loading>>

\* Mutant: a page at another origin is ignored without telling the controller.
OriginMismatchIgnored ==
  /\ handoff # None
  /\ Head(arrived) # handoff.url
  /\ handoff' = None
  /\ UNCHANGED <<vars, delivering, failing, loading>>

\* The page is not where the bootstrap belongs.
OriginMismatch ==
  /\ handoff # None
  /\ Head(arrived) # handoff.url
  /\ handoff' = None
  /\ GiveUpOn(handoff.id)
  /\ UNCHANGED <<delivering, failing>>

\* Mutant: the handoff is taken when it is delivered, so a reload loses it.
SnapshotTaking ==
  /\ handoff # None
  /\ Head(arrived) = handoff.url
  /\ delivering' = handoff.gen
  /\ handoff' = None
  /\ UNCHANGED <<vars, failing, loading>>

Snapshot ==
  /\ handoff # None
  /\ Head(arrived) = handoff.url
  /\ delivering' = handoff.gen
  /\ UNCHANGED <<vars, handoff, failing, loading>>

HandleLoaded ==
  /\ arrived # <<>> /\ delivering = None
  /\ arrived' = Tail(arrived)
  /\ NothingToDeliver \/ OriginMismatch \/ Snapshot
  /\ UNCHANGED <<toPage, loads, scriptVars>>

\* post_bootstrap, after the lock was let go.
PostBootstrap ==
  /\ delivering # None
  /\ delivering' = None
  /\ PostToPage(BootstrapMsg(delivering))
  /\ UNCHANGED <<vars, handoff, failing, webVars, scriptVars>>

(***************************************************************************)
(* Messages of the page (admit_primary_web).                               *)
(***************************************************************************)
TakeMessage(message) ==
  /\ outbox # <<>> /\ Head(outbox) = message
  /\ outbox' = Tail(outbox)
  /\ UNCHANGED <<client, identity, stored, boot, attempts, ticking, validating, lookups,
                 waiting, playGen, plays, asked, answered>>

\* BootstrapReady of no pending bootstrap does nothing but drop the handoff.
ReadyArrives(g) ==
  /\ TakeMessage(Page!Ready(g))
  /\ handoff' = None
  /\ \/ BootstrapReady(g)
     \/ pending = None /\ UNCHANGED vars
  /\ UNCHANGED <<delivering, failing, toPage, webVars>>

\* session.failed reads the active play id, or makes one up ...
FailureArrives(g) ==
  /\ failing = None
  /\ TakeMessage(Page!Failed(g))
  /\ failing' = IF activeId = None THEN "session" ELSE activeId
  /\ UNCHANGED <<vars, handoff, delivering, toPage, webVars>>

\* Mutant: the handoff outlives the sign-in that failed.
FailureLandsKeeping ==
  /\ failing # None
  /\ failing' = None
  /\ GiveUpOn(failing)
  /\ UNCHANGED <<handoff, delivering, toPage, arrived, loads, scriptVars>>

\* ... and fails the pending bootstrap in its name under a second lock.
FailureLands ==
  /\ failing # None
  /\ failing' = None
  /\ handoff' = None
  /\ GiveUpOn(failing)
  /\ UNCHANGED <<delivering, toPage, arrived, loads, scriptVars>>

\* playback.stopped ends whatever play is active.
StoppedArrives(item) ==
  /\ TakeMessage(Page!Stopped(item))
  /\ EndPlayback("canceled")
  /\ UNCHANGED <<handVars, toPage, webVars>>

(***************************************************************************)
(* The web view (Jellium) and the script in it.                            *)
(***************************************************************************)

\* It arrives at the URL it was sent to or is redirected, or the page
\* reloads.  A message in flight may be lost with the old page.
Arrives ==
  /\ target # None /\ loads < MaxLoads
  /\ Page!Load
  /\ \E url \in {target, Elsewhere} : arrived' = Append(arrived, url)
  /\ loads' = loads + 1
  /\ loading' = FALSE
  /\ toPage' \in {toPage, <<>>}
  /\ UNCHANGED <<vars, handVars>>

HandlesMessage ==
  /\ toPage # <<>>
  /\ toPage' = Tail(toPage)
  /\ LET message == Head(toPage) IN
       \/ message.type = "session.bootstrap" /\ Page!OnBootstrap(message.arg)
       \/ message.type = "play.item" /\ Page!OnPlay(message.arg)
       \/ message.type = "session.clear" /\ Page!OnClear
  /\ UNCHANGED <<vars, handVars, webVars>>

ScriptAlone(Step) ==
  /\ Step
  /\ UNCHANGED <<vars, handVars, toPage, webVars>>

ScriptTicks == ScriptAlone(Page!Tick)
ClientAppears == ScriptAlone(Page!ClientStarts)
ScriptContinues == ScriptAlone(Page!PageStep)

PageTalks ==
  \/ \E g \in 1 .. MaxRedeems : ReadyArrives(g)
  \/ \E g \in 1 .. MaxRedeems : FailureArrives(g)
  \/ \E item \in PlayIds : StoppedArrives(item)

ExtNext ==
  \/ Authenticate
  \/ \E id \in PlayIds : Play(id)
  \/ Clear
  \/ \E g \in DOMAIN redeems, url \in Origins, fallback \in Origins \cup {None} :
       RedeemedArrives(g, url, fallback)
  \/ \E g \in DOMAIN redeems : RedemptionFails(g)
  \/ HandleLoaded
  \/ PostBootstrap
  \/ PageTalks
  \/ FailureLands
  \/ Arrives
  \/ HandlesMessage
  \/ ScriptTicks
  \/ ClientAppears
  \/ ScriptContinues

ExtSpec == ExtInit /\ [][ExtNext]_extVars

\* The web view arrives where it was sent, events and messages are handled
\* and the interval fires.  Nothing is assumed of the server, the user or a
\* promise, nor that what arrives is Jellyfin Web and not an error page.
ExtFairSpec ==
  /\ ExtSpec
  /\ WF_extVars(loading /\ Arrives)
  /\ WF_extVars(HandleLoaded) /\ WF_extVars(PostBootstrap)
  /\ WF_extVars(PageTalks) /\ WF_extVars(FailureLands)
  /\ WF_extVars(HandlesMessage)
  /\ WF_extVars(ScriptTicks)

(***************************************************************************)
(* What the composition promises.                                          *)
(***************************************************************************)

\* The messages behind position n leave the bootstrap of the handoff alone.
Spared(n) ==
  \A m \in DOMAIN toPage : m > n =>
    toPage[m].type = "play.item" \/ toPage[m] = BootstrapMsg(handoff.gen)

\* The page posted what it made of a bootstrap.
PageAnswers == \E n \in DOMAIN outbox : outbox[n].type \in {"session.ready", "session.failed"}

\* The bootstrap of the handoff is under way: a page load will ask for it, it
\* is being posted, it travels to the script and nothing behind it undoes it,
\* the script has it to apply, or an answer comes back.
Carried ==
  \/ loading \/ arrived # <<>> \/ delivering = handoff.gen
  \/ \E n \in DOMAIN toPage : toPage[n] = BootstrapMsg(handoff.gen) /\ Spared(n)
  \/ boot = handoff.gen /\ Spared(0)
  \/ PageAnswers \/ failing # None

\* The handoff belongs to no session that was cleared.
Current == handoff # None /\ redeems[handoff.gen].epoch = authEpoch

\* The bootstrap the extension keeps for a page never lies forgotten: neither a
\* delivery that a newer sign-in overtakes, nor a reload, nor a session.clear
\* in flight takes it away while the extension still holds its copy.
HandoffIsCarried == Current => Carried

\* The extension and the controller keep the same sign-in.
Together == pending # None /\ handoff # None /\ handoff.gen = pending.gen

\* Another redemption than the pending one was answered in this step.
OtherAnswered ==
  \E g \in DOMAIN redeems : g # pending.gen /\ redeems[g].running /\ ~redeems'[g].running

\* The extension gives up its copy while the controller goes on waiting in two
\* cases only: the controller tries the fallback URL (which the extension then
\* has nothing to deliver to), or another ticket is answered meanwhile.
PartsForCause ==
  [][Together /\ ~Together' /\ pending' # None =>
       \/ pending.fallback # None /\ pending'.url = pending.fallback
       \/ OtherAnswered]_extVars

\* So a pending sign-in is never stranded as long as its ticket is the only one
\* redeemed, and the server has one URL.
NeverStranded == pending # None /\ Len(redeems) = 1 => handoff # None /\ Carried

\* The extension's copy of a bootstrap is the controller's: same redemption,
\* same URL, and none when nothing is pending.  Only a ticket redeemed before a
\* session.clear and answered after it parts the two (StaleNeverDelivered).
HandoffAgrees ==
  Current => pending # None /\ handoff.gen = pending.gen /\ handoff.url = pending.url

\* And it comes to an end: the page acknowledges the session or fails it, the
\* web view ends up elsewhere, or the user signs out.  The one place where it
\* waits for ever is a page that shows no Jellyfin Web, and there the script
\* has the bootstrap: should an ApiClient appear after all, it is applied.
SignInConcludes ==
  <>[](pending # None) => <>[](client = "absent" /\ pending # None /\ boot = pending.gen)

\* The extension drives the controller as Controller lets its environment do:
\* each of its steps is one handler of the controller or none, so whatever
\* Controller promises holds of the composition (with_inner, enqueue).
ControllerSpec == Spec

\* Test auth_challenge_and_stale_redeem_ignored: what was redeemed before a
\* session.clear is ignored.  The extension delivers it all the same.
StaleNeverDelivered ==
  [][delivering = None /\ delivering' # None => redeems[delivering'].epoch = authEpoch]_extVars

\* Test jellyfin_fallback_url_is_tried_after_bootstrap_failure: a sign-in is
\* not given up while its bootstrap names another URL.  The extension reports
\* session.failed under an id the controller does not know it by.
FallbackIsTried ==
  [][pending # None /\ pending.fallback \notin {None, pending.url} /\ pending' = None
       => state' # "Degraded"]_extVars
=============================================================================
