----------------------------- MODULE Controller -----------------------------
(***************************************************************************)
(* The protocol controller of Foreseer Desktop (src/controller.rs) with    *)
(* the two data structures it owns: the pending auth proofs (auth.rs) and  *)
(* the session expected from Jellyfin Web (session.rs).                    *)
(*                                                                         *)
(* Every handler of the code runs under the extension's one state mutex,   *)
(* so a handler is one action.  What surrounds the controller is free to   *)
(* call any handler at any time; the only thing it cannot do is answer a   *)
(* redemption or a connectivity check that was never started.              *)
(***************************************************************************)
EXTENDS Naturals, Sequences, FiniteSets

CONSTANTS
  AuthIds,        \* request ids of auth.challenge / auth.complete
  PlayIds,        \* request ids of play.item
  SetupIds,       \* request ids of setup.check / setup.save
  Origins,        \* Jellyfin server URLs a bootstrap may name
  None,           \* Rust's Option::None
  MaxPending,     \* MAX_PENDING_AUTH_PROOFS (10 in the code)
  MaxKeys,        \* bound: auth proofs minted
  MaxRedeems,     \* bound: ticket redemptions started
  MaxEpoch,       \* bound: session.clear commands
  MaxGeneration   \* bound: setup episodes opened or closed

ASSUME MaxPendingAssumption == MaxPending \in Nat \ {0}
ASSUME BoundAssumption == /\ MaxKeys \in Nat /\ MaxRedeems \in Nat
                          /\ MaxEpoch \in Nat /\ MaxGeneration \in Nat
ASSUME IdsAssumption == IsFiniteSet(AuthIds)
ASSUME NoneAssumption == None \notin PlayIds /\ None \notin Nat

VARIABLES
  state,        \* AppState
  proofs,       \* pending proof of each auth id: its key, 0 when there is none
  nextKey,      \* key of the next proof minted; keys grow, so they order ages
  authEpoch,    \* auth_epoch
  redeems,      \* redemptions started, in order; the index is the generation
                \* of the session bootstrap the server answers with
  setupGen,     \* setup_generation
  inSetup,      \* in_setup
  checks,       \* connectivity checks running, with the generation they read
  activeId,     \* active_request_id
  expected,     \* generation of expected_session
  pending,      \* pending_bootstrap
  presentation, \* what set_presentation last asked for
  target,       \* the URL navigate_primary_web last asked for
  posted,       \* the frontend events the last handler posted, in order
  told,         \* history: the last event each request id was sent
  acked,        \* history: the generation the page last acknowledged
  overtaken     \* history: running checks whose setup was saved or reopened

authVars  == <<proofs, nextKey, authEpoch, redeems>>
setupVars == <<setupGen, inSetup, checks, overtaken>>
viewVars  == <<activeId, presentation>>
pageVars  == <<expected, pending, target, acked>>
outVars   == <<posted, told>>
vars == <<state, authVars, setupVars, viewVars, pageVars, outVars>>

Ids == AuthIds \cup PlayIds \cup SetupIds

\* AppState.  Restoring is never visible between two handlers.
AppState == {"Starting", "Setup", "Authenticating", "Ready", "Resolving",
             "Playing", "Restoring", "Degraded", "ShuttingDown"}

\* Presentation.
Presentation == {"Frontend", "PrimaryWebPreparing", "PrimaryWeb"}

\* terminalPlayEventTypes of the protocol that the controller can send.
TerminalEvents == {"finished", "canceled", "error"}
EventKinds == TerminalEvents \cup
  {"auth-challenge", "ready", "accepted", "resolving", "playing", "stopped",
   "connectivity-success", "save-config-success"}

\* The id of a session.clear request and the id the extension makes up for a
\* session failure nobody asked about: no request is followed under either.
OtherIds == {"clear", "session"}

Event == [id : Ids \cup OtherIds, kind : EventKinds]
Redemption == [id : AuthIds, epoch : Nat, key : Nat \ {0}, running : BOOLEAN]
Bootstrap == [id : AuthIds, gen : Nat \ {0},
              url : Origins, fallback : Origins \cup {None}]
ASSUME BootstrapAssumption == None \notin Bootstrap

Check == [id : SetupIds, gen : Nat]

TypeOK ==
  /\ state \in AppState \ {"Restoring"}
  /\ proofs \in [AuthIds -> Nat]
  /\ nextKey \in Nat \ {0}
  /\ authEpoch \in Nat
  /\ redeems \in Seq(Redemption)
  /\ setupGen \in Nat
  /\ inSetup \in BOOLEAN
  /\ checks \in SUBSET Check
  /\ activeId \in PlayIds \cup {None}
  /\ expected \in Nat \cup {None}
  /\ pending \in Bootstrap \cup {None}
  /\ presentation \in Presentation
  /\ target \in Origins \cup {None}
  /\ posted \in Seq(Event)
  /\ told \in [Ids -> EventKinds \cup {"nothing"}]
  /\ acked \in Nat
  /\ overtaken \in SUBSET SetupIds

(***************************************************************************)
(* Posting to the frontend.                                                *)
(***************************************************************************)
Ev(id, kind) == [id |-> id, kind |-> kind]

LastKind(events, id) ==
  LET mine == {n \in DOMAIN events : events[n].id = id}
  IN  IF mine = {} THEN told[id]
      ELSE events[CHOOSE n \in mine : \A m \in mine : m <= n].kind

Post(events) ==
  /\ posted' = events
  /\ told' = [id \in Ids |-> LastKind(events, id)]

(***************************************************************************)
(* PendingAuthProofs.  A proof older than AUTH_PROOF_TTL is dropped before *)
(* every access: time may have aged any of them, the oldest first, so the  *)
(* survivors are the proofs minted after some cut.                         *)
(***************************************************************************)
Held(ps) == {id \in AuthIds : ps[id] # 0}

Expire(ps, cut) == [id \in AuthIds |-> IF ps[id] > cut THEN ps[id] ELSE 0]

Oldest(ps) == CHOOSE id \in Held(ps) : \A other \in Held(ps) : ps[id] <= ps[other]

\* Mutant: room is made one proof too late.
MakeRoomLate(ps) ==
  IF Cardinality(Held(ps)) > MaxPending THEN [ps EXCEPT ![Oldest(ps)] = 0] ELSE ps

\* A full map makes room for one, even when the id it stores is already held.
MakeRoom(ps) ==
  IF Cardinality(Held(ps)) >= MaxPending THEN [ps EXCEPT ![Oldest(ps)] = 0] ELSE ps

Insert(ps, id, key) == [MakeRoom(ps) EXCEPT ![id] = key]

Take(ps, id) == [ps EXCEPT ![id] = 0]

NoProofs == [id \in AuthIds |-> 0]

(***************************************************************************)
(* The handlers.                                                           *)
(***************************************************************************)
Init ==
  /\ inSetup \in BOOLEAN
  /\ state = IF inSetup THEN "Setup" ELSE "Starting"
  /\ proofs = NoProofs /\ nextKey = 1 /\ authEpoch = 0 /\ redeems = <<>>
  /\ setupGen = 0 /\ checks = {} /\ overtaken = {}
  /\ activeId = None /\ presentation = "Frontend"
  /\ expected = None /\ pending = None /\ target = None /\ acked = 0
  /\ posted = <<>> /\ told = [id \in Ids |-> "nothing"]

\* handle_command refuses every command once the state is ShuttingDown.
Admitted == state # "ShuttingDown"

\* on_auth_challenge
AuthChallenge(id) ==
  /\ Admitted /\ nextKey <= MaxKeys
  /\ \E cut \in 0 .. nextKey - 1 : proofs' = Insert(Expire(proofs, cut), id, nextKey)
  /\ nextKey' = nextKey + 1
  /\ state' = "Authenticating"
  /\ Post(<<Ev(id, "auth-challenge")>>)
  /\ UNCHANGED <<authEpoch, redeems, setupVars, viewVars, pageVars>>

\* Mutant: the proof stays in the map while its ticket is redeemed.
BeginAuthCompleteKeeping(id, cut) ==
  /\ Len(redeems) < MaxRedeems
  /\ proofs[id] > cut
  /\ proofs' = Expire(proofs, cut)
  /\ redeems' = Append(redeems, [id |-> id, epoch |-> authEpoch,
                                 key |-> proofs[id], running |-> TRUE])
  /\ Post(<<>>)
  /\ UNCHANGED <<state, nextKey, authEpoch, setupVars, viewVars, pageVars>>

\* begin_auth_complete finds the proof: a worker starts redeeming the ticket.
\* It is called by the extension itself, not through handle_command.
BeginAuthComplete(id, cut) ==
  /\ Len(redeems) < MaxRedeems
  /\ proofs[id] > cut
  /\ proofs' = Take(Expire(proofs, cut), id)
  /\ redeems' = Append(redeems, [id |-> id, epoch |-> authEpoch,
                                 key |-> proofs[id], running |-> TRUE])
  /\ Post(<<>>)
  /\ UNCHANGED <<state, nextKey, authEpoch, setupVars, viewVars, pageVars>>

\* begin_auth_complete finds no proof, or one that has expired.
RefuseAuthComplete(id, cut) ==
  /\ proofs[id] <= cut
  /\ proofs' = Expire(proofs, cut)
  /\ state' = "Degraded"
  /\ Post(<<Ev(id, "error")>>)
  /\ UNCHANGED <<nextKey, authEpoch, redeems, setupVars, viewVars, pageVars>>

\* The answer of redemption g reaches the controller; its worker ends.
Answered(g) ==
  /\ redeems[g].running
  /\ redeems' = [redeems EXCEPT ![g].running = FALSE]

\* Mutant: the epochs are not compared.
AnyEpoch(g) == redeems[g].epoch <= authEpoch

\* The auth_epoch comparison of AuthRedeemed and AuthFailed.
SameEpoch(g) == redeems[g].epoch = authEpoch

AuthRedeemed(g, url, fallback) ==
  /\ Answered(g)
  /\ SameEpoch(g)
  /\ expected' = g
  /\ pending' = [id |-> redeems[g].id, gen |-> g, url |-> url, fallback |-> fallback]
  /\ target' = url
  /\ state' = "Authenticating"
  /\ Post(<<>>)
  /\ UNCHANGED <<proofs, nextKey, authEpoch, acked, setupVars, viewVars>>

AuthFailed(g) ==
  /\ Answered(g)
  /\ SameEpoch(g)
  /\ state' = "Degraded"
  /\ Post(<<Ev(redeems[g].id, "error")>>)
  /\ UNCHANGED <<proofs, nextKey, authEpoch, setupVars, viewVars, pageVars>>

\* Either answer, come too late: the session was cleared while it travelled.
StaleAnswer(g) ==
  /\ Answered(g)
  /\ ~ SameEpoch(g)
  /\ Post(<<>>)
  /\ UNCHANGED <<state, proofs, nextKey, authEpoch, setupVars, viewVars, pageVars>>

\* Mutant: any session the server gave out is taken for the expected one.
MatchesAny(gen) == gen \in DOMAIN redeems

\* ExpectedSession.matches: the identity of a session is its redemption.
Matches(gen) == expected = gen

\* BootstrapReady; without a pending bootstrap the handler does nothing.
BootstrapReady(gen) ==
  /\ pending # None
  /\ pending' = None
  /\ acked' = gen
  /\ IF Matches(gen)
       THEN state' = "Ready" /\ Post(<<Ev(pending.id, "ready")>>)
       ELSE state' = "Degraded" /\ Post(<<Ev(pending.id, "error")>>)
  /\ UNCHANGED <<expected, target, authVars, setupVars, viewVars>>

HasFallback(id) ==
  /\ pending # None
  /\ pending.id = id
  /\ pending.fallback \notin {None, pending.url}

\* Mutant: the web view is sent to the URL that has just failed.
TryFallbackInPlace(id) ==
  /\ HasFallback(id)
  /\ pending' = [pending EXCEPT !.url = pending.fallback, !.fallback = None]
  /\ expected' = pending.gen
  /\ target' = pending.url
  /\ Post(<<>>)
  /\ UNCHANGED <<state, acked, authVars, setupVars, viewVars>>

\* BootstrapFailed of the pending request, which names another URL to try.
TryFallback(id) ==
  /\ HasFallback(id)
  /\ pending' = [pending EXCEPT !.url = pending.fallback, !.fallback = None]
  /\ expected' = pending.gen
  /\ target' = pending.fallback
  /\ Post(<<>>)
  /\ UNCHANGED <<state, acked, authVars, setupVars, viewVars>>

\* BootstrapFailed of anything else drops whatever bootstrap is pending.
BootstrapFailed(id) ==
  /\ ~ HasFallback(id)
  /\ pending' = None
  /\ state' = "Degraded"
  /\ Post(<<Ev(id, "error")>>)
  /\ UNCHANGED <<expected, target, acked, authVars, setupVars, viewVars>>

\* on_session_clear
SessionClear ==
  /\ Admitted /\ authEpoch < MaxEpoch
  /\ authEpoch' = authEpoch + 1
  /\ proofs' = NoProofs
  /\ expected' = None /\ pending' = None /\ activeId' = None
  /\ state' = "Starting"
  /\ presentation' = "Frontend"
  /\ Post(<<Ev("clear", "stopped")>>)
  /\ UNCHANGED <<nextKey, redeems, target, acked, setupVars>>

PlayableStates == {"Ready", "Playing", "Resolving", "Degraded"}

\* A play request carries a new id; the active one may also be sent again.
MayPlay(id) == told[id] = "nothing" \/ id = activeId

\* on_play_item in a state that cannot play.
RefusePlay(id) ==
  /\ Admitted /\ MayPlay(id)
  /\ state \notin PlayableStates
  /\ Post(<<Ev(id, "error")>>)
  /\ UNCHANGED <<state, authVars, setupVars, viewVars, pageVars>>

\* Mutant: the play that is replaced is forgotten.
ReplacedInSilence(id) == <<>>

\* on_play_item: the play it replaces is canceled first.
Replaced(id) == IF activeId \in {None, id} THEN <<>> ELSE <<Ev(activeId, "canceled")>>

PlayItem(id) ==
  /\ Admitted /\ MayPlay(id)
  /\ state \in PlayableStates
  /\ activeId' = id
  /\ state' = "Resolving"
  /\ presentation' = "PrimaryWebPreparing"
  /\ Post(Replaced(id) \o <<Ev(id, "accepted"), Ev(id, "resolving")>>)
  /\ UNCHANGED <<authVars, setupVars, pageVars>>

PlaybackStarted ==
  /\ state' = "Playing"
  /\ presentation' = "PrimaryWeb"
  /\ Post(IF activeId = None THEN <<>> ELSE <<Ev(activeId, "playing")>>)
  /\ UNCHANGED <<activeId, authVars, setupVars, pageVars>>

\* Mutant: the state is left at Restoring, where the code only passes through.
EndPlaybackHalfway(kind) ==
  /\ state' = "Restoring"
  /\ presentation' = "Frontend"
  /\ activeId' = None
  /\ Post(IF activeId = None THEN <<>> ELSE <<Ev(activeId, kind)>>)
  /\ UNCHANGED <<authVars, setupVars, pageVars>>

\* end_playback, for PlaybackFinished, PlaybackCanceled and PlaybackError.
EndPlayback(kind) ==
  /\ state' = "Ready"
  /\ presentation' = "Frontend"
  /\ activeId' = None
  /\ Post(IF activeId = None THEN <<>> ELSE <<Ev(activeId, kind)>>)
  /\ UNCHANGED <<authVars, setupVars, pageVars>>

NewSetupId(id) == told[id] = "nothing" /\ \A c \in checks : c.id # id

\* start_setup_check: the generation is read under the lock the worker lacks.
StartSetupCheck(id) ==
  /\ inSetup /\ NewSetupId(id)
  /\ checks' = checks \cup {[id |-> id, gen |-> setupGen]}
  /\ Post(<<>>)
  /\ UNCHANGED <<state, setupGen, inSetup, overtaken, authVars, viewVars, pageVars>>

\* setup.check or setup.save outside setup, or of a URL that does not validate.
RefuseSetup(id) ==
  /\ NewSetupId(id)
  /\ Post(<<Ev(id, "error")>>)
  /\ UNCHANGED <<state, authVars, setupVars, viewVars, pageVars>>

\* Mutant: being in setup again is taken for being in the same setup.
CheckIsInSetup(c) == inSetup

\* The setup_generation comparison of SetupCheckResult.
CheckIsCurrent(c) == c.gen = setupGen /\ inSetup

SetupCheckResult(c, kind) ==
  /\ c \in checks
  /\ checks' = checks \ {c}
  /\ overtaken' = overtaken \ {c.id}
  /\ Post(IF CheckIsCurrent(c) THEN <<Ev(c.id, kind)>> ELSE <<>>)
  /\ UNCHANGED <<state, setupGen, inSetup, authVars, viewVars, pageVars>>

RunningChecks == {c.id : c \in checks}

\* on_setup_save of a valid URL: setup closes before the navigation is tried.
SetupSave(id, navigated) ==
  /\ Admitted /\ inSetup /\ NewSetupId(id) /\ setupGen < MaxGeneration
  /\ setupGen' = setupGen + 1
  /\ inSetup' = FALSE
  /\ overtaken' = RunningChecks
  /\ IF navigated
       THEN state' = "Starting" /\ Post(<<Ev(id, "save-config-success")>>)
       ELSE UNCHANGED state /\ Post(<<Ev(id, "error")>>)
  /\ UNCHANGED <<checks, authVars, viewVars, pageVars>>

\* enter_setup
EnterSetup ==
  /\ setupGen < MaxGeneration
  /\ inSetup' = TRUE
  /\ state' = "Setup"
  /\ setupGen' = setupGen + 1
  /\ overtaken' = RunningChecks
  /\ activeId' = None /\ expected' = None /\ pending' = None
  /\ Post(<<>>)
  /\ UNCHANGED <<checks, presentation, target, acked, authVars>>

\* AppQuit
AppQuit ==
  /\ Admitted
  /\ state' = "ShuttingDown"
  /\ Post(<<>>)
  /\ UNCHANGED <<authVars, setupVars, viewVars, pageVars>>

\* Shutdown
Shutdown ==
  /\ state' = "ShuttingDown"
  /\ proofs' = NoProofs
  /\ activeId' = None /\ pending' = None
  /\ Post(<<>>)
  /\ UNCHANGED <<nextKey, authEpoch, redeems, expected, target, acked,
                 presentation, setupVars>>

Cuts == 0 .. nextKey - 1

\* What the page may acknowledge: any session it was ever sent, or made up.
Generations == 1 .. MaxRedeems

\* What may be reported failed: any request, or one the extension makes up.
FailureIds == AuthIds \cup PlayIds \cup {"session"}

AuthNext ==
  \/ \E id \in AuthIds : AuthChallenge(id)
  \/ \E id \in AuthIds, cut \in Cuts : BeginAuthComplete(id, cut)
  \/ \E id \in AuthIds, cut \in Cuts : RefuseAuthComplete(id, cut)
  \/ \E g \in DOMAIN redeems, url \in Origins, fallback \in Origins \cup {None} :
       AuthRedeemed(g, url, fallback)
  \/ \E g \in DOMAIN redeems : AuthFailed(g)
  \/ \E g \in DOMAIN redeems : StaleAnswer(g)
  \/ \E gen \in Generations : BootstrapReady(gen)
  \/ \E id \in FailureIds : TryFallback(id)
  \/ \E id \in FailureIds : BootstrapFailed(id)
  \/ SessionClear

PlayNext ==
  \/ \E id \in PlayIds : RefusePlay(id)
  \/ \E id \in PlayIds : PlayItem(id)
  \/ PlaybackStarted
  \/ \E kind \in TerminalEvents : EndPlayback(kind)

SetupNext ==
  \/ \E id \in SetupIds : StartSetupCheck(id)
  \/ \E id \in SetupIds : RefuseSetup(id)
  \/ \E c \in [id : SetupIds, gen : 0 .. MaxGeneration],
          kind \in {"connectivity-success", "error"} : SetupCheckResult(c, kind)
  \/ \E id \in SetupIds, navigated \in BOOLEAN : SetupSave(id, navigated)
  \/ EnterSetup

Next == AuthNext \/ PlayNext \/ SetupNext \/ AppQuit \/ Shutdown

Spec == Init /\ [][Next]_vars

(***************************************************************************)
(* What the controller promises.                                           *)
(***************************************************************************)

\* Ten pending proofs at most, whatever the frontend asks for: insert makes
\* room before it stores (auth.rs).
ProofsBounded == Cardinality(Held(proofs)) <= MaxPending

\* A verifier is sent to the server at most once: the proof is taken out of
\* the map under the lock before a worker starts (begin_auth_complete), so
\* neither a second auth.complete nor a second worker can use it.
VerifierUsedOnce ==
  /\ \A g, h \in DOMAIN redeems : redeems[g].key = redeems[h].key => g = h
  /\ \A g \in DOMAIN redeems, id \in AuthIds : proofs[id] # redeems[g].key

\* No credential survives session.clear: the bootstrap that waits for the page
\* and the session expected from it were redeemed for the current epoch.
SessionIsCurrent ==
  /\ pending # None => redeems[pending.gen].epoch = authEpoch
  /\ expected # None => redeems[expected].epoch = authEpoch

\* The three things the controller keeps about one redemption agree: what it
\* expects, the request it will answer and the page it sent Jellyfin Web to.
PendingAgrees ==
  pending # None =>
    /\ expected = pending.gen
    /\ target = pending.url
    /\ redeems[pending.gen].id = pending.id

\* A request is told "ready" only for a session acknowledged by the page that
\* was redeemed for that very request and not cleared since (BootstrapReady).
ReadyForOwnSession ==
  [][\A id \in AuthIds :
       told'[id] = "ready" /\ told[id] # "ready" =>
         redeems[acked'].id = id /\ redeems[acked'].epoch = authEpoch]_vars

\* The active play is never dropped in silence: when it stops being active it
\* is told a terminal event, unless the session, the setup or the application
\* it belonged to went away in the same step.
NoSilentDrop ==
  [][activeId # None /\ activeId' # activeId =>
       \/ told'[activeId] \in TerminalEvents
       \/ authEpoch' # authEpoch \/ setupGen' # setupGen
       \/ state' = "ShuttingDown"]_vars

\* A check overtaken by a save or by a new setup page is never answered: the
\* generation its worker carries is old (SetupCheckResult).
OvertakenStaysSilent ==
  [][\A c \in checks : c.id \in overtaken /\ c \notin checks' => told'[c.id] = told[c.id]]_vars
=============================================================================
