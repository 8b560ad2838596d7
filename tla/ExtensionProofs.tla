--------------------------- MODULE ExtensionProofs --------------------------
(***************************************************************************)
(* Theorems about Extension: the composition implements the controller's   *)
(* specification, so that the controller's promises hold of it, and the    *)
(* extension's copy of a bootstrap agrees with the controller's.           *)
(***************************************************************************)
EXTENDS Extension, ControllerProofs

(***************************************************************************)
(* What the extension keeps of its own: a handoff is a redemption that was *)
(* answered, and session.failed is reported under an id it may be.         *)
(***************************************************************************)
HandInv ==
  /\ handoff # None => handoff.id \in AuthIds /\ handoff.gen \in DOMAIN redeems
  /\ failing \in PlayIds \cup {"session", None}

\* The start of the composition is a start of the controller.
LEMMA ExtInitImplements == ExtInit => Init /\ HandInv
  BY DEF ExtInit, HandInv

\* Every step but an answered redemption keeps the handoff or drops it.
HandStep ==
  \/ \E g \in DOMAIN redeems, url \in Origins, fallback \in Origins \cup {None} :
       RedeemedArrives(g, url, fallback)
  \/ handoff' \in {handoff, None}

LEMMA HandStepped == ExtNext => HandStep
<1> SUFFICES ASSUME ExtNext
             PROVE  HandStep
  OBVIOUS
<1> USE DEF HandStep, handVars
<1>1. CASE Authenticate \/ Clear \/ \E id \in PlayIds : Play(id)
  BY <1>1 DEF Authenticate, Clear, Play
<1>2. CASE \E g \in DOMAIN redeems : RedemptionFails(g)
  BY <1>2 DEF RedemptionFails
<1>3. CASE HandleLoaded
  BY <1>3 DEF HandleLoaded, NothingToDeliver, OriginMismatch, Snapshot
<1>4. CASE PostBootstrap \/ FailureLands
  BY <1>4 DEF PostBootstrap, FailureLands
<1>5. CASE PageTalks
  BY <1>5 DEF PageTalks, ReadyArrives, FailureArrives, StoppedArrives
<1>6. CASE Arrives \/ HandlesMessage \/ ScriptTicks \/ ClientAppears \/ ScriptContinues
  BY <1>6 DEF Arrives, HandlesMessage, ScriptTicks, ClientAppears, ScriptContinues, ScriptAlone
<1> QED
  BY <1>1, <1>2, <1>3, <1>4, <1>5, <1>6 DEF ExtNext

\* Giving a sign-in up, under any id the extension may use, is a controller step.
LEMMA GivingUpImplements == ASSUME NEW id \in FailureIds, GiveUpOn(id) PROVE Next
  BY DEF GiveUpOn, AuthNext, Next

\* A step of the extension is a step of the controller, or none of its own.
LEMMA ExtStepImplements == TypeOK /\ HandInv /\ [ExtNext]_extVars => [Next]_vars
<1> SUFFICES ASSUME TypeOK, HandInv, [ExtNext]_extVars
             PROVE  [Next]_vars
  OBVIOUS
<1>1. CASE Authenticate
  <2>1. 0 \in Cuts
    BY DEF Cuts, TypeOK
  <2> QED
    BY <1>1, <2>1 DEF Authenticate, AuthNext, Next
<1>2. CASE \E id \in PlayIds : Play(id)
  BY <1>2 DEF Play, PlayNext, Next
<1>3. CASE Clear
  BY <1>3 DEF Clear, AuthNext, Next
<1>4. CASE \E g \in DOMAIN redeems, url \in Origins, fallback \in Origins \cup {None} :
             RedeemedArrives(g, url, fallback)
  BY <1>4 DEF RedeemedArrives, AuthNext, Next
<1>5. CASE \E g \in DOMAIN redeems : RedemptionFails(g)
  BY <1>5 DEF RedemptionFails, AuthNext, Next
<1>6. CASE HandleLoaded
  <2>1. CASE OriginMismatch
    <3>1. handoff.id \in FailureIds
      BY <2>1 DEF OriginMismatch, HandInv, FailureIds
    <3> QED
      BY <2>1, <3>1, GivingUpImplements DEF OriginMismatch
  <2> QED
    BY <1>6, <2>1 DEF HandleLoaded, NothingToDeliver, Snapshot
<1>7. CASE FailureLands
  <2>1. failing \in FailureIds
    BY <1>7 DEF FailureLands, HandInv, FailureIds
  <2> QED
    BY <1>7, <2>1, GivingUpImplements DEF FailureLands
<1>8. CASE PageTalks
  <2>1. ASSUME NEW g \in 1 .. MaxRedeems, ReadyArrives(g)
        PROVE  [Next]_vars
    BY <2>1 DEF ReadyArrives, AuthNext, Next, Generations
  <2>2. ASSUME NEW item \in PlayIds, StoppedArrives(item)
        PROVE  Next
    BY <2>2 DEF StoppedArrives, PlayNext, Next, TerminalEvents
  <2> QED
    BY <1>8, <2>1, <2>2 DEF PageTalks, FailureArrives
<1>9. CASE PostBootstrap \/ Arrives \/ HandlesMessage \/ ScriptTicks \/ ClientAppears
             \/ ScriptContinues \/ UNCHANGED extVars
  BY <1>9 DEF PostBootstrap, Arrives, HandlesMessage, ScriptTicks, ClientAppears,
              ScriptContinues, ScriptAlone, extVars
<1> QED
  BY <1>1, <1>2, <1>3, <1>4, <1>5, <1>6, <1>7, <1>8, <1>9 DEF ExtNext

\* The ids the extension acts under stay what they should be.
LEMMA ExtStepHand == TypeOK /\ HandInv /\ [ExtNext]_extVars => HandInv'
<1> SUFFICES ASSUME TypeOK, HandInv, [ExtNext]_extVars
             PROVE  HandInv'
  OBVIOUS
<1>1. \A g \in DOMAIN redeems : g \in DOMAIN redeems'
  BY ExtStepImplements, RedeemsKept
<1>2. CASE ExtNext
  <2>1. handoff' # None => handoff'.id \in AuthIds /\ handoff'.gen \in DOMAIN redeems'
    <3>1. ASSUME NEW g \in DOMAIN redeems, NEW url \in Origins,
                 NEW fallback \in Origins \cup {None}, RedeemedArrives(g, url, fallback)
          PROVE  handoff'.id \in AuthIds /\ handoff'.gen \in DOMAIN redeems'
      <4>1. redeems[g] \in Redemption
        BY LenProperties DEF TypeOK
      <4> QED
        BY <1>1, <3>1, <4>1 DEF RedeemedArrives, Redemption
    <3> QED
      BY <1>1, <1>2, <3>1, HandStepped DEF HandStep, HandInv
  <2>2. failing' \in PlayIds \cup {"session", None}
    <3>1. failing' = failing \/ failing' = None \/ \E g \in 1 .. MaxRedeems : FailureArrives(g)
      <4> USE DEF handVars
      <4>1. CASE Authenticate \/ Clear \/ \E id \in PlayIds : Play(id)
        BY <4>1 DEF Authenticate, Clear, Play
      <4>2. CASE \/ \E g \in DOMAIN redeems, url \in Origins, fallback \in Origins \cup {None} :
                      RedeemedArrives(g, url, fallback)
                 \/ \E g \in DOMAIN redeems : RedemptionFails(g)
        BY <4>2 DEF RedeemedArrives, RedemptionFails
      <4>3. CASE HandleLoaded
        BY <4>3 DEF HandleLoaded, NothingToDeliver, OriginMismatch, Snapshot
      <4>4. CASE PostBootstrap \/ FailureLands
        BY <4>4 DEF PostBootstrap, FailureLands
      <4>5. CASE PageTalks
        BY <4>5 DEF PageTalks, ReadyArrives, StoppedArrives
      <4>6. CASE Arrives \/ HandlesMessage \/ ScriptTicks \/ ClientAppears \/ ScriptContinues
        BY <4>6 DEF Arrives, HandlesMessage, ScriptTicks, ClientAppears, ScriptContinues,
                    ScriptAlone
      <4> QED
        BY <1>2, <4>1, <4>2, <4>3, <4>4, <4>5, <4>6 DEF ExtNext
    <3> QED
      BY <3>1 DEF FailureArrives, HandInv, TypeOK
  <2> QED
    BY <2>1, <2>2 DEF HandInv
<1>3. CASE UNCHANGED extVars
  BY <1>3 DEF extVars, vars, authVars, handVars, HandInv
<1> QED
  BY <1>2, <1>3

\* Both hold throughout.
LEMMA ExtInvariant == ExtSpec => [](TypeOK /\ HandInv)
<1>1. ExtInit => TypeOK /\ HandInv
  BY ExtInitImplements, InitType
<1>2. TypeOK /\ HandInv /\ [ExtNext]_extVars => (TypeOK /\ HandInv)'
  BY ExtStepImplements, ExtStepHand, StepType
<1> QED
  BY <1>1, <1>2, PTL DEF ExtSpec

\* Every behaviour of the composition is one of the controller with a free
\* environment: with_inner and enqueue call one handler at a time, and in no
\* other way, so each theorem of ControllerProofs holds of the composition.
THEOREM ImplementsController == ExtSpec => ControllerSpec
<1>1. ExtInit => Init
  BY ExtInitImplements
<1> QED
  BY <1>1, ExtInvariant, ExtStepImplements, PTL DEF ExtSpec, Spec, ControllerSpec

(***************************************************************************)
(* The two copies of a bootstrap.                                          *)
(***************************************************************************)

\* The handlers that touch neither copy, nor the redemptions' epochs.
CopiesKept ==
  /\ handoff' = handoff
  /\ pending' = pending
  /\ authEpoch' = authEpoch

\* A step leaves the handoff empty, makes it out for an answer, or keeps both.
CopiesStep ==
  \/ handoff' = None
  \/ \E g \in DOMAIN redeems, url \in Origins, fallback \in Origins \cup {None} :
       RedeemedArrives(g, url, fallback)
  \/ CopiesKept

\* Whatever changes the pending bootstrap, or the epoch, drops or renews the handoff.
LEMMA CopiesStepped == [ExtNext]_extVars => CopiesStep
<1> SUFFICES ASSUME [ExtNext]_extVars
             PROVE  CopiesStep
  OBVIOUS
<1> USE DEF CopiesStep, CopiesKept, handVars, pageVars, authVars
<1>1. CASE Authenticate
  BY <1>1 DEF Authenticate, AuthChallenge, BeginAuthComplete, RefuseAuthComplete
<1>2. CASE \E id \in PlayIds : Play(id)
  BY <1>2 DEF Play, PlayItem, RefusePlay
<1>3. CASE Clear \/ FailureLands \/ \E g \in DOMAIN redeems : RedemptionFails(g)
  BY <1>3 DEF Clear, FailureLands, RedemptionFails
<1>4. CASE HandleLoaded
  BY <1>4 DEF HandleLoaded, NothingToDeliver, OriginMismatch, Snapshot, vars
<1>5. CASE PageTalks
  BY <1>5 DEF PageTalks, ReadyArrives, FailureArrives, StoppedArrives, EndPlayback, vars
<1>6. CASE PostBootstrap \/ Arrives \/ HandlesMessage \/ ScriptTicks \/ ClientAppears
             \/ ScriptContinues \/ UNCHANGED extVars
  BY <1>6 DEF PostBootstrap, Arrives, HandlesMessage, ScriptTicks, ClientAppears,
              ScriptContinues, ScriptAlone, extVars, vars
<1> QED
  BY <1>1, <1>2, <1>3, <1>4, <1>5, <1>6 DEF ExtNext

\* An answer in time leaves a bootstrap pending.
LEMMA RedeemedMakesBootstrap ==
  ASSUME TypeOK, NEW g \in DOMAIN redeems, NEW url \in Origins,
         NEW fallback \in Origins \cup {None}, AuthRedeemed(g, url, fallback)
  PROVE  pending' \in Bootstrap
<1>1. redeems[g] \in Redemption /\ g \in Nat \ {0}
  BY DEF TypeOK
<1> QED
  BY <1>1 DEF AuthRedeemed, Bootstrap, Redemption

\* An answer makes both copies out alike, or is stale and stays stale.
LEMMA StepHandoff ==
  TypeOK /\ HandInv /\ HandoffAgrees /\ [ExtNext]_extVars => HandoffAgrees'
<1> SUFFICES ASSUME TypeOK, HandInv, HandoffAgrees, [ExtNext]_extVars
             PROVE  HandoffAgrees'
  OBVIOUS
<1>1. \A g \in DOMAIN redeems : redeems'[g].epoch = redeems[g].epoch
  BY ExtStepImplements, RedeemsKept
<1>2. CASE handoff' = None
  BY <1>2 DEF HandoffAgrees, Current
<1>3. ASSUME NEW g \in DOMAIN redeems, NEW url \in Origins,
             NEW fallback \in Origins \cup {None}, RedeemedArrives(g, url, fallback)
      PROVE  HandoffAgrees'
  <2>1. handoff'.gen = g /\ handoff'.url = url
    BY <1>3 DEF RedeemedArrives
  <2>2. CASE AuthRedeemed(g, url, fallback)
    <3>1. pending' = [id |-> redeems[g].id, gen |-> g, url |-> url, fallback |-> fallback]
      BY <2>2 DEF AuthRedeemed
    <3>2. pending' # None
      BY <2>2, <3>1, BootstrapAssumption, RedeemedMakesBootstrap
    <3> QED
      BY <2>1, <3>1, <3>2 DEF HandoffAgrees, Current
  <2>3. CASE StaleAnswer(g)
    BY <1>1, <2>1, <2>3 DEF HandoffAgrees, Current, StaleAnswer, SameEpoch, authVars
  <2> QED
    BY <1>3, <2>2, <2>3 DEF RedeemedArrives
<1>4. CASE CopiesKept
  BY <1>1, <1>4 DEF CopiesKept, HandoffAgrees, Current, HandInv
<1> QED
  BY <1>2, <1>3, <1>4, CopiesStepped DEF CopiesStep

\* The handoff of a redemption that no sign-out has overtaken is the
\* controller's pending bootstrap, for any number of overlapping sign-ins.
THEOREM HandoffsAgree == ExtSpec => []HandoffAgrees
<1>1. ExtInit => HandoffAgrees
  BY DEF ExtInit, HandoffAgrees, Current
<1> QED
  BY <1>1, ExtInvariant, StepHandoff, PTL DEF ExtSpec
=============================================================================
