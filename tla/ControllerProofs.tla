-------------------------- MODULE ControllerProofs --------------------------
(***************************************************************************)
(* Theorems about Controller: the promises of the protocol controller for  *)
(* any number of requests, proofs, redemptions, clears and setups.         *)
(***************************************************************************)
EXTENDS Controller, FiniteSetTheorems, WellFoundedInduction, SequenceTheorems,
        TLAPS

(***************************************************************************)
(* Arithmetic and sequences.                                               *)
(***************************************************************************)

Below == {ss \in Nat \X Nat : ss[1] < ss[2]}

\* The order of the natural numbers has no infinite descent.
LEMMA BelowWellFounded == IsWellFoundedOn(Below, Nat)
  BY NatLessThanWellFounded DEF OpToRel, Below

\* A nonempty set of naturals has a least element.
LEMMA LeastElement ==
  ASSUME NEW T, T \subseteq Nat, T # {}
  PROVE  \E x \in T : \A y \in T : x <= y
<1>1. \E x \in T : \A y \in T : ~ (<<y, x>> \in Below)
  BY BelowWellFounded, WFMin, Zenon
<1>2. \A x, y \in Nat : x < y => <<x, y>> \in Below
  BY DEF Below
<1>3. PICK x \in T : \A y \in T : ~ (<<y, x>> \in Below)
  BY <1>1
<1>4. ASSUME NEW y \in T
      PROVE  x <= y
  <2>1. x \in Nat /\ y \in Nat /\ ~ (<<y, x>> \in Below)
    BY <1>3
  <2>2. ~ (y < x)
    BY <2>1, <1>2
  <2> QED
    BY <2>1, <2>2
<1> QED
  BY <1>4

\* A nonempty set of positions of a sequence has a last one.
LEMMA LastPosition ==
  ASSUME NEW n \in Nat, NEW S, S \subseteq 1 .. n, S # {}
  PROVE  \E m \in S : \A k \in S : k <= m
<1> DEFINE D == {n - k : k \in S}
<1>1. D \subseteq Nat
  OBVIOUS
<1>2. D # {}
  OBVIOUS
<1>3. PICK d \in D : \A e \in D : d <= e
  <2> HIDE DEF D
  <2> QED
    BY <1>1, <1>2, LeastElement
<1>4. PICK m \in S : d = n - m
  OBVIOUS
<1>5. ASSUME NEW k \in S
      PROVE  k <= m
  <2>1. n - m <= n - k
    BY <1>3, <1>4
  <2> QED
    BY <2>1
<1> QED
  BY <1>5

(***************************************************************************)
(* Type correctness.                                                       *)
(***************************************************************************)

\* The part of TypeOK that says what handlers post.
OutType == /\ posted \in Seq(Event)
           /\ told \in [Ids -> EventKinds \cup {"nothing"}]

\* Posting well-formed events keeps both outputs well-typed.
LEMMA PostType ==
  ASSUME told \in [Ids -> EventKinds \cup {"nothing"}],
         NEW events \in Seq(Event), Post(events)
  PROVE  OutType'
<1>1. posted' \in Seq(Event)
  BY DEF Post
<1>2. ASSUME NEW id \in Ids
      PROVE  LastKind(events, id) \in EventKinds \cup {"nothing"}
  <2> DEFINE mine == {n \in DOMAIN events : events[n].id = id}
  <2>1. CASE mine = {}
    BY <2>1 DEF LastKind
  <2>2. CASE mine # {}
    <3>1. Len(events) \in Nat /\ DOMAIN events = 1 .. Len(events)
          /\ \A n \in DOMAIN events : events[n] \in Event
      BY LenProperties
    <3>2. mine \subseteq 1 .. Len(events)
      BY <3>1
    <3>3. \E n \in mine : \A m \in mine : m <= n
      BY <2>2, <3>1, <3>2, LastPosition
    <3> DEFINE last == CHOOSE n \in mine : \A m \in mine : m <= n
    <3>4. last \in mine
      BY <3>3
    <3>5. events[last] \in Event
      BY <3>1, <3>4
    <3>6. LastKind(events, id) = events[last].kind
      BY <2>2 DEF LastKind
    <3> QED
      BY <3>5, <3>6 DEF Event
  <2> QED
    BY <2>1, <2>2
<1> QED
  BY <1>1, <1>2 DEF Post, OutType

\* A handler posts nothing, one event, or what a play replaced and then two.
LEMMA PostedTypes ==
  /\ <<>> \in Seq(Event)
  /\ \A id \in Ids \cup OtherIds, kind \in EventKinds : <<Ev(id, kind)>> \in Seq(Event)
<1>1. \A id \in Ids \cup OtherIds, kind \in EventKinds : Ev(id, kind) \in Event
  BY DEF Ev, Event
<1> QED
  BY <1>1

\* The events of a play request are well-typed.
LEMMA PlayPostType ==
  ASSUME activeId \in PlayIds \cup {None}, NEW id \in PlayIds
  PROVE  Replaced(id) \o <<Ev(id, "accepted"), Ev(id, "resolving")>> \in Seq(Event)
<1>1. \A i \in PlayIds, kind \in EventKinds : Ev(i, kind) \in Event
  BY DEF Ev, Event, Ids
<1>2. {"accepted", "resolving", "canceled"} \subseteq EventKinds
  BY DEF EventKinds, TerminalEvents
<1>3. Replaced(id) \in Seq(Event)
  BY <1>1, <1>2 DEF Replaced
<1>4. <<Ev(id, "accepted"), Ev(id, "resolving")>> \in Seq(Event)
  BY <1>1, <1>2
<1> QED
  BY <1>3, <1>4, ConcatProperties

\* Proofs stay a function from auth ids to keys.
LEMMA ProofsType ==
  ASSUME NEW ps \in [AuthIds -> Nat], NEW id \in AuthIds
  PROVE  /\ MakeRoom(ps) \in [AuthIds -> Nat]
         /\ \A key \in Nat : Insert(ps, id, key) \in [AuthIds -> Nat]
         /\ Take(ps, id) \in [AuthIds -> Nat]
<1>1. MakeRoom(ps) \in [AuthIds -> Nat]
  BY DEF MakeRoom
<1> QED
  BY <1>1 DEF Insert, Take

\* Expiry leaves a map of proofs (PendingAuthProofs::expire).
LEMMA ExpireType ==
  ASSUME proofs \in [AuthIds -> Nat], NEW cut
  PROVE  Expire(proofs, cut) \in [AuthIds -> Nat]
  BY DEF Expire

\* A redemption's answer leaves a sequence of redemptions behind.
LEMMA AnsweredType ==
  ASSUME redeems \in Seq(Redemption), NEW g \in DOMAIN redeems, Answered(g)
  PROVE  redeems' \in Seq(Redemption)
<1>1. g \in 1 .. Len(redeems) /\ redeems[g] \in Redemption
  BY LenProperties
<1>2. [redeems[g] EXCEPT !.running = FALSE] \in Redemption
  BY <1>1 DEF Redemption
<1>3. redeems' = [redeems EXCEPT ![g] = [redeems[g] EXCEPT !.running = FALSE]]
  BY DEF Answered
<1> QED
  BY <1>1, <1>2, <1>3, ExceptSeq

\* The controller starts in a well-typed state (Controller::new).
LEMMA InitType == Init => TypeOK
  BY EmptySeq DEF Init, TypeOK, NoProofs, AppState, Presentation

\* The sign-in handlers keep every variable in its type.
LEMMA AuthStepType == TypeOK /\ AuthNext => TypeOK'
<1> SUFFICES ASSUME TypeOK, AuthNext
             PROVE  TypeOK'
  OBVIOUS
<1> USE DEF TypeOK, OutType
<1>1. ASSUME NEW id \in AuthIds, AuthChallenge(id)
      PROVE  TypeOK'
  <2>1. PICK cut \in 0 .. nextKey - 1 : proofs' = Insert(Expire(proofs, cut), id, nextKey)
    BY <1>1 DEF AuthChallenge
  <2>2. Expire(proofs, cut) \in [AuthIds -> Nat]
    BY ExpireType
  <2>3. proofs' \in [AuthIds -> Nat]
    BY <2>1, <2>2, ProofsType
  <2>4. <<Ev(id, "auth-challenge")>> \in Seq(Event)
    BY PostedTypes DEF EventKinds, Ids
  <2>5. OutType'
    BY <1>1, <2>4, PostType DEF AuthChallenge
  <2> QED
    BY <1>1, <2>3, <2>5
       DEF AuthChallenge, setupVars, viewVars, pageVars, AppState
<1>2. ASSUME NEW id \in AuthIds, NEW cut \in Cuts, BeginAuthComplete(id, cut)
      PROVE  TypeOK'
  <2>1. cut \in Nat /\ proofs[id] \in Nat \ {0}
    BY <1>2 DEF Cuts, BeginAuthComplete
  <2>2. proofs' \in [AuthIds -> Nat]
    BY <1>2, <2>1, ExpireType, ProofsType DEF BeginAuthComplete
  <2>3. [id |-> id, epoch |-> authEpoch, key |-> proofs[id], running |-> TRUE] \in Redemption
    BY <2>1 DEF Redemption
  <2>4. redeems' \in Seq(Redemption)
    BY <1>2, <2>3, AppendProperties DEF BeginAuthComplete
  <2> QED
    BY <1>2, <2>2, <2>4, PostedTypes, PostType
       DEF BeginAuthComplete, setupVars, viewVars, pageVars
<1>3. ASSUME NEW id \in AuthIds, NEW cut \in Cuts, RefuseAuthComplete(id, cut)
      PROVE  TypeOK'
  <2>1. proofs' \in [AuthIds -> Nat]
    BY <1>3, ExpireType DEF RefuseAuthComplete
  <2>2. <<Ev(id, "error")>> \in Seq(Event)
    BY PostedTypes DEF EventKinds, TerminalEvents, Ids
  <2> QED
    BY <1>3, <2>1, <2>2, PostType
       DEF RefuseAuthComplete, setupVars, viewVars, pageVars, AppState
<1>4. ASSUME NEW g \in DOMAIN redeems, NEW url \in Origins,
             NEW fallback \in Origins \cup {None}, AuthRedeemed(g, url, fallback)
      PROVE  TypeOK'
  <2>1. redeems' \in Seq(Redemption)
    BY <1>4, AnsweredType DEF AuthRedeemed
  <2>2. g \in Nat \ {0} /\ redeems[g] \in Redemption
    BY LenProperties
  <2>3. pending' \in Bootstrap
    BY <1>4, <2>2 DEF AuthRedeemed, Bootstrap, Redemption
  <2> QED
    BY <1>4, <2>1, <2>2, <2>3, PostedTypes, PostType
       DEF AuthRedeemed, setupVars, viewVars, AppState
<1>5. ASSUME NEW g \in DOMAIN redeems, AuthFailed(g)
      PROVE  TypeOK'
  <2>1. redeems' \in Seq(Redemption)
    BY <1>5, AnsweredType DEF AuthFailed
  <2>2. redeems[g] \in Redemption
    BY LenProperties
  <2>3. <<Ev(redeems[g].id, "error")>> \in Seq(Event)
    BY <2>2, PostedTypes DEF EventKinds, TerminalEvents, Ids, Redemption
  <2> QED
    BY <1>5, <2>1, <2>3, PostType DEF AuthFailed, setupVars, viewVars, pageVars, AppState
<1>6. ASSUME NEW g \in DOMAIN redeems, StaleAnswer(g)
      PROVE  TypeOK'
  <2>1. redeems' \in Seq(Redemption)
    BY <1>6, AnsweredType DEF StaleAnswer
  <2> QED
    BY <1>6, <2>1, PostedTypes, PostType DEF StaleAnswer, setupVars, viewVars, pageVars
<1>7. ASSUME NEW gen \in Generations, BootstrapReady(gen)
      PROVE  TypeOK'
  <2>1. gen \in Nat /\ pending \in Bootstrap
    BY <1>7, BoundAssumption DEF BootstrapReady, Generations
  <2>2. \A kind \in {"ready", "error"} : <<Ev(pending.id, kind)>> \in Seq(Event)
    BY <2>1, PostedTypes DEF EventKinds, TerminalEvents, Ids, Bootstrap
  <2>3. CASE Matches(gen)
    BY <1>7, <2>1, <2>2, <2>3, PostType
       DEF BootstrapReady, authVars, setupVars, viewVars, AppState
  <2>4. CASE ~ Matches(gen)
    BY <1>7, <2>1, <2>2, <2>4, PostType
       DEF BootstrapReady, authVars, setupVars, viewVars, AppState
  <2> QED
    BY <2>3, <2>4
<1>8. ASSUME NEW id \in FailureIds, TryFallback(id)
      PROVE  TypeOK'
  <2>1. pending \in Bootstrap /\ pending.fallback \in Origins
    BY <1>8 DEF TryFallback, HasFallback, Bootstrap
  <2>2. pending' \in Bootstrap /\ expected' \in Nat /\ target' \in Origins
    BY <1>8, <2>1 DEF TryFallback, Bootstrap
  <2> QED
    BY <1>8, <2>2, PostedTypes, PostType
       DEF TryFallback, authVars, setupVars, viewVars
<1>9. ASSUME NEW id \in FailureIds, BootstrapFailed(id)
      PROVE  TypeOK'
  <2>1. <<Ev(id, "error")>> \in Seq(Event)
    BY PostedTypes DEF FailureIds, EventKinds, TerminalEvents, Ids, OtherIds
  <2> QED
    BY <1>9, <2>1, PostType
       DEF BootstrapFailed, authVars, setupVars, viewVars, AppState
<1>10. ASSUME SessionClear
       PROVE  TypeOK'
  <2>1. <<Ev("clear", "stopped")>> \in Seq(Event)
    BY PostedTypes DEF EventKinds, OtherIds
  <2>2. OutType'
    BY <1>10, <2>1, PostType DEF SessionClear
  <2>3. authEpoch' \in Nat
    BY <1>10 DEF SessionClear
  <2> QED
    BY <1>10, <2>2, <2>3
       DEF SessionClear, setupVars, AppState, Presentation, NoProofs, OutType
<1> QED
  BY <1>1, <1>2, <1>3, <1>4, <1>5, <1>6, <1>7, <1>8, <1>9, <1>10 DEF AuthNext

\* So do the handlers of plays and of the native player's events ...
LEMMA PlayStepType == TypeOK /\ PlayNext => TypeOK'
<1> SUFFICES ASSUME TypeOK, PlayNext
             PROVE  TypeOK'
  OBVIOUS
<1> USE DEF TypeOK, OutType
<1>1. ASSUME NEW id \in PlayIds, RefusePlay(id)
      PROVE  TypeOK'
  <2>1. <<Ev(id, "error")>> \in Seq(Event)
    BY PostedTypes DEF EventKinds, TerminalEvents, Ids
  <2> QED
    BY <1>1, <2>1, PostType DEF RefusePlay, authVars, setupVars, viewVars, pageVars
<1>2. ASSUME NEW id \in PlayIds, PlayItem(id)
      PROVE  TypeOK'
  BY <1>2, PlayPostType, PostType
     DEF PlayItem, authVars, setupVars, pageVars, AppState, Presentation
<1>3. ASSUME PlaybackStarted
      PROVE  TypeOK'
  <2>1. (IF activeId = None THEN <<>> ELSE <<Ev(activeId, "playing")>>) \in Seq(Event)
    BY PostedTypes DEF EventKinds, Ids
  <2> QED
    BY <1>3, <2>1, PostType
       DEF PlaybackStarted, authVars, setupVars, pageVars, AppState, Presentation
<1>4. ASSUME NEW kind \in TerminalEvents, EndPlayback(kind)
      PROVE  TypeOK'
  <2>1. (IF activeId = None THEN <<>> ELSE <<Ev(activeId, kind)>>) \in Seq(Event)
    BY PostedTypes DEF EventKinds, Ids
  <2> QED
    BY <1>4, <2>1, PostType
       DEF EndPlayback, authVars, setupVars, pageVars, AppState, Presentation
<1> QED
  BY <1>1, <1>2, <1>3, <1>4 DEF PlayNext

\* ... those of the setup page ...
LEMMA SetupStepType == TypeOK /\ SetupNext => TypeOK'
<1> SUFFICES ASSUME TypeOK, SetupNext
             PROVE  TypeOK'
  OBVIOUS
<1> USE DEF TypeOK, OutType
<1>1. ASSUME NEW id \in SetupIds, StartSetupCheck(id)
      PROVE  TypeOK'
  <2>1. checks' \in SUBSET Check
    BY <1>1 DEF StartSetupCheck, Check
  <2> QED
    BY <1>1, <2>1, PostedTypes, PostType DEF StartSetupCheck, authVars, viewVars, pageVars
<1>2. ASSUME NEW id \in SetupIds, RefuseSetup(id)
      PROVE  TypeOK'
  <2>1. <<Ev(id, "error")>> \in Seq(Event)
    BY PostedTypes DEF EventKinds, TerminalEvents, Ids
  <2> QED
    BY <1>2, <2>1, PostType DEF RefuseSetup, authVars, setupVars, viewVars, pageVars
<1>3. ASSUME NEW c \in checks, NEW kind \in {"connectivity-success", "error"},
             SetupCheckResult(c, kind)
      PROVE  TypeOK'
  <2>0. c \in Check
    BY <1>3
  <2>1. c.id \in Ids
    BY <2>0 DEF Check, Ids
  <2>2. (IF CheckIsCurrent(c) THEN <<Ev(c.id, kind)>> ELSE <<>>) \in Seq(Event)
    BY <2>1, PostedTypes DEF EventKinds, TerminalEvents
  <2> QED
    BY <1>3, <2>2, PostType DEF SetupCheckResult, authVars, viewVars, pageVars
<1>4. RunningChecks \subseteq SetupIds
  BY DEF RunningChecks, Check
<1>5. ASSUME NEW id \in SetupIds, NEW navigated \in BOOLEAN, SetupSave(id, navigated)
      PROVE  TypeOK'
  <2>1. \A kind \in {"save-config-success", "error"} : <<Ev(id, kind)>> \in Seq(Event)
    BY PostedTypes DEF EventKinds, TerminalEvents, Ids
  <2>2. OutType'
    BY <1>5, <2>1, PostType DEF SetupSave
  <2>3. setupGen' \in Nat /\ overtaken' \in SUBSET SetupIds /\ state' \in AppState \ {"Restoring"}
    BY <1>4, <1>5 DEF SetupSave, AppState
  <2> QED
    BY <1>5, <2>2, <2>3 DEF SetupSave, authVars, viewVars, pageVars, OutType
<1>6. ASSUME EnterSetup
      PROVE  TypeOK'
  <2>1. setupGen' \in Nat /\ overtaken' \in SUBSET SetupIds /\ state' \in AppState \ {"Restoring"}
    BY <1>4, <1>6 DEF EnterSetup, AppState
  <2>2. OutType'
    BY <1>6, PostedTypes, PostType DEF EnterSetup
  <2> QED
    BY <1>6, <2>1, <2>2 DEF EnterSetup, authVars, OutType
<1>7. ASSUME NEW c \in [id : SetupIds, gen : 0 .. MaxGeneration],
             NEW kind \in {"connectivity-success", "error"}, SetupCheckResult(c, kind)
      PROVE  TypeOK'
  <2>1. c \in checks
    BY <1>7 DEF SetupCheckResult
  <2> QED
    BY <1>3, <1>7, <2>1
<1> QED
  BY <1>1, <1>2, <1>5, <1>6, <1>7 DEF SetupNext

\* ... and the two ways of shutting down.
LEMMA QuitStepType == TypeOK /\ (AppQuit \/ Shutdown) => TypeOK'
<1> SUFFICES ASSUME TypeOK, AppQuit \/ Shutdown
             PROVE  TypeOK'
  OBVIOUS
<1> USE DEF TypeOK, OutType
<1>1. CASE AppQuit
  BY <1>1, PostedTypes, PostType
     DEF AppQuit, authVars, setupVars, viewVars, pageVars, AppState
<1>2. CASE Shutdown
  BY <1>2, PostedTypes, PostType DEF Shutdown, setupVars, AppState, NoProofs
<1> QED
  BY <1>1, <1>2

\* Together: whatever handler runs, or none, the types are kept.
LEMMA StepType == TypeOK /\ [Next]_vars => TypeOK'
<1>1. TypeOK /\ UNCHANGED vars => TypeOK'
  BY DEF TypeOK, vars, authVars, setupVars, viewVars, pageVars, outVars
<1> QED
  BY <1>1, AuthStepType, PlayStepType, SetupStepType, QuitStepType DEF Next

\* Every variable keeps its type whatever the adapter calls; in particular the
\* state is never left at Restoring, which end_playback only passes through.
THEOREM TypeCorrect == Spec => []TypeOK
  BY InitType, StepType, PTL DEF Spec

(***************************************************************************)
(* The pending proofs.                                                     *)
(***************************************************************************)

\* The ids that hold a proof are finitely many, and fewer when proofs expire.
LEMMA HeldFinite ==
  ASSUME NEW ps
  PROVE  IsFiniteSet(Held(ps)) /\ Cardinality(Held(ps)) \in Nat
<1>1. Held(ps) \subseteq AuthIds
  BY DEF Held
<1> QED
  BY <1>1, IdsAssumption, FS_Subset, FS_CardinalityType

\* A map that holds some of the proofs of another holds no more of them.
LEMMA FewerHeld ==
  ASSUME NEW ps, NEW qs, Held(qs) \subseteq Held(ps)
  PROVE  Cardinality(Held(qs)) <= Cardinality(Held(ps))
  BY HeldFinite, FS_Subset

\* Among held proofs there is an oldest one.
LEMMA OldestHeld ==
  ASSUME NEW ps \in [AuthIds -> Nat], Held(ps) # {}
  PROVE  Oldest(ps) \in Held(ps)
<1> DEFINE keys == {ps[id] : id \in Held(ps)}
<1>1. keys \subseteq Nat /\ keys # {}
  BY DEF Held
<1>2. \E k \in keys : \A l \in keys : k <= l
  <2> HIDE DEF keys
  <2> QED
    BY <1>1, LeastElement
<1>3. \E id \in Held(ps) : \A other \in Held(ps) : ps[id] <= ps[other]
  BY <1>2
<1> QED
  BY <1>3 DEF Oldest

\* After MakeRoom there is room for one more.
LEMMA RoomMade ==
  ASSUME NEW ps \in [AuthIds -> Nat], Cardinality(Held(ps)) <= MaxPending
  PROVE  Cardinality(Held(MakeRoom(ps))) < MaxPending
<1>1. Cardinality(Held(ps)) \in Nat /\ MaxPending \in Nat /\ MaxPending > 0
  BY HeldFinite, MaxPendingAssumption
<1>2. CASE Cardinality(Held(ps)) >= MaxPending
  <2>1. Held(ps) # {}
    BY <1>1, <1>2, FS_EmptySet
  <2>2. Oldest(ps) \in Held(ps)
    BY <2>1, OldestHeld
  <2>3. Held(MakeRoom(ps)) = Held(ps) \ {Oldest(ps)}
    BY <1>2, <2>2 DEF MakeRoom, Held
  <2>4. Cardinality(Held(ps) \ {Oldest(ps)}) = Cardinality(Held(ps)) - 1
    BY <2>2, HeldFinite, FS_RemoveElement
  <2> QED
    BY <1>1, <2>3, <2>4
<1>3. CASE ~ (Cardinality(Held(ps)) >= MaxPending)
  <2>1. MakeRoom(ps) = ps
    BY <1>3 DEF MakeRoom
  <2> QED
    BY <1>1, <1>3, <2>1
<1> QED
  BY <1>2, <1>3

\* Inserting a proof keeps the map within its limit.
LEMMA InsertBounded ==
  ASSUME NEW ps \in [AuthIds -> Nat], NEW id \in AuthIds, NEW key \in Nat,
         Cardinality(Held(ps)) <= MaxPending
  PROVE  Cardinality(Held(Insert(ps, id, key))) <= MaxPending
<1> DEFINE room == Held(MakeRoom(ps))
<1>1. Cardinality(room) < MaxPending
  BY RoomMade
<1>2. Held(Insert(ps, id, key)) \subseteq room \cup {id}
  BY DEF Held, Insert, MakeRoom
<1>3. IsFiniteSet(room) /\ Cardinality(room) \in Nat
  BY HeldFinite
<1> HIDE DEF room
<1>4. /\ IsFiniteSet(room \cup {id})
      /\ Cardinality(room \cup {id}) <= Cardinality(room) + 1
  BY <1>3, FS_AddElement
<1>5. Cardinality(Held(Insert(ps, id, key))) <= Cardinality(room \cup {id})
  BY <1>2, <1>4, FS_Subset
<1>6. /\ Cardinality(room \cup {id}) \in Nat
      /\ Cardinality(Held(Insert(ps, id, key))) \in Nat
  BY <1>4, HeldFinite, FS_CardinalityType
<1> QED
  BY <1>1, <1>3, <1>4, <1>5, <1>6, MaxPendingAssumption

(***************************************************************************)
(* The four things a step can do to proofs, keys and redemptions.          *)
(***************************************************************************)
Minted(id, cut) ==
  /\ proofs' = Insert(Expire(proofs, cut), id, nextKey)
  /\ nextKey' = nextKey + 1
  /\ redeems' = redeems

Started(id, cut) ==
  /\ proofs[id] > cut
  /\ proofs' = Take(Expire(proofs, cut), id)
  /\ nextKey' = nextKey
  /\ redeems' = Append(redeems, [id |-> id, epoch |-> authEpoch,
                                 key |-> proofs[id], running |-> TRUE])

Ended(g) ==
  /\ redeems' = [redeems EXCEPT ![g].running = FALSE]
  /\ proofs' = proofs
  /\ nextKey' = nextKey

Forgot(cut) ==
  /\ proofs' \in {proofs, NoProofs, Expire(proofs, cut)}
  /\ nextKey' = nextKey
  /\ redeems' = redeems

AuthStep ==
  \/ \E id \in AuthIds, cut \in Nat : Minted(id, cut) \/ Started(id, cut)
  \/ \E g \in DOMAIN redeems : Ended(g)
  \/ \E cut \in Nat : Forgot(cut)

\* No handler does more to the proofs and the redemptions than AuthStep says.
LEMMA AuthStepped == TypeOK /\ [Next]_vars => AuthStep
<1> SUFFICES ASSUME TypeOK, [Next]_vars
             PROVE  AuthStep
  OBVIOUS
<1>1. Cuts \subseteq Nat /\ 0 \in Nat
  BY DEF Cuts, TypeOK
<1>2. CASE AuthNext
  BY <1>1, <1>2
     DEF AuthNext, AuthChallenge, BeginAuthComplete, RefuseAuthComplete, AuthRedeemed,
         AuthFailed, StaleAnswer, BootstrapReady, TryFallback, BootstrapFailed,
         SessionClear, Answered, AuthStep, Minted, Started, Ended, Forgot, authVars, Cuts
<1>3. CASE PlayNext
  BY <1>1, <1>3 DEF PlayNext, RefusePlay, PlayItem, PlaybackStarted, EndPlayback, AuthStep,
                    Forgot, authVars
<1>4. CASE SetupNext
  BY <1>1, <1>4 DEF SetupNext, StartSetupCheck, RefuseSetup, SetupCheckResult, SetupSave,
                    EnterSetup, AuthStep, Forgot, authVars
<1>5. CASE AppQuit \/ Shutdown \/ UNCHANGED vars
  BY <1>1, <1>5 DEF AppQuit, Shutdown, AuthStep, Forgot, vars, authVars
<1> QED
  BY <1>2, <1>3, <1>4, <1>5 DEF Next

\* Every step keeps the number of pending proofs within the bound.
LEMMA StepBounded == TypeOK /\ ProofsBounded /\ [Next]_vars => ProofsBounded'
<1> SUFFICES ASSUME TypeOK, ProofsBounded, AuthStep
             PROVE  Cardinality(Held(proofs')) <= MaxPending
  BY AuthStepped DEF ProofsBounded, Held
<1>1. proofs \in [AuthIds -> Nat] /\ Cardinality(Held(proofs)) <= MaxPending
  BY DEF TypeOK, ProofsBounded
<1>2. Cardinality(Held(proofs)) \in Nat /\ Cardinality(Held(proofs')) \in Nat
  BY HeldFinite
<1>3. CASE Held(proofs') \subseteq Held(proofs)
  BY <1>1, <1>2, <1>3, FewerHeld, MaxPendingAssumption
<1>4. CASE \E id \in AuthIds, cut \in Nat :
             proofs' = Insert(Expire(proofs, cut), id, nextKey)
  <2>1. PICK id \in AuthIds, cut \in Nat :
          proofs' = Insert(Expire(proofs, cut), id, nextKey)
    BY <1>4
  <2>2. Expire(proofs, cut) \in [AuthIds -> Nat]
    BY <1>1, ExpireType
  <2>3. Held(Expire(proofs, cut)) \subseteq Held(proofs)
    BY <1>1 DEF Held, Expire
  <2>4. Cardinality(Held(Expire(proofs, cut))) <= MaxPending
    BY <1>1, <1>2, <2>3, FewerHeld, HeldFinite, MaxPendingAssumption
  <2> QED
    BY <2>1, <2>2, <2>4, InsertBounded DEF TypeOK
<1> QED
  BY <1>1, <1>3, <1>4 DEF AuthStep, Minted, Started, Ended, Forgot, Held, Expire, Take,
                         NoProofs

\* The map of pending proofs never grows past MAX_PENDING_AUTH_PROOFS.
THEOREM ProofsStayBounded == Spec => []ProofsBounded
<1>1. Init => ProofsBounded
  <2> SUFFICES ASSUME Init
               PROVE  Cardinality(Held(proofs)) <= MaxPending
    BY DEF ProofsBounded
  <2>1. Held(proofs) = {}
    BY DEF Init, Held, NoProofs
  <2> QED
    BY <2>1, FS_EmptySet, MaxPendingAssumption
<1> QED
  BY <1>1, StepBounded, TypeCorrect, PTL DEF Spec

(***************************************************************************)
(* Redemptions and verifiers.                                              *)
(***************************************************************************)

\* A redemption keeps its request, epoch and verifier for ever.
LEMMA RedeemsKept ==
  ASSUME TypeOK, [Next]_vars, NEW g \in DOMAIN redeems
  PROVE  /\ g \in DOMAIN redeems'
         /\ redeems'[g].id = redeems[g].id
         /\ redeems'[g].epoch = redeems[g].epoch
         /\ redeems'[g].key = redeems[g].key
<1>1. /\ redeems \in Seq(Redemption) /\ Len(redeems) \in Nat
      /\ DOMAIN redeems = 1 .. Len(redeems) /\ redeems[g] \in Redemption
  BY LenProperties DEF TypeOK
<1>2. ASSUME NEW id \in AuthIds, NEW cut \in Nat, Started(id, cut)
      PROVE  g \in DOMAIN redeems' /\ redeems'[g] = redeems[g]
  <2>1. [id |-> id, epoch |-> authEpoch, key |-> proofs[id], running |-> TRUE] \in Redemption
    BY <1>2 DEF Started, Redemption, TypeOK
  <2> QED
    BY <1>1, <1>2, <2>1, AppendProperties, LenProperties DEF Started
<1>3. ASSUME NEW h \in DOMAIN redeems, Ended(h)
      PROVE  /\ g \in DOMAIN redeems'
             /\ redeems'[g].id = redeems[g].id
             /\ redeems'[g].epoch = redeems[g].epoch
             /\ redeems'[g].key = redeems[g].key
  BY <1>1, <1>3 DEF Ended, Redemption
<1> QED
  BY <1>2, <1>3, AuthStepped DEF AuthStep, Minted, Forgot

\* Keys are handed out once: every key in use was minted, and no two proofs or
\* redemptions share one.  This makes VerifierUsedOnce inductive.
KeysOnce ==
  /\ \A id \in AuthIds : proofs[id] < nextKey
  /\ \A i, j \in AuthIds : proofs[i] # 0 /\ proofs[i] = proofs[j] => i = j
  /\ \A g \in DOMAIN redeems : redeems[g].key < nextKey
  /\ VerifierUsedOnce

\* Every step keeps each key in one place: the map or one redemption.
LEMMA StepKeys == TypeOK /\ KeysOnce /\ [Next]_vars => KeysOnce'
<1> SUFFICES ASSUME TypeOK, KeysOnce, AuthStep
             PROVE  KeysOnce'
  BY AuthStepped
<1>1. /\ proofs \in [AuthIds -> Nat] /\ nextKey \in Nat \ {0}
      /\ redeems \in Seq(Redemption) /\ Len(redeems) \in Nat
      /\ DOMAIN redeems = 1 .. Len(redeems)
      /\ \A g \in DOMAIN redeems : redeems[g] \in Redemption
  BY LenProperties DEF TypeOK
<1>2. ASSUME NEW id \in AuthIds, NEW cut \in Nat, Minted(id, cut)
      PROVE  KeysOnce'
  <2>1. Expire(proofs, cut) \in [AuthIds -> Nat]
    BY <1>1, ExpireType
  <2>2. /\ proofs'[id] = nextKey
        /\ \A i \in AuthIds \ {id} : proofs'[i] \in {0, proofs[i]}
    BY <1>1, <1>2, <2>1 DEF Minted, Insert, MakeRoom, Expire
  <2>3. redeems' = redeems /\ nextKey' = nextKey + 1
    BY <1>2 DEF Minted
  <2>4. \A i \in AuthIds : proofs'[i] < nextKey'
    BY <1>1, <2>2, <2>3 DEF KeysOnce
  <2>5. \A i \in AuthIds : i # id => proofs'[i] < nextKey
    BY <1>1, <2>2 DEF KeysOnce
  <2>6. \A i, j \in AuthIds : proofs'[i] # 0 /\ proofs'[i] = proofs'[j] => i = j
    <3> SUFFICES ASSUME NEW i \in AuthIds, NEW j \in AuthIds,
                        proofs'[i] # 0, proofs'[i] = proofs'[j]
                 PROVE  i = j
      OBVIOUS
    <3>1. CASE i = id \/ j = id
      BY <1>1, <2>2, <2>5, <3>1
    <3>2. CASE i # id /\ j # id
      BY <2>2, <3>2 DEF KeysOnce
    <3> QED
      BY <3>1, <3>2
  <2>7. \A g \in DOMAIN redeems : redeems[g].key < nextKey /\ redeems[g].key \in Nat \ {0}
    BY <1>1 DEF KeysOnce, Redemption
  <2>8. \A g \in DOMAIN redeems, i \in AuthIds : proofs'[i] # redeems[g].key
    BY <1>1, <2>2, <2>7 DEF KeysOnce, VerifierUsedOnce
  <2> QED
    BY <1>1, <2>3, <2>4, <2>6, <2>7, <2>8 DEF KeysOnce, VerifierUsedOnce
<1>3. ASSUME NEW id \in AuthIds, NEW cut \in Nat, Started(id, cut)
      PROVE  KeysOnce'
  <2> DEFINE new == [id |-> id, epoch |-> authEpoch, key |-> proofs[id], running |-> TRUE]
  <2>1. proofs[id] \in Nat \ {0} /\ new \in Redemption
    BY <1>1, <1>3 DEF Started, Redemption, TypeOK
  <2>2. /\ proofs'[id] = 0
        /\ \A i \in AuthIds \ {id} : proofs'[i] \in {0, proofs[i]}
    BY <1>1, <1>3 DEF Started, Take, Expire
  <2>3. /\ DOMAIN redeems' = 1 .. Len(redeems) + 1
        /\ \A g \in DOMAIN redeems : redeems'[g] = redeems[g]
        /\ redeems'[Len(redeems) + 1].key = proofs[id]
    BY <1>1, <1>3, <2>1, AppendProperties, LenProperties DEF Started
  <2>4. \A g \in DOMAIN redeems' :
          g \in DOMAIN redeems \/ g = Len(redeems) + 1
    BY <1>1, <2>3
  <2>5. nextKey' = nextKey
    BY <1>3 DEF Started
  <2>6. \A g \in DOMAIN redeems : redeems[g].key # proofs[id]
    BY <2>1 DEF KeysOnce, VerifierUsedOnce
  <2>7. \A g, h \in DOMAIN redeems' : redeems'[g].key = redeems'[h].key => g = h
    BY <2>3, <2>4, <2>6 DEF KeysOnce, VerifierUsedOnce
  <2>8. \A g \in DOMAIN redeems', i \in AuthIds : proofs'[i] # redeems'[g].key
    <3> SUFFICES ASSUME NEW g \in DOMAIN redeems', NEW i \in AuthIds
                 PROVE  proofs'[i] # redeems'[g].key
      OBVIOUS
    <3>1. CASE i = id
      BY <1>1, <2>1, <2>2, <2>3, <2>4, <3>1 DEF Redemption
    <3>2. CASE i # id /\ g \in DOMAIN redeems
      BY <1>1, <2>2, <2>3, <3>2 DEF KeysOnce, VerifierUsedOnce, Redemption
    <3>3. CASE i # id /\ g = Len(redeems) + 1
      BY <1>1, <2>1, <2>2, <2>3, <3>3 DEF KeysOnce
    <3> QED
      BY <2>4, <3>1, <3>2, <3>3
  <2>9. VerifierUsedOnce'
    BY <2>7, <2>8 DEF VerifierUsedOnce
  <2>10. \A i \in AuthIds : proofs'[i] < nextKey'
    BY <1>1, <2>2, <2>5 DEF KeysOnce
  <2>11. \A i, j \in AuthIds : proofs'[i] # 0 /\ proofs'[i] = proofs'[j] => i = j
    BY <2>2 DEF KeysOnce
  <2>12. \A g \in DOMAIN redeems' : redeems'[g].key < nextKey'
    BY <2>3, <2>4, <2>5 DEF KeysOnce
  <2> QED
    BY <2>9, <2>10, <2>11, <2>12 DEF KeysOnce
<1>4. ASSUME NEW g \in DOMAIN redeems, Ended(g)
      PROVE  KeysOnce'
  <2>1. /\ DOMAIN redeems' = DOMAIN redeems
        /\ \A h \in DOMAIN redeems : redeems'[h].key = redeems[h].key
    BY <1>1, <1>4 DEF Ended, Redemption
  <2> QED
    BY <1>4, <2>1 DEF Ended, KeysOnce, VerifierUsedOnce
<1>5. ASSUME NEW cut \in Nat, Forgot(cut)
      PROVE  KeysOnce'
  <2>1. \A i \in AuthIds : proofs'[i] \in {0, proofs[i]}
    BY <1>1, <1>5 DEF Forgot, Expire, NoProofs
  <2> QED
    BY <1>1, <1>5, <2>1 DEF Forgot, KeysOnce, VerifierUsedOnce, Redemption
<1> QED
  BY <1>2, <1>3, <1>4, <1>5 DEF AuthStep

\* No verifier is ever sent to the server by two redemptions, nor kept for a
\* third once a worker has it.
THEOREM VerifiersUsedOnce == Spec => []VerifierUsedOnce
<1>1. Init => KeysOnce
  BY DEF Init, KeysOnce, VerifierUsedOnce, NoProofs
<1>2. KeysOnce => VerifierUsedOnce
  BY DEF KeysOnce
<1> QED
  BY <1>1, <1>2, StepKeys, TypeCorrect, PTL DEF Spec

(***************************************************************************)
(* The session that Jellyfin Web is expected to adopt.                     *)
(***************************************************************************)

\* The inductive form: what is expected and what is pending were redeemed.
SessionInv ==
  /\ expected # None => expected \in DOMAIN redeems
  /\ pending # None => pending.gen \in DOMAIN redeems
  /\ SessionIsCurrent
  /\ PendingAgrees

\* Every step but a redemption, a fallback or a clear keeps or drops the two.
SessionKept ==
  /\ authEpoch' = authEpoch
  /\ target' = target
  /\ \/ expected' = expected /\ pending' \in {pending, None}
     \/ expected' = None /\ pending' = None

SessionStep ==
  \/ \E g \in DOMAIN redeems, url \in Origins, fallback \in Origins \cup {None} :
       AuthRedeemed(g, url, fallback)
  \/ \E id \in FailureIds : TryFallback(id)
  \/ SessionClear
  \/ SessionKept

\* No handler does more to the session than SessionStep says.
LEMMA SessionStepped == [Next]_vars => SessionStep
<1> SUFFICES ASSUME [Next]_vars
             PROVE  SessionStep
  OBVIOUS
<1>1. CASE AuthNext
  BY <1>1 DEF AuthNext, AuthChallenge, BeginAuthComplete, RefuseAuthComplete, AuthFailed,
              StaleAnswer, BootstrapReady, BootstrapFailed, SessionStep, SessionKept,
              authVars, pageVars
<1>2. CASE PlayNext
  BY <1>2 DEF PlayNext, RefusePlay, PlayItem, PlaybackStarted, EndPlayback, SessionStep,
              SessionKept, authVars, pageVars
<1>3. CASE SetupNext
  BY <1>3 DEF SetupNext, StartSetupCheck, RefuseSetup, SetupCheckResult, SetupSave,
              EnterSetup, SessionStep, SessionKept, authVars, pageVars
<1>4. CASE AppQuit \/ Shutdown \/ UNCHANGED vars
  BY <1>4 DEF AppQuit, Shutdown, SessionStep, SessionKept, vars, authVars, pageVars
<1> QED
  BY <1>1, <1>2, <1>3, <1>4 DEF Next

\* Every step keeps the pending and the expected session current and agreeing.
LEMMA StepSession == TypeOK /\ SessionInv /\ [Next]_vars => SessionInv'
<1> SUFFICES ASSUME TypeOK, SessionInv, [Next]_vars
             PROVE  SessionInv'
  OBVIOUS
<1>1. \A g \in DOMAIN redeems : /\ g \in DOMAIN redeems'
                                /\ redeems'[g].id = redeems[g].id
                                /\ redeems'[g].epoch = redeems[g].epoch
  BY RedeemsKept
<1>2. ASSUME NEW g \in DOMAIN redeems, NEW url \in Origins,
             NEW fallback \in Origins \cup {None}, AuthRedeemed(g, url, fallback)
      PROVE  SessionInv'
  <2>1. /\ expected' = g
        /\ pending' = [id |-> redeems[g].id, gen |-> g, url |-> url, fallback |-> fallback]
        /\ target' = url
        /\ authEpoch' = authEpoch
        /\ redeems[g].epoch = authEpoch
    BY <1>2 DEF AuthRedeemed, SameEpoch
  <2> QED
    BY <1>1, <2>1 DEF SessionInv, SessionIsCurrent, PendingAgrees
<1>3. ASSUME NEW id \in FailureIds, TryFallback(id)
      PROVE  SessionInv'
  <2>1. pending \in Bootstrap
    BY <1>3 DEF TryFallback, HasFallback, TypeOK
  <2>2. /\ pending'.id = pending.id /\ pending'.gen = pending.gen
        /\ pending'.url = pending.fallback
        /\ expected' = pending.gen /\ target' = pending.fallback
        /\ authEpoch' = authEpoch
    BY <1>3, <2>1 DEF TryFallback, Bootstrap, authVars
  <2>3. pending # None
    BY <1>3 DEF TryFallback, HasFallback
  <2> QED
    BY <1>1, <2>2, <2>3 DEF SessionInv, SessionIsCurrent, PendingAgrees
<1>4. ASSUME SessionClear
      PROVE  SessionInv'
  BY <1>4 DEF SessionClear, SessionInv, SessionIsCurrent, PendingAgrees
<1>5. ASSUME SessionKept
      PROVE  SessionInv'
  BY <1>1, <1>5 DEF SessionKept, SessionInv, SessionIsCurrent, PendingAgrees
<1> QED
  BY <1>2, <1>3, <1>4, <1>5, SessionStepped DEF SessionStep

\* SessionInv is inductive together with TypeOK.
LEMMA SessionAlways == Spec => []SessionInv
<1>1. Init => SessionInv
  BY DEF Init, SessionInv, SessionIsCurrent, PendingAgrees
<1> QED
  BY <1>1, StepSession, TypeCorrect, PTL DEF Spec

\* No session redeemed before a session.clear is waited for or delivered after
\* it, however late the redemption's answer comes.
THEOREM SessionsAreCurrent == Spec => []SessionIsCurrent
<1>1. SessionInv => SessionIsCurrent
  BY DEF SessionInv
<1> QED
  BY <1>1, SessionAlways, PTL

\* The expected session, the pending bootstrap and the page navigated to are
\* always those of one redemption.
THEOREM PendingAlwaysAgrees == Spec => []PendingAgrees
<1>1. SessionInv => PendingAgrees
  BY DEF SessionInv
<1> QED
  BY <1>1, SessionAlways, PTL

\* A request whose last event changes was sent that event by the step.
LEMMA ToldByPost ==
  ASSUME NEW events \in Seq(Event), Post(events), NEW id \in Ids, told'[id] # told[id]
  PROVE  \E n \in DOMAIN events : events[n].id = id /\ events[n].kind = told'[id]
<1> DEFINE mine == {n \in DOMAIN events : events[n].id = id}
<1>1. told'[id] = LastKind(events, id)
  BY DEF Post
<1>2. mine # {}
  BY <1>1 DEF LastKind
<1>3. Len(events) \in Nat /\ DOMAIN events = 1 .. Len(events)
  BY LenProperties
<1>4. \E n \in mine : \A m \in mine : m <= n
  BY <1>2, <1>3, LastPosition
<1> DEFINE last == CHOOSE n \in mine : \A m \in mine : m <= n
<1>5. last \in mine
  BY <1>4
<1>6. told'[id] = events[last].kind
  BY <1>1, <1>2 DEF LastKind
<1> QED
  BY <1>5, <1>6

\* Every handler posts: told is always brought up to date with posted.
LEMMA AlwaysPosts == Next => Post(posted')
<1> SUFFICES ASSUME Next
             PROVE  Post(posted')
  OBVIOUS
<1> USE DEF Post
<1>1. CASE AuthNext
  BY <1>1 DEF AuthNext, AuthChallenge, BeginAuthComplete, RefuseAuthComplete, AuthRedeemed,
              AuthFailed, StaleAnswer, BootstrapReady, TryFallback, BootstrapFailed,
              SessionClear
<1>2. CASE PlayNext
  BY <1>2 DEF PlayNext, RefusePlay, PlayItem, PlaybackStarted, EndPlayback
<1>3. CASE SetupNext
  BY <1>3 DEF SetupNext, StartSetupCheck, RefuseSetup, SetupCheckResult, SetupSave,
              EnterSetup
<1>4. CASE AppQuit \/ Shutdown
  BY <1>4 DEF AppQuit, Shutdown
<1> QED
  BY <1>1, <1>2, <1>3, <1>4 DEF Next

\* The events a handler posts, by their kinds: only BootstrapReady says "ready".
LEMMA ReadyPosted ==
  ASSUME TypeOK, Next, NEW n \in DOMAIN posted', posted'[n].kind = "ready"
  PROVE  \E gen \in Generations :
           BootstrapReady(gen) /\ Matches(gen) /\ posted'[n].id = pending.id
<1>0. /\ \A id, kind : posted' = <<[id |-> id, kind |-> kind]>> => kind = "ready"
      /\ posted' # <<>>
  OBVIOUS
<1> USE DEF Post, Ev
<1>1. CASE AuthNext
  <2>1. ASSUME NEW gen \in Generations, BootstrapReady(gen)
        PROVE  Matches(gen) /\ posted'[n].id = pending.id
    <3>1. CASE Matches(gen)
      BY <2>1, <3>1 DEF BootstrapReady
    <3>2. CASE ~ Matches(gen)
      BY <2>1, <3>2 DEF BootstrapReady
    <3> QED
      BY <3>1, <3>2
  <2>2. CASE \E gen \in Generations : BootstrapReady(gen)
    BY <2>1, <2>2
  <2>3. CASE \/ \E id \in AuthIds : AuthChallenge(id)
             \/ \E id \in AuthIds, cut \in Cuts : RefuseAuthComplete(id, cut)
             \/ \E g \in DOMAIN redeems : AuthFailed(g)
             \/ \E id \in FailureIds : BootstrapFailed(id)
             \/ SessionClear
    BY <1>0, <2>3, Zenon
       DEF AuthChallenge, RefuseAuthComplete, AuthFailed, BootstrapFailed, SessionClear
  <2>4. CASE posted' = <<>>
    BY <2>4
  <2>5. \/ \E id \in AuthIds, cut \in Cuts : BeginAuthComplete(id, cut)
        \/ \E g \in DOMAIN redeems, url \in Origins, fallback \in Origins \cup {None} :
             AuthRedeemed(g, url, fallback)
        \/ \E g \in DOMAIN redeems : StaleAnswer(g)
        \/ \E id \in FailureIds : TryFallback(id)
        => posted' = <<>>
    BY DEF BeginAuthComplete, AuthRedeemed, StaleAnswer, TryFallback
  <2> QED
    BY <1>1, <2>2, <2>3, <2>4, <2>5 DEF AuthNext
<1>2. CASE PlayNext
  <2>1. ASSUME NEW id \in PlayIds, RefusePlay(id)
        PROVE  FALSE
    BY <2>1 DEF RefusePlay
  <2>2. ASSUME NEW id \in PlayIds, PlayItem(id)
        PROVE  FALSE
    <3>1. posted' = Replaced(id) \o <<Ev(id, "accepted"), Ev(id, "resolving")>>
      BY <2>2 DEF PlayItem
    <3>2. CASE Replaced(id) = <<>>
      BY <3>1, <3>2
    <3>3. CASE Replaced(id) = <<Ev(activeId, "canceled")>>
      BY <3>1, <3>3
    <3> QED
      BY <3>2, <3>3 DEF Replaced
  <2>3. ASSUME PlaybackStarted
        PROVE  FALSE
    BY <2>3 DEF PlaybackStarted
  <2>4. ASSUME NEW kind \in TerminalEvents, EndPlayback(kind)
        PROVE  FALSE
    BY <2>4 DEF EndPlayback, TerminalEvents
  <2> QED
    BY <1>2, <2>1, <2>2, <2>3, <2>4 DEF PlayNext
<1>3. CASE SetupNext
  <2>1. ASSUME NEW c \in [id : SetupIds, gen : 0 .. MaxGeneration],
               NEW kind \in {"connectivity-success", "error"}, SetupCheckResult(c, kind)
        PROVE  FALSE
    BY <2>1 DEF SetupCheckResult
  <2>2. ASSUME NEW id \in SetupIds, NEW navigated \in BOOLEAN, SetupSave(id, navigated)
        PROVE  FALSE
    BY <2>2 DEF SetupSave
  <2> QED
    BY <1>0, <1>3, <2>1, <2>2, Zenon DEF SetupNext, StartSetupCheck, RefuseSetup, EnterSetup
<1>4. CASE AppQuit \/ Shutdown
  BY <1>4 DEF AppQuit, Shutdown
<1> QED
  BY <1>1, <1>2, <1>3, <1>4 DEF Next

\* An authentication is reported "ready" only for the session it redeemed
\* itself, acknowledged by the page in the epoch it was redeemed in.
THEOREM ReadyIsForOwnSession == Spec => ReadyForOwnSession
<1>1. ASSUME TypeOK, TypeOK', SessionInv, [Next]_vars, NEW id \in AuthIds,
             told'[id] = "ready", told[id] # "ready"
      PROVE  redeems[acked'].id = id /\ redeems[acked'].epoch = authEpoch
  <2>1. told' # told
    BY <1>1
  <2>2. Next
    BY <1>1, <2>1 DEF vars, outVars
  <2>3. posted' \in Seq(Event) /\ Post(posted') /\ id \in Ids
    BY <1>1, <2>2, AlwaysPosts DEF TypeOK, Ids
  <2>4. PICK n \in DOMAIN posted' : posted'[n].id = id /\ posted'[n].kind = "ready"
    BY <1>1, <2>3, ToldByPost
  <2>5. PICK gen \in Generations :
          BootstrapReady(gen) /\ Matches(gen) /\ posted'[n].id = pending.id
    BY <1>1, <2>2, <2>4, ReadyPosted
  <2>6. pending # None /\ acked' = gen /\ expected = gen
    BY <2>5 DEF BootstrapReady, Matches
  <2>7. pending.gen = gen /\ redeems[gen].id = pending.id
    BY <1>1, <2>6 DEF SessionInv, PendingAgrees
  <2>8. redeems[gen].epoch = authEpoch
    BY <1>1, <2>6, <2>7 DEF SessionInv, SessionIsCurrent
  <2> QED
    BY <2>4, <2>5, <2>6, <2>7, <2>8
<1>2. TypeOK /\ TypeOK' /\ SessionInv /\ [Next]_vars =>
        [\A id \in AuthIds : told'[id] = "ready" /\ told[id] # "ready" =>
           redeems[acked'].id = id /\ redeems[acked'].epoch = authEpoch]_vars
  BY <1>1
<1> QED
  BY <1>2, TypeCorrect, SessionAlways, PTL DEF Spec, ReadyForOwnSession

(***************************************************************************)
(* Plays.                                                                  *)
(***************************************************************************)

\* An id that one posted event is for is told that event.
LEMMA ToldTheOnlyOne ==
  ASSUME NEW events \in Seq(Event), Post(events), NEW id \in Ids,
         NEW n \in DOMAIN events, events[n].id = id,
         \A m \in DOMAIN events : events[m].id = id => m = n
  PROVE  told'[id] = events[n].kind
<1> DEFINE mine == {m \in DOMAIN events : events[m].id = id}
<1>1. mine = {n} /\ n \in Nat
  BY LenProperties
<1>2. (CHOOSE k \in mine : \A m \in mine : m <= k) = n
  BY <1>1
<1>3. told'[id] = LastKind(events, id)
  BY DEF Post
<1> QED
  BY <1>1, <1>2, <1>3 DEF LastKind

\* A play that another one replaces is told it was canceled.
LEMMA ReplacedIsTold ==
  ASSUME TypeOK, NEW id \in PlayIds, PlayItem(id), activeId \notin {None, id}
  PROVE  told'[activeId] = "canceled"
<1> DEFINE first == Replaced(id)
           rest == <<Ev(id, "accepted"), Ev(id, "resolving")>>
           events == first \o rest
<1>1. /\ first \in Seq(Event) /\ Len(first) = 1
      /\ first[1].id = activeId /\ first[1].kind = "canceled"
  <2>1. first = <<Ev(activeId, "canceled")>>
    BY DEF Replaced
  <2>2. <<Ev(activeId, "canceled")>> \in Seq(Event)
    BY PostedTypes DEF TypeOK, Ids, EventKinds, TerminalEvents
  <2> QED
    BY <2>1, <2>2 DEF Ev
<1>2. /\ rest \in Seq(Event) /\ Len(rest) = 2
      /\ rest[1].id = id /\ rest[2].id = id
  <2>1. Ev(id, "accepted") \in Event /\ Ev(id, "resolving") \in Event
    BY DEF Ev, Event, Ids, EventKinds
  <2> QED
    BY <2>1 DEF Ev
<1>3. Post(events) /\ activeId \in Ids
  BY DEF PlayItem, TypeOK, Ids
<1> HIDE DEF first, rest
<1>4. /\ events \in Seq(Event) /\ Len(events) = 3
      /\ events[1] = first[1] /\ events[2] = rest[1] /\ events[3] = rest[2]
  BY <1>1, <1>2, ConcatProperties
<1> HIDE DEF events
<1>5. DOMAIN events = 1 .. 3
  BY <1>4, LenProperties
<1>6. \A m \in DOMAIN events : events[m].id = activeId => m = 1
  BY <1>2, <1>4, <1>5
<1> QED
  BY <1>1, <1>3, <1>4, <1>5, <1>6, ToldTheOnlyOne

\* A play that ends is told how.
LEMMA EndIsTold ==
  ASSUME TypeOK, NEW kind \in TerminalEvents, EndPlayback(kind), activeId # None
  PROVE  told'[activeId] = kind
<1> DEFINE events == <<Ev(activeId, kind)>>
<1>1. activeId \in Ids
  BY DEF TypeOK, Ids
<1>2. events \in Seq(Event) /\ Post(events)
  BY <1>1, PostedTypes DEF EndPlayback, EventKinds
<1>3. /\ DOMAIN events = {1}
      /\ events[1].id = activeId /\ events[1].kind = kind
  BY DEF Ev
<1> HIDE DEF events
<1> QED
  BY <1>1, <1>2, <1>3, ToldTheOnlyOne

\* The active play is never dropped in silence.
THEOREM NothingDropsSilently == Spec => NoSilentDrop
<1>1. ASSUME TypeOK, [Next]_vars, activeId # None, activeId' # activeId
      PROVE  \/ told'[activeId] \in TerminalEvents
             \/ authEpoch' # authEpoch \/ setupGen' # setupGen
             \/ state' = "ShuttingDown"
  <2>1. CASE AuthNext
    <3>1. SessionClear
      BY <1>1, <2>1
         DEF AuthNext, AuthChallenge, BeginAuthComplete, RefuseAuthComplete, AuthRedeemed,
             AuthFailed, StaleAnswer, BootstrapReady, TryFallback, BootstrapFailed, viewVars
    <3> QED
      BY <3>1 DEF SessionClear, TypeOK
  <2>2. CASE PlayNext
    <3>1. ASSUME NEW id \in PlayIds, PlayItem(id)
          PROVE  told'[activeId] \in TerminalEvents
      BY <1>1, <3>1, ReplacedIsTold DEF PlayItem, TerminalEvents
    <3>2. ASSUME NEW kind \in TerminalEvents, EndPlayback(kind)
          PROVE  told'[activeId] \in TerminalEvents
      BY <1>1, <3>2, EndIsTold
    <3> QED
      BY <1>1, <2>2, <3>1, <3>2 DEF PlayNext, RefusePlay, PlaybackStarted, viewVars
  <2>3. CASE SetupNext
    <3>1. EnterSetup
      BY <1>1, <2>3 DEF SetupNext, StartSetupCheck, RefuseSetup, SetupCheckResult, SetupSave,
                        viewVars
    <3> QED
      BY <1>1, <3>1 DEF EnterSetup, TypeOK
  <2>4. CASE AppQuit \/ Shutdown \/ UNCHANGED vars
    BY <1>1, <2>4 DEF AppQuit, Shutdown, vars, viewVars
  <2> QED
    BY <1>1, <2>1, <2>2, <2>3, <2>4 DEF Next
<1>2. TypeOK /\ [Next]_vars =>
        [activeId # None /\ activeId' # activeId =>
           \/ told'[activeId] \in TerminalEvents
           \/ authEpoch' # authEpoch \/ setupGen' # setupGen
           \/ state' = "ShuttingDown"]_vars
  BY <1>1
<1> QED
  BY <1>2, TypeCorrect, PTL DEF Spec, NoSilentDrop
=============================================================================
