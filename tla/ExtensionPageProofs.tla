------------------------- MODULE ExtensionPageProofs ------------------------
(***************************************************************************)
(* Theorems about Extension and the script in Jellyfin Web: the types of   *)
(* the composition, that the bootstrap the extension keeps is always under *)
(* way, and that the controller and the extension lose sight of one        *)
(* another for a cause only.                                               *)
(***************************************************************************)
EXTENDS ExtensionProofs

(***************************************************************************)
(* The script's types.  Page is an instance with an implicit substitution, *)
(* which the theorems of JellyfinPageProofs cannot be cited through, so    *)
(* what each step does to the types is proved of the instance; and with it *)
(* what becomes of a bootstrap: the script keeps it or answers it.         *)
(***************************************************************************)
AnswerIn(messages) ==
  \E n \in DOMAIN messages : messages[n].type \in {"session.ready", "session.failed"}

PageInv == Page!TypeOK /\ (boot # None => attempts < MaxAttempts)

\* A step with bootstrap b in hand takes no answer back, and answers b if it
\* does not keep it.
KeptOrAnswered(b) ==
  /\ AnswerIn(outbox) => AnswerIn(outbox')
  /\ boot' = b \/ AnswerIn(outbox')

PageGood(b) == PageInv' /\ KeptOrAnswered(b)

LEMMA PageConstants ==
  MaxAttempts \in Nat /\ 0 < MaxAttempts /\ None \notin 1 .. MaxRedeems /\ None \notin PlayIds
  BY ExtBoundAssumption, NoneAssumption, BoundAssumption

\* The messages the script posts.
LEMMA PageMessages ==
  /\ \A g \in 1 .. MaxRedeems :
       /\ Page!Ready(g) \in Page!Message /\ Page!Ready(g).type = "session.ready"
       /\ Page!Failed(g) \in Page!Message /\ Page!Failed(g).type = "session.failed"
  /\ \A item \in PlayIds :
       Page!Stopped(item) \in Page!Message /\ Page!Stopped(item).type = "playback.stopped"
  BY DEF Page!Ready, Page!Failed, Page!Stopped, Page!Message

\* What was posted stays, and what is posted is there.
LEMMA PostedMore ==
  ASSUME NEW old \in Seq(Page!Message), NEW m \in Page!Message
  PROVE  /\ old \o <<m>> \in Seq(Page!Message)
         /\ AnswerIn(old) => AnswerIn(old \o <<m>>)
         /\ m.type \in {"session.ready", "session.failed"} => AnswerIn(old \o <<m>>)
<1> DEFINE new == old \o <<m>>
<1>1. <<m>> \in Seq(Page!Message) /\ Len(<<m>>) = 1 /\ <<m>>[1] = m
  OBVIOUS
<1>2. /\ new \in Seq(Page!Message) /\ Len(new) = Len(old) + 1 /\ Len(old) \in Nat
      /\ new[Len(old) + 1] = m
      /\ \A n \in 1 .. Len(old) : new[n] = old[n]
  BY <1>1, ConcatProperties, LenProperties
<1>3. DOMAIN old = 1 .. Len(old) /\ DOMAIN new = 1 .. Len(old) + 1
  BY <1>2, LenProperties
<1> HIDE DEF new
<1>4. AnswerIn(old) => AnswerIn(new)
  BY <1>2, <1>3 DEF AnswerIn
<1>5. m.type \in {"session.ready", "session.failed"} => AnswerIn(new)
  BY <1>2, <1>3 DEF AnswerIn
<1> QED
  BY <1>2, <1>4, <1>5 DEF new

\* playItem posts what it was given to post, and perhaps that the play stopped.
LEMMA PageStarts ==
  ASSUME PageInv, NEW item \in PlayIds, NEW who, NEW messages \in Seq(Page!Message),
         Page!StartPlay(item, who, messages)
  PROVE  /\ playGen' \in Nat /\ plays' \in SUBSET Page!Play
         /\ outbox' \in Seq(Page!Message) /\ (AnswerIn(messages) => AnswerIn(outbox'))
<1>1. playGen \in Nat /\ plays \in SUBSET Page!Play
  BY DEF PageInv, Page!TypeOK
<1>2. CASE who = None \/ client \notin Page!Working
  <2>1. outbox' = messages \o <<Page!Stopped(item)>> /\ UNCHANGED <<playGen, plays>>
    BY <1>2 DEF Page!StartPlay
  <2> QED
    BY <1>1, <2>1, PageMessages, PostedMore
<1>3. CASE ~(who = None \/ client \notin Page!Working)
  <2>1. PICK guarded \in BOOLEAN :
           plays' = plays \cup {[id |-> item, gen |-> playGen + 1, guarded |-> guarded,
                                 stage |-> IF guarded THEN "item" ELSE "play"]}
    BY <1>3 DEF Page!StartPlay
  <2>2. playGen' = playGen + 1 /\ outbox' = messages
    BY <1>3 DEF Page!StartPlay
  <2>3. [id |-> item, gen |-> playGen + 1, guarded |-> guarded,
         stage |-> IF guarded THEN "item" ELSE "play"] \in Page!Play
    BY <1>1 DEF Page!Play
  <2> QED
    BY <1>1, <2>1, <2>2, <2>3
<1> QED
  BY <1>2, <1>3

\* acknowledge.
LEMMA PageAcknowledges ==
  ASSUME PageInv, NEW b \in 1 .. MaxRedeems, NEW wait \in PlayIds \cup {None},
         Page!Acknowledge(b, wait)
  PROVE  /\ boot' = None /\ waiting' = None /\ ticking' = FALSE
         /\ answered' \in SUBSET (1 .. MaxRedeems)
         /\ playGen' \in Nat /\ plays' \in SUBSET Page!Play
         /\ outbox' \in Seq(Page!Message) /\ AnswerIn(outbox')
<1>1. /\ boot' = None /\ waiting' = None /\ ticking' = FALSE
      /\ answered' \in SUBSET (1 .. MaxRedeems)
  BY DEF Page!Acknowledge, PageInv, Page!TypeOK
<1>2. playGen \in Nat /\ plays \in SUBSET Page!Play /\ outbox \in Seq(Page!Message)
  BY DEF PageInv, Page!TypeOK
<1> DEFINE acknowledged == outbox \o <<Page!Ready(b)>>
<1>3. acknowledged \in Seq(Page!Message) /\ AnswerIn(acknowledged)
  BY <1>2, PageMessages, PostedMore
<1>4. /\ wait = None => outbox' = acknowledged /\ UNCHANGED <<playGen, plays>>
      /\ wait # None => Page!StartPlay(wait, b, acknowledged)
  BY DEF Page!Acknowledge
<1> HIDE DEF acknowledged
<1>5. CASE wait = None
  BY <1>1, <1>2, <1>3, <1>4, <1>5
<1>6. CASE wait # None
  <2>1. wait \in PlayIds
    BY <1>6
  <2> QED
    BY <1>1, <1>3, <1>4, <1>6, <2>1, PageStarts
<1> QED
  BY <1>5, <1>6

\* applyBootstrap, however it returns.
LEMMA PageApplies ==
  ASSUME PageInv, NEW b \in 1 .. MaxRedeems \cup {None}, NEW tried \in 0 .. MaxAttempts,
         NEW wait \in PlayIds \cup {None}, b # None => tried < MaxAttempts,
         client' = client, asked' \in PlayIds \cup {None}, Page!Apply(b, tried, wait)
  PROVE  PageGood(b)
<1>1. Page!TypeOK /\ outbox \in Seq(Page!Message) /\ MaxAttempts \in Nat
  BY PageConstants DEF PageInv, Page!TypeOK
<1>2. CASE \/ Page!NothingToApply(b, tried, wait) \/ Page!NotYet(b, tried, wait)
           \/ Page!Validate(b, tried, wait) \/ Page!AdoptInVain(b, tried, wait)
  <2>1. /\ boot' = b /\ waiting' = wait /\ UNCHANGED <<ticking, playGen, plays, outbox, answered>>
        /\ attempts' \in 0 .. MaxAttempts /\ (b # None => attempts' < MaxAttempts)
    BY <1>1, <1>2 DEF Page!NothingToApply, Page!NotYet, Page!Validate, Page!AdoptInVain
  <2>2. /\ identity' \in 1 .. MaxRedeems \cup {None} /\ stored' \in 1 .. MaxRedeems \cup {None}
        /\ validating' \in 1 .. MaxRedeems \cup {None} /\ lookups' \in SUBSET (1 .. MaxRedeems)
    BY <1>1, <1>2 DEF Page!NothingToApply, Page!NotYet, Page!Validate, Page!AdoptInVain, Page!TypeOK
  <2>3. Page!TypeOK'
    BY <1>1, <2>1, <2>2 DEF Page!TypeOK
  <2> QED
    BY <2>1, <2>3 DEF PageGood, PageInv, KeptOrAnswered
<1>3. CASE Page!GiveUp(b, tried, wait)
  <2>1. /\ b \in 1 .. MaxRedeems /\ outbox' = outbox \o <<Page!Failed(b)>>
        /\ boot' = None /\ waiting' = wait /\ ticking' = FALSE
        /\ answered' = answered \cup {b} /\ attempts' \in 0 .. MaxAttempts
        /\ UNCHANGED <<identity, stored, validating, lookups, playGen, plays>>
    BY <1>1, <1>3 DEF Page!GiveUp
  <2>2. outbox' \in Seq(Page!Message) /\ AnswerIn(outbox')
    BY <1>1, <2>1, PageMessages, PostedMore
  <2>3. Page!TypeOK'
    BY <1>1, <2>1, <2>2 DEF Page!TypeOK
  <2> QED
    BY <2>1, <2>2, <2>3 DEF PageGood, PageInv, KeptOrAnswered
<1>4. CASE Page!AdoptLegacy(b, tried, wait)
  <2>1. /\ b \in 1 .. MaxRedeems /\ identity' = b /\ stored' = b /\ Page!Acknowledge(b, wait)
        /\ attempts' \in 0 .. MaxAttempts /\ UNCHANGED <<validating, lookups>>
    BY <1>1, <1>4 DEF Page!AdoptLegacy
  <2>2. /\ boot' = None /\ waiting' = None /\ ticking' = FALSE
        /\ answered' \in SUBSET (1 .. MaxRedeems)
        /\ playGen' \in Nat /\ plays' \in SUBSET Page!Play
        /\ outbox' \in Seq(Page!Message) /\ AnswerIn(outbox')
    BY <2>1, PageAcknowledges
  <2>3. Page!TypeOK'
    BY <1>1, <2>1, <2>2 DEF Page!TypeOK
  <2> QED
    BY <2>2, <2>3 DEF PageGood, PageInv, KeptOrAnswered
<1> QED
  BY <1>2, <1>3, <1>4 DEF Page!Apply

(***************************************************************************)
(* Messages, ticks, promises and page loads.                               *)
(***************************************************************************)

\* A step that leaves messages and the kept bootstrap alone.
LEMMA PageCalm ==
  ASSUME PageInv, Page!TypeOK', UNCHANGED <<boot, attempts, outbox>>
  PROVE  PageGood(boot)
  BY DEF PageGood, PageInv, KeptOrAnswered

LEMMA PageTicks == ASSUME PageInv, Page!Tick PROVE PageGood(boot)
<1>1. /\ boot \in 1 .. MaxRedeems \cup {None} /\ attempts \in 0 .. MaxAttempts
      /\ waiting \in PlayIds \cup {None} /\ asked \in PlayIds \cup {None}
      /\ boot # None => attempts < MaxAttempts
  BY DEF PageInv, Page!TypeOK
<1>2. client' = client /\ asked' = asked /\ Page!Apply(boot, attempts, waiting)
  BY DEF Page!Tick
<1> QED
  BY <1>1, <1>2, PageApplies

LEMMA PageBootstraps ==
  ASSUME PageInv, NEW g \in 1 .. MaxRedeems, Page!OnBootstrap(g)
  PROVE  PageGood(g)
<1>1. /\ 0 \in 0 .. MaxAttempts /\ 0 < MaxAttempts
      /\ waiting \in PlayIds \cup {None} /\ asked \in PlayIds \cup {None}
  BY PageConstants DEF PageInv, Page!TypeOK
<1>2. client' = client /\ asked' = asked /\ Page!Apply(g, 0, waiting)
  BY DEF Page!OnBootstrap
<1> QED
  BY <1>1, <1>2, PageApplies

LEMMA PagePlays ==
  ASSUME PageInv, NEW item \in PlayIds, Page!OnPlay(item)
  PROVE  PageGood(boot)
<1>1. /\ boot \in 1 .. MaxRedeems \cup {None} /\ attempts \in 0 .. MaxAttempts
      /\ boot # None => attempts < MaxAttempts
      /\ Page!TypeOK /\ outbox \in Seq(Page!Message)
  BY DEF PageInv, Page!TypeOK
<1>2. client' = client /\ asked' = item
  BY DEF Page!OnPlay
<1>3. CASE boot = None /\ Page!HasToken
  <2>1. /\ Page!StartPlay(item, identity, outbox)
        /\ UNCHANGED <<identity, stored, boot, attempts, ticking, validating, lookups,
                       waiting, answered>>
    BY <1>3 DEF Page!OnPlay, Page!sessionVars
  <2>2. /\ playGen' \in Nat /\ plays' \in SUBSET Page!Play
        /\ outbox' \in Seq(Page!Message) /\ (AnswerIn(outbox) => AnswerIn(outbox'))
    BY <1>1, <2>1, PageStarts
  <2>3. Page!TypeOK'
    BY <1>1, <1>2, <2>1, <2>2 DEF Page!TypeOK
  <2> QED
    BY <1>1, <2>1, <2>2, <2>3 DEF PageGood, PageInv, KeptOrAnswered
<1>4. CASE ~(boot = None /\ Page!HasToken)
  <2>1. Page!Apply(boot, attempts, item)
    BY <1>4 DEF Page!OnPlay
  <2> QED
    BY <1>1, <1>2, <2>1, PageApplies
<1> QED
  BY <1>3, <1>4

LEMMA PageClears == ASSUME PageInv, Page!OnClear PROVE PageGood(None)
<1>1. /\ boot' = None /\ waiting' = None /\ playGen' = playGen + 1 /\ asked' = None
      /\ identity' \in {None, identity}
      /\ UNCHANGED <<client, stored, attempts, ticking, validating, lookups, plays, outbox,
                     answered>>
  BY DEF Page!OnClear
<1>2. Page!TypeOK'
  BY <1>1 DEF PageInv, Page!TypeOK
<1> QED
  BY <1>1, <1>2 DEF PageGood, PageInv, KeptOrAnswered

LEMMA PageReloads == ASSUME PageInv, Page!Load PROVE PageInv'
<1>1. /\ client' = "absent" /\ identity' = None
      /\ boot' = None /\ attempts' = 0 /\ ticking' = TRUE
      /\ validating' = None /\ lookups' = {} /\ stored' = stored /\ outbox' = outbox
      /\ waiting' = None /\ playGen' = 0 /\ plays' = {} /\ asked' = None /\ answered' = {}
  BY DEF Page!Load
<1>2. 0 \in 0 .. MaxAttempts
  BY PageConstants
<1> QED
  BY <1>1, <1>2 DEF PageInv, Page!TypeOK, Page!Clients

LEMMA PageIsRead ==
  ASSUME PageInv, Page!Taken
  PROVE  PageInv' /\ boot' = boot
         /\ (Head(outbox).type \notin {"session.ready", "session.failed"} /\ AnswerIn(outbox)
               => AnswerIn(outbox'))
<1>1. /\ outbox # <<>> /\ outbox' = Tail(outbox) /\ outbox \in Seq(Page!Message)
      /\ UNCHANGED <<client, identity, stored, boot, attempts, ticking, validating, lookups,
                     waiting, playGen, plays, answered, asked>>
  BY DEF Page!Taken, Page!sessionVars, Page!playVars, PageInv, Page!TypeOK
<1>2. /\ outbox' \in Seq(Page!Message) /\ Len(outbox') = Len(outbox) - 1 /\ Len(outbox) \in Nat
      /\ DOMAIN outbox = 1 .. Len(outbox) /\ DOMAIN outbox' = 1 .. Len(outbox')
      /\ \A n \in 1 .. Len(outbox') : outbox'[n] = outbox[n + 1]
      /\ Head(outbox) = outbox[1]
  BY <1>1, HeadTailProperties, LenProperties
<1>3. ASSUME Head(outbox).type \notin {"session.ready", "session.failed"}, AnswerIn(outbox)
      PROVE  AnswerIn(outbox')
  <2>1. PICK n \in 1 .. Len(outbox) : outbox[n].type \in {"session.ready", "session.failed"}
    BY <1>2, <1>3 DEF AnswerIn
  <2>2. n # 1
    BY <1>2, <1>3, <2>1
  <2>3. n - 1 \in DOMAIN outbox' /\ outbox'[n - 1] = outbox[n]
    BY <1>2, <2>1, <2>2
  <2> QED
    BY <2>1, <2>3 DEF AnswerIn
<1> QED
  BY <1>1, <1>2, <1>3 DEF PageInv, Page!TypeOK

LEMMA PageLooksUp ==
  ASSUME PageInv, NEW g \in lookups, NEW succeeded \in BOOLEAN,
         Page!LookupSettles(g, succeeded)
  PROVE  PageGood(boot)
<1>1. /\ lookups' = lookups \ {g} /\ validating' = None
      /\ UNCHANGED <<client, identity, stored, attempts, asked>>
      /\ Page!TypeOK /\ g \in 1 .. MaxRedeems
  BY DEF Page!LookupSettles, PageInv, Page!TypeOK
<1>2. CASE succeeded /\ boot = g /\ identity = g
  <2>1. Page!Acknowledge(g, waiting) /\ waiting \in PlayIds \cup {None}
    BY <1>2 DEF Page!LookupSettles, PageInv, Page!TypeOK
  <2>2. /\ boot' = None /\ waiting' = None /\ ticking' = FALSE
        /\ answered' \in SUBSET (1 .. MaxRedeems)
        /\ playGen' \in Nat /\ plays' \in SUBSET Page!Play
        /\ outbox' \in Seq(Page!Message) /\ AnswerIn(outbox')
    BY <1>1, <2>1, PageAcknowledges
  <2>3. Page!TypeOK'
    BY <1>1, <2>2 DEF Page!TypeOK
  <2> QED
    BY <2>2, <2>3 DEF PageGood, PageInv, KeptOrAnswered
<1>3. CASE ~(succeeded /\ boot = g /\ identity = g)
  <2>1. UNCHANGED <<boot, ticking, waiting, playGen, plays, outbox, answered>>
    BY <1>3 DEF Page!LookupSettles
  <2>2. Page!TypeOK'
    BY <1>1, <2>1 DEF Page!TypeOK
  <2> QED
    BY <1>1, <2>1, <2>2, PageCalm
<1> QED
  BY <1>2, <1>3

LEMMA PageFetches == ASSUME PageInv, NEW p \in plays, Page!ItemSettles(p) PROVE PageGood(boot)
<1> DEFINE next == [p EXCEPT !.stage = "play"]
<1>1. /\ plays' \in {(plays \ {p}) \cup {next}, plays \ {p}}
      /\ UNCHANGED <<client, identity, stored, boot, attempts, ticking, validating, lookups,
                     waiting, playGen, outbox, asked, answered>>
  BY DEF Page!ItemSettles, Page!sessionVars
<1>2. p \in Page!Play /\ next \in Page!Play
  BY DEF PageInv, Page!TypeOK, Page!Play
<1> HIDE DEF next
<1>3. Page!TypeOK'
  BY <1>1, <1>2 DEF PageInv, Page!TypeOK
<1> QED
  BY <1>1, <1>3, PageCalm

LEMMA PageEnds ==
  ASSUME PageInv, NEW p \in plays, NEW succeeded \in BOOLEAN, Page!PlaySettles(p, succeeded)
  PROVE  PageGood(boot)
<1>1. /\ plays' = plays \ {p}
      /\ outbox' = outbox \/ outbox' = outbox \o <<Page!Stopped(p.id)>>
      /\ UNCHANGED <<client, identity, stored, boot, attempts, ticking, validating, lookups,
                     waiting, playGen, asked, answered>>
  BY DEF Page!PlaySettles, Page!sessionVars
<1>2. outbox \in Seq(Page!Message) /\ p.id \in PlayIds
  BY DEF PageInv, Page!TypeOK, Page!Play
<1>3. outbox' \in Seq(Page!Message) /\ (AnswerIn(outbox) => AnswerIn(outbox'))
  BY <1>1, <1>2, PageMessages, PostedMore
<1>4. Page!TypeOK'
  BY <1>1, <1>3 DEF PageInv, Page!TypeOK
<1> QED
  BY <1>1, <1>3, <1>4 DEF PageGood, PageInv, KeptOrAnswered

\* ClientStarts, ClientWorks, ClientForgets.
LEMMA PageClientGood ==
  ASSUME PageInv, Page!ClientStarts \/ Page!ClientWorks \/ Page!ClientForgets
  PROVE  PageGood(boot)
<1>1. /\ client' \in Page!Clients /\ identity' \in 1 .. MaxRedeems \cup {None}
      /\ UNCHANGED <<stored, boot, attempts, ticking, validating, lookups, waiting, playGen,
                     plays, outbox, asked, answered>>
  BY DEF Page!ClientStarts, Page!ClientWorks, Page!ClientForgets, PageInv, Page!TypeOK,
         Page!Clients, Page!Working, Page!sessionVars, Page!playVars
<1>2. Page!TypeOK'
  BY <1>1 DEF PageInv, Page!TypeOK
<1> QED
  BY <1>1, <1>2, PageCalm

\* What the script does by itself.
LEMMA PageStepGood ==
  ASSUME PageInv, Page!Tick \/ Page!ClientStarts \/ Page!PageStep
  PROVE  PageGood(boot)
<1>1. ASSUME NEW g \in lookups, NEW succeeded \in BOOLEAN, Page!LookupSettles(g, succeeded)
      PROVE  PageGood(boot)
  BY <1>1, PageLooksUp
<1>2. ASSUME NEW p \in plays, Page!ItemSettles(p)
      PROVE  PageGood(boot)
  BY <1>2, PageFetches
<1>3. ASSUME NEW p \in plays, NEW succeeded \in BOOLEAN, Page!PlaySettles(p, succeeded)
      PROVE  PageGood(boot)
  BY <1>3, PageEnds
<1>4. CASE Page!ClientStarts \/ Page!ClientWorks \/ Page!ClientForgets
  BY <1>4, PageClientGood
<1>5. CASE Page!Tick
  BY <1>5, PageTicks
<1> QED
  BY <1>1, <1>2, <1>3, <1>4, <1>5 DEF Page!PageStep

\* The script's types under any native side.
LEMMA ScriptTyped == PageInv /\ Page!ScriptNext => PageInv'
<1> SUFFICES ASSUME PageInv, Page!ScriptNext
             PROVE  PageInv'
  OBVIOUS
<1> USE DEF PageGood
<1>1. CASE Page!Tick \/ Page!ClientStarts \/ Page!PageStep
  BY <1>1, PageStepGood
<1>2. CASE \E g \in 1 .. MaxRedeems : Page!OnBootstrap(g)
  BY <1>2, PageBootstraps
<1>3. CASE \E item \in PlayIds : Page!OnPlay(item)
  BY <1>3, PagePlays
<1>4. CASE Page!OnClear
  BY <1>4, PageClears
<1>5. CASE Page!Load
  BY <1>5, PageReloads
<1>6. CASE Page!Taken
  BY <1>6, PageIsRead
<1> QED
  BY <1>1, <1>2, <1>3, <1>4, <1>5, <1>6 DEF Page!ScriptNext

(***************************************************************************)
(* The composition drives the script as any native side may.               *)
(***************************************************************************)

\* A message to the page carries what its kind says.
LEMMA MessageKinds ==
  ASSUME NEW message \in PageMessage
  PROVE  /\ message.type = "session.bootstrap" => message.arg \in 1 .. MaxRedeems
         /\ message.type = "play.item" => message.arg \in PlayIds
  BY DEF PageMessage, BootstrapMsg, PlayMsg, ClearMsg

\* Taking a message is what a native side does.
LEMMA MessageTaken == ASSUME NEW message, TakeMessage(message) PROVE Page!Taken
  BY DEF TakeMessage, Page!Taken, Page!sessionVars, Page!playVars

\* Every step of the composition is a step of the script, or none of its own.
LEMMA ExtStepScripts ==
  ASSUME toPage \in Seq(PageMessage), [ExtNext]_extVars
  PROVE  Page!ScriptNext \/ UNCHANGED scriptVars
<1>1. CASE PageTalks
  BY <1>1, MessageTaken DEF PageTalks, ReadyArrives, FailureArrives, StoppedArrives,
                            Page!ScriptNext
<1>2. CASE Arrives
  BY <1>2 DEF Arrives, Page!ScriptNext
<1>3. CASE HandlesMessage
  <2>1. Head(toPage) \in PageMessage
    BY <1>3, HeadTailProperties DEF HandlesMessage
  <2> DEFINE message == Head(toPage)
  <2>2. \/ message.type = "session.bootstrap" /\ Page!OnBootstrap(message.arg)
        \/ message.type = "play.item" /\ Page!OnPlay(message.arg)
        \/ message.type = "session.clear" /\ Page!OnClear
    BY <1>3 DEF HandlesMessage
  <2> HIDE DEF message
  <2>3. /\ message.type = "session.bootstrap" => message.arg \in 1 .. MaxRedeems
        /\ message.type = "play.item" => message.arg \in PlayIds
    BY <2>1, MessageKinds DEF message
  <2> QED
    BY <2>2, <2>3 DEF Page!ScriptNext
<1>4. CASE ScriptTicks \/ ClientAppears \/ ScriptContinues
  BY <1>4 DEF ScriptTicks, ClientAppears, ScriptContinues, ScriptAlone, Page!ScriptNext
<1>5. CASE Authenticate \/ Clear \/ \E id \in PlayIds : Play(id)
  BY <1>5 DEF Authenticate, Clear, Play
<1>6. CASE \/ \E g \in DOMAIN redeems, url \in Origins, fallback \in Origins \cup {None} :
                RedeemedArrives(g, url, fallback)
           \/ \E g \in DOMAIN redeems : RedemptionFails(g)
  BY <1>6 DEF RedeemedArrives, RedemptionFails
<1>7. CASE HandleLoaded \/ PostBootstrap \/ FailureLands \/ UNCHANGED extVars
  BY <1>7 DEF HandleLoaded, PostBootstrap, FailureLands, extVars
<1> QED
  BY <1>1, <1>2, <1>3, <1>4, <1>5, <1>6, <1>7 DEF ExtNext

(***************************************************************************)
(* Types.                                                                  *)
(***************************************************************************)

\* No more redemptions run than the bound allows: the page's generations are
\* those of the redemptions.
RedeemsBounded == Len(redeems) <= MaxRedeems

HandTypes ==
  /\ handoff \in Handoff \cup {None}
  /\ delivering \in 1 .. MaxRedeems \cup {None}
  /\ failing \in PlayIds \cup {"session", None}

WebTypes ==
  /\ toPage \in Seq(PageMessage)
  /\ loading \in BOOLEAN /\ arrived \in Seq(Origins \cup {Elsewhere}) /\ loads \in 0 .. MaxLoads

\* The type invariant, with what its parts need of one another.
ExtInv == TypeOK /\ HandInv /\ RedeemsBounded /\ HandTypes /\ WebTypes /\ PageInv

LEMMA ExtInvTypes == ExtInv => ExtTypeOK
  BY DEF ExtInv, ExtTypeOK, HandTypes, WebTypes, PageInv

LEMMA ExtInitInv == ExtInit => ExtInv
<1> SUFFICES ASSUME ExtInit
             PROVE  ExtInv
  OBVIOUS
<1>1. TypeOK /\ HandInv
  BY ExtInitImplements, InitType
<1>2. RedeemsBounded
  BY BoundAssumption DEF ExtInit, Init, RedeemsBounded
<1>3. HandTypes
  BY <1>1 DEF ExtInit, HandTypes
<1>4. WebTypes
  <2>1. 0 \in 0 .. MaxLoads
    BY ExtBoundAssumption
  <2>2. <<>> \in Seq(PageMessage) /\ <<>> \in Seq(Origins \cup {Elsewhere})
    OBVIOUS
  <2> QED
    BY <2>1, <2>2 DEF ExtInit, WebTypes
<1>5. PageInv
  <2>1. 0 \in 0 .. MaxAttempts /\ <<>> \in Seq(Page!Message)
    BY PageConstants
  <2> QED
    BY <2>1 DEF ExtInit, PageInv, Page!TypeOK, Page!Clients
<1> QED
  BY <1>1, <1>2, <1>3, <1>4, <1>5 DEF ExtInv

\* A redemption is started below the bound, and an answer adds none.
LEMMA ExtStepBounded == TypeOK /\ RedeemsBounded /\ [ExtNext]_extVars => RedeemsBounded'
<1> SUFFICES ASSUME TypeOK, RedeemsBounded, [ExtNext]_extVars
             PROVE  RedeemsBounded'
  OBVIOUS
<1>0. redeems \in Seq(Redemption) /\ Len(redeems) \in Nat /\ MaxRedeems \in Nat
  BY LenProperties, BoundAssumption DEF TypeOK
<1>1. CASE Authenticate
  <2>1. ASSUME NEW id \in AuthIds, BeginAuthComplete(id, 0)
        PROVE  RedeemsBounded'
    <3> DEFINE new == [id |-> id, epoch |-> authEpoch, key |-> proofs[id], running |-> TRUE]
    <3>1. Len(redeems) < MaxRedeems /\ redeems' = Append(redeems, new) /\ proofs[id] > 0
      BY <2>1 DEF BeginAuthComplete
    <3>2. new \in Redemption
      BY <3>1 DEF Redemption, TypeOK
    <3> HIDE DEF new
    <3>3. Len(redeems') = Len(redeems) + 1
      BY <1>0, <3>1, <3>2, AppendProperties
    <3> QED
      BY <1>0, <3>1, <3>3 DEF RedeemsBounded
  <2>2. ASSUME NEW id \in AuthIds, AuthChallenge(id) \/ RefuseAuthComplete(id, 0)
        PROVE  RedeemsBounded'
    BY <2>2 DEF AuthChallenge, RefuseAuthComplete, RedeemsBounded
  <2> QED
    BY <1>1, <2>1, <2>2 DEF Authenticate
<1>2. ASSUME NEW g \in DOMAIN redeems, Answered(g)
      PROVE  RedeemsBounded'
  BY <1>0, <1>2 DEF Answered, RedeemsBounded
<1>3. CASE \/ \E g \in DOMAIN redeems, url \in Origins, fallback \in Origins \cup {None} :
                RedeemedArrives(g, url, fallback)
           \/ \E g \in DOMAIN redeems : RedemptionFails(g)
  BY <1>2, <1>3 DEF RedeemedArrives, RedemptionFails, AuthRedeemed, AuthFailed, StaleAnswer
<1>4. CASE redeems' = redeems
  BY <1>4 DEF RedeemsBounded
<1>5. CASE Clear \/ \E id \in PlayIds : Play(id)
  BY <1>4, <1>5 DEF Clear, SessionClear, Play, PlayItem, RefusePlay, authVars
<1>6. CASE HandleLoaded \/ FailureLands
  BY <1>4, <1>6 DEF HandleLoaded, NothingToDeliver, OriginMismatch, Snapshot, FailureLands,
                    GiveUpOn, TryFallback, BootstrapFailed, vars, authVars
<1>7. CASE PageTalks
  BY <1>4, <1>7 DEF PageTalks, ReadyArrives, FailureArrives, StoppedArrives, BootstrapReady,
                    EndPlayback, vars, authVars
<1>8. CASE PostBootstrap \/ Arrives \/ HandlesMessage \/ ScriptTicks \/ ClientAppears
             \/ ScriptContinues \/ UNCHANGED extVars
  BY <1>4, <1>8 DEF PostBootstrap, Arrives, HandlesMessage, ScriptTicks, ClientAppears,
                    ScriptContinues, ScriptAlone, extVars, vars, authVars
<1> QED
  BY <1>1, <1>3, <1>5, <1>6, <1>7, <1>8 DEF ExtNext

\* The handoff, the delivery and the failure.
LEMMA ExtStepHandTypes == ExtInv /\ [ExtNext]_extVars => HandTypes'
<1> SUFFICES ASSUME ExtInv, [ExtNext]_extVars
             PROVE  HandTypes'
  OBVIOUS
<1>1. TypeOK /\ HandInv /\ RedeemsBounded /\ HandTypes
  BY DEF ExtInv
<1>2. handoff' \in Handoff \cup {None}
  <2>1. ASSUME NEW g \in DOMAIN redeems, NEW url \in Origins,
               NEW fallback \in Origins \cup {None}, RedeemedArrives(g, url, fallback)
        PROVE  handoff' \in Handoff
    <3>1. redeems[g] \in Redemption /\ g \in 1 .. MaxRedeems
      BY <1>1, LenProperties, BoundAssumption DEF TypeOK, RedeemsBounded
    <3> QED
      BY <2>1, <3>1 DEF RedeemedArrives, Handoff, Redemption
  <2>2. CASE handoff' \in {handoff, None}
    BY <1>1, <2>2 DEF HandTypes
  <2>3. CASE ExtNext
    BY <2>1, <2>2, <2>3, HandStepped DEF HandStep
  <2>4. CASE UNCHANGED extVars
    BY <2>2, <2>4 DEF extVars, handVars
  <2> QED
    BY <2>3, <2>4
<1>3. delivering' \in 1 .. MaxRedeems \cup {None}
  <2>1. delivering' \in {delivering, None} \/ (handoff # None /\ delivering' = handoff.gen)
    <3> USE DEF handVars
    <3>1. CASE Authenticate \/ Clear \/ \E id \in PlayIds : Play(id)
      BY <3>1 DEF Authenticate, Clear, Play
    <3>2. CASE \/ \E g \in DOMAIN redeems, url \in Origins, fallback \in Origins \cup {None} :
                    RedeemedArrives(g, url, fallback)
               \/ \E g \in DOMAIN redeems : RedemptionFails(g)
      BY <3>2 DEF RedeemedArrives, RedemptionFails
    <3>3. CASE HandleLoaded \/ PostBootstrap \/ FailureLands \/ UNCHANGED extVars
      BY <3>3 DEF HandleLoaded, NothingToDeliver, OriginMismatch, Snapshot, PostBootstrap,
                  FailureLands, extVars
    <3>4. CASE PageTalks
      BY <3>4 DEF PageTalks, ReadyArrives, FailureArrives, StoppedArrives
    <3>5. CASE Arrives \/ HandlesMessage \/ ScriptTicks \/ ClientAppears \/ ScriptContinues
      BY <3>5 DEF Arrives, HandlesMessage, ScriptTicks, ClientAppears, ScriptContinues,
                  ScriptAlone
    <3> QED
      BY <3>1, <3>2, <3>3, <3>4, <3>5 DEF ExtNext
  <2>2. handoff # None => handoff.gen \in 1 .. MaxRedeems
    BY <1>1 DEF HandTypes, Handoff
  <2> QED
    BY <1>1, <2>1, <2>2 DEF HandTypes
<1>4. failing' \in PlayIds \cup {"session", None}
  BY <1>1, ExtStepHand DEF HandInv
<1> QED
  BY <1>2, <1>3, <1>4 DEF HandTypes

\* What travels between the extension and the web view.
LEMMA ExtStepWebTypes == ExtInv /\ [ExtNext]_extVars => WebTypes'
<1> SUFFICES ASSUME ExtInv, [ExtNext]_extVars
             PROVE  WebTypes'
  OBVIOUS
<1>1. /\ toPage \in Seq(PageMessage) /\ loading \in BOOLEAN
      /\ arrived \in Seq(Origins \cup {Elsewhere}) /\ loads \in 0 .. MaxLoads /\ MaxLoads \in Nat
      /\ target \in Origins \cup {None} /\ delivering \in 1 .. MaxRedeems \cup {None}
  BY ExtBoundAssumption DEF ExtInv, WebTypes, HandTypes, TypeOK
<1>2. \A message \in PageMessage : PostToPage(message) => toPage' \in Seq(PageMessage)
  BY <1>1, AppendProperties DEF PostToPage
<1> USE DEF webVars
<1>3. CASE Authenticate \/ UNCHANGED extVars
  BY <1>1, <1>3 DEF Authenticate, extVars, WebTypes
<1>4. CASE \E id \in PlayIds : Play(id)
  <2>1. \A id \in PlayIds : PlayMsg(id) \in PageMessage
    BY DEF PageMessage
  <2> QED
    BY <1>1, <1>2, <1>4, <2>1 DEF Play, WebTypes
<1>5. CASE Clear
  <2>1. ClearMsg \in PageMessage
    BY DEF PageMessage
  <2> QED
    BY <1>1, <1>2, <1>5, <2>1 DEF Clear, WebTypes
<1>6. CASE \/ \E g \in DOMAIN redeems, url \in Origins, fallback \in Origins \cup {None} :
                RedeemedArrives(g, url, fallback)
           \/ \E g \in DOMAIN redeems : RedemptionFails(g)
  BY <1>1, <1>6 DEF RedeemedArrives, RedemptionFails, WebTypes
<1>7. CASE HandleLoaded
  <2>1. arrived' \in Seq(Origins \cup {Elsewhere})
    BY <1>1, <1>7, HeadTailProperties DEF HandleLoaded
  <2>2. loading' \in BOOLEAN
    BY <1>1, <1>7 DEF HandleLoaded, NothingToDeliver, OriginMismatch, Snapshot, GiveUpOn
  <2> QED
    BY <1>1, <1>7, <2>1, <2>2 DEF HandleLoaded, WebTypes
<1>8. CASE PostBootstrap
  <2>1. BootstrapMsg(delivering) \in PageMessage
    BY <1>1, <1>8 DEF PostBootstrap, PageMessage
  <2> QED
    BY <1>1, <1>2, <1>8, <2>1 DEF PostBootstrap, WebTypes
<1>9. CASE PageTalks \/ FailureLands
  BY <1>1, <1>9 DEF PageTalks, ReadyArrives, FailureArrives, StoppedArrives, FailureLands,
                    GiveUpOn, WebTypes
<1>10. CASE Arrives
  <2>1. PICK url \in {target, Elsewhere} : arrived' = Append(arrived, url)
    BY <1>10 DEF Arrives
  <2>2. url \in Origins \cup {Elsewhere}
    BY <1>1, <1>10 DEF Arrives
  <2>3. arrived' \in Seq(Origins \cup {Elsewhere})
    BY <1>1, <2>1, <2>2, AppendProperties
  <2>4. loads' \in 0 .. MaxLoads /\ loading' = FALSE /\ toPage' \in {toPage, <<>>}
    BY <1>1, <1>10 DEF Arrives
  <2> QED
    BY <1>1, <2>3, <2>4, EmptySeq DEF WebTypes
<1>11. CASE HandlesMessage
  <2>1. toPage' \in Seq(PageMessage)
    BY <1>1, <1>11, HeadTailProperties DEF HandlesMessage
  <2> QED
    BY <1>1, <1>11, <2>1 DEF HandlesMessage, WebTypes
<1>12. CASE ScriptTicks \/ ClientAppears \/ ScriptContinues
  BY <1>1, <1>12 DEF ScriptTicks, ClientAppears, ScriptContinues, ScriptAlone, WebTypes
<1> QED
  BY <1>3, <1>4, <1>5, <1>6, <1>7, <1>8, <1>9, <1>10, <1>11, <1>12 DEF ExtNext

LEMMA ExtStepInv == ExtInv /\ [ExtNext]_extVars => ExtInv'
<1> SUFFICES ASSUME ExtInv, [ExtNext]_extVars
             PROVE  ExtInv'
  OBVIOUS
<1>1. TypeOK' /\ HandInv' /\ RedeemsBounded'
  BY ExtStepImplements, ExtStepHand, ExtStepBounded, StepType DEF ExtInv
<1>2. PageInv'
  <2>1. toPage \in Seq(PageMessage) /\ PageInv
    BY DEF ExtInv, WebTypes
  <2>2. CASE UNCHANGED scriptVars
    BY <2>1, <2>2 DEF scriptVars, PageInv, Page!TypeOK
  <2> QED
    BY <2>1, <2>2, ExtStepScripts, ScriptTyped
<1> QED
  BY <1>1, <1>2, ExtStepHandTypes, ExtStepWebTypes DEF ExtInv

LEMMA ExtAlways == ExtSpec => []ExtInv
  BY ExtInitInv, ExtStepInv, PTL DEF ExtSpec

\* Every state of the composition is well typed: what travels to and from the
\* page, the script's own state, and the bootstrap kept for it.
THEOREM ExtTypeCorrect == ExtSpec => []ExtTypeOK
  BY ExtAlways, ExtInvTypes, PTL

(***************************************************************************)
(* The bootstrap of the handoff is under way.                              *)
(***************************************************************************)

\* A delivery the handoff has outrun is followed by a page load, which asks for
\* the newer one: HandoffIsCarried needs this to be inductive.
OutrunIsReloaded ==
  Current /\ delivering \notin {None, handoff.gen} => loading \/ arrived # <<>>

CarryInv == HandoffIsCarried /\ OutrunIsReloaded

\* A message behind those the page has not seen spares the bootstrap before it,
\* unless it is a clear or another bootstrap.
LEMMA PostSpares ==
  ASSUME toPage \in Seq(PageMessage), NEW message \in PageMessage, PostToPage(message),
         handoff' = handoff
  PROVE  /\ \A n \in DOMAIN toPage : n \in DOMAIN toPage' /\ toPage'[n] = toPage[n]
         /\ message.type = "play.item" \/ message = BootstrapMsg(handoff.gen)
              => \A n \in Nat : Spared(n) => Spared(n)'
         /\ \E n \in DOMAIN toPage' : toPage'[n] = message /\ Spared(n)'
<1>1. /\ DOMAIN toPage = 1 .. Len(toPage) /\ Len(toPage) \in Nat
      /\ toPage' \in Seq(PageMessage) /\ Len(toPage') = Len(toPage) + 1
      /\ DOMAIN toPage' = 1 .. Len(toPage) + 1
      /\ toPage'[Len(toPage) + 1] = message
      /\ \A n \in 1 .. Len(toPage) : toPage'[n] = toPage[n]
  BY AppendProperties, LenProperties DEF PostToPage
<1>2. \A n \in DOMAIN toPage : n \in DOMAIN toPage' /\ toPage'[n] = toPage[n]
  BY <1>1
<1>3. BootstrapMsg(handoff.gen)' = BootstrapMsg(handoff.gen)
  BY DEF BootstrapMsg
<1>4. ASSUME message.type = "play.item" \/ message = BootstrapMsg(handoff.gen),
             NEW n \in Nat, Spared(n)
      PROVE  Spared(n)'
  BY <1>1, <1>3, <1>4 DEF Spared
<1>5. ASSUME NEW n \in DOMAIN toPage', n = Len(toPage) + 1
      PROVE  toPage'[n] = message /\ Spared(n)'
  BY <1>1, <1>5 DEF Spared
<1>6. \E n \in DOMAIN toPage' : n = Len(toPage) + 1
  BY <1>1
<1> QED
  BY <1>2, <1>4, <1>5, <1>6

\* What is behind the first message is still behind it when it was handled.
LEMMA HandlingSpares ==
  ASSUME toPage \in Seq(PageMessage), toPage # <<>>, toPage' = Tail(toPage),
         handoff' = handoff
  PROVE  /\ Spared(0) => /\ Spared(0)'
                         /\ \/ Head(toPage).type = "play.item"
                            \/ Head(toPage) = BootstrapMsg(handoff.gen)
         /\ \A n \in DOMAIN toPage : Spared(n) =>
              IF n = 1 THEN Head(toPage) = toPage[n] /\ Spared(0)'
              ELSE n - 1 \in DOMAIN toPage' /\ toPage'[n - 1] = toPage[n] /\ Spared(n - 1)'
<1>1. /\ DOMAIN toPage = 1 .. Len(toPage) /\ Len(toPage) \in Nat /\ Len(toPage) # 0
      /\ toPage' \in Seq(PageMessage) /\ DOMAIN toPage' = 1 .. Len(toPage) - 1
      /\ \A m \in 1 .. Len(toPage) - 1 : toPage'[m] = toPage[m + 1]
      /\ Head(toPage) = toPage[1]
  BY HeadTailProperties, LenProperties, EmptySeq
<1>2. BootstrapMsg(handoff.gen)' = BootstrapMsg(handoff.gen)
  BY DEF BootstrapMsg
<1>3. ASSUME NEW n \in Nat, NEW k \in Nat, Spared(n), k + 1 >= n
      PROVE  Spared(k)'
  BY <1>1, <1>2, <1>3 DEF Spared
<1>4. ASSUME Spared(0)
      PROVE  /\ Spared(0)'
             /\ \/ Head(toPage).type = "play.item"
                \/ Head(toPage) = BootstrapMsg(handoff.gen)
  <2>1. Spared(0)'
    BY <1>3, <1>4
  <2> QED
    BY <1>1, <1>4, <2>1 DEF Spared
<1>5. ASSUME NEW n \in DOMAIN toPage, Spared(n)
      PROVE  IF n = 1 THEN Head(toPage) = toPage[n] /\ Spared(0)'
             ELSE n - 1 \in DOMAIN toPage' /\ toPage'[n - 1] = toPage[n] /\ Spared(n - 1)'
  <2>1. CASE n = 1
    BY <1>1, <1>3, <1>5, <2>1
  <2>2. CASE n # 1
    <3>1. n \in Nat /\ n - 1 \in Nat /\ n - 1 \in DOMAIN toPage' /\ n - 1 + 1 = n
      BY <1>1, <2>2
    <3>2. Spared(n - 1)'
      BY <1>3, <1>5, <3>1
    <3> QED
      BY <1>1, <2>2, <3>1, <3>2
  <2> QED
    BY <2>1, <2>2
<1> QED
  BY <1>4, <1>5

\* Nothing that carries the bootstrap changes.
LEMMA CarriedStill ==
  ASSUME Carried, handoff' = handoff,
         UNCHANGED <<loading, arrived, delivering, failing, toPage, boot, outbox>>
  PROVE  Carried'
  BY DEF Carried, Spared, PageAnswers, BootstrapMsg

\* The script has the bootstrap, or has answered it.
LEMMA CarriedOn ==
  ASSUME handoff' = handoff, KeptOrAnswered(handoff.gen), Spared(0)'
  PROVE  Carried'
  BY DEF KeptOrAnswered, AnswerIn, Carried, PageAnswers

\* The page handles a message.
LEMMA CarriedByScript ==
  ASSUME ExtInv, handoff # None, handoff' = handoff, Carried, HandlesMessage
  PROVE  Carried'
<1>1. /\ toPage \in Seq(PageMessage) /\ toPage # <<>> /\ toPage' = Tail(toPage) /\ PageInv
      /\ UNCHANGED <<handVars, webVars>>
  BY DEF ExtInv, WebTypes, HandlesMessage
<1> DEFINE message == Head(toPage)
<1>2. /\ message \in PageMessage
      /\ \/ message.type = "session.bootstrap" /\ Page!OnBootstrap(message.arg)
         \/ message.type = "play.item" /\ Page!OnPlay(message.arg)
         \/ message.type = "session.clear" /\ Page!OnClear
  BY <1>1, HeadTailProperties DEF HandlesMessage
<1>3. handoff.gen \in 1 .. MaxRedeems /\ handoff.gen # None
  BY PageConstants DEF ExtInv, HandTypes, Handoff
<1> HIDE DEF message
<1>4. message.type = "play.item" => KeptOrAnswered(boot)
  BY <1>1, <1>2, MessageKinds, PagePlays DEF PageGood
<1>5. message = BootstrapMsg(handoff.gen) => KeptOrAnswered(handoff.gen)
  <2>1. /\ BootstrapMsg(handoff.gen).type = "session.bootstrap"
        /\ BootstrapMsg(handoff.gen).arg = handoff.gen
    BY DEF BootstrapMsg
  <2> QED
    BY <1>1, <1>2, <1>3, <2>1, PageBootstraps DEF PageGood
<1>6. AnswerIn(outbox) => AnswerIn(outbox')
  BY <1>1, <1>2, MessageKinds, PagePlays, PageBootstraps, PageClears DEF PageGood, KeptOrAnswered
<1>7. CASE loading \/ arrived # <<>> \/ delivering = handoff.gen \/ failing # None
  BY <1>1, <1>7 DEF handVars, webVars, Carried
<1>8. CASE PageAnswers
  BY <1>6, <1>8 DEF PageAnswers, AnswerIn, Carried
<1>9. CASE boot = handoff.gen /\ Spared(0)
  BY <1>1, <1>4, <1>5, <1>9, HandlingSpares, CarriedOn DEF message
<1>10. ASSUME NEW n \in DOMAIN toPage, toPage[n] = BootstrapMsg(handoff.gen), Spared(n)
       PROVE  Carried'
  <2>1. CASE n = 1
    BY <1>1, <1>5, <1>10, <2>1, HandlingSpares, CarriedOn DEF message
  <2>2. CASE n # 1
    <3>1. n - 1 \in DOMAIN toPage' /\ toPage'[n - 1] = BootstrapMsg(handoff.gen) /\ Spared(n - 1)'
      BY <1>1, <1>10, <2>2, HandlingSpares
    <3>2. BootstrapMsg(handoff.gen)' = BootstrapMsg(handoff.gen)
      BY DEF BootstrapMsg
    <3> QED
      BY <3>1, <3>2 DEF Carried
  <2> QED
    BY <2>1, <2>2
<1> QED
  BY <1>7, <1>8, <1>9, <1>10 DEF Carried

\* The script does something by itself.
LEMMA CarriedAlone ==
  ASSUME ExtInv, handoff' = handoff, Carried,
         ScriptTicks \/ ClientAppears \/ ScriptContinues
  PROVE  Carried'
<1>1. /\ UNCHANGED <<handVars, toPage, webVars>>
      /\ Page!Tick \/ Page!ClientStarts \/ Page!PageStep
  BY DEF ScriptTicks, ClientAppears, ScriptContinues, ScriptAlone
<1>2. KeptOrAnswered(boot)
  BY <1>1, PageStepGood DEF ExtInv, PageGood
<1>3. CASE boot' = boot
  BY <1>1, <1>2, <1>3 DEF Carried, Spared, PageAnswers, BootstrapMsg, KeptOrAnswered, AnswerIn,
                          handVars, webVars
<1>4. CASE AnswerIn(outbox')
  BY <1>4 DEF AnswerIn, PageAnswers, Carried
<1> QED
  BY <1>2, <1>3, <1>4 DEF KeptOrAnswered

\* A play travels behind the bootstrap, and a bootstrap is posted.
LEMMA CarriedBehind ==
  ASSUME ExtInv, handoff' = handoff, Carried, NEW id \in PlayIds, Play(id)
  PROVE  Carried'
<1>1. UNCHANGED <<handVars, webVars, scriptVars>> /\ toPage \in Seq(PageMessage)
  BY DEF Play, ExtInv, WebTypes
<1>2. CASE UNCHANGED toPage
  BY <1>1, <1>2, CarriedStill DEF handVars, webVars, scriptVars
<1>3. CASE PostToPage(PlayMsg(id))
  <2>1. PlayMsg(id) \in PageMessage /\ PlayMsg(id).type = "play.item"
    BY DEF PlayMsg, PageMessage
  <2>2. /\ \A n \in DOMAIN toPage : n \in DOMAIN toPage' /\ toPage'[n] = toPage[n]
        /\ \A n \in Nat : Spared(n) => Spared(n)'
    BY <1>1, <1>3, <2>1, PostSpares
  <2>3. DOMAIN toPage \subseteq Nat /\ BootstrapMsg(handoff.gen)' = BootstrapMsg(handoff.gen)
    BY <1>1, LenProperties DEF BootstrapMsg
  <2>4. CASE \E n \in DOMAIN toPage : toPage[n] = BootstrapMsg(handoff.gen) /\ Spared(n)
    BY <2>2, <2>3, <2>4 DEF Carried
  <2>5. CASE boot = handoff.gen /\ Spared(0)
    BY <1>1, <2>2, <2>5 DEF Carried, scriptVars
  <2>6. CASE \/ loading \/ arrived # <<>> \/ delivering = handoff.gen
             \/ PageAnswers \/ failing # None
    BY <1>1, <2>6 DEF Carried, PageAnswers, handVars, webVars, scriptVars
  <2> QED
    BY <2>4, <2>5, <2>6 DEF Carried
<1> QED
  BY <1>2, <1>3 DEF Play

LEMMA CarriedByPost ==
  ASSUME ExtInv, CarryInv, Current, handoff' = handoff, PostBootstrap
  PROVE  Carried'
<1>1. /\ delivering # None /\ PostToPage(BootstrapMsg(delivering)) /\ UNCHANGED webVars
      /\ toPage \in Seq(PageMessage) /\ delivering \in 1 .. MaxRedeems
  BY DEF PostBootstrap, ExtInv, WebTypes, HandTypes
<1>2. CASE delivering = handoff.gen
  <2>1. BootstrapMsg(delivering) \in PageMessage
    BY <1>1 DEF PageMessage
  <2>2. PICK n \in DOMAIN toPage' : toPage'[n] = BootstrapMsg(delivering) /\ Spared(n)'
    BY <1>1, <2>1, PostSpares
  <2>3. BootstrapMsg(handoff.gen)' = BootstrapMsg(delivering)
    BY <1>2 DEF BootstrapMsg
  <2> QED
    BY <2>2, <2>3 DEF Carried
<1>3. CASE delivering # handoff.gen
  BY <1>1, <1>3 DEF CarryInv, OutrunIsReloaded, Carried, webVars
<1> QED
  BY <1>2, <1>3

\* The page's messages: an answer drops the handoff or is kept by failing, and
\* what else it posts leaves an answer where it is.
LEMMA CarriedBack ==
  ASSUME ExtInv, handoff' = handoff, handoff # None, Carried, PageTalks
  PROVE  Carried'
<1>1. ASSUME NEW g \in 1 .. MaxRedeems, FailureArrives(g)
      PROVE  failing' # None
  BY <1>1, SessionAssumption DEF FailureArrives
<1>2. ASSUME NEW item \in PlayIds, StoppedArrives(item)
      PROVE  Carried'
  <2>1. /\ TakeMessage(Page!Stopped(item)) /\ Page!Taken /\ PageInv
        /\ Head(outbox).type = "playback.stopped"
    BY <1>2, MessageTaken, PageMessages DEF StoppedArrives, TakeMessage, ExtInv
  <2>2. AnswerIn(outbox) => AnswerIn(outbox')
    BY <2>1, PageIsRead
  <2> QED
    BY <1>2, <2>1, <2>2 DEF StoppedArrives, TakeMessage, Carried, Spared, PageAnswers, AnswerIn,
                            BootstrapMsg, handVars, webVars
<1>3. ~ \E g \in 1 .. MaxRedeems : ReadyArrives(g)
  BY DEF ReadyArrives
<1> QED
  BY <1>1, <1>2, <1>3 DEF PageTalks, Carried

\* A step that keeps the handoff keeps it carried.
LEMMA StepCarried ==
  ASSUME ExtInv, CarryInv, Current, handoff' = handoff, [ExtNext]_extVars,
         ~ \E g \in DOMAIN redeems, url \in Origins, fallback \in Origins \cup {None} :
             RedeemedArrives(g, url, fallback)
  PROVE  Carried'
<1>1. Carried /\ handoff # None
  BY DEF CarryInv, HandoffIsCarried, Current
<1>2. CASE Authenticate \/ UNCHANGED extVars
  BY <1>1, <1>2, CarriedStill DEF Authenticate, extVars, handVars, webVars, scriptVars
<1>3. CASE \E id \in PlayIds : Play(id)
  BY <1>1, <1>3, CarriedBehind
<1>4. CASE Clear \/ FailureLands \/ \E g \in DOMAIN redeems : RedemptionFails(g)
  BY <1>1, <1>4 DEF Clear, FailureLands, RedemptionFails
<1>5. CASE HandleLoaded
  BY <1>1, <1>5 DEF HandleLoaded, NothingToDeliver, OriginMismatch, Snapshot, Carried
<1>6. CASE PostBootstrap
  BY <1>6, CarriedByPost
<1>7. CASE PageTalks
  BY <1>1, <1>7, CarriedBack
<1>8. CASE Arrives
  <2>1. arrived \in Seq(Origins \cup {Elsewhere}) /\ target \in Origins \cup {None}
    BY DEF ExtInv, WebTypes, TypeOK
  <2>2. arrived' # <<>>
    BY <1>8, <2>1, AppendProperties DEF Arrives
  <2> QED
    BY <2>2 DEF Carried
<1>9. CASE HandlesMessage
  BY <1>1, <1>9, CarriedByScript
<1>10. CASE ScriptTicks \/ ClientAppears \/ ScriptContinues
  BY <1>1, <1>10, CarriedAlone
<1> QED
  BY <1>2, <1>3, <1>4, <1>5, <1>6, <1>7, <1>8, <1>9, <1>10 DEF ExtNext

\* The handoff stays current only if it is kept, or is the answer just given.
LEMMA StepCarry == ExtInv /\ CarryInv /\ [ExtNext]_extVars => CarryInv'
<1> SUFFICES ASSUME ExtInv, CarryInv, [ExtNext]_extVars
             PROVE  CarryInv'
  OBVIOUS
<1>1. TypeOK /\ HandInv /\ \A g \in DOMAIN redeems : redeems'[g].epoch = redeems[g].epoch
  BY ExtStepImplements, RedeemsKept DEF ExtInv
<1>2. SUFFICES ASSUME Current'
               PROVE  Carried' /\ (delivering' \notin {None, handoff'.gen}
                                     => loading' \/ arrived' # <<>>)
  BY DEF CarryInv, HandoffIsCarried, OutrunIsReloaded
<1>3. ASSUME NEW g \in DOMAIN redeems, NEW url \in Origins,
             NEW fallback \in Origins \cup {None}, RedeemedArrives(g, url, fallback)
      PROVE  loading' = TRUE
  BY <1>1, <1>2, <1>3 DEF RedeemedArrives, StaleAnswer, SameEpoch, Current, authVars
<1>4. CASE ~ \E g \in DOMAIN redeems, url \in Origins, fallback \in Origins \cup {None} :
               RedeemedArrives(g, url, fallback)
  <2>1. CopiesKept /\ handoff # None
    BY <1>2, <1>4, CopiesStepped DEF CopiesStep, Current, CopiesKept
  <2>2. Current
    BY <1>1, <1>2, <2>1 DEF Current, CopiesKept, HandInv
  <2>3. handoff' = handoff /\ Carried'
    BY <1>4, <2>1, <2>2, StepCarried DEF CopiesKept
  <2>4. ASSUME delivering' \notin {None, handoff'.gen}
        PROVE  loading' \/ arrived' # <<>>
    <3>1. OutrunIsReloaded /\ handoff # None
      BY <2>1 DEF CarryInv
    <3>2. \/ delivering' = delivering /\ (loading => loading') /\ arrived' = arrived
          \/ arrived' # <<>>
      <4> USE DEF handVars, webVars
      <4>1. CASE Authenticate \/ Clear \/ \E id \in PlayIds : Play(id)
        BY <4>1 DEF Authenticate, Clear, Play
      <4>2. CASE \E g \in DOMAIN redeems : RedemptionFails(g)
        BY <4>2 DEF RedemptionFails
      <4>3. CASE HandleLoaded \/ PostBootstrap \/ UNCHANGED extVars
        BY <2>3, <2>4, <3>1, <4>3
        DEF HandleLoaded, NothingToDeliver, OriginMismatch, Snapshot, PostBootstrap, extVars
      <4>4. CASE FailureLands \/ PageTalks
        BY <2>3, <3>1, <4>4 DEF FailureLands, PageTalks, ReadyArrives, FailureArrives, StoppedArrives
      <4>5. CASE Arrives
        <5>1. arrived \in Seq(Origins \cup {Elsewhere}) /\ target \in Origins \cup {None}
          BY DEF ExtInv, WebTypes, TypeOK
        <5> QED
          BY <4>5, <5>1, AppendProperties DEF Arrives
      <4>6. CASE HandlesMessage \/ ScriptTicks \/ ClientAppears \/ ScriptContinues
        BY <4>6 DEF HandlesMessage, ScriptTicks, ClientAppears, ScriptContinues, ScriptAlone
      <4> QED
        BY <1>4, <4>1, <4>2, <4>3, <4>4, <4>5, <4>6 DEF ExtNext
    <3> QED
      BY <2>2, <2>3, <2>4, <3>1, <3>2 DEF OutrunIsReloaded
  <2> QED
    BY <2>3, <2>4
<1> QED
  BY <1>3, <1>4 DEF Carried

\* The bootstrap the extension keeps for a page is always under way, for any
\* number of sign-ins, reloads, redirects, plays and sign-outs.
THEOREM HandoffsAreCarried == ExtSpec => []HandoffIsCarried
<1>1. ExtInit => CarryInv
  BY DEF ExtInit, CarryInv, HandoffIsCarried, OutrunIsReloaded, Current
<1>2. CarryInv => HandoffIsCarried
  BY DEF CarryInv
<1> QED
  BY <1>1, <1>2, ExtAlways, StepCarry, PTL DEF ExtSpec

(***************************************************************************)
(* The controller waits for a sign-in the extension still has.             *)
(***************************************************************************)

\* What is pending was answered: another answer is another redemption's.
PendingAnswered ==
  pending # None => pending.gen \in DOMAIN redeems /\ ~redeems[pending.gen].running

\* Only an answer or a fallback changes what is pending, other than dropping it.
PendingStep ==
  \/ \E g \in DOMAIN redeems, url \in Origins, fallback \in Origins \cup {None} :
       AuthRedeemed(g, url, fallback)
  \/ pending' \in {pending, None}
  \/ pending # None /\ pending'.gen = pending.gen

LEMMA PendingStepped == TypeOK /\ [Next]_vars => PendingStep
<1> SUFFICES ASSUME TypeOK, [Next]_vars
             PROVE  PendingStep
  OBVIOUS
<1>1. ASSUME NEW id \in FailureIds, TryFallback(id)
      PROVE  PendingStep
  <2>1. pending \in Bootstrap /\ pending # None
    BY <1>1 DEF TryFallback, HasFallback, TypeOK
  <2>2. pending'.gen = pending.gen
    BY <1>1, <2>1 DEF TryFallback, Bootstrap
  <2> QED
    BY <2>1, <2>2 DEF PendingStep
<1>2. CASE SessionClear
  BY <1>2 DEF SessionClear, PendingStep
<1>3. CASE SessionKept
  BY <1>3 DEF SessionKept, PendingStep
<1> QED
  BY <1>1, <1>2, <1>3, SessionStepped DEF SessionStep, PendingStep

\* A redemption that was answered is not answered again.
LEMMA AnsweredOnceForAll ==
  ASSUME TypeOK, [Next]_vars, NEW g \in DOMAIN redeems, ~redeems[g].running
  PROVE  g \in DOMAIN redeems' /\ ~redeems'[g].running
<1>1. redeems \in Seq(Redemption) /\ redeems[g] \in Redemption
  BY DEF TypeOK
<1>2. ASSUME NEW id \in AuthIds, NEW cut \in Nat, Started(id, cut)
      PROVE  g \in DOMAIN redeems' /\ redeems'[g] = redeems[g]
  <2>1. [id |-> id, epoch |-> authEpoch, key |-> proofs[id], running |-> TRUE] \in Redemption
    BY <1>2 DEF Started, Redemption, TypeOK
  <2> QED
    BY <1>1, <1>2, <2>1, AppendProperties, LenProperties DEF Started
<1>3. ASSUME NEW h \in DOMAIN redeems, Ended(h)
      PROVE  g \in DOMAIN redeems' /\ ~redeems'[g].running
  BY <1>1, <1>3 DEF Ended, Redemption
<1> QED
  BY <1>2, <1>3, AuthStepped DEF AuthStep, Minted, Forgot

LEMMA StepPendingAnswered ==
  TypeOK /\ PendingAnswered /\ [Next]_vars => PendingAnswered'
<1> SUFFICES ASSUME TypeOK, PendingAnswered, [Next]_vars
             PROVE  PendingAnswered'
  OBVIOUS
<1>1. ASSUME NEW g \in DOMAIN redeems, NEW url \in Origins,
             NEW fallback \in Origins \cup {None}, AuthRedeemed(g, url, fallback)
      PROVE  PendingAnswered'
  <2>1. redeems \in Seq(Redemption) /\ redeems[g] \in Redemption
    BY DEF TypeOK
  <2> QED
    BY <1>1, <2>1 DEF AuthRedeemed, Answered, PendingAnswered, Redemption
<1> QED
  BY <1>1, PendingStepped, AnsweredOnceForAll DEF PendingStep, PendingAnswered

\* What a step does to the two copies of a sign-in.
TogetherStep ==
  \/ \E g \in DOMAIN redeems, url \in Origins, fallback \in Origins \cup {None} :
       RedeemedArrives(g, url, fallback)
  \/ \E g \in DOMAIN redeems : RedemptionFails(g)
  \/ \E id \in FailureIds : TryFallback(id)
  \/ pending' = None
  \/ handoff' = handoff /\ pending' = pending

LEMMA TogetherStepped == ExtInv /\ [ExtNext]_extVars => TogetherStep
<1> SUFFICES ASSUME ExtInv, [ExtNext]_extVars
             PROVE  TogetherStep
  OBVIOUS
<1> USE DEF TogetherStep, handVars, pageVars
<1>1. ASSUME NEW id \in FailureIds, GiveUpOn(id)
      PROVE  TogetherStep
  BY <1>1 DEF GiveUpOn, BootstrapFailed
<1>2. CASE Authenticate
  BY <1>2 DEF Authenticate, AuthChallenge, BeginAuthComplete, RefuseAuthComplete
<1>3. CASE Clear \/ \E id \in PlayIds : Play(id)
  BY <1>3 DEF Clear, SessionClear, Play, PlayItem, RefusePlay
<1>4. CASE HandleLoaded
  <2>1. CASE OriginMismatch
    BY <1>1, <2>1 DEF OriginMismatch, ExtInv, HandInv, FailureIds
  <2> QED
    BY <1>4, <2>1 DEF HandleLoaded, NothingToDeliver, Snapshot, vars
<1>5. CASE FailureLands
  BY <1>1, <1>5 DEF FailureLands, ExtInv, HandInv, FailureIds
<1>6. CASE PageTalks
  BY <1>6 DEF PageTalks, ReadyArrives, FailureArrives, StoppedArrives, BootstrapReady,
              EndPlayback, vars
<1>7. CASE PostBootstrap \/ Arrives \/ HandlesMessage \/ ScriptTicks \/ ClientAppears
             \/ ScriptContinues \/ UNCHANGED extVars
  BY <1>7 DEF PostBootstrap, Arrives, HandlesMessage, ScriptTicks, ClientAppears,
              ScriptContinues, ScriptAlone, extVars, vars
<1> QED
  BY <1>2, <1>3, <1>4, <1>5, <1>6, <1>7 DEF ExtNext

PendingInv == ExtInv /\ PendingAnswered

LEMMA PendingAlways == ExtSpec => []PendingInv
<1>1. ExtInit => PendingAnswered
  BY DEF ExtInit, Init, PendingAnswered
<1>2. ExtInv /\ PendingAnswered /\ [ExtNext]_extVars => PendingAnswered'
  BY ExtStepImplements, StepPendingAnswered DEF ExtInv
<1> QED
  BY <1>1, <1>2, ExtAlways, PTL DEF ExtSpec, PendingInv

\* An answer is not that of the pending sign-in, which was answered before.
LEMMA AnsweredOther ==
  ASSUME PendingInv, pending # None, NEW g \in DOMAIN redeems,
         \/ \E url \in Origins, fallback \in Origins \cup {None} :
              RedeemedArrives(g, url, fallback)
         \/ RedemptionFails(g)
  PROVE  /\ g # pending.gen /\ pending.gen \in DOMAIN redeems /\ OtherAnswered
<1>1. redeems \in Seq(Redemption) /\ redeems[g] \in Redemption
  BY DEF PendingInv, ExtInv, TypeOK
<1>2. Answered(g)
  BY DEF RedeemedArrives, RedemptionFails, AuthRedeemed, AuthFailed, StaleAnswer
<1>3. redeems[g].running /\ ~redeems'[g].running
  BY <1>1, <1>2 DEF Answered, Redemption
<1>4. pending.gen \in DOMAIN redeems /\ ~redeems[pending.gen].running
  BY DEF PendingInv, PendingAnswered
<1> QED
  BY <1>3, <1>4 DEF OtherAnswered

\* The extension loses a sign-in the controller goes on waiting for only when a
\* fallback is tried or another ticket answered, for any number of either.
THEOREM TheyPartForCause == ExtSpec => PartsForCause
<1>1. ASSUME PendingInv, [ExtNext]_extVars, Together, ~Together', pending' # None
      PROVE  \/ pending.fallback # None /\ pending'.url = pending.fallback
             \/ OtherAnswered
  <2>1. pending # None /\ pending \in Bootstrap /\ ExtInv
    BY <1>1 DEF Together, PendingInv, ExtInv, TypeOK
  <2>2. CASE \/ \E g \in DOMAIN redeems, url \in Origins, fallback \in Origins \cup {None} :
                  RedeemedArrives(g, url, fallback)
             \/ \E g \in DOMAIN redeems : RedemptionFails(g)
    BY <1>1, <2>1, <2>2, AnsweredOther
  <2>3. CASE \E id \in FailureIds : TryFallback(id)
    BY <2>1, <2>3 DEF TryFallback, HasFallback, Bootstrap
  <2>4. ~(handoff' = handoff /\ pending' = pending)
    BY <1>1 DEF Together
  <2> QED
    BY <1>1, <2>1, <2>2, <2>3, <2>4, TogetherStepped DEF TogetherStep
<1>2. PendingInv /\ [ExtNext]_extVars
        => [Together /\ ~Together' /\ pending' # None =>
              \/ pending.fallback # None /\ pending'.url = pending.fallback
              \/ OtherAnswered]_extVars
  BY <1>1
<1> QED
  BY <1>2, PendingAlways, PTL DEF ExtSpec, PartsForCause

(***************************************************************************)
(* One ticket and one URL.                                                 *)
(***************************************************************************)
OneUrl == \A a, b \in Origins : a = b

\* With a single redemption the extension has what the controller waits for.
KeptTogether == pending # None /\ Len(redeems) = 1 => Together

LEMMA StepTogether ==
  ASSUME OneUrl, PendingInv, KeptTogether, [ExtNext]_extVars
  PROVE  KeptTogether'
<1> SUFFICES ASSUME pending' # None, Len(redeems') = 1
             PROVE  Together'
  BY DEF KeptTogether
<1>1. /\ ExtInv /\ TypeOK /\ PendingAnswered
      /\ redeems \in Seq(Redemption) /\ DOMAIN redeems = 1 .. Len(redeems) /\ Len(redeems) \in Nat
  BY LenProperties DEF PendingInv, ExtInv, TypeOK
<1>2. [Next]_vars
  BY <1>1, ExtStepImplements DEF ExtInv
<1>3. /\ redeems' \in Seq(Redemption) /\ DOMAIN redeems' = 1 .. 1
      /\ \A g \in DOMAIN redeems : g \in DOMAIN redeems'
  BY <1>1, <1>2, StepType, RedeemsKept, LenProperties DEF TypeOK
<1>4. \A g, h \in DOMAIN redeems : g = h
  BY <1>3
<1>5. ASSUME NEW g \in DOMAIN redeems, NEW url \in Origins,
             NEW fallback \in Origins \cup {None}, RedeemedArrives(g, url, fallback)
      PROVE  Together'
  <2>1. CASE AuthRedeemed(g, url, fallback)
    <3>1. redeems[g] \in Redemption
      BY <1>1
    <3>2. handoff' # None
      <4>1. g \in 1 .. MaxRedeems
        BY <1>1, BoundAssumption DEF ExtInv, RedeemsBounded
      <4> QED
        BY <1>5, <3>1, <4>1, HandoffAssumption DEF RedeemedArrives, Handoff, Redemption
    <3> QED
      BY <1>5, <2>1, <3>2 DEF RedeemedArrives, AuthRedeemed, Together
  <2>2. CASE StaleAnswer(g)
    <3>1. pending # None
      BY <2>2 DEF StaleAnswer, pageVars
    <3> QED
      BY <1>4, <1>5, <3>1, AnsweredOther
  <2> QED
    BY <1>5, <2>1, <2>2 DEF RedeemedArrives
<1>6. ASSUME NEW g \in DOMAIN redeems, RedemptionFails(g)
      PROVE  Together'
  <2>1. pending # None
    BY <1>6 DEF RedemptionFails, AuthFailed, StaleAnswer, pageVars
  <2> QED
    BY <1>4, <1>6, <2>1, AnsweredOther
<1>7. ASSUME NEW id \in FailureIds, TryFallback(id)
      PROVE  FALSE
  BY <1>1, <1>7 DEF TryFallback, HasFallback, OneUrl, TypeOK, Bootstrap
<1>8. CASE handoff' = handoff /\ pending' = pending
  <2>1. pending.gen \in 1 .. Len(redeems)
    BY <1>1, <1>8 DEF PendingAnswered
  <2>2. Len(redeems) = 1
    BY <1>1, <1>3, <2>1
  <2> QED
    BY <1>8, <2>2 DEF KeptTogether, Together
<1> QED
  BY <1>1, <1>5, <1>6, <1>7, <1>8, TogetherStepped DEF TogetherStep

\* Of a server with one URL, a sign-in that is pending while its ticket is the
\* only one redeemed is never stranded: its bootstrap is kept and under way.
THEOREM NothingIsStranded ==
  ASSUME OneUrl
  PROVE  ExtSpec => []NeverStranded
<1>1. ExtInit => KeptTogether
  BY DEF ExtInit, Init, KeptTogether
<1>2. PendingInv /\ KeptTogether /\ [ExtNext]_extVars => KeptTogether'
  BY StepTogether
<1>3. ExtSpec => []KeptTogether
  BY <1>1, <1>2, PendingAlways, PTL DEF ExtSpec
<1>4. ExtSpec => []SessionInv
  BY ImplementsController, SessionAlways, PTL DEF ControllerSpec
<1>5. KeptTogether /\ SessionInv /\ HandoffIsCarried => NeverStranded
  BY DEF KeptTogether, Together, SessionInv, SessionIsCurrent, HandoffIsCarried, Current,
         NeverStranded
<1> QED
  BY <1>3, <1>4, <1>5, HandoffsAreCarried, PTL
=============================================================================
