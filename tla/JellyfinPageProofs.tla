------------------------- MODULE JellyfinPageProofs -------------------------
(***************************************************************************)
(* A bootstrap is acknowledged only while its session is held, and an      *)
(* overtaken play goes no further, whatever the native side sends; and a   *)
(* page that is sent one bootstrap answers it once.  For any sessions,     *)
(* items and bounds.                                                       *)
(***************************************************************************)
EXTENDS JellyfinPage, SequenceTheorems, TLAPS

\* The bootstrap that is kept has attempts left.
Trying == boot # None => attempts < MaxAttempts

\* Generations of promise chains only grow, and the newest was asked for.
Chains ==
  /\ \A p \in plays : p.gen <= playGen /\ (p.gen = playGen => asked # None)
  /\ waiting # None => asked # None

Inv == TypeOK /\ Trying /\ Chains

\* What each step of the script does.
Adopted == \A g \in Gens : Ready(g) \in NewMessages => identity' = g
Stops == \A p \in plays' \ plays : p.gen = playGen' /\ asked' # None

\* Bootstrap b, or none, is what the script has in hand in this step: it keeps
\* it without an answer, or answers it and nothing else.
Silent == \A g \in Gens : Ready(g) \notin NewMessages /\ Failed(g) \notin NewMessages
Keeps(b) == boot' = b /\ answered' = answered /\ Silent
Answers(b) ==
  /\ b \in Gens /\ boot' = None /\ answered' = answered \cup {b}
  /\ \A g \in Gens : Ready(g) \in NewMessages \/ Failed(g) \in NewMessages => g = b

Good(b) == Inv' /\ Adopted /\ Stops /\ (Keeps(b) \/ Answers(b))

(***************************************************************************)
(* Messages.                                                               *)
(***************************************************************************)
LEMMA Messages ==
  ASSUME NEW g \in Gens, NEW h \in Gens, NEW item \in PlayIds
  PROVE  /\ Ready(g) \in Message /\ Failed(g) \in Message /\ Stopped(item) \in Message
         /\ Ready(g) # Failed(h) /\ Ready(g) # Stopped(item) /\ Failed(g) # Stopped(item)
         /\ Ready(g) = Ready(h) => g = h
         /\ Failed(g) = Failed(h) => g = h
<1>1. Ready(g).type = "session.ready" /\ Failed(h).type = "session.failed"
      /\ Failed(g).type = "session.failed" /\ Stopped(item).type = "playback.stopped"
      /\ Ready(g).gen = g /\ Ready(h).gen = h /\ Failed(g).gen = g /\ Failed(h).gen = h
  BY DEF Ready, Failed, Stopped
<1>2. Ready(g) \in Message /\ Failed(g) \in Message /\ Stopped(item) \in Message
  BY DEF Ready, Failed, Stopped, Message
<1> QED
  BY <1>1, <1>2

\* Nothing is new when nothing was posted.
LEMMA Quiet ==
  ASSUME outbox \in Seq(Message), outbox' = outbox
  PROVE  outbox' \in Seq(Message) /\ NewMessages = {}
  BY LenProperties DEF NewMessages

\* What was posted is what is new.
LEMMA PostedOne ==
  ASSUME outbox \in Seq(Message), NEW m \in Message, outbox' = outbox \o <<m>>
  PROVE  outbox' \in Seq(Message) /\ NewMessages = {m}
<1>1. <<m>> \in Seq(Message) /\ Len(<<m>>) = 1 /\ <<m>>[1] = m
  OBVIOUS
<1>2. /\ outbox' \in Seq(Message) /\ Len(outbox') = Len(outbox) + 1
      /\ outbox'[Len(outbox) + 1] = m
  BY <1>1, ConcatProperties, LenProperties
<1> QED
  BY <1>2, LenProperties DEF NewMessages

LEMMA PostedTwo ==
  ASSUME outbox \in Seq(Message), NEW m \in Message, NEW n \in Message,
         outbox' = (outbox \o <<m>>) \o <<n>>
  PROVE  outbox' \in Seq(Message) /\ NewMessages = {m, n}
<1> DEFINE one == outbox \o <<m>>
<1>1. /\ <<m>> \in Seq(Message) /\ Len(<<m>>) = 1 /\ <<m>>[1] = m
      /\ <<n>> \in Seq(Message) /\ Len(<<n>>) = 1 /\ <<n>>[1] = n
  OBVIOUS
<1>2. one \in Seq(Message) /\ Len(one) = Len(outbox) + 1 /\ one[Len(outbox) + 1] = m
  BY <1>1, ConcatProperties, LenProperties
<1> HIDE DEF one
<1>3. /\ outbox' = one \o <<n>>
      /\ Len(outbox) \in Nat
  BY LenProperties DEF one
<1>4. /\ outbox' \in Seq(Message) /\ Len(outbox') = Len(one) + 1
      /\ outbox'[Len(one) + 1] = n /\ outbox'[Len(outbox) + 1] = one[Len(outbox) + 1]
  BY <1>1, <1>2, <1>3, ConcatProperties
<1> QED
  BY <1>2, <1>3, <1>4 DEF NewMessages

(***************************************************************************)
(* playItem.                                                               *)
(***************************************************************************)

\* The types and the chains of the plays, before and after.
PlayTypes == playGen \in Nat /\ plays \in SUBSET Play
NoneLater == \A p \in plays : p.gen <= playGen /\ (p.gen = playGen => asked # None)

\* A play that starts is the newest.
LEMMA Starting ==
  ASSUME PlayTypes, NoneLater, NEW item \in PlayIds, NEW who, NEW posted,
         asked' # None, StartPlay(item, who, posted)
  PROVE  /\ PlayTypes' /\ NoneLater' /\ Stops
         /\ outbox' = posted \/ outbox' = posted \o <<Stopped(item)>>
<1>1. CASE who = None \/ client \notin Working
  BY <1>1 DEF StartPlay, PlayTypes, NoneLater, Stops
<1>2. CASE ~(who = None \/ client \notin Working)
  <2>1. PICK guarded \in BOOLEAN :
           plays' = plays \cup {[id |-> item, gen |-> playGen + 1, guarded |-> guarded,
                                 stage |-> IF guarded THEN "item" ELSE "play"]}
    BY <1>2 DEF StartPlay
  <2> DEFINE new == [id |-> item, gen |-> playGen + 1, guarded |-> guarded,
                     stage |-> IF guarded THEN "item" ELSE "play"]
  <2>2. new \in Play /\ new.gen = playGen + 1 /\ playGen' = playGen + 1 /\ outbox' = posted
    BY <1>2 DEF StartPlay, PlayTypes, Play
  <2> HIDE DEF new
  <2>3. plays' = plays \cup {new}
    BY <2>1 DEF new
  <2>4. \A p \in plays : p.gen \in Nat
    BY DEF PlayTypes, Play
  <2> QED
    BY <2>2, <2>3, <2>4 DEF PlayTypes, NoneLater, Stops
<1> QED
  BY <1>1, <1>2

\* A play keeps what was asked for, or asks for something itself.
AskedKept ==
  /\ asked' \in PlayIds \cup {None}
  /\ asked' = asked \/ asked' # None

\* Without a start and without a message nothing happens to the plays.
LEMMA PlaysStay ==
  ASSUME PlayTypes, NoneLater, AskedKept, UNCHANGED <<playGen, plays>>
  PROVE  PlayTypes' /\ NoneLater' /\ Stops
  BY DEF PlayTypes, NoneLater, AskedKept, Stops

(***************************************************************************)
(* applyBootstrap.                                                         *)
(***************************************************************************)

\* acknowledge answers the bootstrap it is about.
LEMMA Acknowledging ==
  ASSUME Inv, NEW b \in Gens, NEW wait \in PlayIds \cup {None},
         identity' = b, AskedKept, wait # None => asked' # None,
         Acknowledge(b, wait)
  PROVE  /\ outbox' \in Seq(Message) /\ Adopted /\ Answers(b)
         /\ PlayTypes' /\ NoneLater' /\ Stops
         /\ waiting' = None /\ ticking' = FALSE /\ answered' \in SUBSET Gens
<1>1. /\ boot' = None /\ waiting' = None /\ ticking' = FALSE
      /\ answered' \in SUBSET Gens /\ answered' = answered \cup {b}
  BY DEF Acknowledge, Inv, TypeOK
<1>2. PlayTypes /\ NoneLater /\ outbox \in Seq(Message)
  BY DEF Inv, TypeOK, Chains, PlayTypes, NoneLater
<1>3. Ready(b) \in Message /\ \A g \in Gens : Ready(g) = Ready(b) => g = b
  BY DEF Ready, Message
<1>4. \A g \in Gens : Failed(g) # Ready(b)
  BY DEF Ready, Failed
<1>5. CASE wait = None
  <2>1. outbox' = outbox \o <<Ready(b)>> /\ UNCHANGED <<playGen, plays>>
    BY <1>5 DEF Acknowledge
  <2>2. outbox' \in Seq(Message) /\ NewMessages = {Ready(b)}
    BY <1>2, <1>3, <2>1, PostedOne
  <2>3. PlayTypes' /\ NoneLater' /\ Stops
    BY <1>2, <2>1, PlaysStay
  <2> QED
    BY <1>1, <1>3, <1>4, <2>2, <2>3 DEF Adopted, Answers
<1>6. CASE wait # None
  <2>1. StartPlay(wait, b, outbox \o <<Ready(b)>>) /\ wait \in PlayIds
    BY <1>6 DEF Acknowledge
  <2>2. /\ PlayTypes' /\ NoneLater' /\ Stops
        /\ \/ outbox' = outbox \o <<Ready(b)>>
           \/ outbox' = (outbox \o <<Ready(b)>>) \o <<Stopped(wait)>>
    BY <1>2, <1>6, <2>1, Starting
  <2>3. Stopped(wait) \in Message
    BY <2>1 DEF Stopped, Message
  <2>4. \A g \in Gens : Ready(g) # Stopped(wait) /\ Failed(g) # Stopped(wait)
    BY <2>1, Messages
  <2>5. outbox' \in Seq(Message) /\ NewMessages \subseteq {Ready(b), Stopped(wait)}
    BY <1>2, <1>3, <2>2, <2>3, PostedOne, PostedTwo
  <2> QED
    BY <1>1, <1>3, <1>4, <2>2, <2>4, <2>5 DEF Adopted, Answers
<1> QED
  BY <1>5, <1>6

\* applyBootstrap, however it returns.
LEMMA Applying ==
  ASSUME Inv, NEW b \in Gens \cup {None}, NEW tried \in 0 .. MaxAttempts,
         NEW wait \in PlayIds \cup {None},
         b # None => tried < MaxAttempts,
         AskedKept, wait # None => asked' # None, client' = client,
         fresh' \in BOOLEAN, Apply(b, tried, wait)
  PROVE  Good(b)
<1>1. PlayTypes /\ NoneLater /\ outbox \in Seq(Message) /\ TypeOK /\ MaxAttempts \in Nat
  BY AttemptsAssumption DEF Inv, TypeOK, Chains, PlayTypes, NoneLater
<1>2. CASE \/ NothingToApply(b, tried, wait) \/ NotYet(b, tried, wait)
           \/ Validate(b, tried, wait) \/ AdoptInVain(b, tried, wait)
  <2>1. outbox' \in Seq(Message) /\ NewMessages = {}
    BY <1>1, <1>2, Quiet DEF NothingToApply, NotYet, Validate, AdoptInVain
  <2>2. PlayTypes' /\ NoneLater' /\ Stops
    BY <1>1, <1>2, PlaysStay DEF NothingToApply, NotYet, Validate, AdoptInVain
  <2>3. /\ boot' = b /\ waiting' = wait /\ answered' = answered /\ ticking' = ticking
        /\ attempts' \in 0 .. MaxAttempts /\ (b # None => attempts' < MaxAttempts)
    BY <1>1, <1>2 DEF NothingToApply, NotYet, Validate, AdoptInVain
  <2>4. /\ identity' \in Gens \cup {None} /\ stored' \in Gens \cup {None}
        /\ validating' \in Gens \cup {None} /\ lookups' \in SUBSET Gens
    BY <1>1, <1>2 DEF NothingToApply, NotYet, Validate, AdoptInVain, TypeOK
  <2>5. TypeOK'
    BY <1>1, <2>1, <2>2, <2>3, <2>4 DEF TypeOK, PlayTypes, AskedKept
  <2> QED
    BY <2>1, <2>2, <2>3, <2>5
    DEF Good, Keeps, Silent, Inv, Trying, Chains, NoneLater, Adopted
<1>3. CASE GiveUp(b, tried, wait)
  <2>1. b \in Gens /\ outbox' = outbox \o <<Failed(b)>>
    BY <1>3 DEF GiveUp
  <2>2. Failed(b) \in Message
    BY <2>1 DEF Failed, Message
  <2>3. outbox' \in Seq(Message) /\ NewMessages = {Failed(b)}
    BY <1>1, <2>1, <2>2, PostedOne
  <2>4. Adopted /\ Answers(b)
    BY <1>3, <2>1, <2>3 DEF Adopted, Answers, Ready, Failed, GiveUp
  <2>5. PlayTypes' /\ NoneLater' /\ Stops
    BY <1>1, <1>3, PlaysStay DEF GiveUp
  <2>6. attempts' \in 0 .. MaxAttempts
    BY <1>1, <1>3 DEF GiveUp
  <2>7. boot' = None /\ waiting' = wait /\ answered' = answered \cup {b} /\ ticking' = FALSE
        /\ UNCHANGED <<identity, stored, validating, lookups>>
    BY <1>3 DEF GiveUp
  <2>8. TypeOK'
    BY <1>1, <2>1, <2>3, <2>5, <2>6, <2>7 DEF TypeOK, PlayTypes, AskedKept
  <2> QED
    BY <2>4, <2>5, <2>7, <2>8 DEF Good, Inv, Trying, Chains, NoneLater
<1>4. CASE AdoptLegacy(b, tried, wait)
  <2>1. /\ b \in Gens /\ b # None /\ identity' = b /\ stored' = b /\ Acknowledge(b, wait)
        /\ attempts' \in 0 .. MaxAttempts /\ UNCHANGED <<validating, lookups>>
    BY <1>1, <1>4 DEF AdoptLegacy
  <2>2. /\ outbox' \in Seq(Message) /\ Adopted /\ Answers(b)
        /\ PlayTypes' /\ NoneLater' /\ Stops
        /\ waiting' = None /\ ticking' = FALSE /\ answered' \in SUBSET Gens
    BY <2>1, Acknowledging
  <2>3. TypeOK'
    BY <1>1, <2>1, <2>2 DEF TypeOK, PlayTypes, AskedKept, Answers
  <2> QED
    BY <2>1, <2>2, <2>3 DEF Good, Answers, Inv, Trying, Chains, NoneLater
<1> QED
  BY <1>2, <1>3, <1>4 DEF Apply

(***************************************************************************)
(* The steps.                                                              *)
(***************************************************************************)

\* A step that leaves messages, plays and the kept bootstrap alone.
LEMMA Calm ==
  ASSUME Inv, TypeOK', UNCHANGED <<boot, attempts, waiting, playGen, plays, outbox, asked,
                                   answered>>
  PROVE  Good(boot)
<1>1. NewMessages = {}
  BY Quiet DEF Inv, TypeOK
<1> QED
  BY <1>1 DEF Good, Keeps, Silent, Inv, Trying, Chains, Adopted, Stops

LEMMA TickGood == ASSUME Inv, Tick, fresh' \in BOOLEAN PROVE Good(boot)
<1>1. /\ boot \in Gens \cup {None} /\ attempts \in 0 .. MaxAttempts
      /\ waiting \in PlayIds \cup {None} /\ asked \in PlayIds \cup {None}
  BY DEF Inv, TypeOK
<1>2. /\ boot # None => attempts < MaxAttempts
      /\ waiting # None => asked' # None
      /\ AskedKept /\ client' = client
  BY <1>1 DEF Tick, Inv, Trying, Chains, AskedKept
<1>3. Apply(boot, attempts, waiting)
  BY DEF Tick
<1> QED
  BY <1>1, <1>2, <1>3, Applying

LEMMA BootstrapGood ==
  ASSUME Inv, NEW g \in Gens, OnBootstrap(g), fresh' \in BOOLEAN
  PROVE  Good(g)
<1>1. /\ waiting \in PlayIds \cup {None} /\ asked \in PlayIds \cup {None}
      /\ 0 \in 0 .. MaxAttempts /\ 0 < MaxAttempts
  BY AttemptsAssumption DEF Inv, TypeOK
<1>2. /\ AskedKept /\ client' = client
      /\ waiting # None => asked' # None
  BY <1>1 DEF OnBootstrap, Inv, Chains, AskedKept
<1>3. Apply(g, 0, waiting)
  BY DEF OnBootstrap
<1> QED
  BY <1>1, <1>2, <1>3, Applying

LEMMA PlayGood ==
  ASSUME Inv, NEW item \in PlayIds, OnPlay(item), fresh' \in BOOLEAN
  PROVE  Good(boot)
<1>1. /\ boot \in Gens \cup {None} /\ attempts \in 0 .. MaxAttempts
      /\ TypeOK /\ PlayTypes /\ NoneLater /\ outbox \in Seq(Message)
  BY DEF Inv, TypeOK, Chains, PlayTypes, NoneLater
<1>2. /\ item # None /\ asked' = item /\ client' = client
  BY NoPlayAssumption DEF OnPlay
<1>3. AskedKept /\ asked' # None
  BY <1>2 DEF AskedKept
<1>4. CASE boot = None /\ HasToken
  <2>1. StartPlay(item, identity, outbox) /\ UNCHANGED <<sessionVars, waiting, answered>>
    BY <1>4 DEF OnPlay
  <2>2. /\ PlayTypes' /\ NoneLater' /\ Stops
        /\ outbox' = outbox \/ outbox' = outbox \o <<Stopped(item)>>
    BY <1>1, <1>3, <2>1, Starting
  <2>3. Stopped(item) \in Message
    BY DEF Stopped, Message
  <2>4. outbox' \in Seq(Message) /\ NewMessages \subseteq {Stopped(item)}
    BY <1>1, <2>2, <2>3, Quiet, PostedOne
  <2>5. Adopted /\ Silent
    BY <2>4, Messages DEF Adopted, Silent
  <2>6. TypeOK'
    BY <1>1, <1>2, <2>1, <2>2, <2>4 DEF TypeOK, PlayTypes, sessionVars
  <2> QED
    BY <1>2, <1>3, <2>1, <2>2, <2>5, <2>6
    DEF Good, Keeps, Inv, Trying, Chains, NoneLater, sessionVars
<1>5. CASE ~(boot = None /\ HasToken)
  <2>1. Apply(boot, attempts, item)
    BY <1>5 DEF OnPlay
  <2>2. boot # None => attempts < MaxAttempts
    BY DEF Inv, Trying
  <2> QED
    BY <1>1, <1>2, <1>3, <2>1, <2>2, Applying
<1> QED
  BY <1>4, <1>5

LEMMA ClearGood == ASSUME Inv, OnClear, fresh' \in BOOLEAN PROVE Good(None)
<1>1. /\ boot' = None /\ waiting' = None /\ playGen' = playGen + 1 /\ asked' = None
      /\ identity' \in {None, identity}
      /\ UNCHANGED <<client, stored, attempts, ticking, validating, lookups, plays, outbox,
                     answered>>
  BY DEF OnClear
<1>2. TypeOK'
  BY <1>1 DEF Inv, TypeOK
<1>3. NewMessages = {}
  BY <1>1, Quiet DEF Inv, TypeOK
<1>4. \A p \in plays : p.gen \in Nat
  BY DEF Inv, TypeOK, Play
<1>5. playGen \in Nat
  BY DEF Inv, TypeOK
<1>6. Chains'
  BY <1>1, <1>4, <1>5 DEF Inv, Chains
<1> QED
  BY <1>1, <1>2, <1>3, <1>6 DEF Good, Keeps, Silent, Inv, Trying, Adopted, Stops

\* A page load forgets everything, the answers included.
Forgets == Inv' /\ Adopted /\ Stops /\ boot' = None /\ answered' = {} /\ Silent

LEMMA LoadForgets == ASSUME Inv, Load, fresh' \in BOOLEAN PROVE Forgets
<1>1. /\ client' = "absent" /\ identity' = None
      /\ boot' = None /\ attempts' = 0 /\ ticking' = TRUE
      /\ validating' = None /\ lookups' = {} /\ stored' = stored /\ outbox' = outbox
      /\ waiting' = None /\ playGen' = 0 /\ plays' = {} /\ asked' = None /\ answered' = {}
  BY DEF Load
<1>2. 0 \in 0 .. MaxAttempts
  BY AttemptsAssumption
<1>3. TypeOK'
  BY <1>1, <1>2 DEF Inv, TypeOK, Clients
<1>4. NewMessages = {}
  BY <1>1, Quiet DEF Inv, TypeOK
<1> QED
  BY <1>1, <1>3, <1>4 DEF Forgets, Silent, Inv, Trying, Chains, Adopted, Stops

LEMMA TakenGood == ASSUME Inv, Taken, fresh' \in BOOLEAN PROVE Good(boot)
<1>1. /\ outbox # <<>> /\ outbox' = Tail(outbox)
      /\ UNCHANGED <<client, sessionVars, playVars, answered, asked>>
  BY DEF Taken
<1>2. outbox \in Seq(Message)
  BY DEF Inv, TypeOK
<1>3. /\ outbox' \in Seq(Message) /\ Len(outbox') = Len(outbox) - 1 /\ Len(outbox) \in Nat
  BY <1>1, <1>2, HeadTailProperties, LenProperties
<1>4. NewMessages = {}
  BY <1>3 DEF NewMessages
<1> QED
  BY <1>1, <1>3, <1>4
  DEF Good, Keeps, Silent, Inv, TypeOK, Trying, Chains, Adopted, Stops, sessionVars, playVars

LEMMA LookupGood ==
  ASSUME Inv, NEW g \in lookups, NEW succeeded \in BOOLEAN,
         LookupSettles(g, succeeded), fresh' \in BOOLEAN
  PROVE  Good(boot)
<1>1. /\ lookups' = lookups \ {g} /\ validating' = None
      /\ UNCHANGED <<client, identity, stored, attempts, asked>>
      /\ TypeOK /\ g \in Gens
  BY DEF LookupSettles, Inv, TypeOK
<1>2. CASE succeeded /\ boot = g /\ identity = g
  <2>1. Acknowledge(g, waiting)
    BY <1>2 DEF LookupSettles
  <2>2. /\ identity' = g /\ AskedKept /\ waiting \in PlayIds \cup {None}
        /\ waiting # None => asked' # None
    BY <1>1, <1>2 DEF Inv, TypeOK, Chains, AskedKept
  <2>3. /\ outbox' \in Seq(Message) /\ Adopted /\ Answers(g)
        /\ PlayTypes' /\ NoneLater' /\ Stops
        /\ waiting' = None /\ ticking' = FALSE /\ answered' \in SUBSET Gens
    BY <1>1, <2>1, <2>2, Acknowledging
  <2>4. TypeOK'
    BY <1>1, <2>3 DEF TypeOK, PlayTypes, Answers
  <2> QED
    BY <1>2, <2>3, <2>4 DEF Good, Answers, Inv, Trying, Chains, NoneLater
<1>3. CASE ~(succeeded /\ boot = g /\ identity = g)
  <2>1. UNCHANGED <<boot, ticking, waiting, playGen, plays, outbox, answered>>
    BY <1>3 DEF LookupSettles
  <2>2. TypeOK'
    BY <1>1, <2>1 DEF TypeOK
  <2> QED
    BY <1>1, <2>1, <2>2, Calm
<1> QED
  BY <1>2, <1>3

LEMMA ItemGood ==
  ASSUME Inv, NEW p \in plays, ItemSettles(p), fresh' \in BOOLEAN
  PROVE  Good(boot)
<1> DEFINE next == [p EXCEPT !.stage = "play"]
<1>1. /\ plays' = IF p.gen = playGen THEN (plays \ {p}) \cup {next} ELSE plays \ {p}
      /\ UNCHANGED <<client, sessionVars, waiting, playGen, outbox, asked, answered>>
  BY DEF ItemSettles
<1>2. p \in Play /\ next \in Play /\ next.gen = p.gen
  BY DEF Inv, TypeOK, Play
<1> HIDE DEF next
<1>3. /\ plays' \in SUBSET Play
      /\ \A q \in plays' \ plays : q = next /\ p.gen = playGen
  BY <1>1, <1>2 DEF Inv, TypeOK
<1>4. TypeOK'
  BY <1>1, <1>3 DEF Inv, TypeOK, sessionVars
<1>5. NewMessages = {}
  BY <1>1, Quiet DEF Inv, TypeOK
<1>6. p.gen = playGen => asked # None
  BY DEF Inv, Chains
<1>7. Stops
  BY <1>1, <1>2, <1>3, <1>6 DEF Stops
<1>8. playGen \in Nat
  BY DEF Inv, TypeOK
<1>9. Chains'
  BY <1>1, <1>2, <1>3, <1>6, <1>8 DEF Inv, Chains
<1> QED
  BY <1>1, <1>4, <1>5, <1>7, <1>9
  DEF Good, Keeps, Silent, Inv, Trying, Adopted, sessionVars

LEMMA PlaybackGood ==
  ASSUME Inv, NEW p \in plays, NEW succeeded \in BOOLEAN, PlaySettles(p, succeeded),
         fresh' \in BOOLEAN
  PROVE  Good(boot)
<1>1. /\ plays' = plays \ {p}
      /\ outbox' = outbox \/ outbox' = outbox \o <<Stopped(p.id)>>
      /\ UNCHANGED <<client, sessionVars, waiting, playGen, asked, answered>>
  BY DEF PlaySettles
<1>2. outbox \in Seq(Message) /\ p.id \in PlayIds
  BY DEF Inv, TypeOK, Play
<1>3. Stopped(p.id) \in Message
  BY <1>2 DEF Stopped, Message
<1>4. outbox' \in Seq(Message) /\ NewMessages \subseteq {Stopped(p.id)}
  BY <1>1, <1>2, <1>3, Quiet, PostedOne
<1>5. Adopted /\ Silent
  BY <1>2, <1>4, Messages DEF Adopted, Silent
<1>6. TypeOK'
  BY <1>1, <1>4 DEF Inv, TypeOK, sessionVars
<1> QED
  BY <1>1, <1>5, <1>6 DEF Good, Keeps, Inv, Trying, Chains, Stops, sessionVars

\* ClientStarts, ClientWorks, ClientForgets.
LEMMA ClientGood ==
  ASSUME Inv, ClientStarts \/ ClientWorks \/ ClientForgets, fresh' \in BOOLEAN
  PROVE  Good(boot)
<1>1. /\ client' \in Clients /\ identity' \in Gens \cup {None}
      /\ UNCHANGED <<stored, boot, attempts, ticking, validating, lookups, playVars, outbox,
                     asked, answered>>
  BY DEF ClientStarts, ClientWorks, ClientForgets, Inv, TypeOK, Clients, Working, sessionVars
<1>2. TypeOK'
  BY <1>1 DEF Inv, TypeOK, playVars
<1> QED
  BY <1>1, <1>2, Calm DEF playVars

\* What the script does by itself.
LEMMA PageStepGood == ASSUME Inv, PageStep, fresh' \in BOOLEAN PROVE Good(boot)
<1>1. ASSUME NEW g \in lookups, NEW succeeded \in BOOLEAN, LookupSettles(g, succeeded)
      PROVE  Good(boot)
  BY <1>1, LookupGood
<1>2. ASSUME NEW p \in plays, ItemSettles(p)
      PROVE  Good(boot)
  BY <1>2, ItemGood
<1>3. ASSUME NEW p \in plays, NEW succeeded \in BOOLEAN, PlaySettles(p, succeeded)
      PROVE  Good(boot)
  BY <1>3, PlaybackGood
<1>4. CASE ClientWorks \/ ClientForgets
  BY <1>4, ClientGood
<1> QED
  BY <1>1, <1>2, <1>3, <1>4 DEF PageStep

LEMMA StutterGood == ASSUME Inv, UNCHANGED vars PROVE Good(boot)
<1>1. TypeOK'
  BY DEF Inv, TypeOK, vars, pageVars, sessionVars, playVars
<1> QED
  BY <1>1, Calm DEF vars, pageVars, sessionVars, playVars

(***************************************************************************)
(* The script under any native side.                                       *)
(***************************************************************************)
LEMMA ScriptGood ==
  Inv /\ [ScriptNext /\ fresh' \in BOOLEAN]_vars => Inv' /\ Adopted /\ Stops
<1> SUFFICES ASSUME Inv, [ScriptNext /\ fresh' \in BOOLEAN]_vars
             PROVE  Inv' /\ Adopted /\ Stops
  OBVIOUS
<1> USE DEF Good
<1>1. CASE fresh' \in BOOLEAN /\ (Tick \/ ClientStarts \/ PageStep \/ Taken)
  BY <1>1, TickGood, ClientGood, PageStepGood, TakenGood
<1>2. ASSUME NEW g \in Gens, OnBootstrap(g), fresh' \in BOOLEAN
      PROVE  Inv' /\ Adopted /\ Stops
  BY <1>2, BootstrapGood
<1>3. ASSUME NEW item \in PlayIds, OnPlay(item), fresh' \in BOOLEAN
      PROVE  Inv' /\ Adopted /\ Stops
  BY <1>3, PlayGood
<1>4. CASE fresh' \in BOOLEAN /\ OnClear
  BY <1>4, ClearGood
<1>5. CASE fresh' \in BOOLEAN /\ Load
  BY <1>5, LoadForgets DEF Forgets
<1>6. CASE UNCHANGED vars
  BY <1>6, StutterGood
<1> QED
  BY <1>1, <1>2, <1>3, <1>4, <1>5, <1>6 DEF ScriptNext

LEMMA InstalledInv == Installed /\ fresh \in BOOLEAN => Inv
<1> SUFFICES ASSUME Installed, fresh \in BOOLEAN PROVE Inv
  OBVIOUS
<1>1. 0 \in 0 .. MaxAttempts /\ <<>> \in Seq(Message)
  BY AttemptsAssumption
<1> QED
  BY <1>1 DEF Installed, Inv, TypeOK, Trying, Chains, Clients

LEMMA Invariance == ScriptSpec => []Inv
<1>1. Inv /\ [ScriptNext /\ fresh' \in BOOLEAN]_vars => Inv'
  BY ScriptGood
<1> QED
  BY InstalledInv, <1>1, PTL DEF ScriptSpec

\* The script's state is well typed, its attempts within their limit.
THEOREM TypeCorrect == ScriptSpec => []TypeOK
<1>1. Inv => TypeOK
  BY DEF Inv
<1> QED
  BY <1>1, Invariance, PTL

\* session.ready is posted only while the ApiClient holds the session, for any
\* number of sessions, items and attempts (acknowledge).
THEOREM ReadyIsAlwaysAdopted == ScriptSpec => ReadyIsAdopted
<1>1. Inv /\ [ScriptNext /\ fresh' \in BOOLEAN]_vars
        => [\A g \in Gens : Ready(g) \in NewMessages => identity' = g]_vars
  BY ScriptGood DEF Adopted
<1> QED
  BY <1>1, Invariance, PTL DEF ScriptSpec, ReadyIsAdopted

\* An overtaken or cleared play never calls playbackManager.play (playItem).
THEOREM OvertakenPlaysStop == ScriptSpec => OvertakenPlayStops
<1>1. Inv /\ [ScriptNext /\ fresh' \in BOOLEAN]_vars
        => [\A p \in plays' \ plays : p.gen = playGen' /\ asked' # None]_vars
  BY ScriptGood DEF Stops
<1> QED
  BY <1>1, Invariance, PTL DEF ScriptSpec, OvertakenPlayStops

(***************************************************************************)
(* The native side that sends one bootstrap to each page.                  *)
(***************************************************************************)

\* It is one of those the script may meet.
LEMMA NextIsScript == Inv /\ [Next]_vars => [ScriptNext /\ fresh' \in BOOLEAN]_vars
  BY DEF Inv, TypeOK, Next, ScriptNext, PageTick, PageClientStarts, NativeBootstrap,
         NativePlay, NativeClear, PageLoad, NativeTakes

THEOREM ImplementsScript == Spec => ScriptSpec
<1>1. Init => Installed /\ fresh \in BOOLEAN
  BY DEF Init
<1>2. Inv /\ [Next]_vars => Inv'
  BY NextIsScript, ScriptGood
<1> QED
  BY <1>1, <1>2, InstalledInv, NextIsScript, PTL DEF Spec, ScriptSpec

\* The bootstrap that is kept was not answered, and a page that was sent none
\* has answered none.
Unanswered == boot # None => boot \notin answered
FreshPage == fresh => boot = None /\ answered = {}
OneAtMost == Unanswered /\ FreshPage

Once == \A g \in Gens : Ready(g) \in NewMessages \/ Failed(g) \in NewMessages
                          => g \notin answered

\* A step with the kept bootstrap or none in hand answers nothing twice.
LEMMA HandOnce ==
  ASSUME NEW b, Good(b), b \in {boot, None}, Unanswered, FreshPage, fresh' = fresh
  PROVE  OneAtMost' /\ Once
<1>1. CASE Keeps(b)
  BY <1>1 DEF Keeps, Silent, OneAtMost, Unanswered, FreshPage, Once
<1>2. CASE Answers(b)
  BY <1>2, NoPlayAssumption DEF Answers, OneAtMost, Unanswered, FreshPage, Once
<1> QED
  BY <1>1, <1>2 DEF Good

LEMMA NextOnce == Inv /\ OneAtMost /\ [Next]_vars => OneAtMost' /\ Once
<1> SUFFICES ASSUME Inv, OneAtMost, [Next]_vars
             PROVE  OneAtMost' /\ Once
  OBVIOUS
<1>1. fresh \in BOOLEAN /\ Unanswered /\ FreshPage
  BY DEF Inv, TypeOK, OneAtMost
<1>2. CASE PageTick \/ PageClientStarts \/ NativeTakes \/ UNCHANGED vars
  <2>1. Good(boot) /\ fresh' = fresh
    BY <1>1, <1>2, TickGood, ClientGood, TakenGood, StutterGood
    DEF PageTick, PageClientStarts, NativeTakes, vars
  <2> QED
    BY <1>1, <2>1, HandOnce
<1>3. CASE PageStep /\ UNCHANGED fresh
  <2>1. Good(boot) /\ fresh' = fresh
    BY <1>1, <1>3, PageStepGood
  <2> QED
    BY <1>1, <2>1, HandOnce
<1>4. ASSUME NEW item \in PlayIds, NativePlay(item)
      PROVE  OneAtMost' /\ Once
  <2>1. Good(boot) /\ fresh' = fresh
    BY <1>1, <1>4, PlayGood DEF NativePlay
  <2> QED
    BY <1>1, <2>1, HandOnce
<1>5. CASE NativeClear
  <2>1. Good(None) /\ fresh' = fresh
    BY <1>1, <1>5, ClearGood DEF NativeClear
  <2> QED
    BY <1>1, <2>1, HandOnce
<1>6. ASSUME NEW g \in Gens, NativeBootstrap(g)
      PROVE  OneAtMost' /\ Once
  <2>1. Good(g) /\ fresh' = FALSE /\ answered = {}
    BY <1>1, <1>6, BootstrapGood DEF NativeBootstrap, FreshPage
  <2> QED
    BY <2>1 DEF Good, Keeps, Answers, Silent, OneAtMost, Unanswered, FreshPage, Once
<1>7. CASE PageLoad
  <2>1. Forgets
    BY <1>7, LoadForgets DEF PageLoad
  <2> QED
    BY <2>1 DEF Forgets, Silent, OneAtMost, Unanswered, FreshPage, Once
<1> QED
  BY <1>2, <1>3, <1>4, <1>5, <1>6, <1>7 DEF Next

\* No bootstrap is answered twice in one page (applyBootstrap, acknowledge).
THEOREM SessionsAreAnsweredOnce == Spec => AnsweredOnce
<1>1. Init => OneAtMost
  BY DEF Init, Installed, OneAtMost, Unanswered, FreshPage
<1>2. Inv /\ OneAtMost /\ [Next]_vars
        => OneAtMost' /\ [\A g \in Gens : Ready(g) \in NewMessages \/ Failed(g) \in NewMessages
                           => g \notin answered]_vars
  BY NextOnce DEF Once
<1> QED
  BY <1>1, <1>2, Invariance, ImplementsScript, PTL DEF Spec, AnsweredOnce
=============================================================================
