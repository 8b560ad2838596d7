---------------------------- MODULE SetupProofs -----------------------------
(***************************************************************************)
(* What is shown, what tickets are redeemed at and what is saved stay one  *)
(* server, for any servers, calls and starts.  The invariant behind it     *)
(* says that at most one save is under way, and only while the page that   *)
(* asked for it is there and waits.                                        *)
(***************************************************************************)
EXTENDS Setup, ControllerProofs

CallEvent == [id : SetupIds, kind : EventKinds \cup {"odd-status"}]

\* As much of SetupTypeOK as the calls need.
Types ==
  /\ \A c \in checks : c.id \in SetupIds
  /\ navigating \in Servers \cup {SetupDoc, None}
  /\ saving \in SetupIds \cup {None, Opening}
  /\ sent \in Seq(Command)
  /\ storing \in [id : SetupIds, url : Servers, stored : BOOLEAN] \cup {None}
  /\ arriving \in Seq(CallEvent)

Untold(id) == told[id] = "nothing"

\* A call is in one place at a time, and is told nothing before it is answered.
CommandsApart ==
  /\ \A n \in DOMAIN sent : Untold(sent[n].id)
  /\ \A m, n \in DOMAIN sent : sent[m].id = sent[n].id => m = n

StoringApart ==
  storing # None => /\ Untold(storing.id)
                    /\ \A n \in DOMAIN sent : sent[n].id # storing.id

ChecksApart ==
  /\ \A c \in checks : /\ Untold(c.id)
                       /\ storing # None => storing.id # c.id
                       /\ \A n \in DOMAIN sent : sent[n].id # c.id
  /\ \A c, d \in checks : c.id = d.id => c = d

AnswersTold == \A n \in DOMAIN arriving : ~Untold(arriving[n].id)

\* Nothing is on its way while the application is not running.
OffIsEmpty == page = "none" => sent = <<>> /\ storing = None /\ checks = {} /\ arriving = <<>>

Calls == CommandsApart /\ StoringApart /\ ChecksApart /\ AnswersTold /\ OffIsEmpty

\* The page waits for the save, which is the only one: its id is saving.
Waits(id) == page = "setup" /\ navigating = None /\ saving = id /\ opened = None

OneSave ==
  /\ \A n \in DOMAIN sent : sent[n].type = "save" => storing = None /\ Waits(sent[n].id)
  /\ storing # None => Waits(storing.id)

\* After a save that succeeded the page goes on waiting until it is replaced.
Done == navigating \in Servers \/ (page = "setup" /\ opened # None)

DoneWaits ==
  /\ navigating \in Servers => page = "setup"
  /\ Done => /\ saving # None
             /\ saving \in SetupIds => ~Untold(saving)
             /\ \A n \in DOMAIN arriving : arriving[n].id = saving => arriving[n].kind # "error"

\* The app the window is told to load is the one tickets are redeemed at.
Handed == navigating \in Servers => frontend = navigating

\* The window is told of the setup page while the app is shown.
Opened == navigating = SetupDoc => page = "app" /\ opened = None

Stored == storing # None /\ storing.stored => config = [mode |-> "remote", url |-> storing.url]

Inv == Types /\ Calls /\ OneSave /\ DoneWaits /\ Handed /\ Opened /\ Stored
         /\ OpenedIsSaved /\ RedeemedWhereShown

(***************************************************************************)
(* Queues and posts.                                                       *)
(***************************************************************************)
LEMMA Appended ==
  ASSUME NEW S, NEW s \in Seq(S), NEW e \in S
  PROVE  /\ Append(s, e) \in Seq(S)
         /\ \A n \in DOMAIN Append(s, e) :
              \/ n \in DOMAIN s /\ Append(s, e)[n] = s[n]
              \/ n = Len(s) + 1 /\ Append(s, e)[n] = e
         /\ Len(s) + 1 \notin DOMAIN s
  BY LenProperties, AppendProperties

LEMMA Tailed ==
  ASSUME NEW S, NEW s \in Seq(S), s # <<>>
  PROVE  /\ Tail(s) \in Seq(S)
         /\ 1 \in DOMAIN s /\ Head(s) = s[1] /\ Head(s) \in S
         /\ \A n \in DOMAIN Tail(s) : n \in Nat \ {0} /\ n + 1 \in DOMAIN s /\ Tail(s)[n] = s[n + 1]
  BY LenProperties, HeadTailProperties, EmptySeq

LEMMA PostsNothing ==
  ASSUME Post(<<>>)
  PROVE  posted' = <<>> /\ \A id \in SetupIds : told'[id] = told[id]
  BY DEF Post, LastKind, Ids

LEMMA PostsOne ==
  ASSUME NEW i \in SetupIds, NEW kind \in EventKinds, Post(<<Ev(i, kind)>>)
  PROVE  /\ posted' = <<[id |-> i, kind |-> kind]>> /\ told'[i] = kind
         /\ \A id \in SetupIds : id # i => told'[id] = told[id]
<1> DEFINE events == <<Ev(i, kind)>>
<1>1. DOMAIN events = {1} /\ events[1].id = i /\ events[1].kind = kind
  BY DEF Ev
<1>2. LastKind(events, i) = kind
  <2> DEFINE mine == {n \in DOMAIN events : events[n].id = i}
  <2>1. mine = {1}
    BY <1>1
  <2>2. (CHOOSE n \in mine : \A m \in mine : m <= n) = 1
    BY <2>1
  <2> QED
    BY <1>1, <2>1, <2>2 DEF LastKind
<1>3. ASSUME NEW id \in SetupIds, id # i
      PROVE  LastKind(events, id) = told[id]
  BY <1>1, <1>3 DEF LastKind
<1> QED
  BY <1>2, <1>3 DEF Post, Ids, Ev

\* The page is sent what the controller posts.
LEMMA Delivered ==
  ASSUME arriving \in Seq(CallEvent), NEW i \in SetupIds, NEW kind \in EventKinds,
         Post(<<Ev(i, kind)>>), arriving' = arriving \o posted'
  PROVE  arriving' = Append(arriving, Ev(i, kind))
<1>1. posted' = <<Ev(i, kind)>>
  BY DEF Post
<1>2. Ev(i, kind) \in CallEvent
  BY DEF CallEvent, Ev
<1> QED
  BY <1>1, <1>2

(***************************************************************************)
(* Starting and stopping.                                                  *)
(***************************************************************************)
LEMMA InitInv == SetupInit => Inv
<1> SUFFICES ASSUME SetupInit
             PROVE  Inv
  OBVIOUS
<1> USE DEF SetupInit, Init
<1>1. Types
  BY DEF Types
<1>2. Calls
  BY DEF Calls, CommandsApart, StoringApart, ChecksApart, AnswersTold, OffIsEmpty
<1>3. OneSave /\ DoneWaits /\ Handed /\ Opened /\ Stored
  BY NamesAssumption DEF OneSave, DoneWaits, Done, Handed, Opened, Stored
<1> QED
  BY <1>1, <1>2, <1>3 DEF Inv, OpenedIsSaved, RedeemedWhereShown

\* A start has nothing to forget, and what is gone leaves nothing on its way.
LEMMA BootInv == ASSUME Inv, NEW flag \in BOOLEAN, Boot(flag) PROVE Inv'
<1> USE DEF Boot, Shows, ShowsSetup, NewController, NewDocument
<1>1. sent = <<>> /\ storing = None /\ arriving = <<>>
  BY DEF Inv, Calls, OffIsEmpty
<1>2. Types'
  BY <1>1 DEF Inv, Types
<1>3. Calls'
  BY <1>1 DEF Calls, CommandsApart, StoringApart, ChecksApart, AnswersTold, OffIsEmpty
<1>4. OneSave' /\ DoneWaits' /\ Handed' /\ Opened' /\ Stored'
  BY <1>1, NamesAssumption DEF OneSave, DoneWaits, Done, Handed, Opened, Stored
<1>5. OpenedIsSaved'
  BY DEF Inv, OpenedIsSaved
<1>6. RedeemedWhereShown'
  BY DEF RedeemedWhereShown
<1> QED
  BY <1>2, <1>3, <1>4, <1>5, <1>6 DEF Inv

LEMMA GoneInv == ASSUME Inv, Gone PROVE Inv'
<1> USE DEF Gone, NewController, NewDocument
<1>1. Types'
  BY DEF Types
<1>2. Calls'
  BY DEF Calls, CommandsApart, StoringApart, ChecksApart, AnswersTold, OffIsEmpty
<1>3. OneSave' /\ DoneWaits' /\ Handed' /\ Opened' /\ Stored'
  BY NamesAssumption DEF OneSave, DoneWaits, Done, Handed, Opened, Stored
<1> QED
  BY <1>1, <1>2, <1>3 DEF Inv, OpenedIsSaved, RedeemedWhereShown

LEMMA IdsTyped ==
  ASSUME Types
  PROVE  /\ \A n \in DOMAIN sent : sent[n].id \in SetupIds
         /\ \A n \in DOMAIN arriving : arriving[n].id \in SetupIds
         /\ \A c \in checks : c.id \in SetupIds
         /\ storing # None => storing.id \in SetupIds
<1>1. \A n \in DOMAIN sent : sent[n] \in Command
  BY LenProperties DEF Types
<1>2. \A n \in DOMAIN arriving : arriving[n] \in CallEvent
  BY LenProperties DEF Types
<1>3. \A c \in checks : c.id \in SetupIds
  BY DEF Types
<1>4. storing # None => storing \in [id : SetupIds, url : Servers, stored : BOOLEAN]
  BY DEF Types
<1> QED
  BY <1>1, <1>2, <1>3, <1>4 DEF Command, CallEvent

\* The steps that post nothing to the page and move no call leave Calls alone.
LEMMA CallsKept ==
  ASSUME Types, Calls, \A id \in SetupIds : told'[id] = told[id],
         checks' = checks, sent' = sent, arriving' = arriving,
         storing' # None => storing # None /\ storing'.id = storing.id,
         page' = "none" => page = "none" /\ storing' = storing
  PROVE  Calls'
<1> USE DEF Untold
<1>1. /\ \A n \in DOMAIN sent : sent[n].id \in SetupIds
      /\ \A n \in DOMAIN arriving : arriving[n].id \in SetupIds
      /\ \A c \in checks : c.id \in SetupIds
      /\ storing # None => storing.id \in SetupIds
  BY IdsTyped
<1>2. CommandsApart'
  BY <1>1 DEF Calls, CommandsApart
<1>3. StoringApart'
  BY <1>1 DEF Calls, StoringApart
<1>4. ChecksApart'
  BY <1>1 DEF Calls, ChecksApart
<1>5. AnswersTold'
  BY <1>1 DEF Calls, AnswersTold
<1>6. OffIsEmpty'
  BY DEF Calls, OffIsEmpty
<1> QED
  BY <1>2, <1>3, <1>4, <1>5, <1>6 DEF Calls

LEMMA CloseInv == ASSUME Inv, Close PROVE Inv'
<1> USE DEF Close, Shutdown, windowVars, pageSide, setupVars, Inv
<1>1. \A id \in SetupIds : told'[id] = told[id]
  BY PostsNothing
<1>2. Types'
  BY DEF Types
<1>3. Calls'
  BY <1>1, CallsKept
<1>4. OneSave' /\ Handed' /\ Opened' /\ Stored' /\ OpenedIsSaved' /\ RedeemedWhereShown'
  BY DEF OneSave, Waits, Handed, Opened, Stored, OpenedIsSaved, RedeemedWhereShown
<1>5. DoneWaits'
  BY <1>1 DEF DoneWaits, Done, Untold
<1> QED
  BY <1>2, <1>3, <1>4, <1>5

\* Another process changes the file, and with it what counts as stored.
LEMMA CliInv == ASSUME Inv, NEW new \in Config, Cli(new) PROVE Inv'
<1> USE DEF Cli, vars, authVars, setupVars, viewVars, pageVars, outVars, windowVars, pageSide
<1> DEFINE Saves == [id : SetupIds, url : Servers, stored : BOOLEAN]
<1>0. \A s \in Saves : /\ [s EXCEPT !.stored = FALSE] \in Saves
                       /\ [s EXCEPT !.stored = FALSE].id = s.id
                       /\ [s EXCEPT !.stored = FALSE].stored = FALSE
  OBVIOUS
<1>1. /\ storing' # None => storing # None /\ storing'.id = storing.id /\ ~storing'.stored
      /\ storing' \in Saves \cup {None}
  <2>1. CASE storing = None
    BY <2>1
  <2>2. CASE storing # None
    <3>1. storing \in Saves /\ storing' = [storing EXCEPT !.stored = FALSE]
      BY <2>2 DEF Inv, Types
    <3> QED
      BY <1>0, <2>2, <3>1
  <2> QED
    BY <2>1, <2>2
<1>2. Types'
  BY <1>1 DEF Inv, Types
<1>3. Calls'
  <2>1. Types /\ Calls /\ (page = "none" => storing = None)
    BY DEF Inv, Calls, OffIsEmpty
  <2>2. told' = told /\ checks' = checks /\ sent' = sent /\ arriving' = arriving /\ page' = page
        /\ (page' = "none" => storing' = storing)
    BY <2>1
  <2> QED
    BY <1>1, <2>1, <2>2, CallsKept
<1>4. OneSave' /\ DoneWaits'
  BY <1>1 DEF Inv, OneSave, Waits, DoneWaits, Done, Untold
<1>5. Handed' /\ Opened' /\ Stored' /\ OpenedIsSaved' /\ RedeemedWhereShown'
  BY <1>1 DEF Inv, Handed, Opened, Stored, OpenedIsSaved, RedeemedWhereShown
<1> QED
  BY <1>2, <1>3, <1>4, <1>5 DEF Inv

(***************************************************************************)
(* The page.                                                               *)
(***************************************************************************)

\* A call with a fresh id is apart from all that are on their way.
LEMMA NativeCallCalls ==
  ASSUME Inv, NEW command \in {"test", "save"}, NEW id \in SetupIds, FreshId(id),
         NEW url \in Typed, NativeCall(command, id, url)
  PROVE  Calls' /\ sent' \in Seq(Command)
<1> DEFINE new == [type |-> command, id |-> id, url |-> url]
<1>1. sent \in Seq(Command) /\ new \in Command
  BY DEF Inv, Types, Command
<1>2. sent' = Append(sent, new)
  BY DEF NativeCall
<1>3. /\ Append(sent, new) \in Seq(Command)
      /\ \A n \in DOMAIN Append(sent, new) :
           \/ n \in DOMAIN sent /\ Append(sent, new)[n] = sent[n]
           \/ n = Len(sent) + 1 /\ Append(sent, new)[n] = new
  BY <1>1, Appended
<1>4. /\ sent' \in Seq(Command)
      /\ \A n \in DOMAIN sent' : \/ n \in DOMAIN sent /\ sent'[n] = sent[n]
                                 \/ n = Len(sent) + 1 /\ sent'[n].id = id
  BY <1>2, <1>3
<1>5. /\ Untold(id) /\ id # saving
      /\ \A c \in checks : c.id # id
      /\ \A n \in DOMAIN sent : sent[n].id # id
  BY DEF FreshId, Unused, NewSetupId, Untold
<1>6. /\ page = "setup" /\ page' = page /\ told' = told /\ checks' = checks
      /\ storing' = storing /\ arriving' = arriving
  BY DEF NativeCall, vars, outVars, setupVars, windowVars
<1> HIDE DEF new
<1>7. CommandsApart'
  BY <1>4, <1>5, <1>6 DEF Inv, Calls, CommandsApart, Untold
<1>8. StoringApart'
  BY <1>4, <1>5, <1>6 DEF Inv, Calls, StoringApart, OneSave, Waits, Untold
<1>9. ChecksApart'
  BY <1>4, <1>5, <1>6 DEF Inv, Calls, ChecksApart, Untold
<1>10. AnswersTold' /\ OffIsEmpty'
  BY <1>6 DEF Inv, Calls, AnswersTold, OffIsEmpty, Untold
<1> QED
  BY <1>4, <1>7, <1>8, <1>9, <1>10 DEF Calls

LEMMA PressTestInv ==
  ASSUME Inv, NEW id \in SetupIds, NEW url \in Typed, PressTest(id, url)
  PROVE  Inv'
<1> DEFINE new == [type |-> "test", id |-> id, url |-> url]
<1>1. Calls' /\ sent' \in Seq(Command)
  BY NativeCallCalls DEF PressTest
<1>2. /\ UNCHANGED <<vars, config, page, shown, navigating, frontend, saving, storing, arriving,
                     opened>>
      /\ sent' = Append(sent, new)
  BY DEF PressTest, NativeCall, windowVars
<1>3. told' = told /\ checks' = checks
  BY <1>2 DEF vars, outVars, setupVars
<1>4. Types'
  BY <1>1, <1>2, <1>3 DEF Inv, Types
<1>5. OneSave'
  <2>1. new \in Command /\ sent \in Seq(Command)
    BY DEF Command, Inv, Types
  <2>2. \A n \in DOMAIN sent' : \/ n \in DOMAIN sent /\ sent'[n] = sent[n]
                                \/ sent'[n].type = "test"
    BY <1>2, <2>1, Appended
  <2> QED
    BY <1>2, <2>2 DEF Inv, OneSave, Waits
<1>6. DoneWaits' /\ Handed' /\ Opened' /\ Stored' /\ OpenedIsSaved' /\ RedeemedWhereShown'
  BY <1>2, <1>3
  DEF Inv, DoneWaits, Done, Untold, Handed, Opened, Stored, OpenedIsSaved, RedeemedWhereShown
<1> QED
  BY <1>1, <1>4, <1>5, <1>6 DEF Inv

\* Connect can be pressed while nothing else is saved.
LEMMA PressConnectInv ==
  ASSUME Inv, NEW id \in SetupIds, NEW url \in Typed, PressConnect(id, url)
  PROVE  Inv'
<1> DEFINE new == [type |-> "save", id |-> id, url |-> url]
<1>1. Calls' /\ sent' \in Seq(Command)
  BY NativeCallCalls DEF PressConnect
<1>2. /\ UNCHANGED <<vars, config, page, shown, navigating, frontend, storing, arriving, opened>>
      /\ sent' = Append(sent, new) /\ saving = None /\ saving' = id /\ page = "setup"
  BY DEF PressConnect, NativeCall, windowVars
<1>3. told' = told /\ checks' = checks
  BY <1>2 DEF vars, outVars, setupVars
<1>4. Types'
  BY <1>1, <1>2, <1>3 DEF Inv, Types
<1>5. ~Done /\ storing = None /\ \A n \in DOMAIN sent : sent[n].type # "save"
  BY <1>2, IdsTyped, NamesAssumption DEF Inv, DoneWaits, OneSave, Waits
<1>6. navigating = None /\ opened = None
  BY <1>2, <1>5 DEF Inv, Types, Opened, Done
<1>7. OneSave'
  <2>1. new \in Command /\ sent \in Seq(Command)
    BY DEF Command, Inv, Types
  <2>2. \A n \in DOMAIN sent' : \/ n \in DOMAIN sent /\ sent'[n] = sent[n]
                                \/ sent'[n].id = id
    BY <1>2, <2>1, Appended
  <2> QED
    BY <1>2, <1>5, <1>6, <2>2 DEF OneSave, Waits
<1>8. DoneWaits'
  BY <1>2, <1>6, NamesAssumption DEF DoneWaits, Done
<1>9. Handed' /\ Opened' /\ Stored' /\ OpenedIsSaved' /\ RedeemedWhereShown'
  BY <1>2 DEF Inv, Handed, Opened, Stored, OpenedIsSaved, RedeemedWhereShown
<1> QED
  BY <1>1, <1>4, <1>7, <1>8, <1>9 DEF Inv

\* An answer is about a call that is no longer on its way, so that Connect is
\* enabled again only when its save is over.
LEMMA PageHandlesInv == ASSUME Inv, PageHandles PROVE Inv'
<1> DEFINE event == Head(arriving)
<1>1. /\ UNCHANGED <<vars, config, page, shown, navigating, frontend, sent, storing, opened>>
      /\ arriving # <<>> /\ arriving' = Tail(arriving)
      /\ \/ saving' = saving
         \/ event.id = saving /\ saving' = IF event.kind = "error" THEN None ELSE Opening
  BY DEF PageHandles, windowVars
<1>2. told' = told /\ checks' = checks
  BY <1>1 DEF vars, outVars, setupVars
<1>3. /\ Tail(arriving) \in Seq(CallEvent)
      /\ 1 \in DOMAIN arriving /\ event = arriving[1] /\ event \in CallEvent
      /\ \A n \in DOMAIN Tail(arriving) : n + 1 \in DOMAIN arriving /\ Tail(arriving)[n] = arriving[n + 1]
  BY <1>1, Tailed DEF Inv, Types
<1>4. event.id \in SetupIds /\ ~Untold(event.id)
  BY <1>3 DEF Inv, Calls, AnswersTold, CallEvent
<1>5. Types'
  BY <1>1, <1>2, <1>3 DEF Inv, Types
<1>6. Calls'
  <2>1. CommandsApart' /\ StoringApart' /\ ChecksApart'
    BY <1>1, <1>2 DEF Inv, Calls, CommandsApart, StoringApart, ChecksApart, Untold
  <2>2. AnswersTold'
    BY <1>1, <1>2, <1>3 DEF Inv, Calls, AnswersTold, Untold
  <2>3. OffIsEmpty'
    BY <1>1, <1>2 DEF Inv, Calls, OffIsEmpty
  <2> QED
    BY <2>1, <2>2, <2>3 DEF Calls
<1>7. OneSave'
  <2>1. ASSUME saving # event.id
        PROVE  OneSave'
    BY <1>1, <2>1 DEF Inv, OneSave, Waits
  <2>2. ASSUME saving = event.id
        PROVE  storing = None /\ \A n \in DOMAIN sent : sent[n].type # "save"
    BY <1>4, <2>2 DEF Inv, OneSave, Waits, Calls, CommandsApart, StoringApart
  <2> QED
    BY <1>1, <2>1, <2>2 DEF OneSave
<1>8. DoneWaits'
  <2>1. ASSUME Done
        PROVE  saving' \in {saving, Opening} /\ saving' # None
    <3>1. saving # None /\ (event.id = saving => event.kind # "error")
      BY <1>3, <2>1 DEF Inv, DoneWaits
    <3> QED
      BY <1>1, <3>1, NamesAssumption
  <2>2. ASSUME Done, NEW n \in DOMAIN arriving', arriving'[n].id = saving'
        PROVE  arriving'[n].kind # "error"
    <3>1. n + 1 \in DOMAIN arriving /\ arriving'[n] = arriving[n + 1]
      BY <1>1, <1>3, <2>2
    <3>2. saving' # Opening
      BY <2>2, <3>1, IdsTyped, NamesAssumption DEF Inv
    <3> QED
      BY <2>1, <2>2, <3>1, <3>2 DEF Inv, DoneWaits
  <2> QED
    BY <1>1, <1>2, <2>1, <2>2, NamesAssumption DEF Inv, DoneWaits, Done, Untold
<1>9. Handed' /\ Opened' /\ Stored' /\ OpenedIsSaved' /\ RedeemedWhereShown'
  BY <1>1 DEF Inv, Handed, Opened, Stored, OpenedIsSaved, RedeemedWhereShown
<1> QED
  BY <1>5, <1>6, <1>7, <1>8, <1>9 DEF Inv

\* The app that replaces the page is the one the save was made of.
LEMMA LoadsInv ==
  ASSUME Inv, NEW document \in {"setup", "app"}, NEW server, Loads(document, server),
         document = "app" => server = frontend,
         document = "setup" => navigating = SetupDoc,
         navigating # None
  PROVE  Inv'
<1>1. /\ UNCHANGED <<vars, config, frontend, sent, storing, arriving, opened>>
      /\ page' = document /\ shown' = server /\ navigating' = None /\ saving' = None
  BY DEF Loads, NewDocument
<1>2. told' = told /\ checks' = checks
  BY <1>1 DEF vars, outVars, setupVars
<1>3. Types'
  BY <1>1, <1>2 DEF Inv, Types
<1>4. Calls'
  BY <1>1, <1>2, CallsKept DEF Inv
<1>5. storing = None /\ \A n \in DOMAIN sent : sent[n].type # "save"
  BY <1>1 DEF Inv, OneSave, Waits
<1>6. OneSave' /\ DoneWaits' /\ Handed' /\ Opened'
  BY <1>1, <1>5, NamesAssumption DEF Inv, OneSave, DoneWaits, Done, Handed, Opened
<1>7. Stored' /\ OpenedIsSaved' /\ RedeemedWhereShown'
  BY <1>1 DEF Inv, Stored, OpenedIsSaved, RedeemedWhereShown
<1> QED
  BY <1>3, <1>4, <1>6, <1>7 DEF Inv

LEMMA AppLoadsInv == ASSUME Inv, AppLoads PROVE Inv'
  BY LoadsInv, NamesAssumption DEF AppLoads, Inv, Handed

LEMMA SetupLoadsInv == ASSUME Inv, SetupLoads PROVE Inv'
  BY LoadsInv, NamesAssumption DEF SetupLoads

(***************************************************************************)
(* The extension.                                                          *)
(***************************************************************************)

\* What is left to admit.
LEMMA Admitting ==
  ASSUME Inv, NEW command \in {"test", "save"}, Admits(command)
  PROVE  /\ sent' \in Seq(Command)
         /\ Head(sent) \in Command /\ Head(sent).type = command /\ storing = None
         /\ 1 \in DOMAIN sent /\ Head(sent) = sent[1] /\ Untold(Head(sent).id)
         /\ Head(sent).id \in SetupIds
         /\ \A n \in DOMAIN sent' : \E m \in DOMAIN sent : m # 1 /\ sent'[n] = sent[m]
         /\ \A m, n \in DOMAIN sent' : sent'[m].id = sent'[n].id => m = n
         /\ \A n \in DOMAIN sent' : sent'[n].id # Head(sent).id /\ sent'[n].id \in SetupIds
<1>1. sent \in Seq(Command) /\ sent # <<>> /\ sent' = Tail(sent)
  BY DEF Admits, Takes, Inv, Types
<1>2. /\ Tail(sent) \in Seq(Command)
      /\ 1 \in DOMAIN sent /\ Head(sent) = sent[1] /\ Head(sent) \in Command
      /\ \A n \in DOMAIN Tail(sent) :
           n \in Nat \ {0} /\ n + 1 \in DOMAIN sent /\ Tail(sent)[n] = sent[n + 1]
  BY <1>1, Tailed
<1>3. \A m, n \in DOMAIN sent : sent[m].id = sent[n].id => m = n
  BY DEF Inv, Calls, CommandsApart
<1>4. \A n \in DOMAIN sent' : n + 1 # 1 /\ n + 1 \in DOMAIN sent /\ sent'[n] = sent[n + 1]
  BY <1>1, <1>2
<1>5. \A m, n \in DOMAIN sent' : sent'[m].id = sent'[n].id => m = n
  <2> SUFFICES ASSUME NEW m \in DOMAIN sent', NEW n \in DOMAIN sent', sent'[m].id = sent'[n].id
               PROVE  m = n
    OBVIOUS
  <2>1. m + 1 = n + 1
    BY <1>3, <1>4
  <2> QED
    BY <1>1, <1>2, <2>1
<1>6. \A n \in DOMAIN sent' : sent'[n].id # Head(sent).id /\ sent'[n].id \in SetupIds
  BY <1>2, <1>3, <1>4, IdsTyped DEF Inv
<1>7. Untold(Head(sent).id) /\ Head(sent).id \in SetupIds
  BY <1>2, IdsTyped DEF Inv, Calls, CommandsApart
<1> QED
  BY <1>1, <1>2, <1>4, <1>5, <1>6, <1>7 DEF Admits, Takes

\* An answer goes to a call that was told nothing, and leaves the rest alone.
LEMMA Answering ==
  ASSUME Inv, NEW i \in SetupIds, Untold(i), NEW kind \in EventKinds, Post(<<Ev(i, kind)>>),
         NEW answer \in EventKinds \cup {"odd-status"},
         arriving' = Append(arriving, Ev(i, answer))
  PROVE  /\ arriving' \in Seq(CallEvent)
         /\ \A n \in DOMAIN arriving' : \/ n \in DOMAIN arriving /\ arriving'[n] = arriving[n]
                                        \/ arriving'[n].id = i /\ arriving'[n].kind = answer
         /\ AnswersTold'
         /\ told'[i] # "nothing" /\ \A id \in SetupIds : id # i => told'[id] = told[id]
<1> DEFINE event == [id |-> i, kind |-> answer]
<1>1. /\ told'[i] = kind
      /\ \A id \in SetupIds : id # i => told'[id] = told[id]
  BY PostsOne
<1>2. arriving \in Seq(CallEvent) /\ event \in CallEvent
  BY DEF Inv, Types, CallEvent
<1>3. arriving' = Append(arriving, event)
  BY DEF Ev
<1>4. /\ arriving' \in Seq(CallEvent)
      /\ \A n \in DOMAIN arriving' : \/ n \in DOMAIN arriving /\ arriving'[n] = arriving[n]
                                     \/ arriving'[n].id = i /\ arriving'[n].kind = answer
  <2>1. /\ Append(arriving, event) \in Seq(CallEvent)
        /\ \A n \in DOMAIN Append(arriving, event) :
             \/ n \in DOMAIN arriving /\ Append(arriving, event)[n] = arriving[n]
             \/ n = Len(arriving) + 1 /\ Append(arriving, event)[n] = event
    BY <1>2, Appended
  <2> QED
    BY <1>3, <2>1
<1>5. kind # "nothing"
  BY DEF EventKinds, TerminalEvents
<1>6. AnswersTold'
  <2> SUFFICES ASSUME NEW n \in DOMAIN arriving'
               PROVE  told'[arriving'[n].id] # "nothing"
    BY DEF AnswersTold, Untold
  <2>1. CASE n \in DOMAIN arriving /\ arriving'[n] = arriving[n]
    <3>1. arriving[n].id \in SetupIds /\ told[arriving[n].id] # "nothing"
      BY <2>1, IdsTyped DEF Inv, Calls, AnswersTold, Untold
    <3> QED
      BY <1>1, <1>5, <2>1, <3>1
  <2>2. CASE arriving'[n].id = i
    BY <1>1, <1>5, <2>2
  <2> QED
    BY <1>4, <2>1, <2>2
<1> QED
  BY <1>1, <1>4, <1>5, <1>6

\* A page that waits after its save was done is not told anything else.
LEMMA AnsweringDone ==
  ASSUME Inv, NEW i \in SetupIds, Untold(i), NEW kind \in EventKinds, Post(<<Ev(i, kind)>>),
         NEW answer \in EventKinds \cup {"odd-status"},
         arriving' = Append(arriving, Ev(i, answer)),
         UNCHANGED <<page, navigating, opened, saving>>
  PROVE  DoneWaits'
<1>1. /\ \A n \in DOMAIN arriving' : \/ n \in DOMAIN arriving /\ arriving'[n] = arriving[n]
                                     \/ arriving'[n].id = i
      /\ told'[i] # "nothing" /\ \A id \in SetupIds : id # i => told'[id] = told[id]
  BY Answering
<1>2. Done => saving # i
  BY DEF Inv, DoneWaits
<1> QED
  BY <1>1, <1>2 DEF Inv, DoneWaits, Done, Untold

\* save_setup of a URL that does not validate: the only save ends with an error.
LEMMA RefuseSaveInv == ASSUME Inv, RefuseSave PROVE Inv'
<1> DEFINE i == Head(sent).id
<1>1. Admits("save") /\ RefuseSetup(i) /\ arriving' = arriving \o posted'
  BY DEF RefuseSave, PostsToPage
<1>2. /\ sent' \in Seq(Command) /\ storing = None /\ i \in SetupIds /\ Untold(i)
      /\ Head(sent).type = "save" /\ 1 \in DOMAIN sent /\ Head(sent) = sent[1]
      /\ \A n \in DOMAIN sent' : \E m \in DOMAIN sent : m # 1 /\ sent'[n] = sent[m]
      /\ \A m, n \in DOMAIN sent' : sent'[m].id = sent'[n].id => m = n
      /\ \A n \in DOMAIN sent' : sent'[n].id # i /\ sent'[n].id \in SetupIds
  BY <1>1, Admitting
<1>3. /\ UNCHANGED <<config, page, shown, navigating, frontend, saving, storing, opened>>
      /\ checks' = checks /\ Post(<<Ev(i, "error")>>) /\ \A c \in checks : c.id # i
  BY DEF RefuseSave, RefuseSetup, NewSetupId, windowVars, pageSide, setupVars
<1>4. "error" \in EventKinds
  BY DEF EventKinds, TerminalEvents
<1> HIDE DEF i
<1>5. arriving' = Append(arriving, Ev(i, "error"))
  BY <1>1, <1>2, <1>3, <1>4, Delivered DEF Inv, Types
<1>6. /\ arriving' \in Seq(CallEvent) /\ AnswersTold'
      /\ \A id \in SetupIds : id # i => told'[id] = told[id]
  BY <1>2, <1>3, <1>4, <1>5, Answering
<1>7. Types'
  BY <1>2, <1>3, <1>6 DEF Inv, Types
<1>8. Calls'
  <2>1. CommandsApart'
    BY <1>2, <1>6 DEF Inv, Calls, CommandsApart, Untold
  <2>2. ChecksApart'
    BY <1>2, <1>3, <1>6, IdsTyped DEF Inv, Calls, ChecksApart, Untold
  <2>3. StoringApart' /\ OffIsEmpty'
    BY <1>2, <1>3 DEF Inv, Calls, StoringApart, OffIsEmpty
  <2> QED
    BY <1>6, <2>1, <2>2, <2>3 DEF Calls
<1>9. OneSave'
  BY <1>2, <1>3 DEF Inv, OneSave, Waits
<1>10. DoneWaits'
  BY <1>2, <1>3, <1>4, <1>5, AnsweringDone
<1>11. Handed' /\ Opened' /\ Stored' /\ OpenedIsSaved' /\ RedeemedWhereShown'
  BY <1>3 DEF Inv, Handed, Opened, Stored, OpenedIsSaved, RedeemedWhereShown
<1> QED
  BY <1>7, <1>8, <1>9, <1>10, <1>11 DEF Inv

\* A command that is too long only leaves the queue.
LEMMA DropCommandInv == ASSUME Inv, DropCommand PROVE Inv'
<1>1. /\ sent # <<>> /\ sent' = Tail(sent) /\ sent \in Seq(Command)
      /\ UNCHANGED <<vars, config, page, shown, navigating, frontend, saving, storing, arriving,
                     opened>>
  BY DEF DropCommand, Takes, windowVars, pageSide, Inv, Types
<1>2. told' = told /\ checks' = checks
  BY <1>1 DEF vars, outVars, setupVars
<1>3. /\ sent' \in Seq(Command)
      /\ \A n \in DOMAIN sent' : n \in Nat /\ n + 1 \in DOMAIN sent /\ sent'[n] = sent[n + 1]
  BY <1>1, Tailed
<1>4. Types'
  BY <1>1, <1>2, <1>3 DEF Inv, Types
<1>5. CommandsApart'
  <2>1. \A n \in DOMAIN sent' : told'[sent'[n].id] = "nothing"
    BY <1>2, <1>3 DEF Inv, Calls, CommandsApart, Untold
  <2>2. ASSUME NEW m \in DOMAIN sent', NEW n \in DOMAIN sent', sent'[m].id = sent'[n].id
        PROVE  m = n
    <3>1. m + 1 = n + 1 /\ m \in Nat /\ n \in Nat
      BY <1>3, <2>2 DEF Inv, Calls, CommandsApart
    <3> QED
      BY <3>1
  <2> QED
    BY <2>1, <2>2 DEF CommandsApart, Untold
<1>6. StoringApart' /\ ChecksApart' /\ AnswersTold' /\ OffIsEmpty'
  BY <1>1, <1>2, <1>3
  DEF Inv, Calls, StoringApart, ChecksApart, AnswersTold, OffIsEmpty, Untold
<1>7. OneSave' /\ DoneWaits'
  BY <1>1, <1>2, <1>3 DEF Inv, OneSave, Waits, DoneWaits, Done, Untold
<1>8. Handed' /\ Opened' /\ Stored' /\ OpenedIsSaved' /\ RedeemedWhereShown'
  BY <1>1 DEF Inv, Handed, Opened, Stored, OpenedIsSaved, RedeemedWhereShown
<1> QED
  BY <1>4, <1>5, <1>6, <1>7, <1>8 DEF Inv, Calls

LEMMA AdmitTestInv == ASSUME Inv, AdmitTest PROVE Inv'
<1> DEFINE i == Head(sent).id
<1>1. /\ Admits("test") /\ arriving' = arriving \o posted'
      /\ StartSetupCheck(i) \/ RefuseSetup(i)
  BY DEF AdmitTest, PostsToPage
<1>2. /\ sent' \in Seq(Command) /\ storing = None /\ i \in SetupIds /\ Untold(i)
      /\ \A n \in DOMAIN sent' : \E m \in DOMAIN sent : m # 1 /\ sent'[n] = sent[m]
      /\ \A m, n \in DOMAIN sent' : sent'[m].id = sent'[n].id => m = n
      /\ \A n \in DOMAIN sent' : sent'[n].id # i /\ sent'[n].id \in SetupIds
  BY <1>1, Admitting
<1>3. UNCHANGED <<config, page, shown, navigating, frontend, saving, storing, opened>>
  BY DEF AdmitTest, windowVars, pageSide
<1>4. page # "none"
  BY <1>1 DEF Inv, Calls, OffIsEmpty, Admits, Takes
<1> HIDE DEF i
<1>5. OneSave'
  BY <1>2, <1>3 DEF Inv, OneSave, Waits
<1>6. Handed' /\ Opened' /\ Stored' /\ OpenedIsSaved' /\ RedeemedWhereShown'
  BY <1>3 DEF Inv, Handed, Opened, Stored, OpenedIsSaved, RedeemedWhereShown
<1>7. StoringApart' /\ OffIsEmpty'
  BY <1>2, <1>3, <1>4 DEF StoringApart, OffIsEmpty
<1>8. CASE StartSetupCheck(i)
  <2> DEFINE new == [id |-> i, gen |-> setupGen]
  <2>1. /\ Post(<<>>) /\ checks' = checks \cup {new} /\ \A c \in checks : c.id # i
    BY <1>8 DEF StartSetupCheck, NewSetupId
  <2>2. posted' = <<>> /\ \A id \in SetupIds : told'[id] = told[id]
    BY <2>1, PostsNothing
  <2>3. arriving' = arriving
    BY <1>1, <2>2 DEF Inv, Types
  <2>4. \A c \in checks' : c.id \in SetupIds
    BY <1>2, <2>1 DEF Inv, Types
  <2>5. Types'
    BY <1>2, <1>3, <2>1, <2>3, <2>4 DEF Inv, Types
  <2>6. CommandsApart' /\ AnswersTold'
    BY <1>2, <2>2, <2>3, IdsTyped DEF Inv, Calls, CommandsApart, AnswersTold, Untold
  <2>7. ChecksApart'
    <3>1. \A c \in checks' : c \in checks \/ c = new
      BY <2>1
    <3>2. new.id = i
      OBVIOUS
    <3> QED
      BY <1>2, <1>3, <2>1, <2>2, <3>1, <3>2, IdsTyped DEF Inv, Calls, ChecksApart, Untold
  <2>8. DoneWaits'
    BY <1>3, <2>2, <2>3 DEF Inv, DoneWaits, Done, Untold
  <2> QED
    BY <1>5, <1>6, <1>7, <2>5, <2>6, <2>7, <2>8 DEF Inv, Calls
<1>9. CASE RefuseSetup(i)
  <2>1. Post(<<Ev(i, "error")>>) /\ checks' = checks /\ \A c \in checks : c.id # i
    BY <1>9 DEF RefuseSetup, NewSetupId, setupVars
  <2>2. "error" \in EventKinds
    BY DEF EventKinds, TerminalEvents
  <2>3. arriving' = Append(arriving, Ev(i, "error"))
    BY <1>1, <1>2, <2>1, <2>2, Delivered DEF Inv, Types
  <2>4. /\ arriving' \in Seq(CallEvent) /\ AnswersTold'
        /\ \A id \in SetupIds : id # i => told'[id] = told[id]
    BY <1>2, <2>1, <2>2, <2>3, Answering
  <2>5. Types'
    BY <1>2, <1>3, <2>1, <2>4 DEF Inv, Types
  <2>6. CommandsApart'
    BY <1>2, <2>4 DEF Inv, Calls, CommandsApart, Untold
  <2>7. ChecksApart'
    BY <1>2, <1>3, <2>1, <2>4, IdsTyped DEF Inv, Calls, ChecksApart, Untold
  <2>8. DoneWaits'
    BY <1>2, <1>3, <2>1, <2>2, <2>3, AnsweringDone
  <2> QED
    BY <1>5, <1>6, <1>7, <2>4, <2>5, <2>6, <2>7, <2>8 DEF Inv, Calls
<1> QED
  BY <1>1, <1>8, <1>9

\* A check answers its own call, or nobody.
LEMMA CheckAnswersInv == ASSUME Inv, CheckAnswers PROVE Inv'
<1>1. PICK c \in checks, answer \in {"connectivity-success", "odd-status", "error"} :
        /\ SetupCheckResult(c, IF answer = "error" THEN answer ELSE "connectivity-success")
        /\ arriving' = IF posted' = <<>> THEN arriving ELSE Append(arriving, Ev(c.id, answer))
  BY DEF CheckAnswers
<1> DEFINE i == c.id
           kind == IF answer = "error" THEN answer ELSE "connectivity-success"
<1>2. /\ UNCHANGED <<config, page, shown, navigating, frontend, saving, sent, storing, opened>>
      /\ checks' = checks \ {c}
  BY <1>1 DEF CheckAnswers, SetupCheckResult, windowVars, pageSide
<1>3. /\ i \in SetupIds /\ Untold(i) /\ (storing # None => storing.id # i)
      /\ \A n \in DOMAIN sent : sent[n].id # i
      /\ \A d \in checks : d.id = i => d = c
      /\ page # "none"
  BY IdsTyped DEF Inv, Calls, ChecksApart, OffIsEmpty
<1>4. kind \in EventKinds /\ answer \in EventKinds \cup {"odd-status"}
  BY DEF EventKinds, TerminalEvents
<1>5. SetupCheckResult(c, kind)
  BY <1>1
<1>6. Post(<<Ev(i, kind)>>) \/ Post(<<>>)
  BY <1>5 DEF SetupCheckResult
<1>7. arriving' = IF posted' = <<>> THEN arriving ELSE Append(arriving, Ev(i, answer))
  BY <1>1
<1> HIDE DEF i, kind
<1>8. OneSave'
  BY <1>2 DEF Inv, OneSave, Waits
<1>9. Handed' /\ Opened' /\ Stored' /\ OpenedIsSaved' /\ RedeemedWhereShown' /\ OffIsEmpty'
  BY <1>2, <1>3 DEF Inv, Handed, Opened, Stored, OpenedIsSaved, RedeemedWhereShown, OffIsEmpty
<1>10. CASE Post(<<Ev(i, kind)>>)
  <2>1. arriving' = Append(arriving, Ev(i, answer))
    <3>1. posted' = <<[id |-> i, kind |-> kind]>>
      BY <1>3, <1>4, <1>10, PostsOne
    <3> QED
      BY <1>7, <3>1
  <2>2. /\ arriving' \in Seq(CallEvent) /\ AnswersTold'
        /\ \A id \in SetupIds : id # i => told'[id] = told[id]
    BY <1>3, <1>4, <1>10, <2>1, Answering
  <2>3. Types'
    BY <1>2, <2>2 DEF Inv, Types
  <2>4. CommandsApart' /\ StoringApart'
    BY <1>2, <1>3, <2>2, IdsTyped DEF Inv, Calls, CommandsApart, StoringApart, Untold
  <2>5. ChecksApart'
    BY <1>2, <1>3, <2>2, IdsTyped DEF Inv, Calls, ChecksApart, Untold
  <2>6. DoneWaits'
    BY <1>2, <1>3, <1>4, <1>10, <2>1, AnsweringDone
  <2> QED
    BY <1>8, <1>9, <2>2, <2>3, <2>4, <2>5, <2>6 DEF Inv, Calls
<1>11. CASE Post(<<>>)
  <2>1. posted' = <<>> /\ \A id \in SetupIds : told'[id] = told[id]
    BY <1>11, PostsNothing
  <2>2. arriving' = arriving
    BY <1>7, <2>1
  <2>3. Types'
    BY <1>2, <2>2 DEF Inv, Types
  <2>4. CommandsApart' /\ StoringApart' /\ AnswersTold'
    BY <1>2, <2>1, <2>2, IdsTyped
    DEF Inv, Calls, CommandsApart, StoringApart, AnswersTold, Untold
  <2>5. ChecksApart'
    BY <1>2, <2>1, IdsTyped DEF Inv, Calls, ChecksApart, Untold
  <2>6. DoneWaits'
    BY <1>2, <2>1, <2>2 DEF Inv, DoneWaits, Done, Untold
  <2> QED
    BY <1>8, <1>9, <2>3, <2>4, <2>5, <2>6 DEF Inv, Calls
<1> QED
  BY <1>10, <1>11, <1>6

\* The save that is admitted is the one the page waits for.
LEMMA StoreConfigInv == ASSUME Inv, StoreConfig PROVE Inv'
<1> DEFINE i == Head(sent).id
<1>1. PICK stored \in BOOLEAN :
        /\ config' = IF stored THEN [mode |-> "remote", url |-> Head(sent).url] ELSE config
        /\ storing' = [id |-> i, url |-> Head(sent).url, stored |-> stored]
  BY DEF StoreConfig
<1>2. Admits("save") /\ Head(sent).url \in Servers
  BY DEF StoreConfig
<1>3. /\ sent' \in Seq(Command) /\ storing = None /\ i \in SetupIds /\ Untold(i)
      /\ Head(sent).type = "save" /\ 1 \in DOMAIN sent /\ Head(sent) = sent[1]
      /\ \A n \in DOMAIN sent' : \E m \in DOMAIN sent : m # 1 /\ sent'[n] = sent[m]
      /\ \A m, n \in DOMAIN sent' : sent'[m].id = sent'[n].id => m = n
      /\ \A n \in DOMAIN sent' : sent'[n].id # i /\ sent'[n].id \in SetupIds
  BY <1>2, Admitting
<1>4. /\ UNCHANGED <<page, shown, navigating, frontend, saving, opened, arriving>>
      /\ told' = told /\ checks' = checks
  BY DEF StoreConfig, vars, outVars, setupVars, windowVars, pageSide
<1>5. page = "setup" /\ navigating = None /\ saving = i /\ opened = None
  BY <1>3 DEF Inv, OneSave, Waits
<1>6. /\ storing'.id = i /\ storing'.url = Head(sent).url /\ storing'.stored = stored
      /\ storing' \in [id : SetupIds, url : Servers, stored : BOOLEAN]
  BY <1>1, <1>2, <1>3
<1>7. \A n \in DOMAIN sent' : sent'[n].type # "save"
  BY <1>3 DEF Inv, OneSave, Waits
<1>8. Types'
  BY <1>3, <1>4, <1>6 DEF Inv, Types
<1>9. \A c \in checks : c.id # i
  BY <1>3 DEF Inv, Calls, ChecksApart
<1> HIDE DEF i
<1>10. Calls'
  <2>1. CommandsApart' /\ AnswersTold'
    BY <1>3, <1>4 DEF Inv, Calls, CommandsApart, AnswersTold, Untold
  <2>2. StoringApart'
    BY <1>3, <1>4, <1>6 DEF StoringApart, Untold
  <2>3. ChecksApart' /\ OffIsEmpty'
    BY <1>3, <1>4, <1>5, <1>6, <1>9 DEF Inv, Calls, ChecksApart, OffIsEmpty, Untold
  <2> QED
    BY <2>1, <2>2, <2>3 DEF Calls
<1>11. OneSave' /\ DoneWaits'
  BY <1>4, <1>5, <1>6, <1>7, NamesAssumption DEF OneSave, Waits, DoneWaits, Done
<1>12. Handed' /\ Opened' /\ Stored' /\ OpenedIsSaved' /\ RedeemedWhereShown'
  BY <1>1, <1>4, <1>5, <1>6, NamesAssumption
  DEF Handed, Opened, Stored, OpenedIsSaved, RedeemedWhereShown
<1> QED
  BY <1>8, <1>10, <1>11, <1>12 DEF Inv

\* Whatever the controller says of the save, the only one is over.
LEMMA CloseSetupInv == ASSUME Inv, CloseSetup PROVE Inv'
<1> DEFINE i == storing.id
<1>1. /\ storing # None /\ storing' = None
      /\ UNCHANGED <<config, page, shown, saving, sent>>
  BY DEF CloseSetup, pageSide
<1>2. /\ i \in SetupIds /\ Untold(i)
      /\ page = "setup" /\ navigating = None /\ saving = i /\ opened = None
      /\ \A n \in DOMAIN sent : sent[n].type # "save" /\ sent[n].id # i
      /\ \A c \in checks : c.id # i
      /\ storing.stored => config = [mode |-> "remote", url |-> storing.url]
  BY <1>1, IdsTyped DEF Inv, OneSave, Waits, Calls, StoringApart, ChecksApart, Stored
<1>3. /\ opened' \in {None, storing.url}
      /\ opened' # None => storing.stored
      /\ navigating' \in {None, storing.url} /\ frontend' = storing.url
      /\ storing.url \in Servers
  BY <1>1, <1>2 DEF CloseSetup, Inv, Types
<1> HIDE DEF i
<1>4. OneSave' /\ Handed' /\ Opened' /\ Stored'
  BY <1>1, <1>2, <1>3, NamesAssumption DEF OneSave, Handed, Opened, Stored
<1>5. OpenedIsSaved' /\ RedeemedWhereShown'
  BY <1>1, <1>2, <1>3 DEF OpenedIsSaved, RedeemedWhereShown
<1>6. ASSUME NEW kind \in EventKinds, Post(<<Ev(i, kind)>>), arriving' = arriving \o posted',
             checks' = checks,
             kind # "error" \/ (navigating' = navigating /\ opened' = opened)
      PROVE  Inv'
  <2>1. /\ arriving' \in Seq(CallEvent) /\ AnswersTold' /\ told'[i] # "nothing"
        /\ \A id \in SetupIds : id # i => told'[id] = told[id]
        /\ \A n \in DOMAIN arriving' : \/ n \in DOMAIN arriving /\ arriving'[n] = arriving[n]
                                       \/ arriving'[n].id = i /\ arriving'[n].kind = kind
    <3>1. arriving' = Append(arriving, Ev(i, kind))
      BY <1>2, <1>6, Delivered DEF Inv, Types
    <3> QED
      BY <1>2, <1>6, <3>1, Answering
  <2>2. Types'
    BY <1>1, <1>3, <1>6, <2>1 DEF Inv, Types
  <2>3. CommandsApart' /\ StoringApart' /\ OffIsEmpty'
    BY <1>1, <1>2, <2>1, IdsTyped
    DEF Inv, Calls, CommandsApart, StoringApart, OffIsEmpty, Untold
  <2>4. ChecksApart'
    BY <1>1, <1>2, <1>6, <2>1, IdsTyped DEF Inv, Calls, ChecksApart, Untold
  <2>5. \A n \in DOMAIN arriving' : arriving'[n].id = i => arriving'[n].kind = kind
    BY <1>2, <2>1 DEF Inv, Calls, AnswersTold
  <2>6. DoneWaits'
    BY <1>1, <1>2, <1>6, <2>1, <2>5, NamesAssumption DEF DoneWaits, Done, Untold
  <2> QED
    BY <1>4, <1>5, <2>1, <2>2, <2>3, <2>4, <2>6 DEF Inv, Calls
<1>7. "error" \in EventKinds /\ "save-config-success" \in EventKinds
  BY DEF EventKinds, TerminalEvents
<1>8. Admitted => arriving' = arriving \o posted'
  BY DEF CloseSetup
<1>9. CASE SetupSave(i, TRUE)
  BY <1>6, <1>7, <1>8, <1>9 DEF SetupSave
<1>10. CASE SetupSave(i, FALSE) /\ UNCHANGED <<navigating, opened>>
  BY <1>6, <1>7, <1>8, <1>10 DEF SetupSave
<1>11. CASE Admitted /\ RefuseSetup(i) /\ UNCHANGED <<navigating, opened>>
  BY <1>6, <1>7, <1>8, <1>11 DEF RefuseSetup, setupVars
<1>12. CASE ~Admitted /\ UNCHANGED <<vars, navigating, opened>>
  <2>1. arriving' = arriving /\ told' = told /\ checks' = checks
    BY <1>12 DEF CloseSetup, vars, outVars, setupVars
  <2>2. Types'
    BY <1>1, <1>3, <2>1 DEF Inv, Types
  <2>3. Calls'
    BY <1>1, <1>2, <2>1, CallsKept DEF Inv
  <2>4. DoneWaits'
    BY <1>1, <1>2, <1>12, NamesAssumption DEF DoneWaits, Done
  <2> QED
    BY <1>4, <1>5, <2>2, <2>3, <2>4 DEF Inv
<1>13. \/ SetupSave(i, TRUE)
       \/ SetupSave(i, FALSE) /\ UNCHANGED <<navigating, opened>>
       \/ Admitted /\ RefuseSetup(i) /\ UNCHANGED <<navigating, opened>>
       \/ ~Admitted /\ UNCHANGED <<vars, navigating, opened>>
  BY Zenon DEF CloseSetup, i
<1> QED
  BY <1>9, <1>10, <1>11, <1>12, <1>13

\* While the setup page is on its way, the app is still shown.
LEMMA OpenRemoteSetupInv == ASSUME Inv, OpenRemoteSetup PROVE Inv'
<1>1. /\ page = "app" /\ page' = "app" /\ navigating' = SetupDoc /\ frontend' = SetupDoc
      /\ opened' = None /\ Post(<<>>) /\ checks' = checks
      /\ UNCHANGED <<config, shown, saving, sent, storing, arriving>>
  BY DEF OpenRemoteSetup, EnterSetup, pageSide
<1>2. \A id \in SetupIds : told'[id] = told[id]
  BY <1>1, PostsNothing
<1>3. Types'
  BY <1>1 DEF Inv, Types
<1>4. Calls'
  BY <1>1, <1>2, CallsKept DEF Inv
<1>5. OneSave' /\ DoneWaits' /\ Handed' /\ Opened'
  BY <1>1, NamesAssumption DEF Inv, OneSave, Waits, DoneWaits, Done, Handed, Opened
<1>6. Stored' /\ OpenedIsSaved' /\ RedeemedWhereShown'
  BY <1>1 DEF Inv, OneSave, Waits, Stored, OpenedIsSaved, RedeemedWhereShown
<1> QED
  BY <1>3, <1>4, <1>5, <1>6 DEF Inv

(***************************************************************************)
(* The theorems.                                                           *)
(***************************************************************************)
LEMMA StutterInv == ASSUME Inv, UNCHANGED setupAll PROVE Inv'
<1> USE DEF setupAll, vars, outVars, setupVars, windowVars, pageSide
<1>1. Types'
  BY DEF Inv, Types
<1>2. Calls'
  BY CallsKept DEF Inv
<1>3. /\ OneSave' /\ DoneWaits' /\ Handed' /\ Opened' /\ Stored'
      /\ OpenedIsSaved' /\ RedeemedWhereShown'
  BY DEF Inv, OneSave, Waits, DoneWaits, Done, Untold, Handed, Opened, Stored, OpenedIsSaved,
         RedeemedWhereShown
<1> QED
  BY <1>1, <1>2, <1>3 DEF Inv

LEMMA StepInv == Inv /\ [ConfigureNext]_setupAll => Inv'
<1> SUFFICES ASSUME Inv, [ConfigureNext]_setupAll
             PROVE  Inv'
  OBVIOUS
<1>1. CASE SetupPageNext
  BY <1>1, PressTestInv, PressConnectInv, PageHandlesInv, AppLoadsInv, SetupLoadsInv
  DEF SetupPageNext
<1>2. CASE ExtensionNext
  BY <1>2, AdmitTestInv, DropCommandInv, RefuseSaveInv, StoreConfigInv, CloseSetupInv,
     CheckAnswersInv, OpenRemoteSetupInv DEF ExtensionNext, AdmitFrontend
<1>3. CASE ProcessNext
  BY <1>3, BootInv, GoneInv, CloseInv, CliInv DEF ProcessNext
<1>4. CASE UNCHANGED setupAll
  BY <1>4, StutterInv
<1> QED
  BY <1>1, <1>2, <1>3, <1>4 DEF ConfigureNext

LEMMA Invariance == SetupSpec => []Inv
  BY InitInv, StepInv, PTL DEF SetupSpec

\* Tickets are redeemed at the server whose app is shown (save_setup).
THEOREM RedeemsWhereShown == SetupSpec => []RedeemedWhereShown
<1>1. Inv => RedeemedWhereShown
  BY DEF Inv
<1> QED
  BY <1>1, Invariance, PTL

\* What the setup opened is what the next start opens (save_setup, main).
THEOREM OpensWhatIsSaved == SetupSpec => []OpenedIsSaved
<1>1. Inv => OpenedIsSaved
  BY DEF Inv
<1> QED
  BY <1>1, Invariance, PTL

(***************************************************************************)
(* An overtaken check.                                                     *)
(***************************************************************************)

\* A check carries the generation of its page; one that was overtaken carries
\* an older one.
Gens ==
  /\ setupGen \in 0 .. MaxGeneration
  /\ overtaken \subseteq RunningChecks
  /\ \A c \in checks : /\ c.gen \in 0 .. setupGen
                       /\ c.id \in overtaken => c.gen # setupGen

LEMMA GensKept ==
  ASSUME Gens, setupGen' = setupGen, overtaken' = overtaken, checks' = checks
  PROVE  Gens'
  BY DEF Gens, RunningChecks

LEMMA GensReset ==
  ASSUME setupGen' = 0, overtaken' = {}, checks' = {}
  PROVE  Gens'
  BY BoundAssumption DEF Gens, RunningChecks

\* A setup page that is opened or left overtakes every check that runs.
LEMMA GensOvertaken ==
  ASSUME Gens, setupGen < MaxGeneration, setupGen' = setupGen + 1, overtaken' = RunningChecks,
         checks' = checks
  PROVE  Gens'
<1>1. RunningChecks' = RunningChecks
  BY DEF RunningChecks
<1>2. setupGen' \in 0 .. MaxGeneration
  BY BoundAssumption DEF Gens
<1>3. \A c \in checks : c.gen \in 0 .. setupGen' /\ c.gen # setupGen'
  BY DEF Gens
<1> QED
  BY <1>1, <1>2, <1>3 DEF Gens

LEMMA CheckGens == ASSUME Gens, NEW i \in SetupIds, StartSetupCheck(i) PROVE Gens'
<1> DEFINE new == [id |-> i, gen |-> setupGen]
<1>1. /\ checks' = checks \cup {new} /\ setupGen' = setupGen /\ overtaken' = overtaken
      /\ \A c \in checks : c.id # i
  BY DEF StartSetupCheck, NewSetupId
<1>2. RunningChecks \subseteq RunningChecks'
  BY <1>1 DEF RunningChecks
<1>3. i \notin overtaken
  BY <1>1 DEF Gens, RunningChecks
<1>4. \A c \in checks' : c \in checks \/ (c.id = i /\ c.gen = setupGen)
  BY <1>1
<1>5. setupGen \in 0 .. setupGen
  BY DEF Gens
<1> QED
  BY <1>1, <1>2, <1>3, <1>4, <1>5 DEF Gens

LEMMA AnswerGens == ASSUME Gens, NEW c \in checks, NEW kind, SetupCheckResult(c, kind) PROVE Gens'
<1>1. /\ checks' = checks \ {c} /\ setupGen' = setupGen /\ overtaken' = overtaken \ {c.id}
  BY DEF SetupCheckResult
<1>2. overtaken' \subseteq RunningChecks'
  BY <1>1 DEF Gens, RunningChecks
<1> QED
  BY <1>1, <1>2 DEF Gens

LEMMA InitGens == SetupInit => Gens
  BY BoundAssumption DEF SetupInit, Init, Gens, RunningChecks

LEMMA StepGens == Gens /\ Inv /\ [ConfigureNext]_setupAll => Gens'
<1> SUFFICES ASSUME Gens, Inv, [ConfigureNext]_setupAll
             PROVE  Gens'
  OBVIOUS
<1>1. ASSUME UNCHANGED vars
      PROVE  Gens'
  BY <1>1, GensKept DEF vars, setupVars
<1>2. CASE SetupPageNext
  BY <1>1, <1>2 DEF SetupPageNext, PressTest, PressConnect, NativeCall, PageHandles, AppLoads,
         SetupLoads, Loads
<1>3. ASSUME NEW i \in SetupIds, RefuseSetup(i)
      PROVE  Gens'
  BY <1>3, GensKept DEF RefuseSetup, setupVars
<1>4. CASE AdmitTest
  <2>1. StartSetupCheck(Head(sent).id) \/ RefuseSetup(Head(sent).id)
    BY <1>4 DEF AdmitTest
  <2>2. Head(sent).id \in SetupIds
    BY <1>4, Admitting DEF AdmitTest
  <2> QED
    BY <1>3, <2>1, <2>2, CheckGens
<1>5. CASE CheckAnswers
  BY <1>5, AnswerGens DEF CheckAnswers
<1>6. CASE RefuseSave
  <2>1. Head(sent).id \in SetupIds
    BY <1>6, Admitting DEF RefuseSave
  <2> QED
    BY <1>3, <1>6, <2>1 DEF RefuseSave
<1>7. CASE StoreConfig \/ DropCommand
  BY <1>1, <1>7 DEF StoreConfig, DropCommand
<1>8. CASE CloseSetup
  <2>1. storing.id \in SetupIds
    BY <1>8, IdsTyped DEF Inv, CloseSetup
  <2>2. \/ SetupSave(storing.id, TRUE) \/ SetupSave(storing.id, FALSE)
        \/ RefuseSetup(storing.id) \/ UNCHANGED vars
    BY <1>8, Zenon DEF CloseSetup
  <2>3. ASSUME NEW navigated \in BOOLEAN, SetupSave(storing.id, navigated)
        PROVE  Gens'
    BY <2>3, GensOvertaken DEF SetupSave
  <2> QED
    BY <1>1, <1>3, <2>1, <2>2, <2>3
<1>9. CASE OpenRemoteSetup
  BY <1>9, GensOvertaken DEF OpenRemoteSetup, EnterSetup
<1>10. CASE ProcessNext
  <2>1. CASE \E flag \in BOOLEAN : Boot(flag)
    BY <2>1, GensReset DEF Boot, Shows, ShowsSetup, NewController
  <2>2. CASE Gone
    BY <2>2, GensReset DEF Gone, NewController
  <2>3. CASE Close
    BY <2>3, GensKept DEF Close, Shutdown, setupVars
  <2>4. CASE \E new \in Config : Cli(new)
    BY <1>1, <2>4 DEF Cli
  <2> QED
    BY <1>10, <2>1, <2>2, <2>3, <2>4 DEF ProcessNext
<1>11. CASE UNCHANGED setupAll
  BY <1>1, <1>11 DEF setupAll
<1> QED
  BY <1>2, <1>4, <1>5, <1>6, <1>7, <1>8, <1>9, <1>10, <1>11 DEF ConfigureNext, ExtensionNext,
     AdmitFrontend

LEMMA GensAlways == SetupSpec => [](Inv /\ Gens)
  BY InitInv, StepInv, InitGens, StepGens, PTL DEF SetupSpec

\* A check overtaken by a save or by another page is never answered
\* (SetupCheckResult compares the generation it carries).
THEOREM OvertakenIsSilent == SetupSpec => OvertakenStaysSilent
<1>1. ASSUME Inv, Gens, [ConfigureNext]_setupAll, NEW c \in checks, c.id \in overtaken,
             c \notin checks'
      PROVE  told'[c.id] = told[c.id]
  <2>1. c.id \in SetupIds /\ told[c.id] = "nothing"
    BY <1>1, IdsTyped DEF Inv, Calls, ChecksApart, Untold
  <2>2. CASE CheckAnswers
    <3>1. PICK d \in checks, kind \in {"connectivity-success", "error"} :
            SetupCheckResult(d, kind)
      BY <2>2 DEF CheckAnswers
    <3>2. d = c
      BY <1>1, <3>1 DEF SetupCheckResult
    <3>3. Post(<<>>)
      BY <1>1, <3>1, <3>2 DEF SetupCheckResult, CheckIsCurrent, Gens
    <3> QED
      BY <2>1, <3>3, PostsNothing
  <2>3. CASE Gone \/ \E flag \in BOOLEAN : Boot(flag)
    BY <2>1, <2>3 DEF Gone, Boot, Shows, ShowsSetup, NewController, Ids
  <2>4. ASSUME checks \subseteq checks'
        PROVE  FALSE
    BY <1>1, <2>4
  <2>5. CASE SetupPageNext \/ DropCommand \/ RefuseSave \/ StoreConfig \/ OpenRemoteSetup
    BY <2>4, <2>5 DEF SetupPageNext, PressTest, PressConnect, NativeCall, PageHandles, AppLoads,
                      SetupLoads, Loads, DropCommand, RefuseSave, RefuseSetup, StoreConfig,
                      OpenRemoteSetup, EnterSetup, vars, setupVars
  <2>6. CASE AdmitTest
    BY <2>4, <2>6 DEF AdmitTest, StartSetupCheck, RefuseSetup, setupVars
  <2>7. CASE CloseSetup
    BY <2>4, <2>7, Zenon DEF CloseSetup, SetupSave, RefuseSetup, setupVars, vars
  <2>8. CASE Close \/ (\E new \in Config : Cli(new)) \/ UNCHANGED setupAll
    BY <2>4, <2>8 DEF Close, Shutdown, Cli, setupAll, vars, setupVars
  <2> QED
    BY <1>1, <2>2, <2>3, <2>5, <2>6, <2>7, <2>8
    DEF ConfigureNext, ExtensionNext, AdmitFrontend, ProcessNext
<1>2. Inv /\ Gens /\ [ConfigureNext]_setupAll =>
        [\A c \in checks : c.id \in overtaken /\ c \notin checks' => told'[c.id] = told[c.id]]_vars
  BY <1>1
<1> QED
  BY <1>2, GensAlways, PTL DEF SetupSpec, OvertakenStaysSilent

(***************************************************************************)
(* Type correctness.                                                       *)
(***************************************************************************)


\* The extension drives the controller as Controller lets it, and a start or
\* an exit makes a new one.
LEMMA DrivesController ==
  ASSUME TypeOK, Inv, Gens, [ConfigureNext]_setupAll
  PROVE  Next \/ UNCHANGED vars \/ NewController(TRUE) \/ NewController(FALSE)
<1>1. ASSUME NEW i \in SetupIds,
             \/ StartSetupCheck(i) \/ RefuseSetup(i)
             \/ \E navigated \in BOOLEAN : SetupSave(i, navigated)
      PROVE  Next
  BY <1>1 DEF Next, SetupNext
<1>2. ASSUME NEW c \in checks, NEW kind \in {"connectivity-success", "error"},
             SetupCheckResult(c, kind)
      PROVE  Next
  <2>1. c.gen \in 0 .. MaxGeneration
    BY BoundAssumption DEF Gens
  <2>2. c \in [id : SetupIds, gen : 0 .. MaxGeneration]
    BY <2>1 DEF TypeOK, Check
  <2> QED
    BY <1>2, <2>2 DEF Next, SetupNext
<1>3. CASE SetupPageNext
  BY <1>3 DEF SetupPageNext, PressTest, PressConnect, NativeCall, PageHandles, AppLoads,
         SetupLoads, Loads
<1>4. CASE AdmitTest
  <2>1. StartSetupCheck(Head(sent).id) \/ RefuseSetup(Head(sent).id)
    BY <1>4 DEF AdmitTest
  <2>2. Head(sent).id \in SetupIds
    BY <1>4, Admitting DEF AdmitTest
  <2> QED
    BY <1>1, <2>1, <2>2
<1>5. CASE CheckAnswers
  <2>1. PICK c \in checks, answer \in {"connectivity-success", "odd-status", "error"} :
          SetupCheckResult(c, IF answer = "error" THEN answer ELSE "connectivity-success")
    BY <1>5 DEF CheckAnswers
  <2> QED
    BY <1>2, <2>1
<1>6. CASE RefuseSave
  <2>1. Head(sent).id \in SetupIds
    BY <1>6, Admitting DEF RefuseSave
  <2> QED
    BY <1>1, <1>6, <2>1 DEF RefuseSave
<1>7. CASE StoreConfig \/ DropCommand
  BY <1>7 DEF StoreConfig, DropCommand
<1>8. CASE CloseSetup
  <2>1. storing.id \in SetupIds
    BY <1>8, IdsTyped DEF Inv, CloseSetup
  <2>2. \/ SetupSave(storing.id, TRUE) \/ SetupSave(storing.id, FALSE)
        \/ RefuseSetup(storing.id) \/ UNCHANGED vars
    BY <1>8, Zenon DEF CloseSetup
  <2> QED
    BY <1>1, <2>1, <2>2
<1>9. CASE OpenRemoteSetup
  BY <1>9 DEF OpenRemoteSetup, Next, SetupNext
<1>10. CASE ProcessNext
  BY <1>10 DEF ProcessNext, Boot, Shows, ShowsSetup, Gone, Close, Cli, Next
<1>11. CASE UNCHANGED setupAll
  BY <1>11 DEF setupAll
<1> QED
  BY <1>3, <1>4, <1>5, <1>6, <1>7, <1>8, <1>9, <1>10, <1>11 DEF ConfigureNext, ExtensionNext,
     AdmitFrontend

LEMMA NewControllerType == ASSUME NEW setup \in BOOLEAN, NewController(setup) PROVE TypeOK'
  BY DEF NewController, TypeOK, AppState, Presentation, NoProofs

\* The window and the extension.
WindowTypes ==
  /\ config \in Config
  /\ page \in {"none", "setup", "app"}
  /\ shown \in Servers \cup {Local, None}
  /\ navigating \in Servers \cup {SetupDoc, None}
  /\ frontend \in Servers \cup {Local, SetupDoc, None}
  /\ testing \in SetupIds \cup {None}
  /\ opened \in Servers \cup {None}
  /\ unheard \subseteq SetupIds
  /\ boots \in 0 .. MaxBoots

LEMMA StepWindow == WindowTypes /\ Inv /\ [ConfigureNext]_setupAll => WindowTypes'
<1> SUFFICES ASSUME WindowTypes, Inv, [ConfigureNext]_setupAll
             PROVE  WindowTypes'
  OBVIOUS
<1> USE DEF WindowTypes, windowVars, pageSide, NewDocument
<1>1. CASE SetupPageNext
  <2>1. CASE \E id \in SetupIds, url \in Typed : PressTest(id, url)
    BY <2>1 DEF PressTest, NativeCall
  <2>2. CASE \E id \in SetupIds, url \in Typed : PressConnect(id, url)
    BY <2>2 DEF PressConnect, NativeCall
  <2>3. CASE PageHandles
    <3>1. testing' \in {testing, None}
      BY <2>3 DEF PageHandles
    <3> QED
      BY <2>3, <3>1 DEF PageHandles
  <2>4. CASE AppLoads \/ SetupLoads
    BY <2>4 DEF AppLoads, SetupLoads, Loads
  <2> QED
    BY <1>1, <2>1, <2>2, <2>3, <2>4 DEF SetupPageNext
<1>2. CASE AdmitTest \/ DropCommand \/ CheckAnswers \/ RefuseSave
  <2>1. CASE CheckAnswers
    <3>1. \E c \in checks : unheard' \in {unheard, unheard \cup {c.id}}
      BY <2>1 DEF CheckAnswers
    <3> QED
      BY <2>1, <3>1, IdsTyped DEF CheckAnswers, Inv
  <2> QED
    BY <1>2, <2>1 DEF AdmitTest, DropCommand, RefuseSave
<1>3. CASE StoreConfig
  <2>1. PICK stored \in BOOLEAN :
          config' = IF stored THEN [mode |-> "remote", url |-> Head(sent).url] ELSE config
    BY <1>3 DEF StoreConfig
  <2>2. config' \in Config
    BY <1>3, <2>1 DEF StoreConfig, Config
  <2> QED
    BY <1>3, <2>2 DEF StoreConfig
<1>4. CASE CloseSetup
  <2>1. storing.url \in Servers
    BY <1>4 DEF CloseSetup, Inv, Types
  <2>2. /\ frontend' = storing.url /\ navigating' \in {navigating, storing.url}
        /\ opened' \in {opened, storing.url, None}
        /\ UNCHANGED <<config, page, shown, testing, unheard, boots>>
    BY <1>4 DEF CloseSetup
  <2> QED
    BY <2>1, <2>2
<1>5. CASE OpenRemoteSetup
  BY <1>5 DEF OpenRemoteSetup
<1>6. CASE \E flag \in BOOLEAN : Boot(flag)
  <2>1. PICK flag \in BOOLEAN : Boot(flag)
    BY <1>6
  <2>2. boots' \in 0 .. MaxBoots
    BY <2>1, BootsAssumption DEF Boot
  <2>3. CASE ShowsSetup
    BY <2>1, <2>2, <2>3 DEF Boot, ShowsSetup
  <2>4. ASSUME NEW server \in Servers \cup {Local}, Shows(server)
        PROVE  WindowTypes'
    BY <2>1, <2>2, <2>4 DEF Boot, Shows
  <2> QED
    BY <2>1, <2>3, <2>4 DEF Boot
<1>7. CASE Gone \/ Close \/ \E new \in Config : Cli(new)
  <2>1. CASE Gone
    BY <2>1 DEF Gone
  <2>2. CASE Close
    BY <2>2 DEF Close
  <2>3. CASE \E new \in Config : Cli(new)
    BY <2>3 DEF Cli
  <2> QED
    BY <1>7, <2>1, <2>2, <2>3
<1>8. CASE UNCHANGED setupAll
  BY <1>8 DEF setupAll
<1> QED
  BY <1>1, <1>2, <1>3, <1>4, <1>5, <1>6, <1>7, <1>8
  DEF ConfigureNext, ExtensionNext, AdmitFrontend, ProcessNext

\* Every reachable state of the composition is well typed.
THEOREM SetupTypeCorrect == SetupSpec => []SetupTypeOK
<1>1. SetupInit => TypeOK /\ WindowTypes
  <2>1. SetupInit => TypeOK
    BY InitType DEF SetupInit
  <2>2. 0 \in 0 .. MaxBoots
    BY BootsAssumption
  <2> QED
    BY <2>1, <2>2 DEF SetupInit, WindowTypes
<1>2. TypeOK /\ WindowTypes /\ Inv /\ Gens /\ [ConfigureNext]_setupAll => TypeOK' /\ WindowTypes'
  BY StepType, DrivesController, NewControllerType, StepWindow
<1>3. TypeOK /\ WindowTypes /\ Inv => SetupTypeOK
  <2> SUFFICES ASSUME arriving \in Seq(CallEvent)
               PROVE  arriving \in Seq(PageEvent)
    BY DEF SetupTypeOK, WindowTypes, Inv, Types
  <2>1. CallEvent \subseteq PageEvent
    BY DEF CallEvent, PageEvent, Ids
  <2> QED
    BY <2>1
<1> QED
  BY <1>1, <1>2, <1>3, GensAlways, PTL DEF SetupSpec
=============================================================================
