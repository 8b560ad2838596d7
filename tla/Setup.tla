-------------------------------- MODULE Setup --------------------------------
(***************************************************************************)
(* Choosing a server: the setup page (src/setup.html, setup-event.js), the *)
(* bridge it calls through (foreseer-native.js), the setup commands of the *)
(* extension (src/extension.rs), the configuration file (src/config.rs)    *)
(* and how a start decides what to show (src/main.rs).                     *)
(*                                                                         *)
(* The page posts commands and gets events, both in order; the extension   *)
(* admits one command at a time.  The controller's part is Controller,     *)
(* with no sign-in and no play.                                            *)
(***************************************************************************)
EXTENDS Controller

CONSTANTS
  Servers,    \* Foreseerr servers with a URL that validates
  BadUrl,     \* a URL that does not
  LongUrl,    \* a URL longer than a command may carry, MAX_FORESEER_URL_LEN
  Local,      \* the bundled server, and the address of the setup document
  SetupDoc,
  Opening,    \* the Connect button after a save that succeeded
  MaxBoots    \* bound: starts of the application

ASSUME NamesAssumption ==
  /\ {BadUrl, LongUrl, Local, SetupDoc, None} \cap Servers = {}
  /\ {Opening, None} \cap SetupIds = {}
  /\ BadUrl # LongUrl /\ SetupDoc # None /\ Opening # None
ASSUME BootsAssumption == MaxBoots \in Nat

VARIABLES
  config,     \* config.json as load reads it
  page,       \* the document of the window: none, the setup page, the app
  shown,      \* the server the app was loaded from
  navigating, \* the document the window was told to load and has not loaded yet
  frontend,   \* Inner.frontend_url, where tickets are redeemed
  testing,    \* the call the disabled Test button waits for
  saving,     \* the call the disabled Connect button waits for
  sent,       \* commands posted and not admitted
  storing,    \* save_setup between the file and the controller, and whether
              \* the file names its server
  arriving,   \* events posted and not handled by the page
  opened,     \* history: the server the setup opened and saved, until the
              \* configuration is changed by other means
  unheard,    \* history: calls the page hears nothing of, for their URL is
              \* too long or the status of their answer is no status
  boots       \* starts so far

pageSide == <<testing, saving>>
windowVars == <<page, shown, navigating>>
setupAll == <<vars, config, windowVars, frontend, pageSide, sent, storing, arriving, opened,
              unheard, boots>>

Config == [mode : {"standalone", "remote"}, url : Servers \cup {BadUrl}]
Typed == Servers \cup {BadUrl, LongUrl}
\* The commands that change state.  setup.html offers Standalone, Open logs and
\* Quit as well, but the bridge has no setup.standalone, and nativeCall adds
\* fields to the other two that parse_command refuses.
Command == [type : {"test", "save"}, id : SetupIds, url : Typed]
\* A check succeeds with the status of the server's answer, whatever it is;
\* "odd-status" is one outside 100 .. 599.
PageEvent == [id : Ids \cup OtherIds, kind : EventKinds \cup {"odd-status"}]

SetupTypeOK ==
  /\ TypeOK
  /\ config \in Config
  /\ page \in {"none", "setup", "app"}
  /\ shown \in Servers \cup {Local, None}
  /\ navigating \in Servers \cup {SetupDoc, None}
  /\ frontend \in Servers \cup {Local, SetupDoc, None}
  /\ testing \in SetupIds \cup {None}
  /\ saving \in SetupIds \cup {None, Opening}
  /\ sent \in Seq(Command)
  /\ storing \in [id : SetupIds, url : Servers, stored : BOOLEAN] \cup {None}
  /\ arriving \in Seq(PageEvent)
  /\ opened \in Servers \cup {None}
  /\ unheard \subseteq SetupIds
  /\ boots \in 0 .. MaxBoots

\* Controller::new
NewController(setup) ==
  /\ inSetup' = setup
  /\ state' = IF setup THEN "Setup" ELSE "Starting"
  /\ proofs' = NoProofs /\ nextKey' = 1 /\ authEpoch' = 0 /\ redeems' = <<>>
  /\ setupGen' = 0 /\ checks' = {} /\ overtaken' = {}
  /\ activeId' = None /\ presentation' = "Frontend"
  /\ expected' = None /\ pending' = None /\ target' = None /\ acked' = 0
  /\ posted' = <<>> /\ told' = [id \in Ids |-> "nothing"]

SetupInit ==
  /\ Init /\ ~inSetup
  /\ config \in Config
  /\ page = "none" /\ shown = None /\ navigating = None /\ frontend = None
  /\ testing = None /\ saving = None
  /\ sent = <<>> /\ storing = None /\ arriving = <<>>
  /\ opened = None /\ unheard = {} /\ boots = 0

\* A new document: what the old one waited for is lost with it.
NewDocument(document, server) ==
  /\ page' = document /\ shown' = server /\ navigating' = None
  /\ testing' = None /\ saving' = None

(***************************************************************************)
(* Starting and stopping the application (main.rs).                        *)
(***************************************************************************)
Shows(server) ==
  /\ NewController(FALSE) /\ NewDocument("app", server) /\ frontend' = server
  /\ UNCHANGED opened

ShowsSetup ==
  /\ NewController(TRUE) /\ NewDocument("setup", None) /\ frontend' = SetupDoc
  /\ opened' = None

\* main: --setup, or a remote URL that does not validate, opens the setup page;
\* so does a bundled server that does not start.
Boot(flag) ==
  /\ page = "none" /\ boots < MaxBoots
  /\ boots' = boots + 1
  /\ \/ flag /\ ShowsSetup
     \/ ~flag /\ config.mode = "remote" /\ config.url \notin Servers /\ ShowsSetup
     \/ ~flag /\ config.mode = "remote" /\ config.url \in Servers /\ Shows(config.url)
     \/ ~flag /\ config.mode = "standalone" /\ (Shows(Local) \/ ShowsSetup)
  /\ UNCHANGED <<config, sent, storing, arriving, unheard>>

\* The application exits or is killed; what was in flight is gone.
Gone ==
  /\ page # "none"
  /\ NewController(FALSE) /\ NewDocument("none", None) /\ frontend' = None
  /\ sent' = <<>> /\ storing' = None /\ arriving' = <<>> /\ unheard' = {}
  /\ UNCHANGED <<config, opened, boots>>

\* The window is closed: the controller refuses commands until the exit.
Close ==
  /\ page # "none" /\ Admitted
  /\ Shutdown
  /\ UNCHANGED <<config, windowVars, frontend, pageSide, sent, storing, arriving, opened, unheard,
                 boots>>

\* --remote, --set-url and --standalone of another process (handle_cli_args);
\* ConfigFile has the steps of a save.
Cli(new) ==
  /\ new.mode = "remote" => new.url \in Servers
  /\ new.mode = "standalone" => new.url = config.url
  /\ new # config
  /\ config' = new
  /\ opened' = None
  /\ storing' = IF storing = None THEN None ELSE [storing EXCEPT !.stored = FALSE]
  /\ UNCHANGED <<vars, windowVars, frontend, pageSide, sent, arriving, unheard, boots>>

(***************************************************************************)
(* The setup page.                                                         *)
(***************************************************************************)
Unused(id) ==
  /\ NewSetupId(id) /\ id \notin {testing, saving} \cup unheard
  /\ \A n \in DOMAIN sent : sent[n].id # id

\* Ids are random; which of the unused ones is taken makes no difference.
FreshId(id) == Unused(id) /\ id = CHOOSE i \in SetupIds : Unused(i)

NativeCall(command, id, url) ==
  /\ page = "setup"
  /\ sent' = Append(sent, [type |-> command, id |-> id, url |-> url])
  /\ unheard' = IF url = LongUrl THEN unheard \cup {id} ELSE unheard
  /\ UNCHANGED <<vars, config, windowVars, frontend, storing, arriving, opened, boots>>

PressTest(id, url) ==
  /\ testing = None /\ FreshId(id)
  /\ NativeCall("test", id, url)
  /\ testing' = id
  /\ UNCHANGED saving

PressConnect(id, url) ==
  /\ saving = None /\ FreshId(id)
  /\ NativeCall("save", id, url)
  /\ saving' = id
  /\ UNCHANGED testing

\* Mutant: Connect is enabled again whatever the answer, as Test is.
PageHandlesAlike ==
  /\ page # "none" /\ arriving # <<>>
  /\ arriving' = Tail(arriving)
  /\ LET event == Head(arriving)
         parsed == event.kind # "odd-status"
     IN
       /\ testing' = IF parsed /\ event.id = testing THEN None ELSE testing
       /\ saving' = IF parsed /\ event.id = saving THEN None ELSE saving
  /\ UNCHANGED <<vars, config, windowVars, frontend, sent, storing, opened, unheard, boots>>

\* parseEvent leaves alone what is for another call or has a status that is
\* none.  Test is enabled again by any answer, Connect only by an error.
PageHandles ==
  /\ page # "none" /\ arriving # <<>>
  /\ arriving' = Tail(arriving)
  /\ LET event == Head(arriving)
         parsed == event.kind # "odd-status"
     IN
       /\ testing' = IF parsed /\ event.id = testing THEN None ELSE testing
       /\ saving' = CASE ~parsed \/ event.id # saving -> saving
                      [] parsed /\ event.id = saving /\ event.kind = "error" -> None
                      [] OTHER -> Opening
  /\ UNCHANGED <<vars, config, windowVars, frontend, sent, storing, opened, unheard, boots>>

Loads(document, server) ==
  /\ NewDocument(document, server)
  /\ UNCHANGED <<vars, config, frontend, sent, storing, arriving, opened, unheard, boots>>

\* The app a save navigates to replaces the setup page ...
AppLoads == navigating \in Servers /\ Loads("app", navigating)

\* ... and the setup page the app asked for replaces the app.
SetupLoads == navigating = SetupDoc /\ Loads("setup", None)

(***************************************************************************)
(* The extension: admit_frontend, one command at a time.                   *)
(***************************************************************************)
Takes(commands) ==
  /\ sent # <<>> /\ storing = None
  /\ Head(sent) \in commands
  /\ sent' = Tail(sent)

Admits(command) == Takes({c \in Command : c.type = command /\ c.url # LongUrl})

\* parse_command refuses a URL that is too long.  The bridge has told the page
\* that the command was sent, and nobody answers it.
DropCommand ==
  /\ Takes({c \in Command : c.url = LongUrl})
  /\ UNCHANGED <<vars, config, windowVars, frontend, pageSide, storing, arriving, opened,
                 unheard, boots>>

PostsToPage == arriving' = arriving \o posted'

\* start_setup_check
AdmitTest ==
  /\ Admits("test")
  /\ LET command == Head(sent) IN
       IF inSetup /\ command.url \in Servers THEN StartSetupCheck(command.id)
                                             ELSE RefuseSetup(command.id)
  /\ PostsToPage
  /\ UNCHANGED <<config, windowVars, frontend, pageSide, storing, opened, unheard, boots>>

\* The worker's answer (enqueue); a status is none of the agent's errors.
CheckAnswers ==
  /\ \E c \in checks, answer \in {"connectivity-success", "odd-status", "error"} :
       /\ SetupCheckResult(c, IF answer = "error" THEN answer ELSE "connectivity-success")
       /\ arriving' = IF posted' = <<>> THEN arriving ELSE Append(arriving, Ev(c.id, answer))
       /\ unheard' = IF answer = "odd-status" /\ posted' # <<>> THEN unheard \cup {c.id}
                                                                ELSE unheard
  /\ UNCHANGED <<config, windowVars, frontend, pageSide, sent, storing, opened, boots>>

\* save_setup of a URL that does not validate.
RefuseSave ==
  /\ Admits("save") /\ Head(sent).url \notin Servers
  /\ RefuseSetup(Head(sent).id)
  /\ PostsToPage
  /\ UNCHANGED <<config, windowVars, frontend, pageSide, storing, opened, unheard, boots>>

\* Mutant: the URL is not validated before it is written.
StoreConfigUnchecked ==
  /\ Admits("save")
  /\ \E stored \in BOOLEAN :
       /\ config' = IF stored THEN [mode |-> "remote", url |-> Head(sent).url] ELSE config
       /\ storing' = [id |-> Head(sent).id, url |-> Head(sent).url, stored |-> stored]
  /\ UNCHANGED <<vars, windowVars, frontend, pageSide, arriving, opened, unheard, boots>>

\* save_setup writes the file, and goes on when it cannot ...
StoreConfig ==
  /\ Admits("save") /\ Head(sent).url \in Servers
  /\ \E stored \in BOOLEAN :
       /\ config' = IF stored THEN [mode |-> "remote", url |-> Head(sent).url] ELSE config
       /\ storing' = [id |-> Head(sent).id, url |-> Head(sent).url, stored |-> stored]
  /\ UNCHANGED <<vars, windowVars, frontend, pageSide, arriving, opened, unheard, boots>>

\* Mutant: a save that is refused is not answered.
CloseSetupSilently ==
  /\ storing # None
  /\ storing' = None
  /\ frontend' = storing.url
  /\ \/ /\ SetupSave(storing.id, TRUE)
        /\ navigating' = storing.url
        /\ opened' = IF storing.stored THEN storing.url ELSE None
     \/ SetupSave(storing.id, FALSE) /\ UNCHANGED <<navigating, opened>>
     \/ ~ (Admitted /\ inSetup) /\ UNCHANGED <<vars, navigating, opened>>
  /\ arriving' = IF Admitted /\ inSetup THEN arriving \o posted' ELSE arriving
  /\ UNCHANGED <<config, page, shown, pageSide, sent, unheard, boots>>

\* ... then takes the new frontend URL and tells the controller.
CloseSetup ==
  /\ storing # None
  /\ storing' = None
  /\ frontend' = storing.url
  /\ \/ /\ SetupSave(storing.id, TRUE)
        /\ navigating' = storing.url
        /\ opened' = IF storing.stored THEN storing.url ELSE None
     \/ SetupSave(storing.id, FALSE) /\ UNCHANGED <<navigating, opened>>
     \/ Admitted /\ ~inSetup /\ RefuseSetup(storing.id) /\ UNCHANGED <<navigating, opened>>
     \/ ~Admitted /\ UNCHANGED <<vars, navigating, opened>>
  /\ arriving' = IF Admitted THEN arriving \o posted' ELSE arriving
  /\ UNCHANGED <<config, page, shown, pageSide, sent, unheard, boots>>

\* open_remote_setup, from the app: enter_setup_document only tells the window
\* to load the page, and the app stays until it does.  A failure only posts an
\* event the app ignores.
OpenRemoteSetup ==
  /\ page = "app" /\ setupGen + 1 < MaxGeneration
  /\ EnterSetup
  /\ frontend' = SetupDoc /\ navigating' = SetupDoc
  /\ opened' = None
  /\ UNCHANGED <<config, page, shown, pageSide, sent, storing, arriving, unheard, boots>>

AdmitFrontend == AdmitTest \/ DropCommand \/ RefuseSave \/ StoreConfig \/ CloseSetup

SetupPageNext ==
  \/ \E id \in SetupIds, url \in Typed : PressTest(id, url)
  \/ \E id \in SetupIds, url \in Typed : PressConnect(id, url)
  \/ PageHandles
  \/ AppLoads \/ SetupLoads

ExtensionNext ==
  AdmitFrontend \/ CheckAnswers \/ OpenRemoteSetup

ProcessNext ==
  \/ \E flag \in BOOLEAN : Boot(flag)
  \/ Gone
  \/ Close
  \/ \E new \in Config : Cli(new)

ConfigureNext == SetupPageNext \/ ExtensionNext \/ ProcessNext

SetupSpec == SetupInit /\ [][ConfigureNext]_setupAll

\* Commands are admitted and events handled, a check has a timeout of ten
\* seconds, a navigation ends, and a closed application exits.
FairSetupSpec ==
  /\ SetupSpec
  /\ WF_setupAll(AdmitFrontend) /\ WF_setupAll(CheckAnswers)
  /\ WF_setupAll(PageHandles) /\ WF_setupAll(AppLoads \/ SetupLoads)
  /\ WF_setupAll(state = "ShuttingDown" /\ Gone)

(***************************************************************************)
(* What must hold.                                                         *)
(***************************************************************************)

\* Tickets are redeemed at the server whose app is shown, or nowhere once the
\* setup page is to replace it (open_remote_setup; no ticket can be redeemed at
\* the address of a document that is data).  save_setup changes frontend_url
\* before the controller decides, so no second save may get in between the
\* first and the new page.
RedeemedWhereShown ==
  page = "app" => frontend = shown \/ (navigating = SetupDoc /\ frontend = SetupDoc)

\* The server the setup opened is the one the next start opens, whatever is
\* killed when (save_setup, AppConfig::save, main).
OpenedIsSaved == opened # None => config = [mode |-> "remote", url |-> opened]

\* No button stays disabled, except for a URL too long to be a command or a
\* status that is none, of which the page hears nothing: Connect always gets an
\* answer, or the page or the application goes away, and Test gets one as long
\* as the setup it belongs to is open (start_setup_check, save_setup and the
\* navigation it ends with).
ButtonsComeBack ==
  /\ saving \in SetupIds \ unheard ~> saving \notin SetupIds \ unheard
  /\ testing # None ~> testing \in unheard \cup {None} \/ ~inSetup
=============================================================================
