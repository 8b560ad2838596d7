# TLA+ models of Foreseer Desktop

Foreseer Desktop is a native shell around two web applications: the Foreseerr
frontend and Jellyfin Web. It runs on Jellium (CEF and mpv), which calls it back
on its own threads. The Rust code carries commands of the frontend to the Jellyfin page,
signs the user in with a PKCE-style proof, follows one playback at a time, lets the user
choose a server, and in *standalone* mode keeps a bundled Node server and its data alive
across crashes and upgrades.

This directory holds TLA+ modules of that code, the TLC runs that check them on
small instances, and theorems about them checked by TLAPS. Line numbers refer to
`src/`; `PROJECT.json` maps each definition to the lines it stands for.

| file | what it is |
|---|---|
| `Controller.tla` | `src/controller.rs` with the pending proofs (`auth.rs`) and the expected session (`session.rs`) |
| `ControllerProofs.tla` | theorems about `Controller`, for all constants |
| `JellyfinPage.tla`, `JellyfinPageProofs.tla` | `src/assets/jellyfin-session.js`, the script inside Jellyfin Web, with theorems |
| `Extension.tla` | `src/extension.rs` between the two: EXTENDS `Controller`, INSTANCEs `JellyfinPage` |
| `ExtensionProofs.tla` | `Extension` implements `Controller`, and its copy of the bootstrap agrees |
| `ExtensionPageProofs.tla` | a bootstrap is never lost between the extension and the script inside Jellyfin Web |
| `Setup.tla`, `SetupProofs.tla` | choosing a server: setup page, bridge, setup commands, configuration, starts; EXTENDS `Controller`; with theorems |
| `ConfigFile.tla`, `ConfigFileProofs.tla` | `config.json` and the processes that save it (`config.rs`, `main.rs`), with theorems |
| `RuntimeMonitor.tla`, `RuntimeMonitorProofs.tla` | the standalone runtime: monitor and retry threads, supervisor, recovery view, shutdown, with theorems |
| `UpgradeBackup.tla`, `UpgradeBackupProofs.tla` | the bundled server's data across upgrades: backup, version record, kills (`supervisor.rs`), with theorems |
| `Supervision.tla` | the abstract supervision of the bundled server, which `RuntimeMonitor` and `UpgradeBackup` implement |
| `MC*.tla`, `*.cfg` | symmetry sets and small constants, and one configuration per run |

## 1. Inventory

### Protocol controller (`src/controller.rs`)
*State*: `AppState`, the auth epoch, the setup generation and `in_setup`, the active
play, the expected session and the pending bootstrap; it owns the pending proofs.
*Operations*: one handler per command of the frontend (`auth.challenge`, `play.item`,
`session.clear`, `setup.*`, `app.quit`) and one per event (redeemed, failed, bootstrap
ready or failed, playback started/finished/canceled/failed, setup check result, shutdown).
*Interacts with*: the extension, which calls it under one mutex and lends it a host
that posts events, moves views and starts workers.
*Hard*: answers of workers arrive after the state they belong to is gone (sign-out, setup
reopened, quit); two sign-ins overlap; a play replaces a play.
*Correct when*: no verifier or session is used for another request or another epoch, every
play that ends is told so, an overtaken check stays silent.

### Pending auth proofs (`src/auth.rs`), session bootstrap (`src/session.rs`)
A map from request id to (verifier, state, age), at most ten entries, each living sixty
seconds, the oldest evicted; a proof is taken out when it is used. A bootstrap is the
server's answer to a redeemed ticket: origin, fallback origin, token, user.
*Hard*: expiry between two accesses; the map at its limit.
*Correct when*: bounded, and a verifier goes to the server at most once.

### Host extension (`src/extension.rs`)
*State*: `Inner` behind a mutex (the controller, the mode, its own `pending_bootstrap`), the
threads it spawned, and the flags of the standalone runtime.
*Operations*: admission of commands from the three pages, `enqueue` of workers' answers,
`PrimaryWebLoaded`, messages of the Jellyfin page, player events, runtime events.
*Hard*: handlers that take the mutex twice or act after letting it go; the same
bootstrap kept in two places; messages to a page that is being replaced; page events
that carry no request id.
*Correct when*: its copy of the bootstrap is the controller's, a pending sign-in is always in
somebody's hands and ends, and messages act on the request they are about.

### Jellyfin Web script (`src/assets/jellyfin-session.js`)
*State*: the bootstrap to apply, an interval, an attempt counter, the waiting play, a play
generation, and whatever promises are open; all of it lost on a page load.
*Operations*: three messages, the 250 ms tick, and the continuations of three promises.
*Hard*: everything interleaves at every `await`; the ApiClient changes owner under it.
*Correct when*: it acknowledges a session only while the client holds it, answers a bootstrap
once, drops overtaken plays, and in a page with an ApiClient never waits for ever.

### Standalone runtime (`src/extension.rs`, `src/supervisor.rs`, `src/main.rs`, `foreseer-native.js`)
*State*: the Node child under the supervisor's mutex, the monitor and retry threads, three
atomics (`automatic_restart_attempted`, `runtime_failed`, `runtime_shutting_down`), the
recovery view in the frontend.
*Hard*: three threads and a button share those; a restart holds the mutex for up to 90 s
while the application quits.
*Correct when*: one thread at a time keeps one child, failures surface, Retry works, quitting
ends and leaves no child behind.

### Setup (`setup.html`, `setup-event.js`, `foreseer-native.js`, `src/extension.rs`, `src/main.rs`)
*State*: the call each button of the page waits for, the setup generation and `in_setup` of the
controller, `frontend_url` of the extension (where tickets are redeemed), the document of the
window, `config.json`.
*Operations*: Test and Connect; `setup.check` with its worker, `setup.save` (write the file, take the
new URL, tell the controller, navigate), `runtime.open-setup`; the decision of a start (`--setup`, a bad
URL, a bundled server that does not start).
*Interacts with*: the controller, which decides whether setup is open; other processes that change
the configuration; page loads, which lose what the page waited for.
*Hard*: a check answers after setup was saved or reopened; a second save is queued behind the first; the
file cannot be written; another process changes the configuration between the write and the navigation.
*Correct when*: the app shown, the server tickets are redeemed at and the file agree, and a
button that waits for an answer gets one.

### Configuration file (`src/config.rs`, `src/main.rs`)
*State*: `config.json`, `config.json.tmp`, and what each process has loaded and not yet saved.
*Operations*: load (migration of the first releases' format, minimum cache limit, `FORESEER_URL`),
save through the temporary file, the commands `--remote`, `--set-url`, `--standalone`, `--cache-limit`.
*Hard*: kills between any two system calls; two processes with one temporary file; load-modify-save.
*Correct when*: the file is a whole document, and changes only into what one command makes of it;
what `FORESEER_URL` says for one run stays out of it.

### Upgrade backups and the version record (`src/supervisor.rs`)
*State*: the database, `backups/`, `state/runtime-version.json`, `state/instance.lock`, the count
of unhealthy probes, and the backup that waits for its metadata to be completed.
*Operations*: start (lock check, backup, pruning, spawn, readiness), probe (record the version once,
complete the backup), the one automatic restart, retry, quit, kill, installing another version.
*Hard*: a kill between any two file operations; a server that outlives the application, and may not have
taken the lock yet when the next start looks at it; a record that is truncated and not written; a pruned backup that is to be completed.
*Correct when*: no new version touches data that has no complete backup, the copy is of a database
no server that holds the lock writes, and a server that did nothing wrong is not given up.

### Parts not modelled
* **Protocol parsing** (`protocol.rs`): sizes and formats of ids, URLs and tickets are pure checks; the models
  receive commands already parsed. Of its effects, `Setup` has the fields a command may not have and the URL
  that is too long to be one.
* **The rest of `foreseer-native.js`** (decorating the login page, watching history): cosmetic.
* **`save_standalone_setup`** is not reachable: the bridge has no `setup.standalone`.
  `browser-cache.clear` and `runtime.open-logs` change no state of the application; the relaunch that
  consumes `--setup` is sequential.
* **Build and release scripts**: no program state.
* **Jellium** and the **Foreseerr server** are external; they appear as the calls the code
  receives and the answers that arrive at any time or never.

The hazards of all of it are listed, at their lines, in `PROJECT.json`; each one
without a property says why.

## 2. How the models correspond to the code

**One action per critical section.** `with_inner` runs a closure under the state mutex,
so a handler is one action, whatever it calls. Where the code takes the mutex twice, or acts
after releasing it, there are two actions: `Snapshot` and `PostBootstrap`
(`deliver_pending_bootstrap` clones the bootstrap, then posts it), `FailureArrives` and
`FailureLands` (`session.failed` reads the active id, then fails the bootstrap), `Probe` and
`Confirm`, `GiveUp` and `Report` in the monitor, `StopOld`, `SpawnNew`, `StartSucceeds`/`StartFails`
inside `retry_on_original_port`.

**Controller.** Variables have the names of the fields, shortened. What the
code posts to the frontend is `posted`; three history variables record what was
told to whom (`told`), which session the page acknowledged (`acked`), and which checks were
overtaken (`overtaken`). Abstractions:

* *Time* is a cut. A proof's key is the order in which it was minted; before each access the
  proofs up to any cut may have expired, the oldest first, as `retain` does.
* *A session is its redemption.* `expected`, `pending.gen` and the page's acknowledgement name
  the index of the redemption in `redeems`. In the code they are server, user and token
  generation, which the server issues per redemption. That the server issues
  different ones is the only assumption on it.
* *The environment is free.* Any event may come at any time (the page may
  acknowledge any session, a player event may come with no play active); only
  workers answer what was asked, once.
* A request id of the frontend is used once, but for the active play (`MayPlay`) and for
  sign-in ids, which the frontend may repeat.

**JellyfinPage.** One action per message, tick and continuation. `applyBootstrap` has one
disjunct per way it returns. Generations name bootstraps; `identity` says whose session the
ApiClient holds, and Jellyfin Web may drop it at any time (`ClientForgets`). `lookups` and
`plays` are the open promises; they settle either way, at any time or never. The native side
sends one bootstrap per page load. A `Load` loses everything but `localStorage` and the
messages already posted. `Spec` is the script beside such a native side; `ScriptSpec` is the script
beside any native side (it sends what it likes and reads when it likes), the promise the script
makes on its own, which `Spec` implements. The native side may load a page without Jellyfin Web: its ApiClient then
never appears (`PageClientStarts` need not happen), and no tick counts an attempt.

**Extension.** Adds the handoff (`Inner.pending_bootstrap`), the two-step handlers, the web
view (`loading`, `arrived`, `loads`) and the messages on their way to the page (`toPage`), which a
page load may lose. It leaves the setup page and the native player to `Controller`, where
their events are free anyway. The web view arrives where it was sent or at a redirect
(`Elsewhere`), and the user may reload. `ControllerSpec` says that the extension drives the controller only as
`Controller` lets its environment do: the mapping is the identity on the controller's variables.

**Setup.** EXTENDS `Controller`, with no sign-in and no play: the setup handlers are the controller's own
actions, each wrapped with what the extension does around it. The page posts commands (`sent`) and gets events
(`arriving`) in order; the extension admits one command at a time. `save_setup` is two steps, `StoreConfig` (the
file, which may fail without being noticed) and `CloseSetup` (the new `frontend_url`, then the controller), because
another process or a kill may come between them. Both ways of leaving a document only tell the window where to go
(`navigating`); `AppLoads` and `SetupLoads` replace the document later. Until then the old one stays and goes on talking:
after `OpenRemoteSetup` the app is still shown while `frontend_url` is the `data:` URL of the setup page, at which no ticket can be redeemed.
A URL longer than 2048 bytes is a value of its own, `LongUrl`, since `parse_command` refuses it before any handler
(`DropCommand`), and so is an answer with a status outside 100..599 (`odd-status`), which `parseEvent` ignores; the calls that are lost
this way are `unheard`, a history variable. Ids of calls are random, so it makes no difference which free one `FreshId` takes. A save of another process (`Cli`) is one step here; `ConfigFile`
has its system calls. `opened` is history: the server the setup opened, until the file is changed by other means.
Boots, kills (`Gone`) and closing the window make the composition restart.

**ConfigFile.** Files as the system has them: a name refers to an inode, and a process keeps the
inode it has open when the name moves. `Load`, `Truncate`, `Write` and `Rename` are the system calls that
`load` and `save_to` come down to; any of them may fail, and a process may be killed between any two
(`Stops`). A write over what another process has written leaves a mixture (`Torn`) or the new document.
Four history variables tell the cases apart: `met` (processes whose writing overlapped), `exposed`
(the file was put in place by one of them), `stale` (the file reads differently since a process loaded it) and
`overridden` (the process loaded with `FORESEER_URL` set; `Overrides` are the values that may have).
The content is a configuration, one in the format of the first releases, an emptied file or no document.

**UpgradeBackup.** `pc` walks through `start_on_port` (`check` to `await`) and through a probe that records the version
(`truncate`, `write`, `complete`). Overwriting the record in place is two steps, since `fs::write` truncates
first. `Spawn` only launches a server. It takes the lock by itself, some time later, before it opens the database, and
leaves when another server has it (`TakesLock`; the server is external, and this is what `ensure_no_active_instance_lock` takes for granted of
it). So a start that looks at the lock (`CheckLock`) does not see a server that was launched just before its application was
killed; `overlooked` remembers that. A copy of the database with its metadata is one step. Where nobody was overlooked, `CopyIsQuiet` shows that nobody
writes meanwhile, so that no intermediate state of it matters but the interrupted one, which `MakeDirectory` leaves
behind; where somebody was, the copy may be of no state of the database at all (`None`). The server migrates the database
before it is ready, falls ill or dies by itself, and may live on when the application is killed, in one of `survivors`, where it
goes on as the child does. Backups are ordered by `Rank` of the version's name and then
by time, as directory names are. Three history variables: `made` (backups that were ever complete), `overlooked`, and `blamed` (since
it was opened, something outside the supervisor failed the application). Three assumptions: each start has
a second of its own (the timestamp of the directory name), the server takes its lock before it opens the
database, and one application runs at a time.

**RuntimeMonitor.** Each thread has a `role` and a `pc`. The mutex is `lock` only where it is held
across steps, which is the restart; what takes it for one step has `lock = Free`
as its guard. The child is `up`, `sick` (answers badly) or `dead`, and changes by itself.
`heard` is the last runtime state sent to the current child.

**Supervision.** What the two modules above come down to for the user, in two variables: a phase (nobody looks after
the server, it is served, it is being replaced, it was given up) and whether the automatic restart was used. The
mapping (`Phase`, `Spent`) reads the phase off where the one running thread stands, in `UpgradeBackup` off `pc`. The steps between
(the mutex, stopping, spawning, backing up, announcing, reporting) are stutters of it.

## 3. The runs

`CHECK_DEADLOCK FALSE` stands where the system really may stop: the controller, the extension and the setup
when the user has used up the bounds or quit, the runtime and the upgrade when the process has exited.
JellyfinPage and ConfigFile never stop and are checked for deadlock.

### Runs that pass

| run | properties | shows |
|---|---|---|
| `Controller` | `TypeOK`, `ProofsBounded`, `VerifierUsedOnce`, `SessionIsCurrent`, `PendingAgrees`, `ReadyForOwnSession`, `NoSilentDrop` | two overlapping sign-ins with expiry, late answers, fallbacks and sign-outs, while two plays replace one another and a setup is opened on top: proofs, verifiers and sessions are never mixed up, and every play that ends is told so |
| `JellyfinPage` | `ReadyIsAdopted`, `AnsweredOnce`, `OvertakenPlayStops`, `BootstrapConcludes` | the script over every interleaving of messages, ticks, promises and loads; in a page with an ApiClient no bootstrap waits for ever, even if no promise ever settles (its `TypeOK` is part of `ExtTypeOK`) |
| `ExtensionSignIn` | `ExtTypeOK`, `NeverStranded`, `SignInConcludes`, `ControllerSpec` | a sign-in with a redirect, a reload, a play and a sign-out is always under way and comes to an end unless a page without an ApiClient has it, and every step is one the controller alone allows |
| `ExtensionHandoff` | `HandoffAgrees`, `HandoffIsCarried`, `PartsForCause` | two overlapping sign-ins, a fallback and a sign-out: while no stale answer is stored, both copies of the bootstrap agree and the extension's is on its way to the page; the two part only for a fallback or for another ticket's answer |
| `Setup` | `SetupTypeOK`, `RedeemedWhereShown`, `OpenedIsSaved`, `ButtonsComeBack`, `OvertakenStaysSilent` | tests and saves of two servers, setups reopened, other processes, kills and restarts: what is shown, saved and redeemed against stays one server (or tickets are redeemed nowhere, while the setup page is loading), a button whose call is heard comes back, an overtaken check is not answered |
| `ConfigFile` | `TypeOK`, `WholeUnlessOverlapped`, `SavedAsAsked` | two processes load, edit and save, each killed or failing at any step: the file stays whole unless both write at once, and changes only into what a command makes of it, but for two causes that are named |
| `RuntimeMonitor` | `TypeOK`, `OneKeeper`, `NeverTwoChildren`, `RetryIsHonored`, `FailureSurfaces`, `QuitTerminates`, `SupervisionSpec` | crashes, restarts, retries and quits in every order: one thread keeps one child, a dead or hung server is restarted or shown, by itself once and then by the user only, and quitting ends, even during a restart |
| `UpgradeBackup` | `TypeOK`, `CopyIsQuiet`, `HealthyNeverGivenUp`, `UpgradeIsBackedUp`, `RuntimeSettles`, `SupervisionSpec` | two versions installed in any order, failing starts and files, kills at every step, servers that outlive the application and take their lock late: a quiet copy before every upgrade where the lock was taken in time, a start always settles, and the server is restarted once by itself |

*What the properties do not say.* `NeverStranded` speaks of a ticket that is the only one redeemed, of a server with one
URL, and `SignInConcludes` is checked there: with a fallback URL, or with two sign-ins, the extension can lose the bootstrap its
controller waits for, and `PartsForCause` says that these are the only ways. `HandoffIsCarried` holds with any number of both,
of what the extension still has; it says the bootstrap is on its way, not that it arrives (`SignInConcludes`).
`BootstrapConcludes` is about a page whose ApiClient exists, and `SignInConcludes` leaves one way out: a page without an ApiClient has the
bootstrap of the pending sign-in. The script then waits for ever (see below).
`SignInConcludes` says the sign-in ends, not that it succeeds, nor that its request is
answered: `session.failed` is reported under the id of the active play or of nobody, so the
request that signs in hears nothing. `HandoffAgrees` excepts a handoff of an older epoch, which is what a late
ticket leaves (`StaleNeverDelivered`). `WholeUnlessOverlapped` and `SavedAsAsked` except
two processes that write at once; `SavedAsAsked` also excepts a process whose load is out of date and one that loaded with
`FORESEER_URL` set. The code has no lock and merges the variable into what it saves, so all three do happen (see below).
`RedeemedWhereShown` says "or nowhere" while the setup page replaces the app. `ButtonsComeBack` is about calls the page
can hear of (not `unheard`), and about Test as long as its setup is open. `OpenedIsSaved` speaks of saves whose file could be written: `save_setup` goes on when it cannot.
`UpgradeIsBackedUp` compares with the record; a record that was lost counts as none, and no backup is
taken then (see below). It and `CopyIsQuiet` except a start that overlooked a server (see below).

### Runs that find a disagreement

Each of these checks one property that the repository states and the code does not keep.

| run | property | what happens |
|---|---|---|
| `ExtensionStale` | `StaleNeverDelivered` | a ticket redeemed before a sign-out is delivered to the page after it |
| `ExtensionFallback` | `FallbackIsTried` | `session.failed` gives the sign-in up although its bootstrap names another URL |
| `RuntimeOrphan` | `NoOrphan` | a restart that waited for the mutex spawns a child after the last shutdown |
| `UpgradePruned` | `NewestAreKept` | pruning goes by directory name: the backup just made for 0.10 goes, the older ones of 0.9 stay |

### Seen while modelling

These are behaviours of the models too, without a run of their own.

* *Controller.* A late answer or player event after `app.quit` takes the controller out of `ShuttingDown`, and commands are
  admitted again (`controller.rs:203`). A playback that ends after a sign-out makes it `Ready` without a session
  (`controller.rs:426`). A replaced play is told `canceled` before its successor is told `accepted`
  (`replacementSequence` in `protocol-v1.json` has the other order).
* *Extension and page.* `playback.stopped` of a replaced play cancels its successor (`extension.rs:837`).
  `session.failed` tells the active play `error` and leaves it active, so that a second terminal event may follow. A play
  that waited for the session may start after a newer one that did not have to wait. When a page arrives elsewhere, the
  extension drops its bootstrap before the controller tries the fallback (`extension.rs:182`): the fallback page is
  loaded and sent nothing. A page without Jellyfin Web at the right address (an error page, a proxy's sign-in) is sent the bootstrap all the
  same; its ticks return before they count an attempt (`jellyfin-session.js:130`), so neither `session.ready` nor `session.failed`
  ever comes, and the sign-in stays pending until the user signs out or another page is loaded.
* *Setup.* The page's Standalone, Open logs and Quit buttons do nothing: the bridge has no
  `setup.standalone`, and `nativeCall` adds `url` and `allowHttp` to the other two, which
  `deny_unknown_fields` refuses (`CHANGELOG.md:9-13` lists the choice). After a failed navigation setup is closed: every further
  Connect is an error although the configuration has changed, and Test is refused. The button that opens
  the setup stays disabled when that fails. While the setup page is loading the app is still shown, and a sign-in it completes is
  sent to the address of the setup page and fails (`extension.rs:655-664`). A URL of more than 2048 bytes leaves Test or Connect disabled: the bridge reports
  the command as sent, `parse_command` refuses it (`protocol.rs:120-124`), and nobody answers (`extension.rs:390-393`). So does,
  for Test, a server whose status is outside 100..599 (`setup-event.js:21-34`).
* *Runtime.* A restarted child is never sent the playback state (`supervisor.rs:428`). The monitor goes on posting runtime
  failures and recoveries after the user switched to a remote server.
* *Configuration.* Two processes share `config.json.tmp`: their writes can mix, and a rename can put an unfinished file in
  place, although the comment at `config.rs:208` promises a whole one; of two changes one may be lost.
  `README.md:95` calls `FORESEER_URL` a temporary override that "does not modify config.json"; with `--cache-limit` its
  server and mode are saved, with `--standalone` its server. Without the second exception, `p \notin overridden`, TLC
  finds `SavedAsAsked` violated by exactly this. Nothing is synced
  before the rename; a power failure is outside the model.
* *Upgrades.* An application killed between the spawn of its server and the moment the server takes its lock
  (`supervisor.rs:265`, `supervisor.rs:603-617`) leaves a server the next start does not see: that start may copy a database that
  is being written, and upgrade with no other backup. Without `~overlooked`, TLC finds `CopyIsQuiet` and `UpgradeIsBackedUp` violated
  by this. A kill between the truncation and the writing of `runtime-version.json` loses the record, and the next
  upgrade is not backed up (`README.md:112-114`). Failed starts of an upgrade each make a backup of the half-migrated
  database, and three of them push out the pristine one. Going back to the recorded version after
  such a start takes no backup. A backup that pruning removed by name makes the probes of a healthy server fail
  when its metadata is to be completed; this costs the one automatic restart, and no more (`HealthyNeverGivenUp`).

### Bounds

* *Controller.* Two sign-in ids, two redemptions and one sign-out are the least that overlap:
  one answer from the old epoch while another sign-in is pending in the new one.
  `MaxPending = 1` makes the second proof meet the full map (the eviction is by age and the same at
  10; `ProofsStayBounded` proves it for every value). Two origins allow one fallback. Two plays are
  the least that replace each other. `MaxGeneration = 1` opens a setup once, at any moment; checks and saves are left to
  `Setup`, where there is room for them (`SetupIds` is empty). `View` leaves out `posted`, which every handler
  writes and none reads.
* *JellyfinPage.* `MaxAttempts = 4` instead of 120: enough for not-ready, validating,
  repeated ticks during a validation, and giving up. `MaxPlays = 3` plays or clears per page load let a
  play be overtaken twice. Two generations show a bootstrap replaced by the next
  load's, two items a play replaced by another. `MaxOutbox` only makes the page wait for the native side.
* *Extension.* Two page loads are one arrival and one reload or redirect. The bounds hold back the
  user and the page loads, never the extension or the script, so that the fair runs are not cut short.
  `ExtensionHandoff` has no play, since plays touch neither copy of the bootstrap.
* *Setup.* Three calls let two saves queue up behind a test, or a test be overtaken by a save. Two servers are
  the least that can be told apart. Two starts show what the second makes of what the first left.
  `MaxGeneration = 3` lets a setup be left and reopened under a running check. One URL stands for all that do not validate, and one
  for all that are too long. Ids are taken in a fixed order, since no code depends on their values.
* *ConfigFile.* Two processes and three inodes (one named by each name, one free) are finite without any bound: each
  process saves as often as it likes. `MinLimit` is the middle one of three limits. `FORESEER_URL`
  has one value, so that the other URL is saved only where it was asked for.
* *RuntimeMonitor.* Three threads: by `OneKeeper` one at most runs, the
  others are there to be started wrongly. `Threshold = 3` is the code's. Nothing else is bounded.
* *UpgradeBackup.* `Threshold = 3` is the code's. Two backups are kept instead of three, so that five starts suffice to verify a version,
  fill `backups/` and prune it; `UpgradePruned` has the code's three, and six starts. One server may outlive its application
  while another is launched: that is who is overlooked. A second survivor would be a second of the same. Two versions, named 0.9 and 0.10, are the least whose name order is not their age order.

`Symmetric` permutes ids, threads, processes or inodes, and is used in runs without liveness only.

### Fairness

* `JellyfinPage!FairSpec`: the interval fires (`setInterval`), the
  native side reads its messages. Nothing of the ApiClient, which a page may lack, nor of promises: a server may hang, and the script counts
  attempts for that very reason.
* `Extension!ExtFairSpec`: the web view arrives somewhere when it was sent somewhere (CEF reports a load
  for error pages too), events and messages are handled, the interval fires.
  Nothing of the ApiClient, the user, the server or promises.
* `Setup!FairSetupSpec`: commands are admitted and events handled (queues of Jellium and CEF), a check ends by its
  timeout of ten seconds, a navigation ends, and a closed application exits. Nothing of the user or of other processes.
* `RuntimeMonitor!FairSpec`: threads are scheduled; a start ends within its 90 s timeout and a shutdown within
  its 2 s; CEF calls `on_runtime_ready`; Jellium returns to `main` after its shutdown notice.
* `UpgradeBackup!FairSpec`: the application's threads run, and a start times out after 90 s. Nothing of
  the server, the user or the disk.

Every property of a passing run has a mutant in `PROJECT.json`: a plausible slip in a mapped
definition that makes TLC find that property violated. The mutants' definitions stand beside the originals,
marked `Mutant:`.

## 4. What is proved

TLAPS checks these for every value of the constants, from the named assumptions only. They say that bounds and
limits are naturals and that `None` and its like are no ids, versions or documents
(`BoundAssumption`, `ExtBoundAssumption`, `NoneAssumption`, `SessionAssumption`, `BootstrapAssumption`, `HandoffAssumption`, `FreeAssumption`, `VersionsAssumption`,
`LimitsAssumption`, `BootsAssumption`, `ServerAssumption`, `ContentAssumption`, `NamesAssumption`, `NoPlayAssumption`), that at least one proof is kept (`MaxPendingAssumption`), sign-in
ids are finitely many (`IdsAssumption`), thresholds are positive (`ThresholdAssumption`, `AttemptsAssumption`), names have an order (`RankAssumption`),
the minimum cache limit is one of the limits (`LimitAssumption`), the default configuration respects it (`DefaultAssumption`),
and `FORESEER_URL` names a server like any other (`OverridesAssumption`).

**`ControllerProofs`**
* `TypeCorrect`: `TypeOK` is inductive; a lemma per part of `Next`.
* `ProofsStayBounded`: `ProofsBounded` with `TypeOK`. `InsertBounded` carries it: room is made by
  evicting the oldest, which exists because keys are naturals and `<` is well founded
  (`LeastElement`); expiry and taking only shrink the set (`FewerHeld`).
* `VerifiersUsedOnce`: by itself not inductive, since a key still in the map could be minted again or be
  held twice. `KeysOnce` adds that every key was minted (lies below `nextKey`), that no two proofs
  hold the same key, and no redeemed key is still held.
* `SessionsAreCurrent`, `PendingAlwaysAgrees`: conjuncts of `SessionInv`, which adds
  that both generations are redemptions that were started.
* `ReadyIsForOwnSession` (action property): `ready` is posted by `BootstrapReady` alone
  (`ReadyPosted`), where `PendingAgrees` and `Matches` make the acknowledged session the one redeemed for that id.
* `NothingDropsSilently` (action property): `activeId` changes only in `PlayItem`, `EndPlayback`,
  and the handlers that clear a session, a setup or the application; the first two post a
  terminal event for the old play, which is the last one it receives in that step.

**`ExtensionProofs`** (extends `ControllerProofs`)
* `ImplementsController`: `ExtSpec => Spec`. Each step is a step of `Controller!Next` or stutters on its variables,
  given that a handoff is a redemption that was answered and `session.failed` is reported under an id the
  extension may use (`HandInv`). Every theorem about `Controller` therefore holds of the extension with the page.
* `HandoffsAgree`: the handoff is dropped or renewed by whatever changes the pending bootstrap or the epoch
  (`CopiesStepped`); an answer makes both copies out alike, or is stale, and stays so because epochs only grow.

**`ExtensionPageProofs`** (extends `ExtensionProofs`)
* `ExtTypeCorrect`: `ExtTypeOK`, the script's types included. The prover cannot cite a theorem of an INSTANCEd module, so
  what the script's steps do to its types is proved again of the instance.
* `HandoffsAreCarried`: not inductive by itself. A delivery that was snapshotted may be overtaken by a newer bootstrap and then
  be posted behind it; `OutrunIsReloaded` says a page load is then still to come, which asks for the newer one.
  The lemmas follow the bootstrap from hand to hand: a message behind it spares it or is a clear, which drops the handoff
  (`PostSpares`, `HandlingSpares`); the script keeps it or answers it (`CarriedByScript`, on `KeptOrAnswered` of each of
  its steps); a page load asks for it again (`StepCarried`).
* `TheyPartForCause` (action property): what is pending was answered (`PendingAnswered`), so that an answer that overwrites
  the handoff is another ticket's (`AnsweredOther`).
* `NothingIsStranded`: with one URL (`OneUrl`) no fallback differs from what was tried, and with one redemption no other
  answer comes, so the two copies never part (`KeptTogether`); `HandoffsAreCarried` and the controller's
  `SessionsAreCurrent` do the rest.

**`JellyfinPageProofs`**, of the script under any native side (`ScriptSpec`) but for the last
* `TypeCorrect`: with the attempts below their limit while a bootstrap is kept (`Trying`).
* `ImplementsScript`: `Spec => ScriptSpec`.
* `ReadyIsAlwaysAdopted` (action property): the page acknowledges from two places (`Acknowledge`), with the identity checked
  or adopted in the same step.
* `OvertakenPlaysStop` (action property): `Chains` says no open promise chain is of a later generation than `playGen`, that the
  one of this generation belongs to an item asked for, and that nothing waits after a clear.
* `SessionsAreAnsweredOnce` (action property): the bootstrap that is kept was not answered (`Unanswered`), which holds because a
  page is sent one bootstrap (`FreshPage`) and every answer drops it. This one needs the native side of `Spec`.

**`SetupProofs`** (extends `ControllerProofs`)
* `RedeemsWhereShown` and `OpensWhatIsSaved`, from one invariant. The heart of it is `OneSave`: at most one save is under way,
  from the button to the answer, and only while the page that asked for it is shown and waits. It rests on `Calls`: a call is in one
  place at a time and told nothing before it is answered, so no answer releases the button early. `DoneWaits` keeps the
  button held after a save that succeeded, `Stored` remembers what the file says until the controller decides.
  `Handed` and `Opened` say where a document that is still to be loaded comes from: an app the window is told to load is the one tickets
  are redeemed at, and the setup page replaces an app, with nothing opened.
* `OvertakenIsSilent` (action property): a check carries the generation of its setup, and an overtaken one an older one (`Gens`).
* `SetupTypeCorrect`: each step is a step of the controller, a stutter or a new controller (`DrivesController`).

**`ConfigFileProofs`**
* `TypeCorrect`, `SavesAreWhole` and `SavesAreAsked` (action property), from one invariant. It follows the process that
  writes alone: what it has open is what `config.json.tmp` names (`Solo`), which is not what
  `config.json` names (`Apart`), and nobody has the latter open (`Settled`), so no write reaches it; what the process
  saves is what was asked of what is still loaded (`Current`), unless it is `stale` or `overridden`. `ReadBack` says a saved configuration is read as it is.

**`RuntimeMonitorProofs`**
* `TypeCorrect`.
* `KeepersAreAlone` and `RetriesAreHonored`, from `KeeperInv`. Neither is inductive alone: a retry may start
  only because nobody runs while the recovery view is shown, which holds because a monitor that reports
  has set `runtime_failed` first and ends with the report.
* `ChildrenAreAlone`, from `ChildInv`: a thread between shutting down the old child and
  the new one being ready holds the mutex, and the child stays dead under it.
* `ImplementsSupervision`: with one thread at most, where it stands is the phase before and after its step (`ThreadPhase`, on
  `KeeperInv`); the restart was spent by whoever replaces or gives up the server (`Tried`).

**`UpgradeBackupProofs`**
* `TypeCorrect`: with the count of missed probes below the threshold until it is reached (`TypeInv`).
* `CopiesAreQuiet`: until the spawn the application has no child (`Quiet`). A server that lives has the lock or has yet to take it, so after a look that
  overlooked nobody there are no survivors either (`Single`), until a kill makes the child one.
* `UpgradesAreBackedUp` (action property): `BackupInv` follows the backup from its directory to the server that may need it;
  the record stays still until that server is ready, since only a probe changes it; a server that outlives
  its application may migrate under the same condition (`MayMigrate`). The case of an overlooked one is excepted.
* `HealthyIsNeverGivenUp`: while nothing is to blame, a probe is missed only after the record was written, so the restart
  that follows finds the record of its own version and takes no backup that could be missing (`Blameless`).
* `ImplementsSupervision`: only an application whose server was ready has a monitor, and its server is started again or given up
  only after the restart was spent (`Tried`).

*Model-checked only.* Liveness (`BootstrapConcludes`, `SignInConcludes`, `ButtonsComeBack`, `FailureSurfaces`,
`QuitTerminates`, `RuntimeSettles`): fairness and ENABLED are outside the prover. The four disagreements are
counterexamples, which TLC shows. Every other property of a passing run is a theorem.

## 5. Plan

Done in this order, the most important behaviour first:
1. `Controller`: the state everything else hangs on, and its proofs.
2. `JellyfinPage`: the most interleaved code, and its proofs.
3. `Extension`: the composition of the two, and the proof that it implements the first.
4. `RuntimeMonitor`: threads and atomics, and its proofs.
5. `UpgradeBackup`: the data across crashes and upgrades, and its proofs.
6. `ConfigFile` and `Setup`: the file and what the user makes of it, and the proofs of both.
7. `Supervision`, `JellyfinPage!ScriptSpec` and the proofs that the detailed modules implement them; what becomes of
   a bootstrap between the controller, the extension and the script (`ExtensionPageProofs`).

Left, in the order of their worth:
1. *Extension, widened*: several bootstraps per page load, and the native player's events, whose order with the
   page's messages decides who ends a play.
2. *Protocol*: which command is admitted from which page, with its sizes and formats.
