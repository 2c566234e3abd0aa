# TLA+ models of PyNextCloud Sync

PyNextCloud Sync keeps one Nextcloud account mirrored to one local folder.  The
reconciliation itself is done by `nextcloudcmd`; the program decides *when* to run
it and *whether it is safe to*, looks after the credential it needs, and carries out
the first synchronization with both sides protected.  What is modelled is every part
of it that keeps state across callbacks: the scheduler and the guard, the watchers
and push client that feed it, the keyring and the windows that obtain a password,
the protected initialization, and the application's life cycle around them.

Paths below are relative to `src/pynextcloud_sync/`.

## The system

| Component | State | Operations | Correct when |
|---|---|---|---|
| **SyncScheduler** `core/scheduler.py` | queue, pause and network flags, debounce / start / cooldown sources, `_preparing`, `_safety_checking`, the alert and its approval, run marker flag, keyring and authentication flags, feedback flags | `request`, the timers' callbacks, `_start`, the continuations of check, lookup, process and recording, pause / network / approval / `stop` | one run at a time; every run is covered by a check or a decision; no trigger is forgotten; `stop` is final |
| **CoalescingQueue** `core/triggers.py` | a set of reasons | add, take, discard, clear | as part of the scheduler |
| **SyncEngine** `core/sync_engine.py` | the process | `run`, `maybe_finish`, `cancel` | one process; the callback is called once |
| **StateController** `core/state.py` | what windows and tray show | `set` | shows the most urgent condition |
| **SyncRunMarker** `core/sync_run_marker.py` | the file `sync-run.json` | `begin`, `clear`, `pending_for` | there whenever a run is in no baseline |
| **SafetyGuard** `core/safety.py` | the manifest file | `check`, `record_current`, `scan_inventory` | a loss over the limits, a lost or replaced folder blocks |
| **RuntimeController** `core/runtime.py` | signatures of the settings, fallback and recovery timers | start, stop, reconfigure, `_resumed`, reconnection | watchers match the settings |
| **Timers, network, power, suspend** `core/*.py` | sources | start, stop, call back | as part of the controller |
| **InotifyWatcher** `core/inotify.py` | watch descriptors, the walk, the debounced callback | start, walk, read events, overflow, stop | every directory is watched; every change told of is reported |
| **BootstrapRunner** `core/bootstrap.py` | staging folder, worker thread | analyze, execute, cancel | neither side's version is lost |
| **CredentialStore** `nextcloud/credentials.py` | lookups in flight | lookup, store, clear | the answer is the stored password |
| **NotifyPushClient** `nextcloud/push.py` | connection, generation, back-off | connect, disconnect, messages | reconnects unless told not to |
| **LoginFlowV2, reconnect, setup** `nextcloud/login_flow.py`, `ui/*.py` | poll, pending credential | start, cancel, poll, store | no authorization is leaked, no answer is lost |
| **Account details** `nextcloud/details_refresher.py` | requests in flight | refresh | a stale answer is dropped |
| **Application** `application.py` | windows, runtime, pending requests | startup, update, setup, recovery, remove account, quit | a runtime only with an account whose baseline is saved; no two `nextcloudcmd` at work together; nothing new under a mandatory update |
| **Updates** `core/updates.py` | the check in flight | check, compare | a mandatory update is not missed |
| **Desktop integration** `core/desktop_integration.py` | a bookmark, a link, a folder icon | apply, remove | the user's own entries are left alone |
| **Config, logs, exclusions, presentation, utilities** | files, widgets | — | not about synchronization |

Watchers, timers, push and buttons call `request` on the scheduler.  The scheduler
starts a thread for the safety check, asks the credential store for the password,
starts `nextcloudcmd`, and starts a thread that records the new baseline; each
reports back on the GLib main loop.  So every handler is atomic, and what is hard
is what comes between two handlers: the order in which threads, timers, the
process and the user's clicks arrive; what a pending timer does after the
situation changed; the folder changing under a check or a run; and a kill between
two writes.  `hazards` in `PROJECT.json` lists these places line by line.

## Modules

| Module | What it models |
|---|---|
| `SyncCycle` | the abstract specification of a synchronization: one operation at a time, and a run only after a passed check, one use of an approval, or with the guard off |
| `Scheduler`, `SchedulerProperties` | `SyncScheduler` with its queue, process slot and marker, one action per handler; its properties, and `SyncCycle` instantiated with a refinement mapping |
| `GuardedSync` | the guard on a folder that changes: the same cycle (it uses `SyncCycle`'s actions) with inventories, journal, server, manifest and marker |
| `Runtime` | `RuntimeController` with its timers: the signatures of the settings, the watcher or its fallback, recovery after an overflow, push, suspend |
| `NotifyPush` | `NotifyPushClient`: discovery, pre-authentication, the socket, back-off and fallback |
| `Inotify` | the recursive watcher over a tree that changes under it, with the kernel's queue and watch limit |
| `Keyring` | `CredentialStore`: lookups that join, the verified write, the removal, one D-Bus call after another |
| `LoginFlow` | `LoginFlowV2`; a library of two operators (`StartFlow`, `CancelFlow`) and the flow's own actions, which the windows compose with theirs |
| `Reconnect`, `Setup` | the two windows that use it |
| `Details` | the account details and the answers that decide whether synchronization needs a reconnection |
| `Bootstrap` | the protected first synchronization on files with versions |
| `Lifecycle` | the application, the update checks and the windows |
| `Desktop` | bookmark, desktop link and folder icon |
| `MC*` | constants for TLC, and unions of the parts checked by one run |
| `SchedulerProofs`, `GuardedSyncProofs`, `BootstrapProofs`, `LifecycleProofs` | theorems and proofs about the module of that name |
| `AccountProofs` | those about `Keyring` and `Details`; `SignInProofs`: `LoginFlow`, `Reconnect` and `Setup`; `TriggerProofs`: `Runtime` and `NotifyPush`; `FolderProofs`: `Inotify` and `Desktop` |

Who knows whom in the code, and how the modules follow it: `Lifecycle` owns the
runtime and the initialization and abstracts them to their phases; `Runtime` owns the
watcher, the push client and the scheduler and abstracts each to running or not, and
to the requests it makes; `Scheduler` takes requests from any source at any moment
and asks the keyring, whose answers it takes in any order; `Scheduler` and
`GuardedSync` both follow `SyncCycle`, the first by refinement, the second by using
its actions.  A module thus has its neighbour's whole behaviour as nondeterminism:
what holds of it alone holds of the composition.

### Scheduler

State variables have the names of the attributes.  The work that runs elsewhere
is four variables: `checking` (the reasons each check thread holds), `lookups`,
`process`, `recorders`.  A continuation (`SafetyChecked`, `LookupDone`,
`ProcessExits`, `BaselineRecorded`) may come whenever its work is in progress,
with any verdict.  A handler that calls another is a formula built from the other's:
`SetOnline` contains `Request`, `Request` contains `ScheduleStart` or `Start`.  What a
caller assigned before the call is passed in the record `from`.

| Action | Code |
|---|---|
| `Requested` | `request`, from any source |
| `DebounceElapsed`, `IdleStart`, `CooldownFinished` | `_debounce_elapsed`, `_start`, `_cooldown_finished` |
| `SafetyChecked` | `_safety_checked`, with `_prepare_sync` when it passes |
| `LookupDone` | `secret_ready`: each way to give up, `engine.run`, or a spawn that fails |
| `ProcessExits` | `maybe_finish` and `_finished` |
| `BaselineRecorded` | `_baseline_recorded` |
| `SetUserPaused`, `SetBatteryPaused`, `SetOnline` | the setters of the same names |
| `Resumed`, `SettingsSaved`, `AuthenticationRestored` | `RuntimeController._resumed`, `reconfigure`, `authentication_restored` |
| `AuthenticationRejected`, `ApproveSafetyOnce`, `Stop` | the methods of the same names |

- There is no clock: a pending timer fires at any moment.  Checks, prompts and runs
  take any time, so every order the model allows can happen.  That local events may
  restart the debounce timer for ever is not visible without a clock.
- `idle_add` callbacks of one priority run in order, hence `~idle_start` in the
  continuations of the two threads.  A lookup has no such guard, because it may have
  joined an earlier one.
- The handle `_start_source` and the idle source itself are two variables: `_start`,
  called directly to unlock the keyring, resets the handle and leaves the source.
- The account is always configured while the scheduler lives.

### GuardedSync

The files are a small set; `files`, `journal` (what the sync database records) and
`remote` are its subsets.  `Verdict` is `SafetyGuard.check` in the code's order.
`nextcloudcmd` is external: `Propagate` settles one file at a time, deleting on one
side what its journal knows and the other side has lost, and copying what it does
not know.  The folder and the server change between any two steps (`World`).
`Crash` keeps the files on disk and begins again, and the `nextcloudcmd` of that
moment ends with it.  A check scans the folder in one step; links, directories, sizes
and the verdict `account_changed` are left out.  History variables are read by
properties only, here and in the other modules.

### Runtime, NotifyPush, Inotify

`Runtime`'s settings are a record with one field per signature the code compares;
`reconfigure` is one action (`Reconfigure`) that does every part's comparison in the
code's order.  An overflow installs an idle source (`recovery`), a degraded watcher a
fallback timer; the credential that push needs is a lookup in flight, with the
settings it was begun for.

`NotifyPush` replaces the generation number by whether an attempt is the current one;
abandoned attempts are counted only as sockets whose `closed` signal is still to come
(`closing`, at most `MaxClosing`), because that signal is the one thing of theirs that
is still looked at.

In `Inotify` a directory is an inode with a parent and a name, and the kernel's watch
descriptor is the inode's: a directory that is already watched gets the descriptor it
had, as `inotify_add_watch` does.  The walk lists a directory, watches it, and goes
on to what it listed, and the tree changes between any two of these.  The
queue holds `QueueLimit` events and then one overflow; `WatchLimit` watches exist.

### Keyring, LoginFlow, Reconnect, Setup, Details

Passwords are numbered in the order they are stored or granted.  A keyring operation
is a thread at a stage (`reader`, `storing`, `clearing`); between two stages others
go on.  `joined` lookups are a sequence, answered together (`Deliver`).  The windows
have their requests in flight as sets and sequences, so that answers come in any
order and after cancellation, closing or a new start, which is what the code's
generation and `_closed` tests are for.  The server may grant, refuse, rate-limit
or fail any request.

### Bootstrap

A file has a version; first versions differ, agree or are missing per side, and every
edit makes a new one.  A place has files under their own names (`orig`), versions
preserved under dated names (`alt`) and conflict copies (`conf`).  A run of
`nextcloudcmd` merges file by file, from the journal of the place it runs in, and
may stop after any subset of the files.  `Execute` takes a decision for each conflict,
which covers the four merge policies.  People edit both sides at any moment, the
window may be closed at any moment, and the application be started again.

### Lifecycle, Desktop

`Lifecycle` has the update check's requests, the setup and initialization windows, the
runtime as its cycle (`idle`, `preparing`, `running`), account removals as the chain
of their callbacks, and `quit`.  Two removals and several safety dialogs can be open
together, because nothing in the code prevents it.  `Desktop` has what is on the disk
and what the user and Files change there; any write may be refused.

## Runs

All runs say `CHECK_DEADLOCK FALSE`: a program with nothing queued and no event
comes to rest, and after `stop()`, quitting or closing it stays there.

| Run | Question | Bounds |
|---|---|---|
| `scheduler_blocks` | `SingleFlight`, `QuietAfterStop`, `StrandedOnlyBy`, `HeldExceptByTimers`, the refinement `SafeCycle`, with network, approval, account and stop | three triggers, one per way `request` treats them: debounced, plain, manual |
| `scheduler_pauses` | `StrandedOnlyBy`, `NoTriggerForgotten` under user and battery pause, settings and suspend | the two automatic triggers |
| `scheduler_live` | `PromisedStartHappens`, `NoFeedbackLoop` | a local and a manual trigger, and the network |
| `guarded_sync` | a checked run's loss is below the limits; a run in no baseline is marked | three files, limits 2 files / 60 %, three changes or crashes, switching the guard among them |
| `account` | `Details`, `Keyring`, `Reconnect` and `Setup` | two accounts, two passwords, three refreshes; two stores and two waiting callers; two starts and two grants; two servers |
| `triggers` | `Runtime` and `NotifyPush` | two suspends; two sockets still closing |
| `folder` | `Inotify` and `Desktop` | two directories, two names, a queue of four, two watches (fewer than directories with the root), four changes |
| `application` | `Lifecycle` and `Bootstrap` | two removals and two dialogs, at most two of the things that pile up at a time (`Bounded`); one file, two edits, two analyses |
| `guarded_approved`, `reconnect_resumes`, `inotify_recursive`, `bootstrap_late` | violations, see below | |

**Unions.**  `account`, `triggers`, `folder` and `application` check several modules in
one run.  Parts that share no variable are independent, and a composition of them has
nothing but pairs of their states, so each behaviour of such a run is one of a single
part, chosen by the variable `part` in the initial state, while the others stay in
one initial state.  The fairness is that of the part that moves, and a property of a
part is about its own variables only.  The unions extend the parts' modules, whose
specifications have names of their own (`DetailsSpec`, `PushSpec`, ...), so that a run
checks the very definitions the theorems are about.

**Why the bounds are enough.**  The scheduler runs have no bound but their sets of
events: each variable is a flag, a subset of the triggers, or a count that
`SingleFlight` keeps below two.  In `guarded_sync` three files allow a loss under,
at and over a limit, and three changes a deletion before the check, during the run
and before the scan, or two crashes with one.  A stale answer takes two generations
and a join two callers; a leaked authorization two grants; an account replaced under
an answer two accounts.  A rename race takes two directories (one inside the other)
and two names; losing a version takes one file, as files do not interact, and one edit
on each side.  The theorems below remove the bounds for most of the safety properties.

What the passing runs show, in words:

- `SingleFlight`: whatever comes between two handlers, at most one of check, lookup,
  process and recording is in progress, and `_preparing` says exactly when.
- `SafeCycle`: each run is covered by one check, one approval or a disabled guard.
- `StrandedOnlyBy`: a trigger that nothing holds back has something scheduled that
  will look at it, but after three named steps: a cooldown that ends with the queue
  filled after the run had found it empty, a lookup that fails, and a resume in
  manual-only mode.  (In `account`, the property of that name is `Reconnect`'s: a
  waiting window has something to wait for, unless a poll was refused.)
- `HeldExceptByTimers`: a locked keyring, a rejected credential and an alert hold
  everything back but a timer that was already pending.
- `NoTriggerForgotten`: pauses, alerts and the network never lose the last reason to
  reconcile.
- `QuietAfterStop`, `NothingAfterStop`: late continuations start nothing.
- `CheckedLossBounded`: files that vanish before a checked run are deleted on the
  server only below both limits.  `UncommittedRunMarked`: a kill never hides a run.
- `DetectionLostOnlyBy`, `RunningAsConfigured`, `LostEventsFollowed`: through
  reconfiguration, degradation and recovery a controller that should watch notices
  changes one way or another, unless the interval that spared it a fallback was
  switched off; it runs nothing the settings no longer ask for; and lost events are
  followed by a reconciliation.
- `OneAttempt`, `AbandonedOnlyBy`, `FallsBack`: one live attempt; trying ends only for
  the named reasons; a token that the server refuses leads to the password.
- `UnwatchedOnlyBy`, `ChangesReported`: an idle watcher misses a directory only below
  one that was renamed or that appeared between a listing and its watch, and what
  it was told of is reported, through overflows and the watch limit.
- `StaleOnlyByJoining`, `LookupsEnd`: an answer older than the stored password goes
  only to who joined an earlier lookup, and every lookup ends.
- `NoneLeaked`, `RevokedOnlyIfInterrupted`: an authorization is stored, pending or
  revoked, and a stored one is not revoked, unless a keyring write was interrupted.
- `FinishedIsStoredInOrder`, `SavedOfAccount`, `OlderNeverReplaces`, `RequiredOnlyBy`:
  an account that setup saves has its credential unless steps overtook each other;
  saved details are the configured account's, and an older answer never replaces a
  later one of the same asker; only a refusal
  makes synchronization wait for a reconnection.
- `LostOnlyBy`, `BaselineAgreed`: the initialization loses a version only by its three
  named races, and saves as baseline only what both sides agreed on.
- `RuntimeJustified`: the runtime exists only with an account, a saved baseline and no
  mandatory update, unless an initialization completed after its account was removed
  or a setup window left by a second removal set the account up again (`raced`).
- `OverlapOnlyBy`: the process that a stopped runtime signalled and did not wait for
  (`stray`) counts as a process.  Two come to overlap only while one of them is such a
  process or with `raced`, and a process is left ending only by a mandatory update, a
  removal, a recovery from a dialog that outlived its alert, or shutdown.  So
  "at most one `nextcloudcmd` process" (the repository's README) is true of what is
  started and not yet stopped, and not of what is still ending.
- `MandatoryAllowsOnly`: under a mandatory update its window stays, there is no runtime,
  main window or settings, and nothing else opens but the setup window of a removal under
  way.  It does not close what was open: a setup, a reconnection or an initialization
  goes on, and the completion of one of the first two may begin an initialization.
- `RemovalForgets`: a confirmed removal ends only with account and baseline forgotten.
- `UserEntriesKept`: what the user has on the Desktop is not replaced or removed.

### Where the code does not do what a document says

Each of these runs checks one sentence of the repository and is expected to find it
violated.

| Run | Statement | What the code does |
|---|---|---|
| `guarded_approved` | the user approves "those deletions for one run" (README) | the approved run checks nothing, so later deletions go with them |
| `reconnect_resumes` | "The renewed credential is verified before a normal protected synchronization resumes" (README) | canceling while it is being stored revokes it, and synchronization resumes with it |
| `inotify_recursive` | "recursive Linux `inotify` monitoring" (README) | a directory renamed inside the tree keeps its descriptor, whose entry the queued `IN_MOVE_SELF` then drops |
| `bootstrap_late` | "Merge while preserving both versions" (README) | an edit after the comparison with the analysis is overwritten by the staged result |

Other behaviour met while modelling, kept in the models and visible in the exceptions
of the properties: a trigger queued in a cooldown whose run had found the queue empty
waits for the next one, Sync Now included; a pending debounce timer starts work under
a lock, a rejection or an alert; a folder that is emptied between the end of a run
and the scan becomes the baseline; a folder emptied with its database raises the
approvable of two alerts; a raising callback of a joined lookup silences those after
it; setup that goes back and on while a write is under way saves names without their
credential; a watcher that degraded while an interval was on stays without fallback
when it is switched off; the window of the initialization, closed on an upload about to
start, leaves a run behind that takes removed staging files for deletions; a late
refusal of an old password makes the new one look rejected; two `nextcloudcmd` may
overlap after a removal that raced with an initialization; a recovery chosen in a safety
dialog that was left open, after the run was approved in another, signals that run and
starts the initialization, whose `nextcloudcmd` may begin before the run has ended, and
so may that of a setup which follows a removal or a mandatory update during a run; a
mandatory update leaves an open setup, reconnection and initialization as they are,
which may then start `nextcloudcmd`, although its window says that the program "will not
start synchronization" (`ui/update_window.py`); a second removal leaves a setup window
that resets the baseline.  These last four have no run of their own: they are the named
exceptions of `OverlapOnlyBy`, `MandatoryAllowsOnly` and `RuntimeJustified`.

## Fairness

Nothing is assumed of users, the server, the network, the kernel or triggers.  Weak
fairness is assumed of what the main loop and started work do by themselves:

| Where | Of | Because |
|---|---|---|
| `Scheduler!FairSpec` | timers, idle sources, the four continuations | GLib runs ready sources; threads report in `finally` or `except`; `nextcloudcmd` ends; a prompt is answered |
| `Runtime` | `Recover` | the idle source of an overflow runs |
| `NotifyPush` | `Progress`: the request in flight answers or fails, the timer fires, a new connection is accepted, refused or closed | libsoup reports every request; the handshake has a time limit |
| `Inotify` | `WatcherNext`: the walk, the reading of events, the debounced report | they are main-loop sources of the program |
| `Keyring` | `Progress` of a lookup | D-Bus calls answer or fail, prompts are answered |

The safety runs assume no fairness.  `FallsBack` and `NoFeedbackLoop` have their
conditions on the environment as antecedents, which behaviours of the runs satisfy.

## Proofs

`tlapm` checks, for every value of the constants that satisfies the named assumptions:

| Theorem | Statement |
|---|---|
| `SchedulerProofs!TypeCorrect`, `OneAtATime` | `Spec => []TypeOK`, `[]SingleFlight` |
| `SchedulerProofs!StopIsFinal`, `NothingForgotten`, `StrandedOnlyByNamed`, `HeldBack` | `Spec => QuietAfterStop`, `NoTriggerForgotten`, `StrandedOnlyBy`, `HeldExceptByTimers` |
| `SchedulerProofs!CycleRefined` | `Spec => SafeCycle`: the scheduler implements `SyncCycle` |
| `GuardedSyncProofs!GuardedTypeCorrect`, `MarkerHonest`, `LossIsBounded` | `Spec => []TypeOK`, `[]UncommittedRunMarked`, `[]CheckedLossBounded` |
| `BootstrapProofs!BootstrapTypeCorrect`, `BaselineIsAgreed`, `LossIsNamed` | `BootstrapSpec => []BootstrapTypeOK`, `[]BaselineAgreed`, `[]LostOnlyBy` |
| `LifecycleProofs!LifecycleTypeCorrect`, `RuntimeIsJustified`, `OverlapIsNamed`, `MandatoryIsNamed`, `RemovalIsForgetting` | `Spec => []TypeOK`, `[]RuntimeJustified`, `OverlapOnlyBy`, `MandatoryAllowsOnly`, `RemovalForgets` |
| `AccountProofs!KeyringTypeCorrect`, `FreshUnlessJoined` | the keyring: `Spec => []TypeOK`, `[]StaleOnlyByJoining` |
| `AccountProofs!DetailsTypeCorrect`, `SavedIsOfAccount`, `RequiredIsJustified`, `NewestIsKept` | `DetailsSpec => []DetailsTypeOK`, `[]SavedOfAccount`, `[]RequiredOnlyBy`, `OlderNeverReplaces` |
| `SignInProofs!ReconnectTypeCorrect`, `NoAuthorizationLeaks`, `StoredIsNotRevoked`, `WaitsForSomething` | `ReconnectSpec => []ReconnectTypeOK`, `[]NoneLeaked`, `RevokedOnlyIfInterrupted`, `StrandedOnlyBy` |
| `SignInProofs!SetupTypeCorrect`, `FinishedIsStored` | `SetupSpec => []SetupTypeOK`, `[]FinishedIsStoredInOrder` |
| `TriggerProofs!RuntimeTypeCorrect`, `DetectionKept`, `RunsAsConfigured`, `StoppedForGood` | `Spec => []TypeOK`, `[]DetectionLostOnlyBy`, `[]RunningAsConfigured`, `[]NothingAfterStop` |
| `TriggerProofs!PushTypeCorrect`, `OneAttemptOnly`, `AbandonedForAReason` | `PushSpec => []PushTypeOK`, `[]OneAttempt`, `AbandonedOnlyBy` |
| `FolderProofs!EscapesOnlyByRace` | `Spec => []UnwatchedOnlyBy` |
| `FolderProofs!DesktopTypeCorrect`, `UserEntriesStay` | `DesktopSpec => []DesktopTypeOK`, `UserEntriesKept` |
| `PartsKeepTypes` in `SignInProofs`, `TriggerProofs` and `BootstrapProofs` | `AllSpec => []PartsTyped` of `MCAccount`, `MCTriggers` and `MCApplication` |

With them, every safety property of the passing runs is proved without bounds.  The
last row is about the specifications that the runs check: a step of a composition is one
of one part, so that what is proved of the parts holds of it.

- **One at a time.**  `Inv == TypeOK /\ SingleFlight` is inductive.  `SingleFlight`
  alone is not: that `preparing` is set exactly while a thread works is what lets
  `_start`, which looks at the flag and not at the threads, start nothing twice.
- **The cycle.**  Under `Inv` the mapping `CyclePhase` is determined by which piece
  of work is in progress.  `StartCycle` maps `_start` to `Check`, `Waive` or a
  stutter, `RequestCycle` carries it over to `request`, and one lemma per handler
  over to `Next`.
- **Stop.**  After `stop()` the queue and the timers stay empty (`Emptied`),
  although late continuations arrive.
- **Nothing forgotten, nothing stranded.**  Both are read off single steps under `Inv`,
  with one lemma for each handler that others call (`Request`, `ScheduleStart`,
  `Start`, `Reconcile`).  For the first, `NotedInv` adds that a check that is noted is
  in progress and was started for a reason, and that only a pause puts triggers off.
- **The marker.**  `MarkerInv`: while a recording is in progress, a saved snapshot
  means that nothing is uncommitted, and only then is the marker removed.
- **The loss of a checked run.**  `LossInv` says that some set of files missing when
  the check passed, below the limits, covers all that this run has deleted or may still
  delete: a file it has not looked at and that is not here.  That set only shrinks, as
  files are removed only into `late` and a file is looked at once; and fewer missing
  files are not over limits that more are below (`LimitsMonotone`, by cardinality).
- **The baseline of the initialization.**  Edits go on until the final comparison.
  What makes it sufficient is that a version made by an edit is new (`PlacesInv`), so
  the staging folder cannot hold it: an edited file differs, or is deleted.
- **No version is lost.**  `LossInv` needs neither the staging folder nor the analysis
  to account for a version: every version that nobody replaced and no race took is in
  the local folder or on the server.  For each overwriting step there is a
  part that justifies it: what the staging journal has and the server has not, a user
  replaced (`JournalSuperseded`); what the merge replaced is preserved under a dated
  name (`JournalPreserved`) and on the server before the folder is touched
  (`Orderly`); the local folder is as analyzed (`Compared`) and then all in the staging
  folder (`Covered`); and the last run has no journal, so that it deletes nothing.
- **The keyring.**  The password a lookup will read is at least the one any caller that
  did not join is due, because verified writes only raise it and a lookup reads after
  its first caller asked.
- **The account details.**  Generations are given out in order (`Ordered`), and
  an answer that the callbacks' comparison lets through (`Wanted`) is about the account
  configured now (`WantedOfAccount`), because removal closes whoever asks and a closed
  one wants no answer (`ActiveOfAccount`).
- **Authorizations.**  `WindowInv` has what is true even when a write is interrupted
  (what is validated is the pending authorization; a closed window has none), and, as
  long as none is, that one thing is under way at a time and where every authorization
  is (`Accounted`).  `FlowInv` is about the login flow alone, with one lemma for each of
  its steps, which the setup assistant's `SetupInv` uses as well.
- **The controller.**  `NothingAfterStop` and `RunningAsConfigured` are not inductive:
  `reconfigure` compares signatures, so that what is needed is that the stored ones are
  those of the present settings as long as it is started (`Configured`), and that a
  lookup in flight was begun for settings with push.
- **The push client.**  `OneAttempt` is inductive as it stands; an abandoned attempt
  can only reach the tests that drop it.
- **The types.**  Most type invariants are inductive with the invariant above.  Those of
  the windows need more: requests and poll timers share one bound (`FlowBounded`), since
  a timer whose handle is overwritten goes on by itself; and setup saves an account that
  has a server and a name because every page past the second has a server, and every
  sign-in under way goes on with one (`SetupNamed`).
- **The watcher.**  `WatchInv` says of every directory that no rename and no race took
  that it is watched, with its own path, or that something still leads to it
  (`Coming`): a path to be walked, a scan that found it or one above it, an event in
  the queue, or an overflow.  Each step that ends one of the four either adds the watch
  or leaves another.  For removals it needs that what may lose its watch is in
  `moved`, and for a full queue that it has the overflow event in it.
- **The Desktop.**  No invariant: each step of the application replaces names that are
  free or its own.
- **The life cycle.**  One inductive invariant relates the runtime, the initialization,
  the windows, the update and the removals in progress; `RuntimeJustified` is a conjunct,
  and the three action properties follow from it step by step.  For `OverlapOnlyBy`, a step
  that leaves a process ending stops the runtime and begins no command (`StrayStep`), and
  no other step makes two overlap without `raced`; that a recovery during an alert
  leaves none needs that an alert holds the cycle (`AlertHeld`, inductive by itself).

What is below a directory is defined in `Inotify` as the least closed set with it,
and what is at a path by the chains of directories to it, so that no recursion is needed.
Facts that would be by induction are proved from a least counterexample (`Least`, from
the library's well-foundedness of the naturals).

Assumptions, all named and evaluated by TLC: that bounds and limits are natural numbers
(`LimitAssumption`, `LimitsAssumption`, `EditsAssumption`, `BoundsAssumption`,
`KeyringAssumption`, `GrantsAssumption`, `StartsAssumption`, `SleepsAssumption`,
`ClosingAssumption`, `DialogsAssumption`); that the constants choosing triggers,
environments and guard settings are subsets of what there is (`SourcesAssumption`,
`EnvironmentAssumption`, `GuardAssumption`); that the files are finitely many
(`FileAssumption`); that the root is not one of the other directories (`DirAssumption`);
and that the values standing for "nothing" are none of the real ones
(`AbsentAssumption`, `NobodyAssumption`).

Model-checked only: the liveness properties (`PromisedStartHappens`, `NoFeedbackLoop`,
`LookupsEnd`, `LostEventsFollowed`, `FallsBack`, `ChangesReported`), as liveness and ENABLED
are beyond the prover.  (`Inotify!TypeOK`, which no proof uses, bounds the length of
paths for the sake of enumeration, and is not stated by a theorem.)

## Not modelled

- Configuration file formats, their migration, and log rotation: no state that
  synchronization depends on but the settings, which are variables of the modules that
  read them.
- HTTP request building, parsing and the command line: the kinds of answer each caller
  tells apart are inputs; the wording is not.
- Layout, presentation, translation, the tray's icons and menus: what they call is an
  action of a module.
- Time: how long a debounce, a cooldown, a back-off or a rate limit lasts.  Hence the
  postponement of a start by local events that never pause is not shown.
- Details of a file: kinds, sizes, links, path conflicts, excluded names.
- Quitting waits for a run, and for the run that follows it; the code promises no
  moment at which it ends, and no property is stated.
- The network monitor, the battery and autostart beyond the events they raise.
