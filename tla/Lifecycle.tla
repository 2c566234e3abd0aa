----------------------------- MODULE Lifecycle -----------------------------
(***************************************************************************)
(* PyNextCloudApplication (application.py) with UpdateChecker              *)
(* (core/updates.py): from the start-up update check through setup, the    *)
(* protected initialization and the runtime to the removal of the account, *)
(* a mandatory update and quitting.                                        *)
(*                                                                         *)
(* The runtime is its synchronization cycle: idle, preparing (keyring and  *)
(* safety checks) or running nextcloudcmd; module Scheduler has the rest.  *)
(* The initialization is its nextcloudcmd runs; module Bootstrap has the   *)
(* rest.  The tray lives as long as the runtime and is left out.           *)
(***************************************************************************)
EXTENDS Naturals

CONSTANTS
  Removals,      \* the removals of the account that may be under way together
  MaxDialogs     \* bound: safety dialogs open together

ASSUME DialogsAssumption == MaxDialogs \in Nat \ {0}

VARIABLES
  account, baseline,   \* config.configured and safety.bootstrap_complete
  check,               \* the start-up check: "idle", "checking" or "done"
  showMain,            \* _pending_activation_show_main
  requests,            \* the answers UpdateChecker is waiting for
  mandatory, update,   \* _mandatory_update_manifest and the update window
  runtime,             \* "none", "on", or "inert": made, but start() returned early
  engine, queued,      \* its cycle, and whether a trigger waits
  alert, dialogs,      \* scheduler.safety_alert, and the dialogs that ask about it
  windows,             \* the other windows the application refers to
  orphans,             \* setup windows it no longer refers to, still open
  boot,                \* the bootstrap window and the step of its runner
  stray,               \* a nextcloudcmd that was signalled and not waited for
  removals,            \* the callback each removal waits for
  quitting, down,      \* the quit timer runs; the application has shut down
  raced                \* history: a baseline recorded without an account, or a second setup

runVars == <<runtime, engine, queued, alert>>
updateVars == <<check, showMain, requests, mandatory, update>>
configVars == <<account, baseline>>
windowVars == <<windows, orphans, dialogs>>
endVars == <<removals, quitting, down, raced>>
vars == <<configVars, updateVars, runVars, windowVars, boot, stray, endVars>>

Checks == {"startup", "manual"}
Answers == {"error", "current", "optional", "mandatory"}
Commands == {"snapshot", "upload", "download"}     \* steps of the runner that run nextcloudcmd
BootSteps == Commands \cup {"none", "starting", "review", "verified", "error"}

(* Everything has its type, and a safety dialog lives on the main window.  *)
TypeOK ==
  /\ account \in BOOLEAN /\ baseline \in BOOLEAN
  /\ check \in {"idle", "checking", "done"} /\ showMain \in BOOLEAN
  /\ requests \in [Checks -> {"none", "sent", "canceled"}]
  /\ mandatory \in BOOLEAN /\ update \in {"none", "optional", "mandatory"}
  /\ runtime \in {"none", "on", "inert"} /\ engine \in {"idle", "preparing", "running"}
  /\ queued \in BOOLEAN /\ alert \in BOOLEAN
  /\ windows \subseteq {"main", "settings", "setup", "reconnect"} /\ orphans \in BOOLEAN
  /\ dialogs \in 0 .. MaxDialogs /\ (dialogs > 0 => "main" \in windows)
  /\ boot \in BootSteps /\ stray \in BOOLEAN
  /\ removals \in [Removals -> {"none", "lookup", "revoke", "clear"}]
  /\ quitting \in BOOLEAN /\ down \in BOOLEAN /\ raced \in BOOLEAN

Init ==
  /\ account \in BOOLEAN /\ baseline \in (IF account THEN BOOLEAN ELSE {FALSE})
  /\ check = "idle" /\ showMain = FALSE /\ requests = [k \in Checks |-> "none"]
  /\ mandatory = FALSE /\ update = "none"
  /\ runtime = "none" /\ engine = "idle" /\ queued = FALSE /\ alert = FALSE
  /\ windows = {} /\ orphans = FALSE /\ dialogs = 0 /\ boot = "none" /\ stray = FALSE
  /\ removals = [i \in Removals |-> "none"]
  /\ quitting = FALSE /\ down = FALSE /\ raced = FALSE

-----------------------------------------------------------------------------
(* What the handlers share.                                                *)

(* _ensure_runtime, once the account is acc and the baseline base.         *)
EnsureRuntime(acc, base) ==
  LET made == (runtime = "none" /\ base /\ ~mandatory) IN
  /\ runtime' = IF ~made THEN runtime ELSE IF acc THEN "on" ELSE "inert"
  /\ queued' = (queued \/ (made /\ acc))         \* start() requests a synchronization
  /\ UNCHANGED <<engine, alert>>

(* runtime.stop: the engine's process is signalled, not waited for.        *)
StopRuntime ==
  /\ runtime' = "none" /\ engine' = "idle" /\ queued' = FALSE /\ alert' = FALSE
  /\ stray' = (stray \/ engine = "running")

EnsureBootstrap == boot' = IF boot = "none" THEN "starting" ELSE boot

OpenWindows(S) == windows' = windows \cup S /\ UNCHANGED <<orphans, dialogs>>

DialogsLeft(S) ==      \* mutant: the dialogs outlive their window
  windows' = windows \ S /\ UNCHANGED <<orphans, dialogs>>

CloseWindows(S) ==
  /\ windows' = windows \ S /\ UNCHANGED orphans
  /\ dialogs' = IF "main" \in S THEN 0 ELSE dialogs

(* UpdateChecker.check cancels the check that is in flight.                *)
Ask(k) ==
  requests' = [j \in Checks |-> IF j = k THEN "sent"
                                ELSE IF requests[j] = "sent" THEN "canceled" ELSE requests[j]]

(* What every way to a window asks first.                                  *)
BlockedAtStart == mandatory /\ check # "done"     \* mutant: later answers do not block

Blocked == mandatory

(* _continue_activation, present_main, show_log and show_settings.         *)
Reveal(S) ==
  \/ Blocked /\ UNCHANGED <<runVars, windowVars, boot>>
  \/ ~Blocked /\ ~account /\ OpenWindows({"setup"}) /\ UNCHANGED <<runVars, boot>>
  \/ ~Blocked /\ account /\ ~baseline /\ EnsureBootstrap /\ UNCHANGED <<runVars, windowVars>>
  \/ /\ ~Blocked /\ account /\ baseline
     /\ EnsureRuntime(account, baseline) /\ OpenWindows(S) /\ UNCHANGED boot

-----------------------------------------------------------------------------
(* Activation and the update checks.                                       *)

(* do_activate, and present_main and its like when nothing is configured.  *)
Activate(show) ==
  /\ ~down /\ UNCHANGED <<configVars, stray, endVars, mandatory, update>>
  /\ IF mandatory \/ check = "done"
     THEN Reveal(IF show THEN {"main"} ELSE {}) /\ UNCHANGED <<check, showMain, requests>>
     ELSE /\ showMain' = (showMain \/ show) /\ check' = "checking"
          /\ IF check = "checking" THEN UNCHANGED requests ELSE Ask("startup")
          /\ UNCHANGED <<runVars, windowVars, boot>>

(* A notification, the tray, a menu or the command line.                   *)
PresentUnconfigured == ~account /\ Activate(TRUE)

Present(S) ==
  /\ ~down /\ account /\ check # "idle" /\ Reveal(S)
  /\ UNCHANGED <<configVars, updateVars, stray, endVars>>

(* _enter_mandatory_update_mode                                            *)
RuntimeKept == UNCHANGED <<runVars, stray>>     \* mutant: only the windows are closed

RuntimeStopped == StopRuntime

EnterMandatory ==
  /\ mandatory' = TRUE /\ update' = "mandatory" /\ RuntimeStopped
  /\ CloseWindows({"main", "settings"}) /\ UNCHANGED boot

(* _show_update_window: a mandatory one stays.                             *)
Offered == update' = IF update = "mandatory" THEN update ELSE "optional"

Finds(k, answer) == /\ requests[k] # "none" /\ answer \in Answers
                    /\ (requests[k] = "canceled" => answer = "error")
                    /\ requests' = [requests EXCEPT ![k] = "none"]

(* _startup_update_finished                                                *)
StartupAnswered(answer) ==
  /\ ~down /\ Finds("startup", answer)
  /\ check' = "done" /\ showMain' = FALSE /\ UNCHANGED <<configVars, endVars>>
  /\ IF answer = "mandatory" THEN EnterMandatory
     ELSE /\ Reveal(IF showMain THEN {"main"} ELSE {}) /\ UNCHANGED <<mandatory, stray>>
          /\ IF answer = "optional" THEN Offered ELSE UNCHANGED update

CheckForUpdates ==
  /\ ~down /\ ~mandatory /\ check # "idle" /\ requests["manual"] = "none" /\ Ask("manual")
  /\ UNCHANGED <<configVars, check, showMain, mandatory, update, runVars, windowVars, boot,
                 stray, endVars>>

ManualAnswered(answer) ==
  /\ ~down /\ Finds("manual", answer) /\ UNCHANGED <<configVars, check, showMain, endVars>>
  /\ IF answer = "mandatory" THEN EnterMandatory
     ELSE /\ IF answer = "optional" THEN Offered ELSE UNCHANGED update
          /\ UNCHANGED <<mandatory, runVars, windowVars, boot, stray>>

CloseUpdate ==
  /\ ~down /\ update = "optional" /\ update' = "none"
  /\ UNCHANGED <<configVars, check, showMain, requests, mandatory, runVars, windowVars, boot,
                 stray, endVars>>

-----------------------------------------------------------------------------
(* Setup, the protected initialization and reconnection.                   *)

(* A setup window, one the application lost or the one it knows, saves the *)
(* account; _setup_complete hides the one it knows.                        *)
SetupComplete ==
  /\ ~down
  /\ "setup" \in windows \/ orphans
  /\ account' = TRUE /\ baseline' = FALSE /\ raced' = (raced \/ account)
  /\ CloseWindows({"setup"}) /\ EnsureBootstrap
  /\ UNCHANGED <<updateVars, runVars, stray, removals, quitting, down>>

BootMoves(from, to) ==
  /\ ~down /\ boot = from /\ boot' = to
  /\ UNCHANGED <<configVars, updateVars, runVars, windowVars, stray, endVars>>

Analyze == account /\ BootMoves("starting", "snapshot")
Analyzed == BootMoves("snapshot", "review")
Apply == account /\ BootMoves("review", "upload")
Uploaded == account /\ BootMoves("upload", "download")
Downloaded == account /\ BootMoves("download", "verified")
BootFails == \E from \in {"starting"} \cup Commands : BootMoves(from, "error")
Restart == BootMoves("error", "starting")

(* BootstrapWindow._execution_ready and _bootstrap_complete                *)
BootstrapComplete ==
  /\ ~down /\ boot = "verified" /\ boot' = "none"
  /\ baseline' = TRUE /\ raced' = (raced \/ ~account) /\ UNCHANGED account
  /\ EnsureRuntime(account, TRUE)
  /\ OpenWindows(IF Blocked THEN {} ELSE IF account THEN {"main"} ELSE {"setup"})
  /\ UNCHANGED <<updateVars, stray, removals, quitting, down>>

(* _bootstrap_reconnect_account: no credential was found.                  *)
BootstrapReconnect ==
  /\ ~down /\ boot = "error" /\ boot' = "none"
  /\ OpenWindows(IF mandatory \/ ~account THEN {} ELSE {"reconnect"})
  /\ UNCHANGED <<configVars, updateVars, runVars, stray, endVars>>

ReconnectAccount ==
  /\ ~down /\ account /\ ~mandatory /\ "settings" \in windows /\ OpenWindows({"reconnect"})
  /\ UNCHANGED <<configVars, updateVars, runVars, boot, stray, endVars>>

ReconnectComplete ==
  /\ ~down /\ account /\ "reconnect" \in windows /\ CloseWindows({"reconnect"})
  /\ IF runtime # "none" THEN queued' = TRUE /\ UNCHANGED <<runtime, engine, alert, boot>>
     ELSE /\ UNCHANGED runVars
          /\ IF baseline THEN UNCHANGED boot ELSE EnsureBootstrap
  /\ UNCHANGED <<configVars, updateVars, stray, endVars>>

UserCloses(w) ==
  /\ ~down /\ w \in windows \ {"setup"} /\ CloseWindows({w})
  /\ UNCHANGED <<configVars, updateVars, runVars, boot, stray, endVars>>

-----------------------------------------------------------------------------
(* The runtime's cycle, and the review of what it found.                   *)
Moves(from, to) ==
  /\ engine = from /\ engine' = to
  /\ UNCHANGED <<configVars, updateVars, runtime, windowVars, boot, stray, endVars>>

Queues == queued' = TRUE /\ UNCHANGED alert /\ Moves(engine, engine)
Trigger == runtime = "on" /\ Queues
SyncNow == runtime # "none" /\ account /\ Queues
Begin == /\ ~alert /\ queued /\ account
         /\ queued' = FALSE /\ UNCHANGED alert /\ Moves("idle", "preparing")
Checked == UNCHANGED <<queued, alert>> /\ Moves("preparing", "running")
Prevented == UNCHANGED <<queued, alert>> /\ Moves("preparing", "idle")
Alerted == alert' = TRUE /\ UNCHANGED queued /\ Moves("preparing", "idle")
RunEnds == UNCHANGED <<queued, alert>> /\ Moves("running", "idle")
StrayExits == stray /\ stray' = FALSE
              /\ UNCHANGED <<configVars, updateVars, runVars, windowVars, boot, endVars>>

Cycle == ~down /\ (Trigger \/ SyncNow \/ Begin \/ Checked \/ Prevented \/ Alerted \/ RunEnds)

(* review_safety_alert: nothing looks for a dialog that is already open.   *)
ReviewSafety ==
  /\ ~down /\ alert /\ "main" \in windows /\ dialogs < MaxDialogs /\ dialogs' = dialogs + 1
  /\ UNCHANGED <<configVars, updateVars, runVars, windows, orphans, boot, stray, endVars>>

(* _safety_choice: approve_safety_once looks at the alert again ...        *)
Approve ==
  /\ ~down /\ dialogs > 0 /\ dialogs' = dialogs - 1
  /\ IF alert THEN alert' = FALSE /\ queued' = TRUE ELSE UNCHANGED <<alert, queued>>
  /\ UNCHANGED <<configVars, updateVars, runtime, engine, windows, orphans, boot, stray, endVars>>

KeepPaused ==
  /\ ~down /\ dialogs > 0 /\ dialogs' = dialogs - 1
  /\ UNCHANGED <<configVars, updateVars, runVars, windows, orphans, boot, stray, endVars>>

(* ... and _start_safety_recovery does not.                                *)
BaselineKept == UNCHANGED baseline     \* mutant: the recovery leaves the initialization complete

BaselineDropped == baseline' = FALSE

Restore ==
  /\ ~down /\ dialogs > 0
  /\ StopRuntime /\ CloseWindows({"main", "settings"}) /\ BaselineDropped /\ EnsureBootstrap
  /\ UNCHANGED <<account, updateVars, endVars>>

-----------------------------------------------------------------------------
(* Removing the account, and quitting.                                     *)
RemoveAccount(i) ==
  /\ ~down /\ account /\ "settings" \in windows /\ removals[i] = "none"
  /\ removals' = [removals EXCEPT ![i] = "lookup"] /\ CloseWindows({"reconnect"})
  /\ UNCHANGED <<configVars, updateVars, runVars, boot, stray, quitting, down, raced>>

Waits(i, from, to) ==
  /\ ~down /\ removals[i] = from /\ removals' = [removals EXCEPT ![i] = to]

LookedUp(i) ==
  /\ \E to \in {"revoke", "clear"} : Waits(i, "lookup", to)
  /\ UNCHANGED <<configVars, updateVars, runVars, windowVars, boot, stray, quitting, down, raced>>

NotRevoked(i) ==       \* mutant: the removal ends when the server does not revoke
  /\ \E to \in {"clear", "none"} : Waits(i, "revoke", to)
  /\ UNCHANGED <<configVars, updateVars, runVars, windowVars, boot, stray, quitting, down, raced>>

Revoked(i) ==
  /\ Waits(i, "revoke", "clear")
  /\ UNCHANGED <<configVars, updateVars, runVars, windowVars, boot, stray, quitting, down, raced>>

(* finalize: whatever the application is doing by now.                     *)
Finalize(i) ==
  /\ Waits(i, "clear", "none") /\ StopRuntime
  /\ account' = FALSE /\ baseline' = FALSE
  /\ windows' = (windows \ {"main", "settings"}) \cup {"setup"} /\ dialogs' = 0
  /\ orphans' = (orphans \/ "setup" \in windows)
  /\ UNCHANGED <<updateVars, boot, quitting, down, raced>>

(* do_shutdown                                                             *)
ShutDown ==
  /\ down' = TRUE /\ runtime' = "none" /\ engine' = "idle" /\ queued' = FALSE /\ alert' = FALSE
  /\ stray' = (stray \/ engine = "running" \/ boot \in Commands) /\ boot' = "none"
  /\ CloseWindows(windows) /\ UNCHANGED <<configVars, updateVars, removals, quitting, raced>>

RequestQuit ==
  /\ ~down /\ ~quitting /\ check # "idle"
  /\ IF engine = "running"
     THEN quitting' = TRUE /\ UNCHANGED <<configVars, updateVars, runVars, windowVars, boot, stray,
                                          removals, down, raced>>
     ELSE ShutDown

QuitWhenReady == ~down /\ quitting /\ engine # "running" /\ ShutDown

CloseBootstrap == ~down /\ boot # "none" /\ ShutDown

-----------------------------------------------------------------------------
Answered == \E k \in Checks, a \in Answers :
  IF k = "startup" THEN StartupAnswered(a) ELSE ManualAnswered(a)
BootWorks == Analyze \/ Analyzed \/ Uploaded \/ Downloaded \/ BootFails \/ BootstrapComplete
Removes(i) == LookedUp(i) \/ Revoked(i) \/ Finalize(i)

Next ==
  \/ \E show \in BOOLEAN : Activate(show)
  \/ PresentUnconfigured \/ \E w \in {"main", "settings"} : Present({w})
  \/ Answered \/ CheckForUpdates \/ CloseUpdate
  \/ SetupComplete \/ BootWorks \/ Apply \/ Restart
  \/ BootstrapReconnect \/ ReconnectAccount \/ ReconnectComplete
  \/ \E w \in windows : UserCloses(w)
  \/ Cycle \/ StrayExits \/ ReviewSafety \/ Approve \/ KeepPaused \/ Restore
  \/ \E i \in Removals : RemoveAccount(i) \/ Removes(i)
  \/ RequestQuit \/ QuitWhenReady \/ CloseBootstrap

Spec == Init /\ [][Next]_vars

-----------------------------------------------------------------------------
(* Synchronization is set up only while it may run: with an account whose  *)
(* initialization is complete, and not under a mandatory update            *)
(* (_ensure_runtime against every handler that takes that away).  The      *)
(* exceptions: an initialization that completes while a removal forgets    *)
(* the account (_execution_ready after reset_account), and a second setup  *)
(* window, left by a second removal, that sets the account up again        *)
(* (remove_account's finalize, _setup_complete).                           *)
RuntimeJustified == runtime # "none" /\ ~raced => account /\ baseline /\ ~mandatory

(* Two nextcloudcmd at work: the runtime's, one of the initialization, or  *)
(* one that a stopped runtime signalled and did not wait for.              *)
Overlap ==
  \/ engine = "running" /\ boot \in Commands
  \/ stray /\ (engine = "running" \/ boot \in Commands)

(* Two nextcloudcmd come to overlap only when one of them has been         *)
(* signalled and is still ending (SyncEngine.cancel does not wait), or     *)
(* with the two exceptions of RuntimeJustified.  And a run is left ending  *)
(* so only by a mandatory update, by a removal, by a recovery from a       *)
(* dialog that outlived its alert, or by the application's shutdown.       *)
OverlapOnlyBy ==
  [][/\ ~Overlap /\ Overlap' => stray \/ raced'
     /\ ~stray /\ stray' => \/ ~mandatory /\ mandatory'
                            \/ \E i \in Removals : Finalize(i)
                            \/ Restore /\ ~alert
                            \/ down']_vars

(* From a mandatory update on its window stays, nothing of the runtime     *)
(* comes back, neither main window nor settings are open, and no other     *)
(* window opens, whatever was asked for before                             *)
(* (_enter_mandatory_update_mode, _show_update_window, present_main).      *)
(* The exceptions: a removal confirmed before opens the setup window; and  *)
(* an initialization, a reconnection or a setup that was open goes on,     *)
(* where one of the latter two, completed, starts an initialization        *)
(* (_setup_complete, _reconnect_complete).                                 *)
MandatoryAllowsOnly ==
  [][mandatory' => /\ update' = "mandatory" /\ runtime' = "none" /\ engine' = "idle"
                   /\ windows' \cap {"main", "settings"} = {}
                   /\ windows' \subseteq windows \/ \E i \in Removals : Finalize(i)
                   /\ boot = "none" /\ boot' # "none" => SetupComplete \/ ReconnectComplete]_vars

(* A removal that was confirmed ends only with the account forgotten,      *)
(* whether or not the credential is found and the server revokes it, and   *)
(* whatever setup or other removal went on meanwhile (remove_account).     *)
RemovalForgets ==
  [][\A i \in Removals :
       removals[i] # "none" /\ removals'[i] = "none" => ~account' /\ ~baseline']_vars
=============================================================================
