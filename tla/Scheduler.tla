----------------------------- MODULE Scheduler -----------------------------
(***************************************************************************)
(* SyncScheduler (core/scheduler.py) with the queue it owns                *)
(* (core/triggers.py), the process slot of SyncEngine                      *)
(* (core/sync_engine.py) and the run marker (core/sync_run_marker.py).     *)
(*                                                                         *)
(* Every handler runs on the GLib main loop and is one action.  What runs  *)
(* elsewhere and reports back later is a continuation: a safety-check      *)
(* thread, a credential lookup, the nextcloudcmd process, a thread that    *)
(* records the safety baseline.  The verdict each brings is chosen freely. *)
(*                                                                         *)
(* A handler that calls another one is a formula built from the other's:   *)
(* an operator with a parameter "from" continues a handler whose earlier   *)
(* assignments are in that record, and reads the fields that only its      *)
(* callers assign (the pause flags, online, the alert, the authentication  *)
(* flags) with a prime.                                                    *)
(***************************************************************************)
EXTENDS Naturals

CONSTANTS
  Sources,       \* the triggers that watchers, timers and the user raise
  Environment    \* which outside events happen besides triggers

Trigger ==
  {"LOCAL_INOTIFY", "LOCAL_INTERVAL", "LOCAL_RECOVERY", "REMOTE_PUSH",
   "REMOTE_INTERVAL", "MANUAL", "STARTUP", "NETWORK_RESTORED", "RESUME", "RETRY"}

LocalTrigger == {"LOCAL_INOTIFY", "LOCAL_INTERVAL", "LOCAL_RECOVERY"}

ASSUME SourcesAssumption == Sources \subseteq Trigger
ASSUME EnvironmentAssumption ==
  Environment \subseteq {"user_pause", "battery", "network", "suspend",
                         "settings", "account", "approve", "stop"}

VARIABLES
  queue, online, user_paused, battery_paused, local_dirty, remote_pending,
  debounce_source,      \* a debounce timer is pending
  start_source,         \* the handle of the scheduled _start
  idle_start,           \* an idle source that will call _start is attached
  cooldown_source,      \* none, or the run_pending the timer was given
  preparing, safety_checking, safety_bypass_once, safety_alert,
  run_marker_active, marker,      \* the flag, and the file sync-run.json
  keyring_locked, authentication_required, stopped,
  feedback_followup_pending, inotify_during_sync,
  state,                \* StateController: what the windows and tray show
  guard_enabled, manual_only,     \* the settings the scheduler reads
  checking,             \* the reasons held by each safety-check thread
  lookups,              \* credential lookups not yet answered
  process,              \* SyncEngine.process: none, or its run's feedback_followup
  recorders             \* threads in record_current

outsideVars == <<user_paused, battery_paused, online, guard_enabled, manual_only, stopped>>
deferVars == <<local_dirty, remote_pending>>
timerVars == <<debounce_source, start_source, idle_start, cooldown_source>>
startVars == <<start_source, idle_start>>
accountVars == <<keyring_locked, authentication_required>>
flagVars == <<preparing, safety_checking>>
alertVars == <<safety_alert, safety_bypass_once>>
markerVars == <<run_marker_active, marker>>
feedbackVars == <<feedback_followup_pending, inotify_during_sync>>
jobVars == <<checking, lookups, process, recorders>>

vars ==
  <<queue, local_dirty, remote_pending, state, debounce_source, start_source,
    idle_start, cooldown_source, user_paused, battery_paused, keyring_locked,
    authentication_required, preparing, safety_checking, safety_alert,
    safety_bypass_once, run_marker_active, marker, feedback_followup_pending,
    inotify_during_sync, guard_enabled, manual_only, checking, lookups, process,
    recorders, online, stopped>>

AppState ==
  {"IDLE_OK", "IDLE_MANUAL_ONLY", "SYNC_QUEUED", "SYNCING", "PAUSED_USER",
   "PAUSED_BATTERY", "OFFLINE", "ERROR", "AUTH_REQUIRED", "KEYRING_LOCKED",
   "SAFETY_REVIEW"}

(* Everything has its type.                                                *)
TypeOK ==
  /\ queue \subseteq Trigger
  /\ online \in BOOLEAN /\ user_paused \in BOOLEAN /\ battery_paused \in BOOLEAN
  /\ local_dirty \in BOOLEAN /\ remote_pending \in BOOLEAN
  /\ debounce_source \in BOOLEAN /\ start_source \in BOOLEAN /\ idle_start \in BOOLEAN
  /\ cooldown_source \in {"none", "idle", "run_pending"}
  /\ preparing \in BOOLEAN /\ safety_checking \in BOOLEAN
  /\ safety_bypass_once \in BOOLEAN
  /\ safety_alert \in {"none", "deletion", "structural"}
  /\ run_marker_active \in BOOLEAN /\ marker \in BOOLEAN
  /\ keyring_locked \in BOOLEAN /\ authentication_required \in BOOLEAN
  /\ stopped \in BOOLEAN
  /\ feedback_followup_pending \in BOOLEAN /\ inotify_during_sync \in BOOLEAN
  /\ state \in AppState
  /\ guard_enabled \in BOOLEAN /\ manual_only \in BOOLEAN
  /\ checking \subseteq SUBSET Trigger
  /\ lookups \in Nat
  /\ process \in {"none", "first", "followup"}
  /\ recorders \in Nat

-----------------------------------------------------------------------------
paused == user_paused \/ battery_paused
running == process # "none"

Init ==
  /\ queue = {} /\ checking = {} /\ lookups = 0 /\ process = "none" /\ recorders = 0
  /\ online = TRUE /\ safety_alert = "none"
  /\ user_paused = FALSE /\ battery_paused = FALSE
  /\ local_dirty = FALSE /\ remote_pending = FALSE
  /\ debounce_source = FALSE /\ start_source = FALSE /\ idle_start = FALSE
  /\ cooldown_source = "none"
  /\ preparing = FALSE /\ safety_checking = FALSE /\ safety_bypass_once = FALSE
  /\ run_marker_active = FALSE /\ marker \in BOOLEAN
  /\ keyring_locked = FALSE /\ authentication_required = FALSE /\ stopped = FALSE
  /\ feedback_followup_pending = FALSE /\ inotify_during_sync = FALSE
  /\ guard_enabled \in BOOLEAN /\ manual_only \in BOOLEAN
  /\ state = IF manual_only THEN "IDLE_MANUAL_ONLY" ELSE "IDLE_OK"

(* _set_idle_state: the most urgent condition, in the code's order, after  *)
(* the handler's own assignments.                                          *)
IdleState ==
  IF safety_alert' # "none" THEN "SAFETY_REVIEW"
  ELSE IF authentication_required' THEN "AUTH_REQUIRED"
  ELSE IF user_paused' THEN "PAUSED_USER"
  ELSE IF battery_paused' THEN "PAUSED_BATTERY"
  ELSE IF ~online' THEN "OFFLINE"
  ELSE IF manual_only' THEN "IDLE_MANUAL_ONLY"
  ELSE "IDLE_OK"

-----------------------------------------------------------------------------
(* Scheduling and starting a run.                                          *)

(* The fields a handler may have assigned before it calls another one, and *)
(* whether it will set the idle display after the call.                    *)
Caller ==
  [bypass |-> safety_bypass_once, shown |-> state,
   dirty |-> local_dirty, pending |-> remote_pending, settles |-> FALSE]

Displays(s, from) == state' = IF from.settles THEN IdleState ELSE s

(* _schedule_start.                                                        *)
ScheduleStart(from) ==
  IF \/ stopped' \/ debounce_source' \/ start_source \/ cooldown_source' # "none"
     \/ preparing' \/ safety_checking' \/ running'
  THEN Displays(from.shown, from) /\ UNCHANGED startVars
  ELSE Displays("SYNC_QUEUED", from) /\ start_source' = TRUE /\ idle_start' = TRUE

(* _prepare_sync: the display, the flag and the lookup.                    *)
PrepareSync ==
  state' = "SYNCING" /\ preparing' = TRUE /\ lookups' = lookups + 1

(* _start on the queued triggers q, from the first return to the thread or *)
(* the credential lookup it leaves behind.                                 *)
NoStartUnlessPreparing(q) ==     \* mutant: _preparing is not looked at
  stopped' \/ running \/ q = {} \/ ~online'

NoStart(q) == stopped' \/ preparing \/ running \/ q = {} \/ ~online'

GuardNeeded(from) == guard_enabled /\ ~from.bypass

StartReturns(q, from) ==
  /\ NoStart(q)
  /\ queue' = q /\ local_dirty' = from.dirty /\ state' = from.shown
  /\ safety_bypass_once' = from.bypass
  /\ UNCHANGED <<checking, lookups, flagVars>>

StartFindsPause(q, from) ==
  /\ paused' /\ "MANUAL" \notin q
  /\ queue' = {} /\ local_dirty' = TRUE /\ state' = from.shown
  /\ safety_bypass_once' = from.bypass
  /\ UNCHANGED <<checking, lookups, flagVars>>

StartChecks(q, from) ==
  /\ GuardNeeded(from)
  /\ queue' = {} /\ local_dirty' = from.dirty /\ state' = "SYNC_QUEUED"
  /\ preparing' = TRUE /\ safety_checking' = TRUE
  /\ checking' = checking \cup {q}
  /\ safety_bypass_once' = from.bypass
  /\ UNCHANGED lookups

StartKeepingApproval(q, from) ==     \* mutant: the approval is not used up
  /\ ~GuardNeeded(from)
  /\ queue' = {} /\ local_dirty' = from.dirty
  /\ PrepareSync
  /\ safety_bypass_once' = from.bypass
  /\ UNCHANGED <<safety_checking, checking>>

StartUnchecked(q, from) ==
  /\ ~GuardNeeded(from)
  /\ queue' = {} /\ local_dirty' = from.dirty
  /\ PrepareSync
  /\ safety_bypass_once' = FALSE
  /\ UNCHANGED <<safety_checking, checking>>

Start(q, from) ==
  /\ start_source' = FALSE
  /\ \/ StartReturns(q, from)
     \/ /\ ~NoStart(q)
        /\ \/ StartFindsPause(q, from)
           \/ /\ ~(paused' /\ "MANUAL" \notin q)
              /\ StartChecks(q, from) \/ StartUnchecked(q, from)

-----------------------------------------------------------------------------
DispositionUnlocked(t, from) ==     \* mutant: a locked keyring holds back no trigger
  IF stopped THEN "ignored"
  ELSE IF safety_alert' # "none" /\ ~from.bypass THEN "review"
  ELSE IF authentication_required' THEN "reconnect"
  ELSE IF running \/ preparing THEN "coalesced"
  ELSE IF paused' /\ t # "MANUAL" THEN "paused"
  ELSE IF ~online' THEN "offline"
  ELSE IF t = "LOCAL_INOTIFY" THEN "debounce"
  ELSE "start"

(* request: where its early returns leave a trigger, in the code's order.  *)
Disposition(t, from) ==
  IF stopped THEN "ignored"
  ELSE IF safety_alert' # "none" /\ ~from.bypass THEN "review"
  ELSE IF authentication_required' THEN "reconnect"
  ELSE IF running \/ preparing THEN "coalesced"
  ELSE IF paused' /\ t # "MANUAL" THEN "paused"
  ELSE IF ~online' THEN "offline"
  ELSE IF keyring_locked' /\ t # "MANUAL" THEN "locked"
  ELSE IF keyring_locked' THEN "unlock"
  ELSE IF t = "LOCAL_INOTIFY" THEN "debounce"
  ELSE "start"

ShownWhenDeferred(where, from) ==
  CASE where = "review" -> "SAFETY_REVIEW"
    [] where = "reconnect" -> "AUTH_REQUIRED"
    [] where = "offline" -> "OFFLINE"
    [] where = "locked" -> "KEYRING_LOCKED"
    [] OTHER -> from.shown

(* A trigger that schedules nothing: ignored, remembered by the pause      *)
(* flags, or left in the queue.                                            *)
RequestDeferred(t, from) ==
  LET where == Disposition(t, from) IN
  /\ where \in {"ignored", "review", "reconnect", "coalesced", "paused", "offline", "locked"}
  /\ queue' = IF where \in {"ignored", "paused"} THEN queue ELSE queue \cup {t}
  /\ local_dirty' = (from.dirty \/ (where = "paused" /\ t \in LocalTrigger))
  /\ remote_pending' = (from.pending \/ (where = "paused" /\ t \notin LocalTrigger))
  /\ inotify_during_sync' =
       (inotify_during_sync \/ (where = "coalesced" /\ t = "LOCAL_INOTIFY"))
  /\ Displays(ShownWhenDeferred(where, from), from)
  /\ safety_bypass_once' = from.bypass
  /\ UNCHANGED <<debounce_source, checking, lookups, startVars, flagVars>>

(* A trigger that schedules a run, restarting the debounce timer or not.   *)
RequestScheduled(t, from) ==
  LET where == Disposition(t, from) IN
  /\ where \in {"debounce", "start"}
  /\ queue' = queue \cup {t}
  /\ local_dirty' = from.dirty /\ remote_pending' = from.pending
  /\ safety_bypass_once' = from.bypass
  /\ UNCHANGED <<inotify_during_sync, checking, lookups, flagVars>>
  /\ \/ /\ where = "debounce"
        /\ debounce_source' = TRUE /\ Displays("SYNC_QUEUED", from)
        /\ UNCHANGED startVars
     \/ /\ where = "start"
        /\ UNCHANGED debounce_source
        /\ ScheduleStart(from)

(* Sync Now with a locked keyring starts at once, in the same call.        *)
RequestUnlock(t, from) ==
  /\ Disposition(t, from) = "unlock"
  /\ remote_pending' = from.pending
  /\ UNCHANGED <<inotify_during_sync, debounce_source, idle_start>>
  /\ Start(queue \cup {t}, from)

Request(t, from) ==
  /\ UNCHANGED <<cooldown_source, process, recorders, feedback_followup_pending,
                 markerVars>>
  /\ RequestDeferred(t, from) \/ RequestScheduled(t, from) \/ RequestUnlock(t, from)

-----------------------------------------------------------------------------
(* Triggers and the timers of the main loop.                               *)

(* An event callback, a timer, a push hint or a button calls request.      *)
Requested(t) ==
  /\ UNCHANGED <<safety_alert, outsideVars, accountVars>>
  /\ Request(t, Caller)

DebounceElapsed ==
  /\ debounce_source /\ debounce_source' = FALSE
  /\ UNCHANGED <<queue, cooldown_source, outsideVars, jobVars, flagVars, alertVars,
                 accountVars, deferVars, markerVars, feedbackVars>>
  /\ ScheduleStart(Caller)

(* The idle source calls _start, whether or not its handle was forgotten   *)
(* by a start that an unlock request made directly.                        *)
IdleStart ==
  /\ idle_start /\ idle_start' = FALSE
  /\ UNCHANGED <<remote_pending, debounce_source, cooldown_source, safety_alert,
                 process, recorders, outsideVars, accountVars, markerVars,
                 feedbackVars>>
  /\ Start(queue, Caller)

CooldownDueTurned ==     \* mutant: run_pending is read the wrong way round
  cooldown_source = "idle" /\ queue # {} /\ online /\ ~paused /\ ~authentication_required

CooldownDue ==
  /\ cooldown_source = "run_pending" /\ queue # {} /\ online
  /\ ~paused /\ ~authentication_required

CooldownFinished ==
  /\ cooldown_source # "none" /\ cooldown_source' = "none"
  /\ UNCHANGED <<queue, debounce_source, outsideVars, jobVars, flagVars, alertVars,
                 accountVars, deferVars, markerVars, feedbackVars>>
  /\ IF stopped
       THEN UNCHANGED <<state, startVars>>
       ELSE IF CooldownDue THEN ScheduleStart(Caller)
       ELSE /\ state' = IF paused THEN state ELSE IdleState
            /\ UNCHANGED startVars

-----------------------------------------------------------------------------
(* What the continuations do.  The threads of the check and of the record  *)
(* post them with idle_add after a _start that is still scheduled, so they *)
(* run after it (~idle_start); a lookup may have joined an earlier one.    *)

PutBackNothing(reasons) == queue' = queue     \* mutant: the reasons are dropped

PutBack(reasons) == queue' = queue \cup reasons

(* _safety_checked(alert): the reasons come back if the check blocks.  An  *)
(* exception in the check is the structural alert guard_failed.            *)
SafetyChecked(reasons, alert) ==
  /\ ~idle_start /\ reasons \in checking
  /\ checking' = checking \ {reasons}
  /\ UNCHANGED <<safety_bypass_once, process, recorders, outsideVars, timerVars,
                 accountVars, deferVars, markerVars, feedbackVars>>
  /\ \/ /\ stopped
        /\ UNCHANGED <<queue, state, safety_alert, lookups, flagVars>>
     \/ /\ ~stopped /\ alert # "none"
        /\ safety_checking' = FALSE /\ preparing' = FALSE
        /\ safety_alert' = alert
        /\ PutBack(reasons)
        /\ state' = "SAFETY_REVIEW"
        /\ UNCHANGED lookups
     \/ /\ ~stopped /\ alert = "none"
        /\ safety_checking' = FALSE
        /\ PrepareSync
        /\ UNCHANGED <<queue, safety_alert>>

(* The local events of the run become one follow-up, or are dropped if the *)
(* run was that follow-up.                                                 *)
QueueAlwaysFollowed(followup) ==     \* mutant: the follow-up is followed up
  IF inotify_during_sync THEN queue \cup {"LOCAL_INOTIFY"} ELSE queue

QueueAfterRun(followup) ==
  IF ~inotify_during_sync THEN queue
  ELSE IF followup THEN queue \ {"LOCAL_INOTIFY"}
  ELSE queue \cup {"LOCAL_INOTIFY"}

(* _finished: how the run ended decides what is shown and whether the      *)
(* baseline is recorded, and the cooldown begins.                          *)
Finished(outcome, followup, pending) ==
  /\ preparing' = (outcome \in {"success", "conflict"})
  /\ recorders' = IF preparing' THEN recorders + 1 ELSE recorders
  /\ authentication_required' = (authentication_required \/ outcome = "authentication")
  /\ UNCHANGED <<debounce_source, safety_checking, checking, outsideVars, startVars,
                 alertVars, deferVars>>
  /\ state' = CASE outcome = "success" -> IdleState
                [] outcome = "conflict" -> "IDLE_OK"
                [] outcome = "authentication" -> "AUTH_REQUIRED"
                [] OTHER -> "ERROR"
  /\ queue' = QueueAfterRun(followup)
  /\ feedback_followup_pending' = (pending \/ (inotify_during_sync /\ ~followup))
  /\ inotify_during_sync' = FALSE
  /\ cooldown_source' = IF queue' = {} THEN "idle" ELSE "run_pending"

(* SyncEngine.maybe_finish: the output is read and the process is reaped.  *)
(* A stopped scheduler ignores the result.                                 *)
ProcessExits(outcome) ==
  /\ running /\ process' = "none"
  /\ UNCHANGED <<keyring_locked, lookups, markerVars>>
  /\ \/ /\ ~stopped /\ Finished(outcome, process = "followup", feedback_followup_pending)
     \/ /\ stopped
        /\ UNCHANGED <<queue, state, authentication_required, checking, recorders,
                       outsideVars, timerVars, flagVars, alertVars, deferVars,
                       feedbackVars>>

(* secret_ready(password, error) without a run: what stops it decides what *)
(* is shown and remembered, and the reasons it was started for are gone.   *)
(* "excludes": the OSError of write_nextcloudcmd_file leaves the callback. *)
LookupFailure == {"locked", "unreadable", "absent", "excludes", "no_command", "no_marker"}

LookupFails(why) ==
  /\ ~stopped
  /\ why = "no_marker" => guard_enabled
  /\ preparing' = FALSE
  /\ keyring_locked' = (why = "locked")
  /\ authentication_required' = (authentication_required \/ why = "absent")
  /\ state' = CASE why = "locked" -> "KEYRING_LOCKED"
                [] why \in {"unreadable", "absent"} -> "AUTH_REQUIRED"
                [] why = "excludes" -> state
                [] OTHER -> "ERROR"
  /\ marker' \in IF why = "no_marker" THEN {marker, TRUE} ELSE {marker}
  /\ UNCHANGED <<queue, safety_checking, checking, process, recorders, outsideVars,
                 timerVars, alertVars, deferVars, run_marker_active, feedbackVars>>

(* run_marker.begin, before the process, when the guard is enabled.        *)
BeginMarker ==
  /\ marker' = (marker \/ guard_enabled)
  /\ run_marker_active' = (run_marker_active \/ guard_enabled)

(* engine.run: the process starts, or spawning fails and the callback is   *)
(* called at once with a sync_error.                                       *)
ProcessStarts ==
  /\ ~stopped
  /\ ~running /\ process' = IF feedback_followup_pending THEN "followup" ELSE "first"
  /\ preparing' = FALSE /\ keyring_locked' = FALSE
  /\ feedback_followup_pending' = FALSE
  /\ BeginMarker
  /\ UNCHANGED <<queue, state, authentication_required, safety_checking,
                 inotify_during_sync, checking, recorders, outsideVars, timerVars,
                 alertVars, deferVars>>

SpawnFails ==
  /\ ~stopped /\ ~running
  /\ keyring_locked' = FALSE /\ BeginMarker
  /\ UNCHANGED process
  /\ Finished("sync_error", feedback_followup_pending, FALSE)

Answered == lookups > 0 /\ lookups' = lookups - 1

LookupDone ==
  /\ Answered
  /\ \/ stopped /\ UNCHANGED <<queue, state, checking, process, recorders,
                               outsideVars, timerVars, flagVars, alertVars,
                               accountVars, deferVars, markerVars, feedbackVars>>
     \/ \E why \in LookupFailure : LookupFails(why)
     \/ ProcessStarts
     \/ SpawnFails

RecordedDueTurned ==     \* mutant: only a running cooldown lets it schedule
  ~stopped /\ cooldown_source # "none" /\ queue # {} /\ online /\ ~paused

RecordedDue == ~stopped /\ cooldown_source = "none" /\ queue # {} /\ online /\ ~paused

(* _baseline_recorded: record_current saved a baseline, or did not;        *)
(* clear() may fail before or after the unlink.  It runs after stop() too. *)
BaselineRecorded(recorded, cleared) ==
  /\ ~idle_start /\ recorders > 0 /\ recorders' = recorders - 1
  /\ preparing' = FALSE
  /\ run_marker_active' = (run_marker_active /\ ~(recorded /\ cleared))
  /\ marker' \in IF ~(run_marker_active /\ recorded) THEN {marker}
               ELSE IF cleared THEN {FALSE} ELSE {FALSE, marker}
  /\ UNCHANGED <<queue, debounce_source, cooldown_source, safety_checking, checking,
                 lookups, process, outsideVars, alertVars, accountVars, deferVars,
                 feedbackVars>>
  /\ IF RecordedDue THEN ScheduleStart(Caller)
       ELSE UNCHANGED <<state, startVars>>

-----------------------------------------------------------------------------
(* The user, the battery, the network, the account.                        *)

(* The common end of resuming: one RESUME if anything was put off.         *)
Reconcile(settles) ==
  LET deferred == local_dirty \/ remote_pending \/ queue # {} IN
  IF deferred /\ ~manual_only'
  THEN Request("RESUME", [Caller EXCEPT !.dirty = FALSE, !.pending = FALSE,
                                        !.settles = settles])
  ELSE /\ local_dirty' = FALSE /\ remote_pending' = FALSE
       /\ state' = IdleState
       /\ UNCHANGED <<queue, safety_bypass_once, timerVars, jobVars, flagVars,
                      markerVars, feedbackVars>>

Unscheduled ==
  UNCHANGED <<queue, timerVars, jobVars, flagVars, deferVars, markerVars,
              feedbackVars>>

SetUserPaused(p) ==
  /\ "user_pause" \in Environment
  /\ user_paused' = p
  /\ UNCHANGED <<stopped, battery_paused, online, safety_alert, guard_enabled,
                 manual_only, accountVars>>
  /\ IF p THEN /\ state' = "PAUSED_USER"
               /\ UNCHANGED safety_bypass_once /\ Unscheduled
     ELSE Reconcile(FALSE)

SetBatteryPaused(p) ==
  /\ "battery" \in Environment
  /\ battery_paused' = p
  /\ UNCHANGED <<stopped, user_paused, online, safety_alert, guard_enabled,
                 manual_only, accountVars>>
  /\ \/ /\ p /\ state' = "PAUSED_BATTERY"
        /\ UNCHANGED safety_bypass_once /\ Unscheduled
     \/ ~p /\ battery_paused /\ ~user_paused /\ Reconcile(FALSE)
     \/ /\ ~p /\ ~(battery_paused /\ ~user_paused)
        /\ UNCHANGED <<state, safety_bypass_once>> /\ Unscheduled

SetOnline(up) ==
  /\ "network" \in Environment
  /\ online' = up
  /\ UNCHANGED <<stopped, user_paused, battery_paused, safety_alert, guard_enabled,
                 manual_only, accountVars>>
  /\ IF up /\ ~online /\ (queue # {} \/ ~manual_only)
     THEN Request("NETWORK_RESTORED", Caller)
     ELSE /\ state' = IF ~up THEN "OFFLINE" ELSE IF online THEN state ELSE IdleState
          /\ UNCHANGED safety_bypass_once /\ Unscheduled

(* RuntimeController._resumed, after suspend: reconfigure, then a RESUME.  *)
Resumed ==
  /\ "suspend" \in Environment
  /\ UNCHANGED <<safety_alert, outsideVars, accountVars>>
  /\ \E shown \in {state, IdleState} :
       IF ~manual_only \/ queue # {}
       THEN Request("RESUME", [Caller EXCEPT !.shown = shown])
       ELSE state' = shown /\ UNCHANGED safety_bypass_once /\ Unscheduled

(* A saved setting: RuntimeController.reconfigure, which ends in           *)
(* _set_idle_state.  With a battery it first calls set_battery_paused, for *)
(* the setting that decides whether to pause on battery.                   *)
SettingsSaved ==
  /\ "settings" \in Environment
  /\ guard_enabled' \in BOOLEAN /\ manual_only' \in BOOLEAN
  /\ battery_paused' \in IF "battery" \in Environment THEN BOOLEAN ELSE {battery_paused}
  /\ UNCHANGED <<stopped, online, user_paused, safety_alert, accountVars>>
  /\ IF battery_paused /\ ~battery_paused' /\ ~user_paused
     THEN Reconcile(TRUE)
     ELSE state' = IdleState /\ UNCHANGED safety_bypass_once /\ Unscheduled

(* A 401 seen by another client of the account.                            *)
AuthenticationRejected ==
  /\ "account" \in Environment
  /\ authentication_required' = TRUE /\ state' = "AUTH_REQUIRED"
  /\ UNCHANGED <<keyring_locked, outsideVars, alertVars>>
  /\ Unscheduled

(* RuntimeController.authentication_restored, after reconnecting: the      *)
(* flags, the display, and a MANUAL request.                               *)
AuthenticationRestored ==
  /\ "account" \in Environment
  /\ authentication_required' = FALSE /\ keyring_locked' = FALSE
  /\ UNCHANGED <<safety_alert, outsideVars>>
  /\ Request("MANUAL", [Caller EXCEPT !.shown = IdleState])

(* Only an alert for which can_approve_once holds.                         *)
ApproveSafetyOnce ==
  /\ "approve" \in Environment
  /\ safety_alert = "deletion" /\ safety_alert' = "none"
  /\ UNCHANGED <<outsideVars, accountVars>>
  /\ Request("MANUAL", [Caller EXCEPT !.bypass = TRUE])

SourcesKept == UNCHANGED timerVars     \* mutant: the timers are not removed

SourcesRemoved ==
  /\ debounce_source' = FALSE /\ start_source' = FALSE /\ cooldown_source' = "none"
  /\ idle_start' = (idle_start /\ ~start_source)

(* stop(): only handles are removed; continuations still arrive.           *)
Stop ==
  /\ "stop" \in Environment
  /\ stopped' = TRUE
  /\ SourcesRemoved
  /\ queue' = {} /\ local_dirty' = FALSE /\ remote_pending' = FALSE
  /\ feedback_followup_pending' = FALSE /\ safety_alert' = "none"
  /\ UNCHANGED <<online, state, user_paused, battery_paused, safety_bypass_once,
                 inotify_during_sync, guard_enabled, manual_only, jobVars, flagVars,
                 accountVars, markerVars>>

-----------------------------------------------------------------------------
Outcome == {"success", "conflict", "authentication", "sync_error"}
CheckVerdict == {"none", "deletion", "structural"}

(* What the main loop and the started work do by themselves.               *)
Internal ==
  \/ DebounceElapsed \/ IdleStart \/ CooldownFinished
  \/ \E reasons \in checking, alert \in CheckVerdict : SafetyChecked(reasons, alert)
  \/ LookupDone
  \/ \E outcome \in Outcome : ProcessExits(outcome)
  \/ \E recorded, cleared \in BOOLEAN : BaselineRecorded(recorded, cleared)

(* The changes nextcloudcmd makes in the folder are seen by the watcher.   *)
Feedback == running /\ Requested("LOCAL_INOTIFY")

External ==
  \/ \E t \in Sources : Requested(t)
  \/ \E p \in BOOLEAN : SetUserPaused(p) \/ SetBatteryPaused(p)
  \/ \E up \in BOOLEAN : SetOnline(up)
  \/ Resumed \/ SettingsSaved
  \/ AuthenticationRejected \/ AuthenticationRestored
  \/ ApproveSafetyOnce \/ Stop

Next == Internal \/ Feedback \/ External

Spec == Init /\ [][Next]_vars

(* Timers fire, idle sources run, threads and nextcloudcmd end, and a      *)
(* keyring prompt is answered.                                             *)
Fairness ==
  /\ WF_vars(DebounceElapsed) /\ WF_vars(IdleStart) /\ WF_vars(CooldownFinished)
  /\ WF_vars(\E reasons \in checking, alert \in CheckVerdict : SafetyChecked(reasons, alert))
  /\ WF_vars(LookupDone)
  /\ WF_vars(\E outcome \in Outcome : ProcessExits(outcome))
  /\ WF_vars(\E recorded, cleared \in BOOLEAN : BaselineRecorded(recorded, cleared))

FairSpec == Spec /\ Fairness

=============================================================================
