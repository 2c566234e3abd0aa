-------------------------- MODULE SchedulerProofs ---------------------------
(***************************************************************************)
(* Proofs about the scheduler, for every set of trigger sources and every  *)
(* environment.  One inductive invariant, Inv, carries them: the types, and*)
(* SingleFlight, which is inductive with them because every handler that   *)
(* starts something first looks at _preparing and at the process.          *)
(*                                                                         *)
(* What a step may never do.  After stop(), the answers of threads, of the *)
(* keyring and of nextcloudcmd still arrive, and every window can still    *)
(* call a handler: none of them queues, schedules or starts anything,      *)
(* because what stop() empties stays empty.  No step forgets a queued      *)
(* trigger, strands one, or starts a synchronization that is held back,    *)
(* but for the reasons the properties name.                                *)
(*                                                                         *)
(* The scheduler implements SyncCycle: Inv says that at most one of the    *)
(* four kinds of work is in progress, so that each handler moves the phase *)
(* of the cycle from one value it is known to have.                        *)
(***************************************************************************)
EXTENDS SchedulerProperties, TLAPS

Inv == TypeOK /\ SingleFlight

(* What a handler passes to the handler it calls.                          *)
CallerRecord ==
  [bypass : BOOLEAN, shown : AppState, dirty : BOOLEAN, pending : BOOLEAN, settles : BOOLEAN]

USE DEF running, paused, outsideVars, deferVars, timerVars, startVars, accountVars,
        flagVars, alertVars, markerVars, feedbackVars, jobVars, CallerRecord, NoStart, GuardNeeded,
        PrepareSync, PutBack, QueueAfterRun, Answered, CooldownDue, RecordedDue,
        SourcesRemoved

(* The fields of a caller that assigned nothing have their types.          *)
LEMMA CallerType ==
  ASSUME TypeOK
  PROVE  Caller \in CallerRecord
BY DEF TypeOK, Caller

(* The displayed idle state is one of the states.                          *)
LEMMA IdleStateType == IdleState \in AppState
BY DEF IdleState, AppState

(* Nothing is in progress when _preparing is not set.                      *)
LEMMA NothingInProgress ==
  ASSUME Inv, ~preparing
  PROVE  checking = {} /\ lookups = 0 /\ recorders = 0
BY DEF Inv, TypeOK, SingleFlight

(* _start, from a caller whose own assignments have their types, keeps     *)
(* the types of what it assigns and starts at most one thing.              *)
LEMMA StartInv ==
  ASSUME Inv, NEW q \in SUBSET Trigger,
         NEW from \in CallerRecord,
         stopped' = stopped, process' = process, recorders' = recorders,
         Start(q, from)
  PROVE  /\ queue' \subseteq Trigger /\ local_dirty' \in BOOLEAN /\ state' \in AppState
         /\ start_source' \in BOOLEAN /\ safety_bypass_once' \in BOOLEAN
         /\ preparing' \in BOOLEAN /\ safety_checking' \in BOOLEAN
         /\ checking' \subseteq SUBSET Trigger /\ lookups' \in Nat
         /\ SingleFlight'
<1>1. CASE StartReturns(q, from)
  BY <1>1 DEF Inv, TypeOK, SingleFlight, Start, StartReturns
<1>2. CASE StartFindsPause(q, from) 
  BY <1>2 DEF Inv, TypeOK, SingleFlight, Start, StartFindsPause
<1>3. CASE ~preparing /\ ~running /\ StartChecks(q, from)
  <2>1. checking = {} /\ lookups = 0 /\ recorders = 0 BY <1>3, NothingInProgress
  <2>2. /\ checking' = {q} /\ lookups' = 0 /\ recorders' = 0
        /\ preparing' = TRUE /\ safety_checking' = TRUE /\ ~running'
    BY <1>3, <2>1 DEF StartChecks
  <2>3. SingleFlight' BY <2>2 DEF SingleFlight
  <2> QED BY <1>3, <2>2, <2>3 DEF Inv, TypeOK, Start, StartChecks, AppState
<1>4. CASE ~preparing /\ ~running /\ StartUnchecked(q, from)
  <2>1. checking = {} /\ lookups = 0 /\ recorders = 0 BY <1>4, NothingInProgress
  <2>2. /\ checking' = {} /\ lookups' = 1 /\ recorders' = 0
        /\ preparing' = TRUE /\ ~running'
    BY <1>4, <2>1 DEF StartUnchecked
  <2>3. SingleFlight' BY <2>2 DEF SingleFlight
  <2>4. checking' \subseteq SUBSET Trigger /\ lookups' \in Nat BY <2>2
  <2>5. /\ queue' \subseteq Trigger /\ local_dirty' \in BOOLEAN /\ state' \in AppState
        /\ start_source' \in BOOLEAN /\ safety_bypass_once' \in BOOLEAN
        /\ safety_checking' \in BOOLEAN
    BY <1>4 DEF Inv, TypeOK, Start, StartUnchecked, AppState
  <2> QED BY <2>2, <2>3, <2>4, <2>5
<1> QED BY <1>1, <1>2, <1>3, <1>4 DEF Start

(* _schedule_start assigns the handle, the idle source and the display.    *)
LEMMA ScheduleStartType ==
  ASSUME NEW from \in CallerRecord, start_source \in BOOLEAN, idle_start \in BOOLEAN,
         ScheduleStart(from)
  PROVE  start_source' \in BOOLEAN /\ idle_start' \in BOOLEAN /\ state' \in AppState
<1>1. "SYNC_QUEUED" \in AppState BY DEF AppState
<1> QED BY <1>1, IdleStateType DEF ScheduleStart, Displays

(* The fields that the callers of request assign and request does not.     *)
CallerFieldsOK ==
  /\ online \in BOOLEAN /\ user_paused \in BOOLEAN /\ battery_paused \in BOOLEAN
  /\ safety_alert \in {"none", "deletion", "structural"}
  /\ keyring_locked \in BOOLEAN /\ authentication_required \in BOOLEAN
  /\ guard_enabled \in BOOLEAN /\ manual_only \in BOOLEAN /\ stopped \in BOOLEAN

(* Nothing that SingleFlight speaks of has changed.                        *)
JobsUnchanged == UNCHANGED <<jobVars, flagVars, stopped>>

(* A handler that touches no flag, thread, lookup or process keeps          *)
(* SingleFlight.                                                            *)
LEMMA JobsUnchangedInv ==
  ASSUME SingleFlight, JobsUnchanged
  PROVE  SingleFlight'
BY DEF SingleFlight, JobsUnchanged

(* request keeps the invariant, whichever way it disposes of the trigger.  *)
LEMMA RequestInv ==
  ASSUME Inv, CallerFieldsOK', stopped' = stopped, NEW t \in Trigger,
         NEW from \in CallerRecord,
         Request(t, from)
  PROVE  Inv'
<1>1. CASE RequestDeferred(t, from)
  <2>1. ShownWhenDeferred(Disposition(t, from), from) \in AppState
    BY DEF ShownWhenDeferred, AppState
  <2>1a. state' \in AppState
    BY <1>1, <2>1, IdleStateType DEF RequestDeferred, Displays
  <2>2. SingleFlight'
    BY <1>1, JobsUnchangedInv DEF Inv, JobsUnchanged, Request, RequestDeferred
  <2>3. TypeOK'
    BY <1>1, <2>1a DEF Inv, TypeOK, CallerFieldsOK, Request, RequestDeferred
  <2> QED BY <2>2, <2>3 DEF Inv
<1>2. CASE RequestScheduled(t, from)
  <2>1. SingleFlight'
    BY <1>2, JobsUnchangedInv DEF Inv, JobsUnchanged, Request, RequestScheduled
  <2>2. start_source' \in BOOLEAN /\ idle_start' \in BOOLEAN /\ state' \in AppState
    <3>1. "SYNC_QUEUED" \in AppState BY DEF AppState
    <3> QED BY <1>2, <3>1, ScheduleStartType, IdleStateType
            DEF Inv, TypeOK, RequestScheduled, Displays
  <2>3. /\ queue' \subseteq Trigger /\ debounce_source' \in BOOLEAN
        /\ local_dirty' \in BOOLEAN /\ remote_pending' \in BOOLEAN
        /\ safety_bypass_once' \in BOOLEAN
    BY <1>2 DEF Inv, TypeOK, RequestScheduled
  <2>4. UNCHANGED <<inotify_during_sync, feedback_followup_pending, cooldown_source,
                    flagVars, markerVars, jobVars>>
    BY <1>2 DEF Request, RequestScheduled
  <2>5. TypeOK' BY <2>2, <2>3, <2>4 DEF Inv, TypeOK, CallerFieldsOK
  <2> QED BY <2>1, <2>5 DEF Inv
<1>3. CASE RequestUnlock(t, from)
  <2>1. queue \cup {t} \in SUBSET Trigger BY DEF Inv, TypeOK
  <2>2. Start(queue \cup {t}, from) BY <1>3 DEF RequestUnlock
  <2>3. /\ queue' \subseteq Trigger /\ local_dirty' \in BOOLEAN /\ state' \in AppState
        /\ start_source' \in BOOLEAN /\ safety_bypass_once' \in BOOLEAN
        /\ preparing' \in BOOLEAN /\ safety_checking' \in BOOLEAN
        /\ checking' \subseteq SUBSET Trigger /\ lookups' \in Nat
        /\ SingleFlight'
    BY <2>1, <2>2, StartInv DEF Request
  <2>4. TypeOK'
    BY <1>3, <2>3 DEF Inv, TypeOK, CallerFieldsOK, Request, RequestUnlock
  <2> QED BY <2>3, <2>4 DEF Inv
<1> QED BY <1>1, <1>2, <1>3 DEF Request

-----------------------------------------------------------------------------
(* The continuations.                                                      *)

(* _safety_checked ends the only check and may start the only lookup.       *)
LEMMA SafetyCheckedInv ==
  ASSUME Inv, NEW reasons \in checking, NEW alert \in CheckVerdict,
         SafetyChecked(reasons, alert)
  PROVE  Inv'
<1>1. checking = {reasons} /\ lookups = 0 /\ recorders = 0 /\ ~running
  BY DEF Inv, TypeOK, SingleFlight
<1>2. checking' = {} /\ recorders' = 0 /\ ~running' /\ reasons \subseteq Trigger
  BY <1>1 DEF SafetyChecked, Inv, TypeOK
<1>2b. checking' \subseteq SUBSET Trigger /\ recorders' \in Nat BY <1>2
<1>2a. UNCHANGED <<safety_bypass_once, process, outsideVars, timerVars, accountVars,
                  deferVars, markerVars, feedbackVars>>
  BY DEF SafetyChecked
<1>3. CASE stopped
  <2>1. lookups' = 0 /\ stopped' BY <1>1, <1>3 DEF SafetyChecked
  <2>2. SingleFlight' BY <1>2, <2>1 DEF SingleFlight
  <2>3. UNCHANGED <<queue, state, safety_alert, flagVars>> BY <1>3 DEF SafetyChecked
  <2>4. TypeOK' BY <1>2, <2>1, <2>3, <1>2a DEF Inv, TypeOK
  <2> QED BY <2>2, <2>4 DEF Inv
<1>4. CASE ~stopped /\ alert # "none"
  <2>1. lookups' = 0 /\ preparing' = FALSE BY <1>1, <1>4 DEF SafetyChecked
  <2>2. SingleFlight' BY <1>2, <2>1 DEF SingleFlight
  <2>3. /\ queue' \subseteq Trigger /\ safety_alert' \in {"none", "deletion", "structural"}
        /\ state' \in AppState /\ preparing' \in BOOLEAN /\ safety_checking' \in BOOLEAN
    BY <1>2, <1>4 DEF Inv, TypeOK, SafetyChecked, CheckVerdict, AppState
  <2>4. TypeOK' BY <1>2b, <2>1, <2>3, <1>2a DEF Inv, TypeOK
  <2> QED BY <2>2, <2>4 DEF Inv
<1>5. CASE ~stopped /\ alert = "none"
  <2>1. lookups' = 1 /\ preparing' = TRUE BY <1>1, <1>5 DEF SafetyChecked
  <2>2. SingleFlight' BY <1>2, <2>1 DEF SingleFlight
  <2>3. /\ state' \in AppState /\ preparing' \in BOOLEAN /\ safety_checking' \in BOOLEAN
        /\ lookups' \in Nat /\ UNCHANGED <<queue, safety_alert>>
    BY <1>5, <2>1 DEF SafetyChecked, AppState
  <2>4. TypeOK' BY <1>2b, <2>3, <1>2a DEF Inv, TypeOK
  <2> QED BY <2>2, <2>4 DEF Inv
<1> QED BY <1>3, <1>4, <1>5

(* What _finished assigns has its type.                                    *)
LEMMA FinishedType ==
  ASSUME Inv, NEW outcome \in Outcome, NEW followup \in BOOLEAN, NEW pending \in BOOLEAN,
         Finished(outcome, followup, pending)
  PROVE  /\ preparing' = (outcome \in {"success", "conflict"})
         /\ recorders' = IF preparing' THEN recorders + 1 ELSE recorders
         /\ authentication_required' \in BOOLEAN /\ state' \in AppState
         /\ queue' \subseteq Trigger /\ feedback_followup_pending' \in BOOLEAN
         /\ inotify_during_sync' = FALSE
         /\ cooldown_source' \in {"none", "idle", "run_pending"}
         /\ UNCHANGED <<debounce_source, safety_checking, checking, outsideVars,
                        startVars, alertVars, deferVars>>
<1>1. state' \in AppState BY IdleStateType DEF Finished, AppState
<1>2. queue' \subseteq Trigger BY DEF Finished, Inv, TypeOK, Trigger
<1>3. authentication_required' \in BOOLEAN BY DEF Finished, Inv, TypeOK
<1>4. feedback_followup_pending' \in BOOLEAN BY DEF Finished, Inv, TypeOK
<1> QED BY <1>1, <1>2, <1>3, <1>4 DEF Finished

(* maybe_finish ends the only process, and _finished may start the only     *)
(* recording of the baseline.                                               *)
LEMMA ProcessExitsInv ==
  ASSUME Inv, NEW outcome \in Outcome, ProcessExits(outcome)
  PROVE  Inv'
<1>1. checking = {} /\ lookups = 0 /\ recorders = 0 /\ ~preparing /\ running
  BY DEF Inv, TypeOK, SingleFlight, ProcessExits
<1>2. process' = "none" /\ lookups' = 0 /\ UNCHANGED <<keyring_locked, markerVars>>
  BY <1>1 DEF ProcessExits
<1>3. CASE ~stopped /\ Finished(outcome, process = "followup", feedback_followup_pending)
  <2>1. (process = "followup") \in BOOLEAN /\ feedback_followup_pending \in BOOLEAN
    BY DEF Inv, TypeOK
  <2>2. /\ preparing' = (outcome \in {"success", "conflict"})
        /\ recorders' = IF preparing' THEN recorders + 1 ELSE recorders
        /\ authentication_required' \in BOOLEAN /\ state' \in AppState
        /\ queue' \subseteq Trigger /\ feedback_followup_pending' \in BOOLEAN
        /\ inotify_during_sync' = FALSE
        /\ cooldown_source' \in {"none", "idle", "run_pending"}
        /\ UNCHANGED <<debounce_source, safety_checking, checking, outsideVars,
                       startVars, alertVars, deferVars>>
    BY <1>3, <2>1, FinishedType
  <2>3. checking' = {} /\ recorders' = (IF preparing' THEN 1 ELSE 0) /\ preparing' \in BOOLEAN
    BY <1>1, <2>2
  <2>4. SingleFlight' BY <1>2, <2>3 DEF SingleFlight
  <2>5. lookups' \in Nat /\ recorders' \in Nat /\ checking' \subseteq SUBSET Trigger
        /\ process' \in {"none", "first", "followup"}
    BY <1>2, <2>3
  <2>6. /\ preparing' \in BOOLEAN /\ inotify_during_sync' \in BOOLEAN
        /\ authentication_required' \in BOOLEAN /\ state' \in AppState
        /\ queue' \subseteq Trigger /\ feedback_followup_pending' \in BOOLEAN
        /\ cooldown_source' \in {"none", "idle", "run_pending"}
        /\ UNCHANGED <<debounce_source, safety_checking, outsideVars, startVars,
                       alertVars, deferVars, keyring_locked, markerVars>>
    BY <1>2, <2>2, <2>3
  <2>7. TypeOK' BY <2>5, <2>6 DEF Inv, TypeOK
  <2> QED BY <2>4, <2>7 DEF Inv
<1>4. CASE stopped /\ UNCHANGED <<queue, state, authentication_required, checking, recorders,
                       outsideVars, timerVars, flagVars, alertVars, deferVars,
                       feedbackVars>>
  <2>1. SingleFlight' BY <1>1, <1>2, <1>4 DEF SingleFlight
  <2>2. TypeOK' BY <1>2, <1>4 DEF Inv, TypeOK
  <2> QED BY <2>1, <2>2 DEF Inv
<1> QED BY <1>3, <1>4 DEF ProcessExits
(* What BeginMarker assigns has its type.                                  *)
LEMMA BeginMarkerType ==
  ASSUME TypeOK, BeginMarker
  PROVE  marker' \in BOOLEAN /\ run_marker_active' \in BOOLEAN
BY DEF TypeOK, BeginMarker

(* secret_ready ends the attempt, hands it to nextcloudcmd, or hands it to *)
(* _finished at once.                                                      *)
LEMMA LookupDoneInv ==
  ASSUME Inv, LookupDone
  PROVE  Inv'
<1>1. /\ checking = {} /\ lookups = 1 /\ recorders = 0 /\ ~running /\ preparing
      /\ lookups' = 0 /\ lookups' \in Nat
  BY DEF Inv, TypeOK, SingleFlight, LookupDone
<1>2. CASE stopped /\ UNCHANGED <<queue, state, checking, process, recorders,
                               outsideVars, timerVars, flagVars, alertVars,
                               accountVars, deferVars, markerVars, feedbackVars>>
  <2>1. SingleFlight' BY <1>1, <1>2 DEF SingleFlight
  <2>2. TypeOK' BY <1>1, <1>2 DEF Inv, TypeOK
  <2> QED BY <2>1, <2>2 DEF Inv
<1>3. ASSUME NEW why \in LookupFailure, LookupFails(why) PROVE Inv'
  <2>1. UNCHANGED <<queue, safety_checking, checking, process, recorders, outsideVars,
                 timerVars, alertVars, deferVars, run_marker_active, feedbackVars>>
    BY <1>3 DEF LookupFails
  <2>2. SingleFlight' BY <1>1, <1>3, <2>1 DEF SingleFlight, LookupFails
  <2>3. state' \in AppState BY <1>3 DEF Inv, TypeOK, LookupFails, AppState
  <2>4. preparing' \in BOOLEAN BY <1>3 DEF LookupFails
  <2>5. keyring_locked' \in BOOLEAN BY <1>3 DEF LookupFails
  <2>6. authentication_required' \in BOOLEAN BY <1>3 DEF Inv, TypeOK, LookupFails
  <2>7. marker' \in BOOLEAN BY <1>3 DEF Inv, TypeOK, LookupFails
  <2>8. TypeOK' BY <1>1, <2>1, <2>3, <2>4, <2>5, <2>6, <2>7 DEF Inv, TypeOK
  <2> QED BY <2>2, <2>8 DEF Inv
<1>4. CASE ProcessStarts
  <2>1. UNCHANGED <<queue, state, authentication_required, safety_checking,
                 inotify_during_sync, checking, recorders, outsideVars, timerVars,
                 alertVars, deferVars>>
    BY <1>4 DEF ProcessStarts
  <2>2. ~preparing' BY <1>4 DEF ProcessStarts
  <2>3. SingleFlight' BY <1>1, <2>1, <2>2 DEF SingleFlight
  <2>4. preparing' \in BOOLEAN BY <1>4 DEF ProcessStarts
  <2>5. keyring_locked' \in BOOLEAN BY <1>4 DEF ProcessStarts
  <2>6. feedback_followup_pending' \in BOOLEAN BY <1>4 DEF ProcessStarts
  <2>7. process' \in {"none", "first", "followup"} BY <1>4 DEF ProcessStarts
  <2>8. marker' \in BOOLEAN /\ run_marker_active' \in BOOLEAN
    BY <1>4, BeginMarkerType DEF ProcessStarts, Inv
  <2>9. TypeOK' BY <1>1, <2>1, <2>4, <2>5, <2>6, <2>7, <2>8 DEF Inv, TypeOK
  <2> QED BY <2>3, <2>9 DEF Inv
<1>5. CASE SpawnFails
  <2>1. feedback_followup_pending \in BOOLEAN /\ FALSE \in BOOLEAN BY DEF Inv, TypeOK
  <2>2. /\ Finished("sync_error", feedback_followup_pending, FALSE) /\ "sync_error" \in Outcome
        /\ ~stopped /\ BeginMarker /\ process' = process
    BY <1>5 DEF SpawnFails, Outcome
  <2>3. /\ preparing' = ("sync_error" \in {"success", "conflict"})
        /\ recorders' = IF preparing' THEN recorders + 1 ELSE recorders
        /\ authentication_required' \in BOOLEAN /\ state' \in AppState
        /\ queue' \subseteq Trigger /\ feedback_followup_pending' \in BOOLEAN
        /\ inotify_during_sync' = FALSE
        /\ cooldown_source' \in {"none", "idle", "run_pending"}
        /\ UNCHANGED <<debounce_source, safety_checking, checking, outsideVars,
                       startVars, alertVars, deferVars>>
    BY <2>1, <2>2, FinishedType
  <2>4. ~preparing' /\ recorders' = recorders BY <2>3
  <2>5. SingleFlight' BY <1>1, <2>2, <2>3, <2>4 DEF SingleFlight
  <2>6. preparing' \in BOOLEAN BY <2>3
  <2>7. inotify_during_sync' \in BOOLEAN BY <2>3
  <2>8. keyring_locked' \in BOOLEAN BY <1>5 DEF SpawnFails
  <2>9. marker' \in BOOLEAN /\ run_marker_active' \in BOOLEAN
    BY <2>2, BeginMarkerType DEF Inv
  <2>10. /\ authentication_required' \in BOOLEAN /\ state' \in AppState
         /\ queue' \subseteq Trigger /\ feedback_followup_pending' \in BOOLEAN
         /\ cooldown_source' \in {"none", "idle", "run_pending"}
         /\ UNCHANGED <<debounce_source, safety_checking, checking, outsideVars,
                        startVars, alertVars, deferVars, process, recorders>>
    BY <2>2, <2>3, <2>4
  <2>11. TypeOK' BY <1>1, <2>6, <2>7, <2>8, <2>9, <2>10 DEF Inv, TypeOK
  <2> QED BY <2>5, <2>11 DEF Inv
<1> QED BY <1>2, <1>3, <1>4, <1>5 DEF LookupDone

(* Recording the baseline frees the scheduler for the next start.          *)
LEMMA BaselineRecordedInv ==
  ASSUME Inv, NEW recorded \in BOOLEAN, NEW cleared \in BOOLEAN,
         BaselineRecorded(recorded, cleared)
  PROVE  Inv'
<1>1. checking = {} /\ lookups = 0 /\ recorders = 1 /\ ~running /\ recorders' = 0
  BY DEF Inv, TypeOK, SingleFlight, BaselineRecorded
<1>2. UNCHANGED <<queue, debounce_source, cooldown_source, safety_checking, checking,
                 lookups, process, outsideVars, alertVars, accountVars, deferVars,
                 feedbackVars>>
  BY DEF BaselineRecorded
<1>3. ~preparing' BY DEF BaselineRecorded
<1>4. SingleFlight' BY <1>1, <1>2, <1>3 DEF SingleFlight
<1>5. start_source' \in BOOLEAN /\ idle_start' \in BOOLEAN /\ state' \in AppState
  BY ScheduleStartType, CallerType DEF BaselineRecorded, Inv, TypeOK
<1>6. preparing' \in BOOLEAN BY DEF BaselineRecorded
<1>7. run_marker_active' \in BOOLEAN BY DEF BaselineRecorded, Inv, TypeOK
<1>8. marker' \in BOOLEAN BY DEF BaselineRecorded, Inv, TypeOK
<1>9. recorders' \in Nat BY <1>1
<1>10. TypeOK' BY <1>2, <1>5, <1>6, <1>7, <1>8, <1>9 DEF Inv, TypeOK
<1> QED BY <1>4, <1>10 DEF Inv

-----------------------------------------------------------------------------
(* The timers.                                                             *)

(* A timer that only schedules a start touches nothing in progress.        *)
LEMMA DebounceElapsedInv ==
  ASSUME Inv, DebounceElapsed
  PROVE  Inv'
<1>1. UNCHANGED <<queue, cooldown_source, outsideVars, jobVars, flagVars, alertVars,
                 accountVars, deferVars, markerVars, feedbackVars>>
  BY DEF DebounceElapsed
<1>2. SingleFlight' BY <1>1, JobsUnchangedInv DEF Inv, JobsUnchanged
<1>3. debounce_source' \in BOOLEAN BY DEF DebounceElapsed
<1>4. start_source' \in BOOLEAN /\ idle_start' \in BOOLEAN /\ state' \in AppState
  BY ScheduleStartType, CallerType DEF DebounceElapsed, Inv, TypeOK
<1>5. TypeOK' BY <1>1, <1>3, <1>4 DEF Inv, TypeOK
<1> QED BY <1>2, <1>5 DEF Inv

(* The end of the cooldown schedules a start, or shows the idle state.     *)
LEMMA CooldownFinishedInv ==
  ASSUME Inv, CooldownFinished
  PROVE  Inv'
<1>1. UNCHANGED <<queue, debounce_source, outsideVars, jobVars, flagVars, alertVars,
                 accountVars, deferVars, markerVars, feedbackVars>>
  BY DEF CooldownFinished
<1>2. SingleFlight' BY <1>1, JobsUnchangedInv DEF Inv, JobsUnchanged
<1>3. cooldown_source' \in {"none", "idle", "run_pending"} BY DEF CooldownFinished
<1>4. start_source' \in BOOLEAN /\ idle_start' \in BOOLEAN /\ state' \in AppState
  BY ScheduleStartType, CallerType, IdleStateType DEF CooldownFinished, Inv, TypeOK
<1>5. TypeOK' BY <1>1, <1>3, <1>4 DEF Inv, TypeOK
<1> QED BY <1>2, <1>5 DEF Inv

(* The idle source calls _start on the queue.                              *)
LEMMA IdleStartInv ==
  ASSUME Inv, IdleStart
  PROVE  Inv'
<1>1. queue \in SUBSET Trigger BY DEF Inv, TypeOK
<1>2. Caller \in CallerRecord
  BY CallerType DEF Inv
<1>3. /\ Start(queue, Caller)
      /\ UNCHANGED <<remote_pending, debounce_source, cooldown_source, safety_alert,
                 process, recorders, outsideVars, accountVars, markerVars,
                 feedbackVars>>
  BY DEF IdleStart
<1>4. /\ queue' \subseteq Trigger /\ local_dirty' \in BOOLEAN /\ state' \in AppState
      /\ start_source' \in BOOLEAN /\ safety_bypass_once' \in BOOLEAN
      /\ preparing' \in BOOLEAN /\ safety_checking' \in BOOLEAN
      /\ checking' \subseteq SUBSET Trigger /\ lookups' \in Nat
      /\ SingleFlight'
  BY <1>1, <1>2, <1>3, StartInv
<1>5. idle_start' \in BOOLEAN BY DEF IdleStart
<1>6. TypeOK' BY <1>3, <1>4, <1>5 DEF Inv, TypeOK
<1> QED BY <1>4, <1>6 DEF Inv
-----------------------------------------------------------------------------
(* The user, the battery, the network, the account.                        *)

(* What stays when a handler schedules nothing.                            *)
LEMMA UnscheduledInv ==
  ASSUME Inv, Unscheduled, CallerFieldsOK', stopped' = stopped,
         state' \in AppState, safety_bypass_once' \in BOOLEAN
  PROVE  Inv'
<1>1. SingleFlight'
  BY JobsUnchangedInv DEF Inv, JobsUnchanged, Unscheduled
<1>2. TypeOK' BY DEF Inv, TypeOK, CallerFieldsOK, Unscheduled
<1> QED BY <1>1, <1>2 DEF Inv

(* The common end of resuming.                                             *)
LEMMA ReconcileInv ==
  ASSUME Inv, NEW settles \in BOOLEAN, Reconcile(settles), CallerFieldsOK', stopped' = stopped
  PROVE  Inv'
<1>1. CASE Request("RESUME", [Caller EXCEPT !.dirty = FALSE, !.pending = FALSE,
                                             !.settles = settles])
  <2>1. Caller \in CallerRecord
    BY CallerType DEF Inv
  <2>2. [Caller EXCEPT !.dirty = FALSE, !.pending = FALSE, !.settles = settles]
          \in CallerRecord
    BY <2>1
  <2>3. "RESUME" \in Trigger BY DEF Trigger
  <2> QED BY <1>1, <2>2, <2>3, RequestInv
<1>2. CASE /\ local_dirty' = FALSE /\ remote_pending' = FALSE
           /\ state' = IdleState
           /\ UNCHANGED <<queue, safety_bypass_once, timerVars, jobVars, flagVars,
                          markerVars, feedbackVars>>
  <2>1. SingleFlight' BY <1>2, JobsUnchangedInv DEF Inv, JobsUnchanged
  <2>2. local_dirty' \in BOOLEAN /\ remote_pending' \in BOOLEAN BY <1>2
  <2>3. state' \in AppState BY <1>2, IdleStateType
  <2>4. UNCHANGED <<queue, safety_bypass_once, timerVars, jobVars, flagVars,
                    markerVars, feedbackVars>>
    BY <1>2
  <2>5. TypeOK' BY <2>2, <2>3, <2>4 DEF Inv, TypeOK, CallerFieldsOK
  <2> QED BY <2>1, <2>5 DEF Inv
<1> QED BY <1>1, <1>2 DEF Reconcile

(* A request from a watcher, a timer or the user.                          *)
LEMMA RequestedInv ==
  ASSUME Inv, NEW t \in Trigger, Requested(t)
  PROVE  Inv'
<1>1. CallerFieldsOK' /\ stopped' = stopped
  BY DEF Requested, Inv, TypeOK, CallerFieldsOK
<1>2. Caller \in CallerRecord
  BY CallerType DEF Inv
<1> QED BY <1>1, <1>2, RequestInv DEF Requested

(* set_user_paused, which may end in a request, keeps the invariant.        *)
LEMMA SetUserPausedInv ==
  ASSUME Inv, NEW p \in BOOLEAN, SetUserPaused(p)
  PROVE  Inv'
<1>1. CallerFieldsOK' /\ stopped' = stopped
  BY DEF SetUserPaused, Inv, TypeOK, CallerFieldsOK
<1>2. CASE p
  <2>1. Unscheduled /\ state' = "PAUSED_USER" /\ UNCHANGED safety_bypass_once
    BY <1>2 DEF SetUserPaused
  <2>2. state' \in AppState BY <2>1 DEF AppState
  <2>3. safety_bypass_once' \in BOOLEAN BY <2>1 DEF Inv, TypeOK
  <2> QED BY <1>1, <2>1, <2>2, <2>3, UnscheduledInv
<1>3. CASE ~p
  BY <1>1, <1>3, ReconcileInv DEF SetUserPaused
<1> QED BY <1>2, <1>3

(* set_battery_paused, which may end in a request, keeps the invariant.     *)
LEMMA SetBatteryPausedInv ==
  ASSUME Inv, NEW p \in BOOLEAN, SetBatteryPaused(p)
  PROVE  Inv'
<1>1. CallerFieldsOK' /\ stopped' = stopped
  BY DEF SetBatteryPaused, Inv, TypeOK, CallerFieldsOK
<1>2. CASE Reconcile(FALSE)
  BY <1>1, <1>2, ReconcileInv
<1>3. CASE /\ Unscheduled /\ UNCHANGED safety_bypass_once
           /\ state' \in {state, "PAUSED_BATTERY"}
  <2>1. state' \in AppState BY <1>3 DEF AppState, Inv, TypeOK
  <2>2. safety_bypass_once' \in BOOLEAN BY <1>3 DEF Inv, TypeOK
  <2> QED BY <1>1, <1>3, <2>1, <2>2, UnscheduledInv
<1> QED BY <1>2, <1>3 DEF SetBatteryPaused

(* set_online, which may end in a request, keeps the invariant.             *)
LEMMA SetOnlineInv ==
  ASSUME Inv, NEW up \in BOOLEAN, SetOnline(up)
  PROVE  Inv'
<1>1. CallerFieldsOK' /\ stopped' = stopped
  BY DEF SetOnline, Inv, TypeOK, CallerFieldsOK
<1>2. CASE Request("NETWORK_RESTORED", Caller)
  <2>1. "NETWORK_RESTORED" \in Trigger BY DEF Trigger
  <2>2. Caller \in CallerRecord
    BY CallerType DEF Inv
  <2> QED BY <1>1, <1>2, <2>1, <2>2, RequestInv
<1>3. CASE /\ Unscheduled /\ UNCHANGED safety_bypass_once
           /\ state' = IF ~up THEN "OFFLINE" ELSE IF online THEN state ELSE IdleState
  <2>1. state' \in AppState BY <1>3, IdleStateType DEF AppState, Inv, TypeOK
  <2>2. safety_bypass_once' \in BOOLEAN BY <1>3 DEF Inv, TypeOK
  <2> QED BY <1>1, <1>3, <2>1, <2>2, UnscheduledInv
<1> QED BY <1>2, <1>3 DEF SetOnline

(* The end of suspend, which may end in a request, keeps the invariant.     *)
LEMMA ResumedInv ==
  ASSUME Inv, Resumed
  PROVE  Inv'
<1>1. CallerFieldsOK' /\ stopped' = stopped
  BY DEF Resumed, Inv, TypeOK, CallerFieldsOK
<1>2. Caller \in CallerRecord
  BY CallerType DEF Inv
<1>3. PICK shown \in {state, IdleState} :
        IF ~manual_only \/ queue # {}
        THEN Request("RESUME", [Caller EXCEPT !.shown = shown])
        ELSE state' = shown /\ UNCHANGED safety_bypass_once /\ Unscheduled
  BY DEF Resumed
<1>4. shown \in AppState BY IdleStateType DEF Inv, TypeOK
<1>5. CASE Request("RESUME", [Caller EXCEPT !.shown = shown])
  <2>1. "RESUME" \in Trigger BY DEF Trigger
  <2>2. [Caller EXCEPT !.shown = shown]
          \in CallerRecord
    BY <1>2, <1>4
  <2> QED BY <1>1, <1>5, <2>1, <2>2, RequestInv
<1>6. CASE state' = shown /\ UNCHANGED safety_bypass_once /\ Unscheduled
  <2>1. state' \in AppState BY <1>4, <1>6
  <2>2. safety_bypass_once' \in BOOLEAN BY <1>6 DEF Inv, TypeOK
  <2> QED BY <1>1, <1>6, <2>1, <2>2, UnscheduledInv
<1> QED BY <1>3, <1>5, <1>6

(* A saved setting, which may end a pause, keeps the invariant.             *)
LEMMA SettingsSavedInv ==
  ASSUME Inv, SettingsSaved
  PROVE  Inv'
<1>1. CallerFieldsOK' /\ stopped' = stopped
  BY DEF SettingsSaved, Inv, TypeOK, CallerFieldsOK
<1>2. CASE Reconcile(TRUE)
  BY <1>1, <1>2, ReconcileInv
<1>3. CASE state' = IdleState /\ UNCHANGED safety_bypass_once /\ Unscheduled
  <2>1. state' \in AppState BY <1>3, IdleStateType
  <2>2. safety_bypass_once' \in BOOLEAN BY <1>3 DEF Inv, TypeOK
  <2> QED BY <1>1, <1>3, <2>1, <2>2, UnscheduledInv
<1> QED BY <1>2, <1>3 DEF SettingsSaved

(* authentication_rejected keeps the invariant.                             *)
LEMMA AuthenticationRejectedInv ==
  ASSUME Inv, AuthenticationRejected
  PROVE  Inv'
<1>1. authentication_required' \in BOOLEAN BY DEF AuthenticationRejected
<1>2. CallerFieldsOK' /\ stopped' = stopped
  BY <1>1 DEF AuthenticationRejected, Inv, TypeOK, CallerFieldsOK
<1>3. state' \in AppState BY DEF AuthenticationRejected, AppState
<1>4. safety_bypass_once' \in BOOLEAN BY DEF AuthenticationRejected, Inv, TypeOK
<1> QED BY <1>2, <1>3, <1>4, UnscheduledInv DEF AuthenticationRejected

(* authentication_restored and its MANUAL request keep the invariant.       *)
LEMMA AuthenticationRestoredInv ==
  ASSUME Inv, AuthenticationRestored
  PROVE  Inv'
<1>1. authentication_required' \in BOOLEAN /\ keyring_locked' \in BOOLEAN
  BY DEF AuthenticationRestored
<1>2. CallerFieldsOK' /\ stopped' = stopped
  BY <1>1 DEF AuthenticationRestored, Inv, TypeOK, CallerFieldsOK
<1>3. "MANUAL" \in Trigger BY DEF Trigger
<1>4. [Caller EXCEPT !.shown = IdleState]
        \in CallerRecord
  BY CallerType, IdleStateType DEF Inv
<1> QED BY <1>2, <1>3, <1>4, RequestInv DEF AuthenticationRestored

(* approve_safety_once and its MANUAL request keep the invariant.           *)
LEMMA ApproveSafetyOnceInv ==
  ASSUME Inv, ApproveSafetyOnce
  PROVE  Inv'
<1>1. CallerFieldsOK' /\ stopped' = stopped
  BY DEF ApproveSafetyOnce, Inv, TypeOK, CallerFieldsOK
<1>2. "MANUAL" \in Trigger BY DEF Trigger
<1>3. [Caller EXCEPT !.bypass = TRUE]
        \in CallerRecord
  BY CallerType DEF Inv
<1> QED BY <1>1, <1>2, <1>3, RequestInv DEF ApproveSafetyOnce

(* stop() leaves what is in progress, and _preparing, as they are.         *)
LEMMA StopInv ==
  ASSUME Inv, Stop
  PROVE  Inv'
<1>1. UNCHANGED <<online, state, user_paused, battery_paused, safety_bypass_once,
                 inotify_during_sync, guard_enabled, manual_only, jobVars, flagVars,
                 accountVars, markerVars>>
  BY DEF Stop
<1>2. stopped' BY DEF Stop
<1>3. SingleFlight' BY <1>1, <1>2 DEF Inv, SingleFlight
<1>4. stopped' \in BOOLEAN BY DEF Stop
<1>5. debounce_source' \in BOOLEAN BY DEF Stop
<1>6. start_source' \in BOOLEAN BY DEF Stop
<1>7. idle_start' \in BOOLEAN BY DEF Stop
<1>8. local_dirty' \in BOOLEAN BY DEF Stop
<1>9. remote_pending' \in BOOLEAN BY DEF Stop
<1>10. feedback_followup_pending' \in BOOLEAN BY DEF Stop
<1>11. /\ cooldown_source' \in {"none", "idle", "run_pending"}
       /\ safety_alert' \in {"none", "deletion", "structural"}
       /\ queue' \subseteq Trigger
  BY DEF Stop
<1>12. TypeOK'
  BY <1>1, <1>4, <1>5, <1>6, <1>7, <1>8, <1>9, <1>10, <1>11 DEF Inv, TypeOK
<1> QED BY <1>3, <1>12 DEF Inv

-----------------------------------------------------------------------------
(* The theorems.                                                           *)

(* A scheduler begins with nothing in progress.                            *)
LEMMA InitInv == Init => Inv
<1> SUFFICES ASSUME Init PROVE Inv OBVIOUS
<1>1. state \in AppState BY DEF Init, AppState
<1>2. TypeOK BY <1>1 DEF Init, TypeOK
<1>3. SingleFlight BY DEF Init, SingleFlight
<1> QED BY <1>2, <1>3 DEF Inv

(* Every step keeps the invariant: one lemma per handler.                  *)
LEMMA NextInv == Inv /\ [Next]_vars => Inv'
<1> SUFFICES ASSUME Inv, [Next]_vars PROVE Inv' OBVIOUS
<1>1. CASE Internal
  BY <1>1, DebounceElapsedInv, IdleStartInv, CooldownFinishedInv, SafetyCheckedInv,
     LookupDoneInv, ProcessExitsInv, BaselineRecordedInv
  DEF Internal
<1>2. CASE Feedback
  <2>1. "LOCAL_INOTIFY" \in Trigger BY DEF Trigger
  <2> QED BY <1>2, <2>1, RequestedInv DEF Feedback
<1>3. CASE External
  <2>1. \A t \in Sources : t \in Trigger BY SourcesAssumption
  <2> QED BY <1>3, <2>1, RequestedInv, SetUserPausedInv, SetBatteryPausedInv,
     SetOnlineInv, ResumedInv, SettingsSavedInv, AuthenticationRejectedInv,
     AuthenticationRestoredInv, ApproveSafetyOnceInv, StopInv
     DEF External
<1>4. CASE UNCHANGED vars
  <2>1. TypeOK' BY <1>4 DEF Inv, TypeOK, vars
  <2>2. SingleFlight' BY <1>4, JobsUnchangedInv DEF Inv, JobsUnchanged, vars
  <2> QED BY <2>1, <2>2 DEF Inv
<1> QED BY <1>1, <1>2, <1>3, <1>4 DEF Next

(* The types and SingleFlight hold in every reachable state of the          *)
(* scheduler: the inductive invariant that every other proof cites.         *)
THEOREM Invariance == Spec => []Inv
BY InitInv, NextInv, PTL DEF Spec

(* Every variable keeps its type, whatever the triggers and events.        *)
THEOREM TypeCorrect == Spec => []TypeOK
<1>1. Inv => TypeOK BY DEF Inv
<1> QED BY Invariance, <1>1, PTL

(* At most one check, lookup, nextcloudcmd run or baseline recording is in *)
(* progress, and _preparing says so truly, in every interleaving.          *)
THEOREM OneAtATime == Spec => []SingleFlight
<1>1. Inv => SingleFlight BY DEF Inv
<1> QED BY Invariance, <1>1, PTL

-----------------------------------------------------------------------------
(* What a step may never do.                                               *)
Emptied ==
  /\ queue = {} /\ ~debounce_source /\ ~start_source /\ cooldown_source = "none"

(* What a step after stop() may do.                                        *)
QuietStep ==
  /\ queue' = {} /\ stopped'
  /\ ~debounce_source' /\ ~start_source' /\ cooldown_source' = "none"
  /\ (running' => running)
  /\ checking' \subseteq checking /\ lookups' <= lookups

(* What neither queues, schedules nor starts is quiet.                     *)
LEMMA NothingIsQuiet ==
  ASSUME Inv, stopped', Emptied,
         UNCHANGED <<queue, debounce_source, start_source, cooldown_source, jobVars>>
  PROVE  QuietStep
BY DEF Inv, TypeOK, Emptied, QuietStep

(* request returns at once.                                                *)
LEMMA RequestIsIgnored ==
  ASSUME Inv, stopped, stopped' = stopped, Emptied, NEW t, NEW from, Request(t, from)
  PROVE  QuietStep
<1>1. Disposition(t, from) = "ignored" BY DEF Disposition
<1>2. RequestDeferred(t, from)
  BY <1>1 DEF Request, RequestScheduled, RequestUnlock
<1>3. queue' = queue BY <1>1, <1>2 DEF RequestDeferred
<1>4. UNCHANGED <<queue, debounce_source, start_source, cooldown_source, jobVars>>
  BY <1>2, <1>3 DEF Request, RequestDeferred
<1> QED BY <1>4, NothingIsQuiet

(* Resuming asks for nothing.                                              *)
LEMMA ReconcileIsQuiet ==
  ASSUME Inv, stopped, stopped' = stopped, Emptied, NEW settles, Reconcile(settles)
  PROVE  QuietStep
BY RequestIsIgnored, NothingIsQuiet DEF Reconcile

(* The timers and the continuations.                                       *)
LEMMA InternalIsQuiet ==
  ASSUME Inv, stopped, Emptied, Internal
  PROVE  QuietStep
<1>1. CASE DebounceElapsed BY <1>1 DEF DebounceElapsed, Emptied
<1>2. CASE CooldownFinished BY <1>2 DEF CooldownFinished, Emptied
<1>3. CASE IdleStart
  <2>1. Start(queue, Caller) /\ stopped'
        /\ UNCHANGED <<debounce_source, cooldown_source, process, recorders>>
    BY <1>3 DEF IdleStart
  <2>2. StartReturns(queue, Caller) /\ ~start_source' BY <2>1 DEF Start
  <2>3. queue' = queue /\ UNCHANGED <<checking, lookups>> BY <2>2 DEF StartReturns
  <2> QED BY <2>1, <2>2, <2>3 DEF QuietStep, Emptied, Inv, TypeOK
<1>4. ASSUME NEW reasons \in checking, NEW alert \in CheckVerdict,
             SafetyChecked(reasons, alert)
      PROVE  QuietStep
  BY <1>4 DEF SafetyChecked, QuietStep, Emptied, Inv, TypeOK
<1>5. CASE LookupDone
  BY <1>5 DEF LookupDone, LookupFails, ProcessStarts, SpawnFails,
              QuietStep, Emptied, Inv, TypeOK
<1>6. ASSUME NEW outcome \in Outcome, ProcessExits(outcome)
      PROVE  QuietStep
  BY <1>6 DEF ProcessExits, QuietStep, Emptied, Inv, TypeOK
<1>7. ASSUME NEW recorded \in BOOLEAN, NEW cleared \in BOOLEAN,
             BaselineRecorded(recorded, cleared)
      PROVE  QuietStep
  BY <1>7 DEF BaselineRecorded, QuietStep, Emptied, Inv, TypeOK
<1> QED BY <1>1, <1>2, <1>3, <1>4, <1>5, <1>6, <1>7 DEF Internal

(* The handlers that other parts of the program call.                      *)
LEMMA ExternalIsQuiet ==
  ASSUME Inv, stopped, Emptied, External
  PROVE  QuietStep
<1>1. ASSUME NEW t \in Sources, Requested(t) PROVE QuietStep
  BY <1>1, RequestIsIgnored DEF Requested
<1>2. ASSUME NEW p \in BOOLEAN, SetUserPaused(p) PROVE QuietStep
  BY <1>2, ReconcileIsQuiet, NothingIsQuiet DEF SetUserPaused, Unscheduled
<1>3. ASSUME NEW p \in BOOLEAN, SetBatteryPaused(p) PROVE QuietStep
  BY <1>3, ReconcileIsQuiet, NothingIsQuiet DEF SetBatteryPaused, Unscheduled
<1>4. ASSUME NEW up \in BOOLEAN, SetOnline(up) PROVE QuietStep
  BY <1>4, RequestIsIgnored, NothingIsQuiet DEF SetOnline, Unscheduled
<1>5. CASE Resumed
  BY <1>5, RequestIsIgnored, NothingIsQuiet DEF Resumed, Unscheduled
<1>6. CASE SettingsSaved
  BY <1>6, ReconcileIsQuiet, NothingIsQuiet DEF SettingsSaved, Unscheduled
<1>7. CASE AuthenticationRejected
  BY <1>7, NothingIsQuiet DEF AuthenticationRejected, Unscheduled
<1>8. CASE AuthenticationRestored
  BY <1>8, RequestIsIgnored DEF AuthenticationRestored
<1>9. CASE ApproveSafetyOnce
  BY <1>9, RequestIsIgnored DEF ApproveSafetyOnce
<1>10. CASE Stop
  BY <1>10 DEF Stop, QuietStep, Inv, TypeOK
<1> QED BY <1>1, <1>2, <1>3, <1>4, <1>5, <1>6, <1>7, <1>8, <1>9, <1>10 DEF External

(* Every step after stop() is quiet.                                       *)
LEMMA StoppedIsQuiet ==
  ASSUME Inv, stopped, Emptied, [Next]_vars
  PROVE  QuietStep
<1>1. CASE Feedback
  BY <1>1, RequestIsIgnored DEF Feedback, Requested
<1>2. CASE UNCHANGED vars
  BY <1>2, NothingIsQuiet DEF vars
<1> QED BY <1>1, <1>2, InternalIsQuiet, ExternalIsQuiet DEF Next

(* Only stop() sets _stopped.                                              *)
LEMMA OnlyStopStops ==
  ASSUME Inv, ~stopped, [Next]_vars, stopped'
  PROVE  Stop
<1>1. ~Internal
  BY DEF Internal, DebounceElapsed, IdleStart, CooldownFinished, SafetyChecked,
         LookupDone, LookupFails, ProcessStarts, SpawnFails, Finished, ProcessExits,
         BaselineRecorded
<1>2. ~Feedback BY DEF Feedback, Requested
<1>3. External => Stop
  BY DEF External, Requested, SetUserPaused, SetBatteryPaused, SetOnline, Resumed,
         SettingsSaved, AuthenticationRejected, AuthenticationRestored,
         ApproveSafetyOnce
<1>4. ~UNCHANGED vars BY DEF vars
<1> QED BY <1>1, <1>2, <1>3, <1>4 DEF Next

(* What stop() empties stays empty.                                        *)
LEMMA StopInvariance == Spec => [](stopped => Emptied)
<1>1. Init => (stopped => Emptied) BY DEF Init, Emptied
<1>2. Inv /\ (stopped => Emptied) /\ [Next]_vars => (stopped => Emptied)'
  <2> SUFFICES ASSUME Inv, stopped => Emptied, [Next]_vars, stopped' PROVE Emptied'
    OBVIOUS
  <2>1. CASE stopped
    BY <2>1, StoppedIsQuiet DEF QuietStep, Emptied
  <2>2. CASE ~stopped
    <3>1. Stop BY <2>2, OnlyStopStops
    <3> QED BY <3>1 DEF Stop, Emptied
  <2> QED BY <2>1, <2>2
<1> QED BY <1>1, <1>2, Invariance, PTL DEF Spec

(* After stop() nothing is queued, scheduled or started, whatever reports  *)
(* or calls still arrive.                                                  *)
THEOREM StopIsFinal == Spec => QuietAfterStop
<1>1. /\ Inv /\ (stopped => Emptied) /\ [Next]_vars
      => [stopped => /\ queue' = {} /\ stopped'
                     /\ ~debounce_source' /\ ~start_source' /\ cooldown_source' = "none"
                     /\ (running' => running)
                     /\ checking' \subseteq checking /\ lookups' <= lookups]_vars
  BY StoppedIsQuiet DEF QuietStep
<1> QED BY <1>1, StopInvariance, Invariance, PTL DEF Spec, QuietAfterStop
-----------------------------------------------------------------------------
(* A reason to reconcile is never forgotten, and a queued trigger is       *)
(* stranded only by the steps that StrandedOnlyBy names.                   *)

(* What the steps that look at the flags rely on: a check that is noted is *)
(* in progress and was started for a reason, and a trigger is put off by a *)
(* pause only.                                                             *)
NotedInv ==
  /\ safety_checking /\ ~stopped => checking # {}
  /\ {} \notin checking
  /\ local_dirty \/ remote_pending => paused

(* _start notes the check it starts, for the triggers it takes.            *)
LEMMA StartNoted ==
  ASSUME Inv, NotedInv, stopped' = stopped, NEW q, NEW from, Start(q, from)
  PROVE  /\ safety_checking' /\ ~stopped' => checking' # {}
         /\ {} \notin checking'
         /\ local_dirty' => from.dirty \/ paused'
         /\ queue' # q => queue' = {} /\ (local_dirty' \/ checking' # {} \/ lookups' > 0)
<1>1. CASE StartReturns(q, from)
  BY <1>1 DEF StartReturns, NotedInv
<1>2. CASE StartFindsPause(q, from)
  BY <1>2 DEF StartFindsPause, NotedInv
<1>3. CASE ~NoStart(q) /\ StartChecks(q, from)
  BY <1>3 DEF StartChecks, NotedInv
<1>4. CASE ~NoStart(q) /\ StartUnchecked(q, from)
  BY <1>4 DEF StartUnchecked, NotedInv, Inv, TypeOK
<1> QED BY <1>1, <1>2, <1>3, <1>4 DEF Start

(* request keeps what is noted, and remembers the trigger.                 *)
LEMMA RequestNoted ==
  ASSUME Inv, NotedInv, stopped' = stopped, NEW t, NEW from, Request(t, from),
         from.dirty \/ from.pending => paused'
  PROVE  NotedInv' /\ (Obligation' \/ stopped')
<1>1. CASE RequestDeferred(t, from)
  BY <1>1 DEF RequestDeferred, Request, Disposition, NotedInv, Obligation
<1>2. CASE RequestScheduled(t, from)
  BY <1>2 DEF RequestScheduled, Request, NotedInv, Obligation
<1>3. CASE RequestUnlock(t, from)
  <2>1. Start(queue \cup {t}, from) /\ remote_pending' = from.pending
    BY <1>3 DEF RequestUnlock
  <2> QED BY <2>1, StartNoted DEF NotedInv, Obligation
<1> QED BY <1>1, <1>2, <1>3 DEF Request

(* Resuming drops what was put off only when synchronization is manual.    *)
LEMMA ReconcileNoted ==
  ASSUME Inv, NotedInv, stopped' = stopped, NEW settles, Reconcile(settles)
  PROVE  NotedInv' /\ (Obligation => Obligation' \/ stopped' \/ (manual_only' /\ paused))
<1>1. CASE Request("RESUME", [Caller EXCEPT !.dirty = FALSE, !.pending = FALSE,
                                            !.settles = settles])
  <2> DEFINE from == [Caller EXCEPT !.dirty = FALSE, !.pending = FALSE, !.settles = settles]
  <2>1. ~from.dirty /\ ~from.pending BY DEF Caller
  <2> QED BY <1>1, <2>1, RequestNoted
<1>2. CASE /\ ~((local_dirty \/ remote_pending \/ queue # {}) /\ ~manual_only')
           /\ local_dirty' = FALSE /\ remote_pending' = FALSE
           /\ UNCHANGED <<queue, jobVars, flagVars>>
  BY <1>2 DEF NotedInv, Obligation
<1> QED BY <1>1, <1>2 DEF Reconcile

(* What touches neither the triggers nor the work keeps both.              *)
LEMMA UnscheduledNoted ==
  ASSUME NotedInv, stopped' = stopped, UNCHANGED <<queue, checking, lookups, process,
         safety_checking, deferVars>>, paused => paused'
  PROVE  NotedInv' /\ (Obligation => Obligation')
BY DEF NotedInv, Obligation

(* What a step does with what is noted and with a reason to reconcile.     *)
Remembers ==
  /\ NotedInv'
  /\ Obligation =>
       \/ Obligation' \/ LookupDone \/ running \/ stopped'
       \/ manual_only' /\ paused

(* The timers and the continuations.                                       *)
LEMMA InternalRemembers ==
  ASSUME Inv, NotedInv, Internal
  PROVE  Remembers
<1>1. CASE DebounceElapsed
  BY <1>1, UnscheduledNoted DEF DebounceElapsed, Remembers
<1>2. CASE CooldownFinished
  BY <1>2, UnscheduledNoted DEF CooldownFinished, Remembers
<1>3. CASE IdleStart
  <2>1. /\ Start(queue, Caller) /\ stopped' = stopped /\ paused' = paused
        /\ remote_pending' = remote_pending /\ Caller.dirty = local_dirty
    BY <1>3 DEF IdleStart, Caller
  <2>2. NotedInv'
    BY <2>1, StartNoted DEF NotedInv
  <2>3. Obligation => Obligation' \/ running
    <3>1. CASE StartReturns(queue, Caller)
      BY <2>1, <3>1 DEF StartReturns, Obligation
    <3>2. CASE ~StartReturns(queue, Caller)
      BY <2>1, <3>2 DEF Start, StartFindsPause, StartChecks, StartUnchecked, Obligation,
                        Inv, TypeOK
    <3> QED BY <3>1, <3>2
  <2> QED BY <2>2, <2>3 DEF Remembers
<1>4. ASSUME NEW reasons \in checking, NEW alert \in CheckVerdict,
             SafetyChecked(reasons, alert)
      PROVE  Remembers
  <2>1. checking = {reasons} /\ checking' = {} /\ reasons # {}
    BY <1>4 DEF SafetyChecked, Inv, SingleFlight, NotedInv
  <2> QED BY <1>4, <2>1 DEF SafetyChecked, Remembers, NotedInv, Obligation, Inv, TypeOK
<1>5. CASE LookupDone
  <2>1. UNCHANGED <<safety_checking, checking, outsideVars, deferVars>>
    BY <1>5 DEF LookupDone, LookupFails, ProcessStarts, SpawnFails, Finished
  <2> QED BY <1>5, <2>1 DEF Remembers, NotedInv
<1>6. ASSUME NEW outcome \in Outcome, ProcessExits(outcome)
      PROVE  Remembers
  BY <1>6 DEF ProcessExits, Finished, Remembers, NotedInv
<1>7. ASSUME NEW recorded \in BOOLEAN, NEW cleared \in BOOLEAN,
             BaselineRecorded(recorded, cleared)
      PROVE  Remembers
  BY <1>7, UnscheduledNoted DEF BaselineRecorded, Remembers
<1> QED BY <1>1, <1>2, <1>3, <1>4, <1>5, <1>6, <1>7 DEF Internal

(* The handlers that other parts of the program call.                      *)
LEMMA ExternalRemembers ==
  ASSUME Inv, NotedInv, External
  PROVE  Remembers
<1> DEFINE Settled == [Caller EXCEPT !.shown = IdleState]
<1>0. Caller.dirty \/ Caller.pending => paused
  BY DEF Caller, NotedInv
<1>1. ASSUME NEW t, Requested(t) PROVE Remembers
  BY <1>0, <1>1, RequestNoted DEF Requested, Remembers
<1>2. ASSUME NEW p \in BOOLEAN, SetUserPaused(p) PROVE Remembers
  <2>1. CASE p
    BY <1>2, <2>1, UnscheduledNoted DEF SetUserPaused, Unscheduled, Remembers
  <2>2. CASE ~p
    BY <1>2, <2>2, ReconcileNoted DEF SetUserPaused, Remembers
  <2> QED BY <2>1, <2>2
<1>3. ASSUME NEW p \in BOOLEAN, SetBatteryPaused(p) PROVE Remembers
  <2>1. CASE ~p /\ battery_paused /\ ~user_paused /\ Reconcile(FALSE)
    BY <1>3, <2>1, ReconcileNoted DEF SetBatteryPaused, Remembers
  <2>2. CASE Unscheduled /\ (paused => paused')
    BY <1>3, <2>2, UnscheduledNoted DEF SetBatteryPaused, Unscheduled, Remembers
  <2> QED BY <1>3, <2>1, <2>2 DEF SetBatteryPaused
<1>4. ASSUME NEW up \in BOOLEAN, SetOnline(up) PROVE Remembers
  BY <1>0, <1>4, RequestNoted, UnscheduledNoted DEF SetOnline, Unscheduled, Remembers
<1>5. CASE Resumed
  <2>1. PICK shown \in {state, IdleState} :
          IF ~manual_only \/ queue # {}
          THEN Request("RESUME", [Caller EXCEPT !.shown = shown])
          ELSE state' = shown /\ UNCHANGED safety_bypass_once /\ Unscheduled
    BY <1>5 DEF Resumed
  <2>2. LET from == [Caller EXCEPT !.shown = shown]
        IN  from.dirty = Caller.dirty /\ from.pending = Caller.pending
    BY DEF Caller
  <2> QED BY <1>0, <1>5, <2>1, <2>2, RequestNoted, UnscheduledNoted
          DEF Resumed, Unscheduled, Remembers
<1>6. CASE SettingsSaved
  <2>1. CASE battery_paused /\ ~battery_paused' /\ ~user_paused
    BY <1>6, <2>1, ReconcileNoted DEF SettingsSaved, Remembers
  <2>2. CASE ~(battery_paused /\ ~battery_paused' /\ ~user_paused)
    BY <1>6, <2>2, UnscheduledNoted DEF SettingsSaved, Unscheduled, Remembers
  <2> QED BY <2>1, <2>2
<1>7. CASE AuthenticationRejected
  BY <1>7, UnscheduledNoted DEF AuthenticationRejected, Unscheduled, Remembers
<1>8. CASE AuthenticationRestored
  <2>1. Settled.dirty = Caller.dirty /\ Settled.pending = Caller.pending
    BY DEF Caller
  <2> QED BY <1>0, <1>8, <2>1, RequestNoted DEF AuthenticationRestored, Remembers
<1>9. CASE ApproveSafetyOnce
  <2> DEFINE approved == [Caller EXCEPT !.bypass = TRUE]
  <2>1. approved.dirty = Caller.dirty /\ approved.pending = Caller.pending
    BY DEF Caller
  <2> QED BY <1>0, <1>9, <2>1, RequestNoted DEF ApproveSafetyOnce, Remembers
<1>10. CASE Stop
  BY <1>10 DEF Stop, Remembers, NotedInv
<1> QED BY <1>1, <1>2, <1>3, <1>4, <1>5, <1>6, <1>7, <1>8, <1>9, <1>10 DEF External

(* Every step remembers.                                                   *)
LEMMA NextRemembers ==
  ASSUME Inv, NotedInv, [Next]_vars
  PROVE  Remembers
<1>1. CASE Feedback
  <2>1. Requested("LOCAL_INOTIFY") BY <1>1 DEF Feedback
  <2>2. Caller.dirty \/ Caller.pending => paused BY DEF Caller, NotedInv
  <2> QED BY <2>1, <2>2, RequestNoted DEF Requested, Remembers
<1>2. CASE UNCHANGED vars
  BY <1>2, UnscheduledNoted DEF vars, Remembers
<1> QED BY <1>1, <1>2, InternalRemembers, ExternalRemembers DEF Next

(* What is noted stays true.                                               *)
LEMMA NotedInvariance == Spec => []NotedInv
<1>1. Init => NotedInv BY DEF Init, NotedInv
<1>2. Inv /\ NotedInv /\ [Next]_vars => NotedInv'
  BY NextRemembers DEF Remembers
<1> QED BY <1>1, <1>2, Invariance, PTL DEF Spec

(* A reason to reconcile is never forgotten, whatever is paused, resumed,  *)
(* blocked or disconnected.                                                *)
THEOREM NothingForgotten == Spec => NoTriggerForgotten
<1>1. Inv /\ NotedInv /\ [Next]_vars
      => [Obligation /\ ~Obligation' =>
            \/ LookupDone \/ running \/ stopped'
            \/ manual_only' /\ paused]_vars
  BY NextRemembers DEF Remembers
<1> QED BY <1>1, NotedInvariance, Invariance, PTL DEF Spec, NoTriggerForgotten

-----------------------------------------------------------------------------
(* Nothing is stranded but by the named steps.                             *)

(* _schedule_start never leaves a trigger stranded: what it waits for      *)
(* schedules a start in its turn.                                          *)
LEMMA ScheduleStartWakes ==
  ASSUME Inv', NotedInv', NEW from, ScheduleStart(from)
  PROVE  ~Stranded'
BY DEF ScheduleStart, Stranded, Unblocked, Scheduled, Inv, SingleFlight, NotedInv

(* _start takes the queue, or returns for a reason that holds it back or   *)
(* that schedules.                                                         *)
LEMMA StartWakes ==
  ASSUME NEW q, NEW from, process' = process, Start(q, from)
  PROVE  ~Stranded'
BY DEF Start, StartReturns, StartFindsPause, StartChecks, StartUnchecked, Stranded,
       Unblocked, Scheduled

(* No request strands a trigger.                                           *)
LEMMA RequestWakes ==
  ASSUME Inv, Inv', NotedInv', stopped' = stopped, NEW t, NEW from, Request(t, from)
  PROVE  ~Stranded'
<1>1. CASE RequestDeferred(t, from)
  BY <1>1 DEF RequestDeferred, Request, Disposition, Stranded, Unblocked, Scheduled
<1>2. CASE RequestScheduled(t, from)
  BY <1>2, ScheduleStartWakes DEF RequestScheduled, Stranded, Scheduled
<1>3. CASE RequestUnlock(t, from)
  BY <1>3, StartWakes DEF RequestUnlock, Request
<1> QED BY <1>1, <1>2, <1>3 DEF Request

(* What a step does with a queue that was not stranded.                    *)
Wakes ==
  ~Stranded /\ Stranded' =>
    \/ cooldown_source = "idle" /\ CooldownFinished
    \/ LookupDone /\ ~running'
    \/ manual_only' /\ paused

(* What leaves the queue and the timers alone strands nothing, unless it   *)
(* removes what held the queue back.                                       *)
LEMMA UnscheduledWakes ==
  ASSUME Unscheduled, Unblocked' => Unblocked
  PROVE  Wakes
BY DEF Unscheduled, Wakes, Stranded, Scheduled

(* Resuming strands nothing but in manual-only mode.                       *)
LEMMA ReconcileWakes ==
  ASSUME Inv, Inv', NotedInv', stopped' = stopped, paused, NEW settles, Reconcile(settles)
  PROVE  Wakes
BY RequestWakes DEF Reconcile, Wakes, Stranded

(* The timers and the continuations.                                       *)
LEMMA InternalWakes ==
  ASSUME Inv, Inv', NotedInv, NotedInv', Internal
  PROVE  Wakes
<1>1. CASE DebounceElapsed
  BY <1>1, ScheduleStartWakes DEF DebounceElapsed, Wakes
<1>2. CASE CooldownFinished
  <2>1. CASE cooldown_source = "idle"
    BY <1>2, <2>1 DEF Wakes
  <2>2. CASE cooldown_source = "run_pending" /\ ~stopped /\ CooldownDue
    BY <1>2, <2>2, ScheduleStartWakes DEF CooldownFinished, Wakes
  <2>3. CASE stopped \/ ~CooldownDue
    BY <1>2, <2>3, <2>1 DEF CooldownFinished, Wakes, Stranded, Unblocked, Inv, TypeOK
  <2> QED BY <1>2, <2>1, <2>2, <2>3 DEF CooldownFinished, Inv, TypeOK
<1>3. CASE IdleStart
  BY <1>3, StartWakes DEF IdleStart, Wakes
<1>4. ASSUME NEW reasons \in checking, NEW alert \in CheckVerdict,
             SafetyChecked(reasons, alert)
      PROVE  Wakes
  BY <1>4 DEF SafetyChecked, Wakes, Stranded, Unblocked, Scheduled
<1>5. CASE LookupDone
  BY <1>5 DEF Wakes, Stranded, Scheduled
<1>6. ASSUME NEW outcome \in Outcome, ProcessExits(outcome)
      PROVE  Wakes
  BY <1>6 DEF ProcessExits, Finished, Wakes, Stranded, Unblocked
<1>7. ASSUME NEW recorded \in BOOLEAN, NEW cleared \in BOOLEAN,
             BaselineRecorded(recorded, cleared)
      PROVE  Wakes
  <2>1. CASE RecordedDue
    BY <1>7, <2>1, ScheduleStartWakes DEF BaselineRecorded, Wakes
  <2>2. CASE ~RecordedDue
    BY <1>7, <2>2 DEF BaselineRecorded, Wakes, Stranded, Unblocked
  <2> QED BY <2>1, <2>2
<1> QED BY <1>1, <1>2, <1>3, <1>4, <1>5, <1>6, <1>7 DEF Internal

(* The handlers that other parts of the program call.                      *)
LEMMA ExternalWakes ==
  ASSUME Inv, Inv', NotedInv', External
  PROVE  Wakes
<1>1. ASSUME NEW t, Requested(t) PROVE Wakes
  BY <1>1, RequestWakes DEF Requested, Wakes
<1>2. ASSUME NEW p \in BOOLEAN, SetUserPaused(p) PROVE Wakes
  <2>1. CASE p
    BY <1>2, <2>1, UnscheduledWakes DEF SetUserPaused, Unblocked
  <2>2. CASE ~p /\ paused
    BY <1>2, <2>2, ReconcileWakes DEF SetUserPaused
  <2>3. CASE ~p /\ ~paused
    <3>1. Reconcile(FALSE) /\ UNCHANGED <<stopped, online, safety_alert, accountVars>>
          /\ UNCHANGED paused
      BY <1>2, <2>3 DEF SetUserPaused
    <3>2. CASE \E from : Request("RESUME", from)
      BY <3>1, <3>2, RequestWakes DEF Wakes
    <3>3. CASE ~\E from : Request("RESUME", from)
      <4>1. UNCHANGED <<queue, timerVars, jobVars, flagVars>>
        BY <3>1, <3>3 DEF Reconcile
      <4> QED BY <3>1, <4>1 DEF Wakes, Stranded, Unblocked, Scheduled
    <3> QED BY <3>2, <3>3
  <2> QED BY <2>1, <2>2, <2>3
<1>3. ASSUME NEW p \in BOOLEAN, SetBatteryPaused(p) PROVE Wakes
  <2>1. CASE ~p /\ battery_paused /\ ~user_paused /\ Reconcile(FALSE)
    BY <1>3, <2>1, ReconcileWakes DEF SetBatteryPaused
  <2>2. CASE Unscheduled /\ (paused => paused')
    BY <1>3, <2>2, UnscheduledWakes DEF SetBatteryPaused, Unblocked
  <2> QED BY <1>3, <2>1, <2>2 DEF SetBatteryPaused
<1>4. ASSUME NEW up \in BOOLEAN, SetOnline(up) PROVE Wakes
  <2>1. CASE up /\ ~online /\ (queue # {} \/ ~manual_only)
    BY <1>4, <2>1, RequestWakes DEF SetOnline, Wakes
  <2>2. CASE up /\ ~online /\ queue = {} /\ Unscheduled
    BY <2>2 DEF Unscheduled, Wakes, Stranded
  <2>3. CASE (up => online) /\ Unscheduled
    BY <1>4, <2>3, UnscheduledWakes DEF SetOnline, Unblocked
  <2> QED BY <1>4, <2>1, <2>2, <2>3 DEF SetOnline
<1>5. CASE Resumed
  <2>1. PICK shown \in {state, IdleState} :
          IF ~manual_only \/ queue # {}
          THEN Request("RESUME", [Caller EXCEPT !.shown = shown])
          ELSE state' = shown /\ UNCHANGED safety_bypass_once /\ Unscheduled
    BY <1>5 DEF Resumed
  <2> QED BY <1>5, <2>1, RequestWakes DEF Resumed, Unscheduled, Wakes, Stranded
<1>6. CASE SettingsSaved
  <2>1. CASE battery_paused /\ ~battery_paused' /\ ~user_paused
    BY <1>6, <2>1, ReconcileWakes DEF SettingsSaved
  <2>2. CASE ~(battery_paused /\ ~battery_paused' /\ ~user_paused)
    BY <1>6, <2>2, UnscheduledWakes DEF SettingsSaved, Unblocked
  <2> QED BY <2>1, <2>2
<1>7. CASE AuthenticationRejected
  BY <1>7 DEF AuthenticationRejected, Wakes, Stranded, Unblocked
<1>8. CASE AuthenticationRestored
  BY <1>8, RequestWakes DEF AuthenticationRestored, Wakes
<1>9. CASE ApproveSafetyOnce
  BY <1>9, RequestWakes DEF ApproveSafetyOnce, Wakes
<1>10. CASE Stop
  BY <1>10 DEF Stop, Wakes, Stranded, Unblocked
<1> QED BY <1>1, <1>2, <1>3, <1>4, <1>5, <1>6, <1>7, <1>8, <1>9, <1>10 DEF External

(* A trigger that nothing holds back is stranded only by the end of a      *)
(* cooldown that began with an empty queue, a start given up after its     *)
(* lookup, or resuming in manual-only mode.                                *)
THEOREM StrandedOnlyByNamed == Spec => StrandedOnlyBy
<1>1. /\ Inv /\ Inv' /\ NotedInv /\ NotedInv' /\ [Next]_vars
      => [~Stranded /\ Stranded' =>
            \/ cooldown_source = "idle" /\ CooldownFinished
            \/ LookupDone /\ ~running'
            \/ manual_only' /\ paused]_vars
  <2> SUFFICES ASSUME Inv, Inv', NotedInv, NotedInv', Next PROVE Wakes
    BY DEF Wakes
  <2>1. CASE Feedback
    BY <2>1, RequestWakes DEF Feedback, Requested, Wakes
  <2> QED BY <2>1, InternalWakes, ExternalWakes DEF Next
<1> QED BY <1>1, NotedInvariance, Invariance, PTL DEF Spec, StrandedOnlyBy

-----------------------------------------------------------------------------
(* What holds synchronization back schedules nothing.                      *)

(* request schedules a start only when nothing holds it back.              *)
LEMMA RequestIsHeld ==
  ASSUME NEW t, NEW from, Request(t, from), Held'
  PROVE  start_source' => start_source
<1>1. CASE RequestDeferred(t, from)
  BY <1>1 DEF RequestDeferred
<1>2. CASE RequestScheduled(t, from)
  <2>1. Disposition(t, from) = "start" => ~Held'
    BY <1>2 DEF RequestScheduled, Disposition, Held
  <2> QED BY <1>2, <2>1 DEF RequestScheduled
<1>3. CASE RequestUnlock(t, from)
  BY <1>3 DEF RequestUnlock, Start
<1> QED BY <1>1, <1>2, <1>3 DEF Request

(* Nor does resuming.                                                      *)
LEMMA ReconcileIsHeld ==
  ASSUME NEW settles, Reconcile(settles), Held'
  PROVE  start_source' => start_source
BY RequestIsHeld DEF Reconcile

(* The handlers that other parts of the program call.                      *)
LEMMA ExternalIsHeld ==
  ASSUME External, Held'
  PROVE  start_source' => start_source
<1>1. CASE \E t \in Sources : Requested(t)
  BY <1>1, RequestIsHeld DEF Requested
<1>2. ASSUME NEW p \in BOOLEAN, SetUserPaused(p) \/ SetBatteryPaused(p)
      PROVE  start_source' => start_source
  BY <1>2, ReconcileIsHeld DEF SetUserPaused, SetBatteryPaused, Unscheduled
<1>3. ASSUME NEW up \in BOOLEAN, SetOnline(up)
      PROVE  start_source' => start_source
  BY <1>3, RequestIsHeld DEF SetOnline, Unscheduled
<1>4. CASE Resumed
  BY <1>4, RequestIsHeld DEF Resumed, Unscheduled
<1>5. CASE SettingsSaved
  BY <1>5, ReconcileIsHeld DEF SettingsSaved, Unscheduled
<1>6. CASE AuthenticationRejected \/ Stop
  BY <1>6 DEF AuthenticationRejected, Stop, Unscheduled
<1>7. CASE AuthenticationRestored \/ ApproveSafetyOnce
  BY <1>7, RequestIsHeld DEF AuthenticationRestored, ApproveSafetyOnce
<1> QED BY <1>1, <1>2, <1>3, <1>4, <1>5, <1>6, <1>7 DEF External

(* Under a locked keyring, a rejected credential or an alert, only timers  *)
(* that already ran and a baseline whose recording ends schedule a start.  *)
THEOREM HeldBack == Spec => HeldExceptByTimers
<1>1. Inv /\ [Next]_vars
      => [Held' /\ start_source' /\ ~start_source =>
            DebounceElapsed \/ CooldownFinished \/ recorders' < recorders]_vars
  <2> SUFFICES ASSUME Inv, Next, Held', ~DebounceElapsed, ~CooldownFinished
               PROVE  (start_source' => start_source) \/ recorders' < recorders
    OBVIOUS
  <2>1. CASE External
    BY <2>1, ExternalIsHeld
  <2>2. CASE Feedback
    BY <2>2, RequestIsHeld DEF Feedback, Requested
  <2>3. CASE IdleStart
    BY <2>3 DEF IdleStart, Start
  <2>4. CASE \E reasons \in checking, alert \in CheckVerdict : SafetyChecked(reasons, alert)
    BY <2>4 DEF SafetyChecked
  <2>5. CASE LookupDone
    BY <2>5 DEF LookupDone, LookupFails, ProcessStarts, SpawnFails, Finished
  <2>6. CASE \E outcome \in Outcome : ProcessExits(outcome)
    BY <2>6 DEF ProcessExits, Finished
  <2>7. CASE \E recorded, cleared \in BOOLEAN : BaselineRecorded(recorded, cleared)
    BY <2>7 DEF BaselineRecorded, Inv, TypeOK
  <2> QED BY <2>1, <2>2, <2>3, <2>4, <2>5, <2>6, <2>7 DEF Next, Internal
<1> QED BY <1>1, Invariance, PTL DEF Spec, HeldExceptByTimers
-----------------------------------------------------------------------------
(* The scheduler implements SyncCycle.                                     *)
USE DEF Cycle!cycleVars

(* Without _preparing and without a process, the cycle is idle.            *)
LEMMA IdlePhase ==
  ASSUME Inv, ~preparing, ~running
  PROVE  CyclePhase = "idle"
BY NothingInProgress DEF CyclePhase

(* The phase looks at the jobs only.                                       *)
LEMMA SamePhase ==
  ASSUME UNCHANGED jobVars
  PROVE  CyclePhase' = CyclePhase
BY DEF CyclePhase

(* What _start and request may do to the phase and to the approval, when   *)
(* "given" says whether an approval is at hand.                            *)
StartsCheck(given) ==
  /\ CyclePhase = "idle" /\ CyclePhase' = "checking"
  /\ guard_enabled /\ ~given /\ (safety_bypass_once' <=> given)

StartsRun(given) ==
  /\ CyclePhase = "idle" /\ CyclePhase' = "cleared"
  /\ ~guard_enabled \/ given
  /\ ~safety_bypass_once'

StartsNothing(given) ==
  CyclePhase' = CyclePhase /\ (safety_bypass_once' <=> given)

(* _start passes through the guard.                                        *)
LEMMA StartCycle ==
  ASSUME Inv, NEW q \in SUBSET Trigger,
         NEW from \in CallerRecord,
         process' = process, recorders' = recorders,
         Start(q, from)
  PROVE  StartsNothing(from.bypass) \/ StartsCheck(from.bypass) \/ StartsRun(from.bypass)
<1>1. CASE StartReturns(q, from) \/ StartFindsPause(q, from)
  <2>1. UNCHANGED jobVars BY <1>1 DEF StartReturns, StartFindsPause
  <2>2. safety_bypass_once' = from.bypass BY <1>1 DEF StartReturns, StartFindsPause
  <2> QED BY <2>1, <2>2, SamePhase DEF StartsNothing
<1>2. CASE ~preparing /\ ~running /\ StartChecks(q, from)
  <2>1. CyclePhase = "idle" BY <1>2, IdlePhase
  <2>2. checking' = {q} /\ lookups' = 0 /\ ~running'
    BY <1>2, NothingInProgress DEF StartChecks
  <2>3. CyclePhase' = "checking" BY <2>2 DEF CyclePhase
  <2>4. guard_enabled /\ ~from.bypass /\ safety_bypass_once' = from.bypass
    BY <1>2 DEF StartChecks
  <2> QED BY <2>1, <2>3, <2>4 DEF StartsCheck
<1>3. CASE ~preparing /\ ~running /\ StartUnchecked(q, from)
  <2>1. CyclePhase = "idle" BY <1>3, IdlePhase
  <2>2. lookups' = 1 /\ ~running'
    BY <1>3, NothingInProgress DEF StartUnchecked
  <2>3. CyclePhase' = "cleared" BY <2>2 DEF CyclePhase
  <2>4. (~guard_enabled \/ from.bypass) /\ ~safety_bypass_once'
    BY <1>3 DEF StartUnchecked
  <2> QED BY <2>1, <2>3, <2>4 DEF StartsRun
<1> QED BY <1>1, <1>2, <1>3 DEF Start

(* request either leaves the phase alone or calls _start.                  *)
LEMMA RequestCycle ==
  ASSUME Inv, NEW t \in Trigger,
         NEW from \in CallerRecord,
         Request(t, from)
  PROVE  StartsNothing(from.bypass) \/ StartsCheck(from.bypass) \/ StartsRun(from.bypass)
<1>1. CASE RequestDeferred(t, from) \/ RequestScheduled(t, from)
  <2>1. UNCHANGED jobVars BY <1>1 DEF Request, RequestDeferred, RequestScheduled
  <2>2. safety_bypass_once' = from.bypass BY <1>1 DEF RequestDeferred, RequestScheduled
  <2> QED BY <2>1, <2>2, SamePhase DEF StartsNothing
<1>2. CASE RequestUnlock(t, from)
  <2>1. queue \cup {t} \in SUBSET Trigger BY DEF Inv, TypeOK
  <2>2. Start(queue \cup {t}, from) /\ process' = process /\ recorders' = recorders
    BY <1>2 DEF Request, RequestUnlock
  <2> QED BY <2>1, <2>2, StartCycle
<1> QED BY <1>1, <1>2 DEF Request

(* A request that is not Sync Now starts nothing by itself.                *)
LEMMA AutomaticRequestCycle ==
  ASSUME NEW t \in Trigger \ {"MANUAL"}, NEW from \in CallerRecord, Request(t, from)
  PROVE  StartsNothing(from.bypass)
<1>1. ~RequestUnlock(t, from) BY DEF RequestUnlock, Disposition
<1>2. RequestDeferred(t, from) \/ RequestScheduled(t, from) BY <1>1 DEF Request
<1>3. UNCHANGED jobVars BY <1>2 DEF Request, RequestDeferred, RequestScheduled
<1>4. safety_bypass_once' = from.bypass BY <1>2 DEF RequestDeferred, RequestScheduled
<1> QED BY <1>3, <1>4, SamePhase DEF StartsNothing

(* A step that starts nothing or starts what the cycle lets it start.      *)
LEMMA StartsInCycle ==
  ASSUME Inv, UNCHANGED <<safety_alert, guard_enabled>>,
         \/ StartsNothing(safety_bypass_once)
         \/ StartsCheck(safety_bypass_once)
         \/ StartsRun(safety_bypass_once),
         safety_bypass_once' \in BOOLEAN
  PROVE  [Cycle!Next]_Cycle!cycleVars
<1>1. CASE StartsNothing(safety_bypass_once)
  <2>1. CyclePhase' = CyclePhase BY <1>1 DEF StartsNothing
  <2>2. safety_bypass_once' = safety_bypass_once
    BY <1>1, Zenon DEF StartsNothing, Inv, TypeOK
  <2> QED BY <2>1, <2>2
<1>2. CASE StartsCheck(safety_bypass_once)
  <2>1. CyclePhase = "idle" /\ CyclePhase' = "checking" /\ guard_enabled
        /\ ~safety_bypass_once
    BY <1>2 DEF StartsCheck
  <2>2. safety_bypass_once' = safety_bypass_once
    BY <1>2 DEF StartsCheck, Inv, TypeOK
  <2>3. Cycle!Check BY <2>1, <2>2 DEF Cycle!Check
  <2> QED BY <2>3 DEF Cycle!Next
<1>3. CASE StartsRun(safety_bypass_once)
  <2>1. CyclePhase = "idle" /\ CyclePhase' = "cleared"
        /\ (~guard_enabled \/ safety_bypass_once)
    BY <1>3 DEF StartsRun
  <2>2. safety_bypass_once' = FALSE BY <1>3 DEF StartsRun
  <2>3. Cycle!Waive BY <2>1, <2>2 DEF Cycle!Waive
  <2> QED BY <2>3 DEF Cycle!Next
<1> QED BY <1>1, <1>2, <1>3
(* A step that leaves the phase, the alert, the approval and the setting   *)
(* alone.                                                                  *)
LEMMA StutterInCycle ==
  ASSUME UNCHANGED <<jobVars, safety_alert, safety_bypass_once, guard_enabled>>
  PROVE  [Cycle!Next]_Cycle!cycleVars
BY SamePhase

-----------------------------------------------------------------------------
(* One lemma per handler that does more than stutter.                      *)

(* Triggers and the scheduled start.                                       *)
LEMMA RequestInCycle ==
  ASSUME Inv, Inv', NEW t \in Trigger,
         NEW from \in CallerRecord,
         from.bypass = safety_bypass_once,
         Request(t, from), UNCHANGED <<safety_alert, guard_enabled>>
  PROVE  [Cycle!Next]_Cycle!cycleVars
<1>1. \/ StartsNothing(safety_bypass_once) \/ StartsCheck(safety_bypass_once)
      \/ StartsRun(safety_bypass_once)
  BY RequestCycle
<1>2. safety_bypass_once' \in BOOLEAN BY DEF Inv, TypeOK
<1> QED BY <1>1, <1>2, StartsInCycle

(* The display and the pause flags of the caller do not matter.            *)
LEMMA CallerBypass ==
  ASSUME Inv, NEW shown \in AppState
  PROVE  /\ Caller \in CallerRecord
         /\ Caller.bypass = safety_bypass_once
         /\ [Caller EXCEPT !.shown = shown] \in
              CallerRecord
         /\ [Caller EXCEPT !.shown = shown].bypass = safety_bypass_once
         /\ \A settles \in BOOLEAN :
              /\ [Caller EXCEPT !.dirty = FALSE, !.pending = FALSE, !.settles = settles]
                   \in CallerRecord
              /\ [Caller EXCEPT !.dirty = FALSE, !.pending = FALSE,
                                 !.settles = settles].bypass = safety_bypass_once
<1>1. Caller \in CallerRecord
  BY CallerType DEF Inv
<1>2. Caller.bypass = safety_bypass_once BY DEF Caller
<1> QED BY <1>1, <1>2

(* A trigger maps to a step of the cycle or to a stutter.                   *)
LEMMA RequestedInCycle ==
  ASSUME Inv, Inv', NEW t \in Trigger, Requested(t)
  PROVE  [Cycle!Next]_Cycle!cycleVars
<1>1. "SYNCING" \in AppState BY DEF AppState
<1>2. Request(t, Caller) /\ UNCHANGED <<safety_alert, guard_enabled>> BY DEF Requested
<1> QED BY <1>1, <1>2, CallerBypass, RequestInCycle

(* The end of a pause, with its RESUME request, starts at most what request *)
(* starts.                                                                  *)
LEMMA ReconcileInCycle ==
  ASSUME Inv, Inv', NEW settles \in BOOLEAN, Reconcile(settles),
         UNCHANGED <<safety_alert, guard_enabled>>
  PROVE  [Cycle!Next]_Cycle!cycleVars
<1>1. CASE Request("RESUME", [Caller EXCEPT !.dirty = FALSE, !.pending = FALSE,
                                           !.settles = settles])
  <2>1. "SYNCING" \in AppState BY DEF AppState
  <2>2. "RESUME" \in Trigger BY DEF Trigger
  <2> QED BY <1>1, <2>1, <2>2, CallerBypass, RequestInCycle
<1>2. CASE UNCHANGED <<safety_bypass_once, jobVars>>
  BY <1>2, StutterInCycle
<1> QED BY <1>1, <1>2 DEF Reconcile

(* The end of suspend maps to a step of the cycle or to a stutter.          *)
LEMMA ResumedInCycle ==
  ASSUME Inv, Inv', Resumed
  PROVE  [Cycle!Next]_Cycle!cycleVars
<1>1. UNCHANGED <<safety_alert, guard_enabled>> BY DEF Resumed
<1>2. PICK shown \in {state, IdleState} :
        \/ Request("RESUME", [Caller EXCEPT !.shown = shown])
        \/ UNCHANGED safety_bypass_once /\ Unscheduled
  BY DEF Resumed
<1>3. shown \in AppState BY IdleStateType DEF Inv, TypeOK
<1>4. CASE Request("RESUME", [Caller EXCEPT !.shown = shown])
  <2>1. "RESUME" \in Trigger BY DEF Trigger
  <2> QED BY <1>1, <1>3, <1>4, <2>1, CallerBypass, RequestInCycle
<1>5. CASE UNCHANGED safety_bypass_once /\ Unscheduled
  BY <1>1, <1>5, StutterInCycle DEF Unscheduled
<1> QED BY <1>2, <1>4, <1>5

(* A change of the network maps to a step of the cycle or to a stutter.     *)
LEMMA SetOnlineInCycle ==
  ASSUME Inv, Inv', NEW up \in BOOLEAN, SetOnline(up)
  PROVE  [Cycle!Next]_Cycle!cycleVars
<1>1. UNCHANGED <<safety_alert, guard_enabled>> BY DEF SetOnline
<1>2. CASE Request("NETWORK_RESTORED", Caller)
  <2>1. "NETWORK_RESTORED" \in Trigger BY DEF Trigger
  <2>2. "SYNCING" \in AppState BY DEF AppState
  <2> QED BY <1>1, <1>2, <2>1, <2>2, CallerBypass, RequestInCycle
<1>3. CASE UNCHANGED safety_bypass_once /\ Unscheduled
  BY <1>1, <1>3, StutterInCycle DEF Unscheduled
<1> QED BY <1>2, <1>3 DEF SetOnline

(* Reconnecting the account maps to a step of the cycle or to a stutter.    *)
LEMMA AuthenticationRestoredInCycle ==
  ASSUME Inv, Inv', AuthenticationRestored
  PROVE  [Cycle!Next]_Cycle!cycleVars
<1>1. UNCHANGED <<safety_alert, guard_enabled>> BY DEF AuthenticationRestored
<1>2. Request("MANUAL", [Caller EXCEPT !.shown = IdleState]) BY DEF AuthenticationRestored
<1>3. "MANUAL" \in Trigger BY DEF Trigger
<1> QED BY <1>1, <1>2, <1>3, IdleStateType, CallerBypass, RequestInCycle

(* A scheduled _start is a Check, a Waive or a stutter of the cycle.        *)
LEMMA IdleStartInCycle ==
  ASSUME Inv, Inv', IdleStart
  PROVE  [Cycle!Next]_Cycle!cycleVars
<1>1. /\ Start(queue, Caller) /\ process' = process /\ recorders' = recorders
      /\ UNCHANGED <<safety_alert, guard_enabled>>
  BY DEF IdleStart
<1>2. queue \in SUBSET Trigger BY DEF Inv, TypeOK
<1>3. "SYNCING" \in AppState BY DEF AppState
<1>4. \/ StartsNothing(safety_bypass_once) \/ StartsCheck(safety_bypass_once)
      \/ StartsRun(safety_bypass_once)
  <2>1. Caller \in CallerRecord /\ Caller.bypass = safety_bypass_once
    BY <1>3, CallerBypass
  <2>2. \/ StartsNothing(Caller.bypass) \/ StartsCheck(Caller.bypass)
        \/ StartsRun(Caller.bypass)
    BY <1>1, <1>2, <2>1, StartCycle
  <2> QED BY <2>1, <2>2
<1>5. safety_bypass_once' \in BOOLEAN BY DEF Inv, TypeOK
<1> QED BY <1>1, <1>4, <1>5, StartsInCycle

(* A saved setting may resume, but never starts a run in the same call.    *)
LEMMA SettingsSavedInCycle ==
  ASSUME Inv, Inv', SettingsSaved
  PROVE  Cycle!Next
<1>1. safety_alert' = safety_alert /\ guard_enabled' \in BOOLEAN BY DEF SettingsSaved
<1>2. CASE UNCHANGED jobVars /\ UNCHANGED safety_bypass_once
  <2>1. CyclePhase' = CyclePhase BY <1>2, SamePhase
  <2>2. Cycle!Configure BY <1>1, <1>2, <2>1 DEF Cycle!Configure
  <2> QED BY <2>2 DEF Cycle!Next
<1>3. CASE Request("RESUME", [Caller EXCEPT !.dirty = FALSE, !.pending = FALSE,
                                           !.settles = TRUE])
  <2>1. "RESUME" \in Trigger \ {"MANUAL"} BY DEF Trigger
  <2>2. /\ [Caller EXCEPT !.dirty = FALSE, !.pending = FALSE, !.settles = TRUE]
             \in CallerRecord
        /\ [Caller EXCEPT !.dirty = FALSE, !.pending = FALSE,
                           !.settles = TRUE].bypass = safety_bypass_once
    BY CallerType DEF Inv, Caller
  <2>3. StartsNothing(safety_bypass_once) BY <1>3, <2>1, <2>2, AutomaticRequestCycle
  <2>4. safety_bypass_once \in BOOLEAN /\ safety_bypass_once' \in BOOLEAN
    BY DEF Inv, TypeOK
  <2>5. CyclePhase' = CyclePhase BY <2>3 DEF StartsNothing
  <2>6. safety_bypass_once' = safety_bypass_once
    BY <2>3, <2>4, Zenon DEF StartsNothing
  <2>7. Cycle!Configure BY <1>1, <2>5, <2>6 DEF Cycle!Configure
  <2> QED BY <2>7 DEF Cycle!Next
<1> QED BY <1>2, <1>3 DEF SettingsSaved, Reconcile, Unscheduled

(* Approving a deletion alert; with the keyring locked it starts the run.  *)
LEMMA ApproveInCycle ==
  ASSUME Inv, Inv', ApproveSafetyOnce
  PROVE  Cycle!Next
<1>1. /\ safety_alert = "deletion" /\ safety_alert' = "none"
      /\ guard_enabled' = guard_enabled
      /\ Request("MANUAL", [Caller EXCEPT !.bypass = TRUE])
  BY DEF ApproveSafetyOnce
<1>2. "MANUAL" \in Trigger BY DEF Trigger
<1>3. /\ [Caller EXCEPT !.bypass = TRUE] \in
           CallerRecord
      /\ [Caller EXCEPT !.bypass = TRUE].bypass = TRUE
  BY CallerType DEF Inv, Caller
<1>4. StartsNothing(TRUE) \/ StartsCheck(TRUE) \/ StartsRun(TRUE)
  BY <1>1, <1>2, <1>3, RequestCycle
<1>5. safety_bypass_once' \in BOOLEAN BY DEF Inv, TypeOK
<1>6. CASE StartsNothing(TRUE)
  <2>1. CyclePhase' = CyclePhase BY <1>6 DEF StartsNothing
  <2>2. safety_bypass_once' = TRUE BY <1>5, <1>6 DEF StartsNothing
  <2>3. Cycle!Approve BY <1>1, <2>1, <2>2 DEF Cycle!Approve
  <2> QED BY <2>3 DEF Cycle!Next
<1>7. CASE StartsRun(TRUE)
  <2>1. CyclePhase = "idle" /\ CyclePhase' = "cleared" BY <1>7 DEF StartsRun
  <2>2. safety_bypass_once' = FALSE BY <1>5, <1>7 DEF StartsRun
  <2>3. Cycle!ApproveAndWaive BY <1>1, <2>1, <2>2 DEF Cycle!ApproveAndWaive
  <2> QED BY <2>3 DEF Cycle!Next
<1> QED BY <1>4, <1>6, <1>7 DEF StartsCheck

(* The check ends: passed, blocked, or too late.                           *)
LEMMA SafetyCheckedInCycle ==
  ASSUME Inv, NEW reasons \in checking, NEW alert \in CheckVerdict,
         SafetyChecked(reasons, alert)
  PROVE  Cycle!Next
<1>1. checking = {reasons} /\ lookups = 0 /\ recorders = 0 /\ ~running
  BY DEF Inv, TypeOK, SingleFlight
<1>2. CyclePhase = "checking" BY <1>1 DEF CyclePhase
<1>3. /\ checking' = {} /\ recorders' = 0 /\ ~running'
      /\ UNCHANGED <<safety_bypass_once, guard_enabled>>
  BY <1>1 DEF SafetyChecked
<1>4. CASE stopped
  <2>1. lookups' = 0 /\ UNCHANGED safety_alert BY <1>1, <1>4 DEF SafetyChecked
  <2>2. CyclePhase' = "idle" BY <1>3, <2>1 DEF CyclePhase
  <2>3. Cycle!Settle BY <1>2, <1>3, <2>1, <2>2 DEF Cycle!Settle
  <2> QED BY <2>3 DEF Cycle!Next
<1>5. CASE ~stopped /\ alert # "none"
  <2>1. lookups' = 0 /\ safety_alert' \in {"deletion", "structural"}
    BY <1>1, <1>5 DEF SafetyChecked, CheckVerdict
  <2>2. CyclePhase' = "idle" BY <1>3, <2>1 DEF CyclePhase
  <2>3. Cycle!Block BY <1>2, <1>3, <2>1, <2>2 DEF Cycle!Block
  <2> QED BY <2>3 DEF Cycle!Next
<1>6. CASE ~stopped /\ alert = "none"
  <2>1. lookups' = 1 /\ UNCHANGED safety_alert BY <1>1, <1>6 DEF SafetyChecked
  <2>2. CyclePhase' = "cleared" BY <1>3, <2>1 DEF CyclePhase
  <2>3. Cycle!Pass BY <1>2, <1>3, <2>1, <2>2 DEF Cycle!Pass
  <2> QED BY <2>3 DEF Cycle!Next
<1> QED BY <1>4, <1>5, <1>6

(* The credential lookup ends in a process or in nothing.                  *)
LEMMA LookupDoneInCycle ==
  ASSUME Inv, LookupDone
  PROVE  Cycle!Next
<1>1. /\ checking = {} /\ lookups = 1 /\ recorders = 0 /\ ~running /\ lookups' = 0
  BY DEF Inv, TypeOK, SingleFlight, LookupDone
<1>2. CyclePhase = "cleared" BY <1>1 DEF CyclePhase
<1>3. UNCHANGED <<safety_alert, safety_bypass_once, guard_enabled, checking>>
  BY DEF LookupDone, LookupFails, ProcessStarts, SpawnFails, Finished
<1>4. CASE ProcessStarts
  <2>1. running' BY <1>4 DEF ProcessStarts
  <2>2. CyclePhase' = "running" BY <2>1 DEF CyclePhase
  <2>3. Cycle!Launch BY <1>2, <1>3, <2>2 DEF Cycle!Launch
  <2> QED BY <2>3 DEF Cycle!Next
<1>5. CASE process' = process /\ recorders' = recorders
  <2>1. CyclePhase' = "idle" BY <1>1, <1>3, <1>5 DEF CyclePhase
  <2>2. Cycle!Settle BY <1>2, <1>3, <2>1 DEF Cycle!Settle
  <2> QED BY <2>2 DEF Cycle!Next
<1>6. ASSUME SpawnFails PROVE process' = process /\ recorders' = recorders
  <2>1. preparing' = ("sync_error" \in {"success", "conflict"})
    BY <1>6 DEF SpawnFails, Finished
  <2>2. recorders' = IF preparing' THEN recorders + 1 ELSE recorders
    BY <1>6 DEF SpawnFails, Finished
  <2>3. ~preparing' BY <2>1
  <2> QED BY <1>6, <2>2, <2>3 DEF SpawnFails
<1> QED BY <1>4, <1>5, <1>6 DEF LookupDone, LookupFails

(* nextcloudcmd ends; a baseline may be recorded next.                     *)
LEMMA ProcessExitsInCycle ==
  ASSUME Inv, NEW outcome \in Outcome, ProcessExits(outcome)
  PROVE  Cycle!Next
<1>1. checking = {} /\ lookups = 0 /\ recorders = 0 /\ running
  BY DEF Inv, TypeOK, SingleFlight, ProcessExits
<1>2. CyclePhase = "running" BY <1>1 DEF CyclePhase
<1>3. /\ UNCHANGED <<safety_alert, safety_bypass_once, guard_enabled>>
      /\ ~running' /\ lookups' = 0 /\ checking' = {}
  BY <1>1 DEF ProcessExits, Finished
<1>4. CyclePhase' \in {"recording", "idle"} BY <1>3 DEF CyclePhase
<1>5. Cycle!Exit BY <1>2, <1>3, <1>4 DEF Cycle!Exit
<1> QED BY <1>5 DEF Cycle!Next

(* The baseline is recorded.                                               *)
LEMMA BaselineRecordedInCycle ==
  ASSUME Inv, NEW recorded \in BOOLEAN, NEW cleared \in BOOLEAN,
         BaselineRecorded(recorded, cleared)
  PROVE  Cycle!Next
<1>1. checking = {} /\ lookups = 0 /\ recorders = 1 /\ ~running /\ recorders' = 0
  BY DEF Inv, TypeOK, SingleFlight, BaselineRecorded
<1>2. CyclePhase = "recording" BY <1>1 DEF CyclePhase
<1>3. UNCHANGED <<safety_alert, safety_bypass_once, guard_enabled, checking, lookups,
                  process>>
  BY DEF BaselineRecorded
<1>4. CyclePhase' = "idle" BY <1>1, <1>3 DEF CyclePhase
<1>5. Cycle!Settle BY <1>2, <1>3, <1>4 DEF Cycle!Settle
<1> QED BY <1>5 DEF Cycle!Next

-----------------------------------------------------------------------------
(* Initial states map to initial states.                                   *)
LEMMA InitCycle == Init => Cycle!Init
BY DEF Init, Cycle!Init, CyclePhase

(* Every step of the scheduler is a step of the cycle or a stutter.        *)
LEMMA NextCycle == Inv /\ Inv' /\ [Next]_vars => [Cycle!Next]_Cycle!cycleVars
<1> SUFFICES ASSUME Inv, Inv', [Next]_vars PROVE [Cycle!Next]_Cycle!cycleVars
  OBVIOUS
<1>1. CASE Internal
  <2>1. CASE DebounceElapsed \/ CooldownFinished
    BY <2>1, StutterInCycle DEF DebounceElapsed, CooldownFinished
  <2> QED BY <1>1, <2>1, IdleStartInCycle, SafetyCheckedInCycle, LookupDoneInCycle,
             ProcessExitsInCycle, BaselineRecordedInCycle
          DEF Internal
<1>2. CASE Feedback
  <2>1. "LOCAL_INOTIFY" \in Trigger BY DEF Trigger
  <2> QED BY <1>2, <2>1, RequestedInCycle DEF Feedback
<1>3. CASE External
  <2>1. \A t \in Sources : t \in Trigger BY SourcesAssumption
  <2>2. ASSUME NEW p \in BOOLEAN, SetUserPaused(p) \/ SetBatteryPaused(p)
        PROVE  [Cycle!Next]_Cycle!cycleVars
    <3>1. UNCHANGED <<safety_alert, guard_enabled>>
      BY <2>2 DEF SetUserPaused, SetBatteryPaused
    <3>2. CASE Reconcile(FALSE) BY <3>1, <3>2, ReconcileInCycle
    <3>3. CASE Unscheduled /\ UNCHANGED safety_bypass_once
      BY <3>1, <3>3, StutterInCycle DEF Unscheduled
    <3> QED BY <2>2, <3>2, <3>3 DEF SetUserPaused, SetBatteryPaused
  <2>3. CASE SettingsSaved
    BY <2>3, SettingsSavedInCycle
  <2>4. CASE AuthenticationRejected
    BY <2>4, StutterInCycle DEF AuthenticationRejected, Unscheduled
  <2>5. CASE Stop
    <3>1. CyclePhase' = CyclePhase BY <2>5, SamePhase DEF Stop
    <3>2. Cycle!Stop BY <2>5, <3>1 DEF Stop, Cycle!Stop
    <3> QED BY <3>2 DEF Cycle!Next
  <2> QED BY <1>3, <2>1, <2>2, <2>3, <2>4, <2>5, RequestedInCycle, SetOnlineInCycle,
             ResumedInCycle, AuthenticationRestoredInCycle, ApproveInCycle
          DEF External
<1>4. CASE UNCHANGED vars
  BY <1>4, StutterInCycle DEF vars
<1> QED BY <1>1, <1>2, <1>3, <1>4 DEF Next

(* Every nextcloudcmd run is covered by a passed check, by one use of an   *)
(* approval, or by a disabled guard, for every set of triggers and events. *)
THEOREM CycleRefined == Spec => SafeCycle
BY InitCycle, NextCycle, Invariance, PTL DEF Spec, SafeCycle, Cycle!Spec
=============================================================================
