------------------------ MODULE SchedulerProperties ------------------------
(***************************************************************************)
(* What the scheduler of module Scheduler must keep to, and what it does   *)
(* not.                                                                    *)
(***************************************************************************)
EXTENDS Scheduler

(* At most one of the safety check, the credential lookup, nextcloudcmd    *)
(* and the recording of the baseline is in progress, although they run on  *)
(* threads and in another process; and _preparing says exactly when one of *)
(* the threads is, which every handler relies on instead of looking.       *)
(* (After stop() the flag may stay set with nothing in progress.)          *)
SingleFlight ==
  /\ \A r1, r2 \in checking : r1 = r2
  /\ lookups + recorders <= 1
  /\ checking # {} => lookups + recorders = 0 /\ safety_checking
  /\ running => checking = {} /\ lookups + recorders = 0 /\ ~preparing
  /\ checking # {} \/ lookups + recorders > 0 => preparing
  /\ preparing /\ ~stopped => checking # {} \/ lookups + recorders > 0

(* Work is scheduled or in progress that will look at the queue.           *)
Scheduled ==
  \/ debounce_source \/ start_source \/ cooldown_source = "run_pending"
  \/ preparing \/ running

(* Nothing the user can see holds synchronization back.                    *)
Unblocked ==
  /\ online /\ ~paused /\ safety_alert = "none" /\ ~authentication_required
  /\ ~keyring_locked /\ ~stopped

(* A trigger waits, nothing holds it back, and nothing will ever start it  *)
(* unless another trigger comes.                                           *)
Stranded == queue # {} /\ Unblocked /\ ~Scheduled /\ cooldown_source = "none"

(* The only steps that strand a trigger: the end of a cooldown that began  *)
(* with an empty queue, a start given up for want of a credential, a       *)
(* command or a file, and resuming in manual-only mode.  In particular no  *)
(* request, no other timer and no end of a check or of a run does.         *)
StrandedOnlyBy ==
  [][~Stranded /\ Stranded' =>
       \/ cooldown_source = "idle" /\ CooldownFinished
       \/ LookupDone /\ ~running'
       \/ manual_only' /\ paused]_vars

(* There is a reason to reconcile: queued, put off by a pause, or handed   *)
(* to the work in progress.                                                *)
Obligation ==
  queue # {} \/ local_dirty \/ remote_pending \/ checking # {} \/ lookups > 0 \/ running

(* A reason to reconcile outlives every pause, resume, alert and loss of   *)
(* the network: it ends only with the process that served it, a start      *)
(* given up after the check, a resume in manual-only mode, or stop().      *)
NoTriggerForgotten ==
  [][Obligation /\ ~Obligation' =>
       \/ LookupDone \/ running \/ stopped'
       \/ manual_only' /\ paused]_vars

(* After stop() the queue and the timers stay empty and no check, lookup   *)
(* or process starts, whatever threads, lookups and a stale idle source    *)
(* still report.                                                           *)
QuietAfterStop ==
  [][stopped => /\ queue' = {} /\ stopped'
                /\ ~debounce_source' /\ ~start_source' /\ cooldown_source' = "none"
                /\ (running' => running)
                /\ checking' \subseteq checking /\ lookups' <= lookups]_vars

Held ==
  keyring_locked \/ authentication_required \/ (safety_alert # "none" /\ ~safety_bypass_once)

(* "Automatic filesystem, timer, push, resume, and network triggers are    *)
(* queued while the keyring remains locked" and a rejected credential is   *)
(* "retained as a blocking state" (CHANGELOG); an alert waits for the user,*)
(* unless the approval of an earlier one is still unused.  Under any of the*)
(* three no trigger, no return of the network and no saved setting         *)
(* schedules a start: only a debounce timer or a cooldown that was running *)
(* already does, or a baseline whose recording ends, none of which looks at*)
(* all three.                                                              *)
HeldExceptByTimers ==
  [][Held' /\ start_source' /\ ~start_source =>
       DebounceElapsed \/ CooldownFinished \/ recorders' < recorders]_vars

(* The scheduler implements the cycle of SyncCycle.                        *)
CyclePhase ==
  IF running THEN "running"
  ELSE IF lookups > 0 THEN "cleared"
  ELSE IF checking # {} THEN "checking"
  ELSE IF recorders > 0 THEN "recording"
  ELSE "idle"

Cycle == INSTANCE SyncCycle WITH
  phase <- CyclePhase, blocked <- safety_alert,
  approval <- safety_bypass_once, guarded <- guard_enabled

(* Every nextcloudcmd run is covered by a passed check, by one approval of *)
(* a deletion alert, or by a disabled guard; one approval covers one run;  *)
(* a structural alert is never approved.                                   *)
SafeCycle == Cycle!Spec

-----------------------------------------------------------------------------
AtRest == ~Scheduled /\ cooldown_source = "none"

(* If from some moment on the only events are the changes that nextcloudcmd*)
(* itself makes in the folder, synchronization comes to rest: a run does   *)
(* not cause the next one for ever.  (Not so under an alert or a rejected  *)
(* credential: request then queues the event before it notes that it came  *)
(* during a run.)                                                          *)
NoFeedbackLoop ==
  /\ <>[][Internal \/ Feedback]_vars
  /\ <>[](safety_alert = "none" /\ ~authentication_required)
  => <>[]AtRest

(* A start that is scheduled, or promised to the end of a cooldown while no*)
(* other start is under way, takes the queue unless something comes to hold*)
(* it back.                                                                *)
PromisedStart ==
  start_source \/ (cooldown_source = "run_pending" /\ lookups = 0 /\ checking = {})

PromisedStartHappens ==
  (queue # {} /\ Unblocked /\ PromisedStart) ~> (queue = {} \/ ~Unblocked)
=============================================================================
