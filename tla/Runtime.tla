------------------------------ MODULE Runtime ------------------------------
(***************************************************************************)
(* RuntimeController (core/runtime.py): the watcher, the interval timers,  *)
(* the push client and the session's signals, started from the settings    *)
(* and changed with them.  reconfigure compares a signature of each part's *)
(* settings with the one it was last configured for.                       *)
(*                                                                         *)
(* The parts themselves are abstracted: the watcher (module Inotify) to    *)
(* running or not, the push client (module NotifyPush) to enabled or not,  *)
(* the scheduler (module Scheduler) to the requests it is sent.            *)
(***************************************************************************)
EXTENDS Naturals, FiniteSets

CONSTANT MaxSleeps    \* bound: wake-ups whose timer is running

ASSUME SleepsAssumption == MaxSleeps \in Nat

VARIABLES
  settings,           \* the saved settings the controller looks at
  life,               \* "new", "started" or "stopped"
  timersSig, inotifySig, pushSig,
  localTimer, remoteTimer,
  watcher, fallback, recovery,    \* self.inotify, _fallback_source, _inotify_recovery_source
  push,               \* the push client is enabled
  lookups,            \* push signatures whose credential is being looked up
  sleeps,             \* timers of SuspendWatcher._resume_later
  lost,               \* history: events were lost, and no request has followed
  relinquished        \* history: the interval that stood in for the watcher was turned off

sigVars == <<timersSig, inotifySig, pushSig>>
localVars == <<watcher, fallback, recovery, lost>>
pushVars == <<push, lookups>>
vars == <<settings, life, sigVars, localTimer, remoteTimer, localVars, pushVars, sleeps,
          relinquished>>

Settings == [inotify : BOOLEAN, excludes : 0 .. 1, interval : BOOLEAN, remote : BOOLEAN,
             push : BOOLEAN, trust : BOOLEAN]
TimersOf(s) == [interval |-> s.interval, remote |-> s.remote]
InotifyOf(s) == [inotify |-> s.inotify, excludes |-> s.excludes]
PushOf(s) == [push |-> s.push, trust |-> s.trust]
Unset == [none |-> TRUE]

(* Everything has its type.                                                *)
TypeOK ==
  /\ settings \in Settings /\ life \in {"new", "started", "stopped"}
  /\ timersSig \in {Unset} \cup {TimersOf(s) : s \in Settings}
  /\ inotifySig \in {Unset} \cup {InotifyOf(s) : s \in Settings}
  /\ pushSig \in {Unset} \cup {PushOf(s) : s \in Settings}
  /\ localTimer \in BOOLEAN /\ remoteTimer \in BOOLEAN
  /\ watcher \in BOOLEAN /\ fallback \in BOOLEAN /\ recovery \in BOOLEAN
  /\ push \in BOOLEAN /\ lookups \subseteq {PushOf(s) : s \in Settings}
  /\ sleeps \in 0 .. MaxSleeps /\ lost \in BOOLEAN /\ relinquished \in BOOLEAN

Init ==
  /\ settings \in Settings /\ life = "new"
  /\ timersSig = Unset /\ inotifySig = Unset /\ pushSig = Unset
  /\ localTimer = FALSE /\ remoteTimer = FALSE
  /\ watcher = FALSE /\ fallback = FALSE /\ recovery = FALSE
  /\ push = FALSE /\ lookups = {} /\ sleeps = 0 /\ lost = FALSE /\ relinquished = FALSE

-----------------------------------------------------------------------------
(* SyncTimers.configure                                                    *)
ConfigureTimers(s) ==
  /\ timersSig' = TimersOf(s)
  /\ IF TimersOf(s) = timersSig THEN UNCHANGED <<localTimer, remoteTimer>>
     ELSE localTimer' = s.interval /\ remoteTimer' = s.remote

(* _configure_inotify, which may find that the watcher cannot be started.  *)
RecoveryDropped == recovery' = FALSE     \* mutant: a new watcher makes the recovery superfluous

RecoveryKept == recovery' = recovery

NewWatcher(s) ==
  \/ s.inotify /\ watcher' = TRUE /\ fallback' = FALSE
  \/ s.inotify /\ watcher' = FALSE /\ fallback' = ~s.interval
  \/ ~s.inotify /\ watcher' = FALSE /\ fallback' = FALSE

ConfigureInotify(s) == NewWatcher(s) /\ RecoveryKept

(* _configure_push                                                         *)
ConfigurePush(sig) ==
  IF sig.push THEN lookups' = lookups \cup {sig} /\ push' = push
  ELSE push' = FALSE /\ lookups' = lookups

(* reconfigure; from: the push signature it finds.                         *)
Reconfigure(s, from) ==
  /\ ConfigureTimers(s)
  /\ inotifySig' = InotifyOf(s)
  /\ IF InotifyOf(s) = inotifySig THEN UNCHANGED <<watcher, fallback, recovery>>
     ELSE ConfigureInotify(s)
  /\ pushSig' = PushOf(s)
  /\ IF PushOf(s) = from THEN UNCHANGED pushVars ELSE ConfigurePush(PushOf(s))

NotReconfigured == UNCHANGED <<sigVars, localTimer, remoteTimer, watcher, fallback, recovery,
                               pushVars>>

(* start requests a synchronization when anything is automatic.            *)
Start ==
  /\ life = "new" /\ life' = "started"
  /\ Reconfigure(settings, pushSig)
  /\ UNCHANGED <<settings, sleeps, lost, relinquished>>

RecoveryLeft == recovery' = recovery     \* mutant: stop forgets the recovery

RecoveryRemoved == recovery' = FALSE

Stop ==
  /\ life = "started" /\ life' = "stopped"
  /\ localTimer' = FALSE /\ remoteTimer' = FALSE
  /\ push' = FALSE /\ watcher' = FALSE /\ fallback' = FALSE /\ RecoveryRemoved
  /\ timersSig' = Unset /\ inotifySig' = Unset /\ pushSig' = Unset
  /\ UNCHANGED <<settings, lookups, sleeps, lost, relinquished>>

Degraded == settings.inotify /\ ~watcher /\ ~fallback /\ ~recovery

(* The settings are saved, and the subscribed controller reconfigures.     *)
SaveSettings(s) ==
  /\ settings' = s
  /\ IF life = "started" THEN Reconfigure(s, pushSig) ELSE NotReconfigured
  /\ relinquished' = /\ life = "started" /\ InotifyOf(s) = InotifyOf(settings)
                     /\ Degraded /\ (relinquished \/ (settings.interval /\ ~s.interval))
  /\ UNCHANGED <<life, sleeps, lost>>

(* _inotify_degraded: the watcher is gone for good ...                     *)
NoFallback == fallback' = fallback     \* mutant: nothing takes the watcher's place

FallBack == fallback' = (fallback \/ ~settings.interval)

WatcherFails ==
  /\ life = "started" /\ watcher /\ watcher' = FALSE /\ FallBack
  /\ UNCHANGED <<settings, life, sigVars, localTimer, remoteTimer, recovery, lost, pushVars,
                 sleeps, relinquished>>

(* ... or has lost events and will be built anew.                          *)
Overflow ==
  /\ life = "started" /\ watcher /\ watcher' = FALSE
  /\ recovery' = TRUE /\ lost' = TRUE
  /\ UNCHANGED <<settings, life, sigVars, localTimer, remoteTimer, fallback, pushVars,
                 sleeps, relinquished>>

(* _recover_inotify_overflow                                               *)
Recover ==
  /\ recovery /\ recovery' = FALSE /\ lost' = FALSE
  /\ IF settings.inotify THEN NewWatcher(settings) ELSE UNCHANGED <<watcher, fallback>>
  /\ UNCHANGED <<settings, life, sigVars, localTimer, remoteTimer, pushVars, sleeps,
                 relinquished>>

(* A timer, the fallback or a change noticed by the watcher requests a     *)
(* synchronization, which also finds what lost events told of.             *)
LocalRequest ==
  /\ watcher \/ fallback \/ localTimer \/ remoteTimer
  /\ lost /\ lost' = FALSE
  /\ UNCHANGED <<settings, life, sigVars, localTimer, remoteTimer, watcher, fallback, recovery,
                 pushVars, sleeps, relinquished>>

(* secret_ready of _configure_push                                         *)
AcceptedAny(sig) == life = "started"     \* mutant: the signature is not compared

Accepted(sig) == life = "started" /\ sig = pushSig

LookupDone(sig) ==
  /\ sig \in lookups /\ lookups' = lookups \ {sig}
  /\ push' \in IF Accepted(sig) THEN {push, TRUE} ELSE {push}
  /\ UNCHANGED <<settings, life, sigVars, localTimer, remoteTimer, localVars, sleeps,
                 relinquished>>

(* SuspendWatcher: three seconds after the wake-up; the timer outlives stop.*)
WakesUp ==
  /\ life = "started" /\ sleeps < MaxSleeps /\ sleeps' = sleeps + 1
  /\ UNCHANGED <<settings, life, sigVars, localTimer, remoteTimer, localVars, pushVars,
                 relinquished>>

(* _resumed and authentication_restored both connect push anew.            *)
Reconnects == IF life = "started" THEN Reconfigure(settings, Unset) ELSE NotReconfigured

Repeats == TRUE     \* mutant: the timer is not removed when it has run

OneShot == sleeps > 0

Resumed ==
  /\ OneShot /\ sleeps' = sleeps - 1
  /\ IF settings.push THEN Reconnects ELSE NotReconfigured
  /\ UNCHANGED <<settings, life, lost, relinquished>>

AuthenticationRestored ==
  /\ life = "started" /\ Reconnects
  /\ UNCHANGED <<settings, life, sleeps, lost, relinquished>>

(* sync_now after the keyring was found locked asks for the credential of  *)
(* push as well.                                                           *)
SyncNow ==
  /\ life = "started" /\ settings.push /\ ConfigurePush(pushSig) /\ lost' = FALSE
  /\ UNCHANGED <<settings, life, sigVars, localTimer, remoteTimer, watcher, fallback, recovery,
                 sleeps, relinquished>>

OneChanged(s, t) == Cardinality({f \in DOMAIN s : s[f] # t[f]}) = 1

Next ==
  \/ Start \/ Stop \/ WatcherFails \/ Overflow \/ Recover \/ LocalRequest
  \/ \E s \in Settings : OneChanged(s, settings) /\ SaveSettings(s)
  \/ \E sig \in lookups : LookupDone(sig)
  \/ WakesUp \/ Resumed \/ AuthenticationRestored \/ SyncNow

Spec == Init /\ [][Next]_vars

(* The idle source that Overflow installs runs.                            *)
FairSpec == Spec /\ WF_vars(Recover)

-----------------------------------------------------------------------------
LocalDetection == watcher \/ fallback \/ recovery \/ localTimer

(* "Recursive Linux inotify monitoring with ... watch-limit fallback"      *)
(* (CHANGELOG): a started controller told to watch the folder notices      *)
(* local changes one way or another, unless the interval was turned off    *)
(* that had spared it the fallback (_inotify_degraded, reconfigure).       *)
DetectionLostOnlyBy == life = "started" /\ settings.inotify /\ ~LocalDetection => relinquished

(* Late answers and timers start nothing again once the controller is      *)
(* stopped.                                                                *)
NothingAfterStop ==
  life = "stopped" =>
    ~(watcher \/ fallback \/ recovery \/ localTimer \/ remoteTimer \/ push)

(* What runs is what the settings ask for now, whatever credential answers *)
(* and overflows of earlier settings arrive: no push unasked, and a fallback*)
(* only for a watcher that is wanted and not there.                        *)
RunningAsConfigured ==
  /\ push => settings.push
  /\ watcher \/ fallback => settings.inotify
  /\ ~(watcher /\ fallback)

(* Lost events are followed by a reconciliation, also when the settings    *)
(* change or the watcher cannot be built again, unless the controller is   *)
(* stopped.                                                                *)
LostEventsFollowed == lost ~> (~lost \/ life = "stopped")
=============================================================================
