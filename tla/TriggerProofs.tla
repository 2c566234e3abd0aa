--------------------------- MODULE TriggerProofs ---------------------------
(***************************************************************************)
(* Proofs about what asks for synchronizations: that the controller        *)
(* (Runtime) runs what it is configured for and nothing once it is stopped,*)
(* and that the push client (NotifyPush) has one attempt at a time and     *)
(* gives it up only for a reason, whatever order settings, answers, timers *)
(* and signals come in.                                                    *)
(***************************************************************************)
EXTENDS MCTriggers, TLAPS

(* A started controller was last configured for the settings it has, which *)
(* is what every comparison of signatures relies on; any other has none.   *)
Configured ==
  /\ life = "started" =>
       /\ timersSig = TimersOf(settings) /\ inotifySig = InotifyOf(settings)
       /\ pushSig = PushOf(settings)
       /\ localTimer = settings.interval
  /\ life # "started" =>
       /\ timersSig = Unset /\ inotifySig = Unset /\ pushSig = Unset
       /\ ~(watcher \/ fallback \/ recovery \/ localTimer \/ remoteTimer \/ push)

(* Credentials are only looked up for push.                                *)
LookupsForPush == \A sig \in lookups : sig.push

Flags ==
  /\ life \in {"new", "started", "stopped"}
  /\ localTimer \in BOOLEAN /\ remoteTimer \in BOOLEAN
  /\ watcher \in BOOLEAN /\ fallback \in BOOLEAN /\ recovery \in BOOLEAN
  /\ push \in BOOLEAN /\ lost \in BOOLEAN /\ relinquished \in BOOLEAN
  /\ sleeps \in 0 .. MaxSleeps

RuntimeInv ==
  /\ settings \in Settings /\ Flags
  /\ lookups \subseteq {PushOf(s) : s \in Settings} /\ LookupsForPush
  /\ Configured /\ RunningAsConfigured /\ DetectionLostOnlyBy

(* The types of the signatures follow from what they were configured for.  *)
LEMMA RuntimeInvTyped == ASSUME RuntimeInv PROVE TypeOK
<1>1. timersSig \in {Unset} \cup {TimersOf(s) : s \in Settings}
  BY DEF RuntimeInv, Configured
<1>2. inotifySig \in {Unset} \cup {InotifyOf(s) : s \in Settings}
  BY DEF RuntimeInv, Configured
<1>3. pushSig \in {Unset} \cup {PushOf(s) : s \in Settings}
  BY DEF RuntimeInv, Configured
<1> QED
  BY <1>1, <1>2, <1>3 DEF RuntimeInv, Flags, TypeOK

(* The controller starts with nothing configured and nothing running.      *)
LEMMA RuntimeInitInv == ASSUME Init PROVE RuntimeInv
<1>1. life = "new" /\ lookups = {} /\ sleeps = 0
  BY DEF Init
<1>2. ~watcher /\ ~fallback /\ ~recovery /\ ~localTimer /\ ~remoteTimer /\ ~push
  BY DEF Init
<1>3. sleeps \in 0 .. MaxSleeps
  BY <1>1, SleepsAssumption
<1>4. settings \in Settings /\ Flags
  BY <1>3 DEF Init, Flags
<1>5. Configured
  BY <1>1, <1>2 DEF Init, Configured
<1>6. LookupsForPush /\ DetectionLostOnlyBy
  BY <1>1 DEF LookupsForPush, DetectionLostOnlyBy
<1>7. RunningAsConfigured
  BY <1>2 DEF RunningAsConfigured
<1> QED
  BY <1>1, <1>4, <1>5, <1>6, <1>7 DEF RuntimeInv

-----------------------------------------------------------------------------
(* A signature is that of some settings or Unset, not both, and holds what *)
(* it was made of.                                                         *)
LEMMA Signatures ==
  ASSUME NEW s, NEW t
  PROVE  /\ TimersOf(s) # Unset /\ InotifyOf(s) # Unset /\ PushOf(s) # Unset
         /\ TimersOf(s) = TimersOf(t) => s.interval = t.interval /\ s.remote = t.remote
         /\ InotifyOf(s) = InotifyOf(t) => s.inotify = t.inotify /\ s.excludes = t.excludes
         /\ PushOf(s) = PushOf(t) => s.push = t.push /\ s.trust = t.trust
<1>1. "interval" \in DOMAIN TimersOf(s) /\ "inotify" \in DOMAIN InotifyOf(s)
        /\ "push" \in DOMAIN PushOf(s)
  BY DEF TimersOf, InotifyOf, PushOf
<1>2. DOMAIN Unset = {"none"}
  BY DEF Unset
<1>3. /\ TimersOf(s).interval = s.interval /\ TimersOf(s).remote = s.remote
      /\ TimersOf(t).interval = t.interval /\ TimersOf(t).remote = t.remote
  BY DEF TimersOf
<1>4. /\ InotifyOf(s).inotify = s.inotify /\ InotifyOf(s).excludes = s.excludes
      /\ InotifyOf(t).inotify = t.inotify /\ InotifyOf(t).excludes = t.excludes
  BY DEF InotifyOf
<1>5. /\ PushOf(s).push = s.push /\ PushOf(s).trust = s.trust
      /\ PushOf(t).push = t.push /\ PushOf(t).trust = t.trust
  BY DEF PushOf
<1> QED
  BY <1>1, <1>2, <1>3, <1>4, <1>5

(* The settings' fields are what they are declared to be.                  *)
LEMMA SettingTypes ==
  ASSUME NEW s \in Settings
  PROVE  s.inotify \in BOOLEAN /\ s.interval \in BOOLEAN /\ s.remote \in BOOLEAN
         /\ s.push \in BOOLEAN
  BY DEF Settings

(* What reconfigure leaves: the parts are those of the new settings, and   *)
(* local changes are noticed unless nothing about the watcher changed.     *)
LEMMA Reconfigured ==
  ASSUME RuntimeInv, NEW s \in Settings, NEW from, from = pushSig \/ s = settings,
         life # "stopped", Reconfigure(s, from)
  PROVE  /\ timersSig' = TimersOf(s) /\ inotifySig' = InotifyOf(s) /\ pushSig' = PushOf(s)
         /\ localTimer' = s.interval /\ remoteTimer' \in BOOLEAN
         /\ watcher' \in BOOLEAN /\ fallback' \in BOOLEAN /\ recovery' = recovery
         /\ push' \in BOOLEAN /\ (push' => s.push)
         /\ lookups' \subseteq {PushOf(t) : t \in Settings} /\ LookupsForPush'
         /\ (watcher' \/ fallback' => s.inotify) /\ ~(watcher' /\ fallback')
         /\ \/ watcher' \/ fallback' \/ s.interval \/ ~s.inotify
            \/ /\ life = "started" /\ InotifyOf(s) = InotifyOf(settings)
               /\ watcher' = watcher /\ fallback' = fallback
<1> USE DEF RuntimeInv, Flags
<1>1. timersSig' = TimersOf(s) /\ inotifySig' = InotifyOf(s) /\ pushSig' = PushOf(s)
  BY DEF Reconfigure, ConfigureTimers
<1>2. life = "started" \/ (life = "new" /\ inotifySig = Unset /\ timersSig = Unset
                             /\ ~push /\ ~watcher /\ ~fallback)
  BY DEF Configured
<1>3. localTimer' = s.interval /\ remoteTimer' \in BOOLEAN
  <2>1. CASE TimersOf(s) = timersSig
    <3>1. life = "started" /\ timersSig = TimersOf(settings) /\ localTimer = settings.interval
      BY <1>2, <2>1, Signatures DEF Configured
    <3>2. s.interval = settings.interval
      BY <2>1, <3>1, Signatures
    <3> QED
      BY <2>1, <3>1, <3>2 DEF Reconfigure, ConfigureTimers
  <2>2. CASE TimersOf(s) # timersSig
    BY <2>2, SettingTypes DEF Reconfigure, ConfigureTimers
  <2> QED
    BY <2>1, <2>2
<1>4. /\ watcher' \in BOOLEAN /\ fallback' \in BOOLEAN /\ recovery' = recovery
      /\ (watcher' \/ fallback' => s.inotify) /\ ~(watcher' /\ fallback')
      /\ \/ watcher' \/ fallback' \/ s.interval \/ ~s.inotify
         \/ /\ life = "started" /\ InotifyOf(s) = InotifyOf(settings)
            /\ watcher' = watcher /\ fallback' = fallback
  <2>1. CASE InotifyOf(s) = inotifySig
    <3>1. life = "started" /\ inotifySig = InotifyOf(settings)
      BY <1>2, <2>1, Signatures DEF Configured
    <3>2. s.inotify = settings.inotify
      BY <2>1, <3>1, Signatures
    <3>3. watcher' = watcher /\ fallback' = fallback /\ recovery' = recovery
      BY <2>1 DEF Reconfigure
    <3> QED
      BY <2>1, <3>1, <3>2, <3>3 DEF RunningAsConfigured
  <2>2. CASE InotifyOf(s) # inotifySig
    BY <2>2, SettingTypes
    DEF Reconfigure, ConfigureInotify, NewWatcher, RecoveryKept
  <2> QED
    BY <2>1, <2>2
<1>5. /\ push' \in BOOLEAN /\ (push' => s.push)
      /\ lookups' \subseteq {PushOf(t) : t \in Settings} /\ LookupsForPush'
  <2>1. PushOf(s).push = s.push
    BY DEF PushOf
  <2>2. CASE PushOf(s) = from
    <3>1. push' = push /\ lookups' = lookups
      BY <2>2 DEF Reconfigure, pushVars
    <3>2. push => s.push
      <4>1. CASE s = settings
        BY <4>1 DEF RunningAsConfigured
      <4>2. CASE from = pushSig
        <5>1. life = "started" => pushSig = PushOf(settings)
          BY DEF Configured
        <5>2. life = "started" => s.push = settings.push
          BY <2>2, <4>2, <5>1, Signatures
        <5> QED
          BY <1>2, <5>2 DEF RunningAsConfigured
      <4> QED
        BY <4>1, <4>2
    <3> QED
      BY <3>1, <3>2 DEF LookupsForPush
  <2>3. CASE PushOf(s) # from /\ s.push
    BY <2>1, <2>3 DEF Reconfigure, ConfigurePush, LookupsForPush
  <2>4. CASE PushOf(s) # from /\ ~s.push
    BY <2>1, <2>4 DEF Reconfigure, ConfigurePush, LookupsForPush
  <2> QED
    BY <2>2, <2>3, <2>4
<1> QED
  BY <1>1, <1>3, <1>4, <1>5

(* So that it keeps the invariant when it remembers a detection given up.  *)
LEMMA ReconfigureInv ==
  ASSUME RuntimeInv, NEW s \in Settings, NEW from, from = pushSig \/ s = settings,
         life # "stopped", Reconfigure(s, from), settings' = s, life' = "started",
         sleeps' \in 0 .. MaxSleeps, lost' = lost, relinquished' \in BOOLEAN,
         life = "started" /\ InotifyOf(s) = InotifyOf(settings) /\ Degraded /\ ~s.interval
           => relinquished'
  PROVE  RuntimeInv'
<1> DEFINE same == /\ life = "started" /\ InotifyOf(s) = InotifyOf(settings)
                   /\ watcher' = watcher /\ fallback' = fallback
<1>1. /\ timersSig' = TimersOf(s) /\ inotifySig' = InotifyOf(s) /\ pushSig' = PushOf(s)
      /\ localTimer' = s.interval /\ remoteTimer' \in BOOLEAN
      /\ watcher' \in BOOLEAN /\ fallback' \in BOOLEAN /\ recovery' = recovery
      /\ push' \in BOOLEAN /\ (push' => s.push)
      /\ lookups' \subseteq {PushOf(t) : t \in Settings} /\ LookupsForPush'
      /\ (watcher' \/ fallback' => s.inotify) /\ ~(watcher' /\ fallback')
      /\ (watcher' \/ fallback' \/ s.interval \/ ~s.inotify \/ same)
  BY Reconfigured
<1>2. Flags'
  <2>1. recovery \in BOOLEAN /\ lost \in BOOLEAN /\ settings' \in Settings
    BY DEF RuntimeInv, Flags
  <2>2. localTimer' \in BOOLEAN
    BY <1>1, SettingTypes
  <2> QED
    BY <1>1, <2>1, <2>2 DEF Flags
<1>3. Configured'
  BY <1>1 DEF Configured
<1>4. RunningAsConfigured'
  BY <1>1 DEF RunningAsConfigured
<1>5. DetectionLostOnlyBy'
  <2>1. SUFFICES ASSUME s.inotify, ~watcher', ~fallback', ~recovery', ~s.interval
                 PROVE  relinquished'
    BY <1>1 DEF DetectionLostOnlyBy, LocalDetection
  <2>2. same
    BY <1>1, <2>1
  <2>3. settings.inotify = s.inotify
    BY <2>2, Signatures
  <2> QED
    BY <1>1, <2>1, <2>2, <2>3 DEF Degraded
<1> QED
  BY <1>1, <1>2, <1>3, <1>4, <1>5 DEF RuntimeInv

(* Starting configures everything for the first time.                      *)
LEMMA StartInv == ASSUME RuntimeInv, Start PROVE RuntimeInv'
<1>1. life = "new" /\ life' = "started" /\ Reconfigure(settings, pushSig)
        /\ settings' = settings /\ sleeps' = sleeps /\ lost' = lost
        /\ relinquished' = relinquished
  BY DEF Start
<1>2. settings \in Settings /\ sleeps \in 0 .. MaxSleeps /\ relinquished \in BOOLEAN
  BY DEF RuntimeInv, Flags
<1> QED
  BY <1>1, <1>2, ReconfigureInv

(* Reconfiguring for the settings there are changes no part's signature.   *)
LEMMA AgainInv ==
  ASSUME RuntimeInv, life = "started", Reconnects, life' = life, settings' = settings,
         sleeps' \in 0 .. MaxSleeps, lost' = lost, relinquished' = relinquished
  PROVE  RuntimeInv'
<1>1. Reconfigure(settings, Unset)
  BY DEF Reconnects
<1>2. settings \in Settings /\ relinquished \in BOOLEAN
  BY DEF RuntimeInv, Flags
<1>3. Degraded /\ ~settings.interval => relinquished
  BY DEF RuntimeInv, Configured, DetectionLostOnlyBy, LocalDetection, Degraded
<1> QED
  BY <1>1, <1>2, <1>3, ReconfigureInv

(* A step that leaves everything but the timers of wake-ups alone.         *)
LEMMA IdleInv ==
  ASSUME RuntimeInv, NotReconfigured, life' = life, life # "started" \/ settings' = settings,
         settings' \in Settings, sleeps' \in 0 .. MaxSleeps, lost' = lost,
         relinquished' \in BOOLEAN, life = "started" => relinquished' = relinquished
  PROVE  RuntimeInv'
<1> USE DEF NotReconfigured, sigVars, pushVars, RuntimeInv
<1>1. Flags'
  BY DEF Flags
<1>2. Configured' /\ LookupsForPush'
  BY DEF Configured, LookupsForPush
<1>3. RunningAsConfigured' /\ DetectionLostOnlyBy'
  BY DEF RunningAsConfigured, DetectionLostOnlyBy, LocalDetection, Configured
<1> QED
  BY <1>1, <1>2, <1>3

(* Saving settings, waking up and reconnecting.                            *)
LEMMA SaveSettingsInv ==
  ASSUME RuntimeInv, NEW s \in Settings, SaveSettings(s) PROVE RuntimeInv'
<1>1. /\ settings' = s /\ life' = life /\ sleeps' = sleeps /\ lost' = lost
      /\ relinquished' \in BOOLEAN
      /\ sleeps \in 0 .. MaxSleeps
  BY DEF SaveSettings, RuntimeInv, Flags
<1>2. CASE life = "started"
  <2>1. Reconfigure(s, pushSig)
    BY <1>2 DEF SaveSettings
  <2>2. ASSUME InotifyOf(s) = InotifyOf(settings), Degraded, ~s.interval PROVE relinquished'
    BY <1>2, <2>2
    DEF SaveSettings, RuntimeInv, Configured, DetectionLostOnlyBy, LocalDetection, Degraded
  <2> QED
    BY <1>1, <1>2, <2>1, <2>2, ReconfigureInv
<1>3. CASE life # "started"
  <2>1. NotReconfigured
    BY <1>3 DEF SaveSettings
  <2> QED
    BY <1>1, <1>3, <2>1, IdleInv
<1> QED
  BY <1>2, <1>3

(* Waking up and reconnecting configure for the settings there are.        *)
LEMMA ResumedInv == ASSUME RuntimeInv, Resumed PROVE RuntimeInv'
<1>1. /\ sleeps' \in 0 .. MaxSleeps /\ settings' = settings /\ life' = life /\ lost' = lost
      /\ relinquished' = relinquished /\ settings \in Settings
      /\ relinquished \in BOOLEAN
  <2>1. sleeps \in 0 .. MaxSleeps /\ sleeps > 0 /\ sleeps' = sleeps - 1
    BY DEF Resumed, OneShot, RuntimeInv, Flags
  <2>2. sleeps' \in 0 .. MaxSleeps
    BY <2>1, SleepsAssumption
  <2> QED
    BY <2>2 DEF Resumed, RuntimeInv, Flags
<1>2. (life = "started" /\ Reconnects) \/ NotReconfigured
  BY DEF Resumed, Reconnects
<1> QED
  BY <1>1, <1>2, AgainInv, IdleInv

(* So does a new password.                                                 *)
LEMMA AuthenticationRestoredInv ==
  ASSUME RuntimeInv, AuthenticationRestored PROVE RuntimeInv'
<1>1. /\ sleeps' \in 0 .. MaxSleeps /\ settings' = settings /\ life' = life /\ lost' = lost
      /\ relinquished' = relinquished /\ life = "started" /\ Reconnects
  BY DEF AuthenticationRestored, RuntimeInv, Flags
<1> QED
  BY <1>1, AgainInv

(* Stopping turns everything off that runs.                                *)
LEMMA StopInv == ASSUME RuntimeInv, Stop PROVE RuntimeInv'
<1> USE DEF Stop
<1>1. /\ life' = "stopped" /\ recovery' = FALSE /\ settings' = settings /\ lookups' = lookups
      /\ sleeps' = sleeps /\ lost' = lost /\ relinquished' = relinquished
  BY DEF RecoveryRemoved
<1>2. Flags'
  BY <1>1 DEF RuntimeInv, Flags
<1>3. Configured'
  BY <1>1 DEF Configured
<1>4. LookupsForPush' /\ RunningAsConfigured' /\ DetectionLostOnlyBy'
  BY <1>1 DEF RuntimeInv, LookupsForPush, RunningAsConfigured, DetectionLostOnlyBy
<1> QED
  BY <1>1, <1>2, <1>3, <1>4 DEF RuntimeInv

(* A watcher that fails is replaced by the fallback or the interval, one   *)
(* that lost events by the recovery, and that by a new watcher.            *)
LEMMA WatcherInv ==
  ASSUME RuntimeInv, WatcherFails \/ Overflow \/ Recover \/ LocalRequest
  PROVE  RuntimeInv'
<1>1. /\ settings' = settings /\ life' = life /\ sleeps' = sleeps /\ lookups' = lookups
      /\ timersSig' = timersSig /\ inotifySig' = inotifySig /\ pushSig' = pushSig
      /\ localTimer' = localTimer /\ remoteTimer' = remoteTimer /\ push' = push
      /\ relinquished' = relinquished
  BY DEF WatcherFails, Overflow, Recover, LocalRequest, sigVars, pushVars
<1>2. settings.inotify \in BOOLEAN /\ settings.interval \in BOOLEAN
  BY SettingTypes DEF RuntimeInv
<1>3. life = "started" => localTimer = settings.interval
  BY DEF RuntimeInv, Configured
<1>4. life = "started" \/ LocalRequest
  BY DEF WatcherFails, Overflow, Recover, RuntimeInv, Configured
<1>5. /\ watcher' \in BOOLEAN /\ fallback' \in BOOLEAN /\ recovery' \in BOOLEAN
      /\ lost' \in BOOLEAN
  BY <1>2 DEF WatcherFails, Overflow, Recover, LocalRequest, FallBack, NewWatcher, RuntimeInv,
              Flags
<1>6. /\ (watcher' \/ fallback' => settings.inotify) /\ ~(watcher' /\ fallback')
      /\ life # "started" => UNCHANGED <<watcher, fallback, recovery>>
  BY <1>2, <1>4
  DEF WatcherFails, Overflow, Recover, LocalRequest, FallBack, NewWatcher, RuntimeInv,
      RunningAsConfigured, Flags
<1>7. life = "started" /\ settings.inotify /\ ~watcher' /\ ~fallback' /\ ~recovery'
        /\ ~settings.interval => relinquished
  BY <1>2, <1>3
  DEF WatcherFails, Overflow, Recover, LocalRequest, FallBack, NewWatcher, RuntimeInv,
      DetectionLostOnlyBy, LocalDetection, Flags
<1>8. Flags'
  BY <1>1, <1>5 DEF RuntimeInv, Flags
<1>9. Configured'
  BY <1>1, <1>6 DEF RuntimeInv, Configured
<1>10. RunningAsConfigured'
  BY <1>1, <1>6 DEF RuntimeInv, RunningAsConfigured
<1>11. DetectionLostOnlyBy'
  BY <1>1, <1>3, <1>7 DEF DetectionLostOnlyBy, LocalDetection
<1> QED
  BY <1>1, <1>8, <1>9, <1>10, <1>11 DEF RuntimeInv, LookupsForPush

(* A credential enables push only for the signature that is configured.    *)
LEMMA LookupDoneInv ==
  ASSUME RuntimeInv, NEW sig \in lookups, LookupDone(sig) PROVE RuntimeInv'
<1>1. /\ settings' = settings /\ life' = life /\ sleeps' = sleeps
      /\ timersSig' = timersSig /\ inotifySig' = inotifySig /\ pushSig' = pushSig
      /\ localTimer' = localTimer /\ remoteTimer' = remoteTimer /\ watcher' = watcher
      /\ fallback' = fallback /\ recovery' = recovery /\ lost' = lost
      /\ relinquished' = relinquished /\ lookups' = lookups \ {sig}
  BY DEF LookupDone, sigVars, localVars
<1>2. push' = push \/ (push' = TRUE /\ life = "started" /\ sig = pushSig)
  BY DEF LookupDone, Accepted
<1>3. push' \in BOOLEAN /\ (push' # push => life = "started" /\ settings.push)
  <2>1. life = "started" => pushSig.push = settings.push
    BY DEF RuntimeInv, Configured, PushOf
  <2>2. sig.push
    BY DEF RuntimeInv, LookupsForPush
  <2> QED
    BY <1>2, <2>1, <2>2 DEF RuntimeInv, Flags
<1>4. Flags'
  BY <1>1, <1>3 DEF RuntimeInv, Flags
<1>5. Configured'
  BY <1>1, <1>3 DEF RuntimeInv, Configured, Flags
<1>6. RunningAsConfigured' /\ DetectionLostOnlyBy' /\ LookupsForPush'
  BY <1>1, <1>3
  DEF RuntimeInv, RunningAsConfigured, DetectionLostOnlyBy, LocalDetection, LookupsForPush, Flags
<1> QED
  BY <1>1, <1>4, <1>5, <1>6 DEF RuntimeInv

(* Only a controller that wants push looks its credential up again.        *)
LEMMA SyncNowInv == ASSUME RuntimeInv, SyncNow PROVE RuntimeInv'
<1>1. /\ settings' = settings /\ life' = life /\ sleeps' = sleeps /\ life = "started"
      /\ timersSig' = timersSig /\ inotifySig' = inotifySig /\ pushSig' = pushSig
      /\ localTimer' = localTimer /\ remoteTimer' = remoteTimer /\ watcher' = watcher
      /\ fallback' = fallback /\ recovery' = recovery /\ lost' = FALSE
      /\ relinquished' = relinquished
  BY DEF SyncNow, sigVars
<1>2. push' = push /\ lookups' = lookups \cup {pushSig} /\ pushSig = PushOf(settings)
        /\ pushSig.push
  BY DEF SyncNow, ConfigurePush, RuntimeInv, Configured, PushOf
<1>3. Flags'
  BY <1>1, <1>2 DEF RuntimeInv, Flags
<1>4. Configured' /\ RunningAsConfigured'
  BY <1>1, <1>2 DEF RuntimeInv, Configured, RunningAsConfigured
<1>5. DetectionLostOnlyBy' /\ LookupsForPush'
  BY <1>1, <1>2 DEF RuntimeInv, DetectionLostOnlyBy, LocalDetection, LookupsForPush
<1> QED
  BY <1>1, <1>2, <1>3, <1>4, <1>5 DEF RuntimeInv

(* A wake-up only starts its timer.                                        *)
LEMMA WakesUpInv == ASSUME RuntimeInv, WakesUp PROVE RuntimeInv'
<1>1. sleeps' \in 0 .. MaxSleeps
  BY SleepsAssumption DEF WakesUp, RuntimeInv, Flags
<1>2. NotReconfigured /\ life' = life /\ settings' = settings /\ lost' = lost
        /\ relinquished' = relinquished
  BY DEF WakesUp, NotReconfigured, localVars
<1> QED
  BY <1>1, <1>2, IdleInv DEF RuntimeInv, Flags

(* The invariant is inductive.                                             *)
LEMMA RuntimeNextInv == ASSUME RuntimeInv, [Next]_vars PROVE RuntimeInv'
<1>1. CASE UNCHANGED vars
  <2>1. NotReconfigured /\ life' = life /\ settings' = settings /\ lost' = lost
          /\ relinquished' = relinquished /\ sleeps' = sleeps
    BY <1>1 DEF vars, NotReconfigured, localVars
  <2> QED
    BY <2>1, IdleInv DEF RuntimeInv, Flags
<1>2. CASE \E s \in Settings : OneChanged(s, settings) /\ SaveSettings(s)
  BY <1>2, SaveSettingsInv
<1>3. CASE \E sig \in lookups : LookupDone(sig)
  BY <1>3, LookupDoneInv
<1> QED
  BY <1>1, <1>2, <1>3, StartInv, StopInv, WatcherInv, WakesUpInv, ResumedInv,
     AuthenticationRestoredInv, SyncNowInv DEF Next

(* So it holds of every state the controller reaches.                      *)
LEMMA RuntimeAlways == Spec => []RuntimeInv
  BY RuntimeInitInv, RuntimeNextInv, PTL DEF Spec

(* Every variable of the controller keeps its type.                        *)
THEOREM RuntimeTypeCorrect == Spec => []TypeOK
  BY RuntimeInvTyped, RuntimeAlways, PTL

(* A started controller told to watch the folder notices local changes     *)
(* unless the user turned off the interval that had replaced its watcher   *)
(* (RuntimeController._inotify_degraded and reconfigure).                  *)
THEOREM DetectionKept == Spec => []DetectionLostOnlyBy
<1>1. RuntimeInv => DetectionLostOnlyBy
  BY DEF RuntimeInv
<1> QED
  BY <1>1, RuntimeAlways, PTL

(* What runs is what the settings ask for now (RuntimeController           *)
(* secret_ready and _recover_inotify_overflow compare before they act).    *)
THEOREM RunsAsConfigured == Spec => []RunningAsConfigured
<1>1. RuntimeInv => RunningAsConfigured
  BY DEF RuntimeInv
<1> QED
  BY <1>1, RuntimeAlways, PTL

(* A stopped controller starts nothing again (RuntimeController.stop).     *)
THEOREM StoppedForGood == Spec => []NothingAfterStop
<1>1. RuntimeInv => NothingAfterStop
  BY DEF RuntimeInv, Configured, NothingAfterStop
<1> QED
  BY <1>1, RuntimeAlways, PTL

-----------------------------------------------------------------------------
(* The push client.  Calls from the runtime leave one attempt.             *)
LEMMA CalledOne == ASSUME OneAttempt, Called PROVE OneAttempt'
<1>1. ASSUME NEW on \in BOOLEAN, NEW changed \in BOOLEAN, Configure(on, changed)
      PROVE  OneAttempt'
  BY <1>1 DEF Configure, Connect, Forget, Rest, socketVars, attemptVars, OneAttempt
<1>2. ASSUME NEW up \in BOOLEAN, SetOnline(up) PROVE OneAttempt'
  <2>1. CASE up /\ enabled /\ ~connection
    <3>1. connection' = connection /\ reconnect_source' = FALSE
      BY <1>2, <2>1 DEF SetOnline, socketVars, Connect
    <3> QED
      BY <2>1, <3>1 DEF OneAttempt
  <2>2. CASE up /\ ~(enabled /\ ~connection)
    <3>1. connection' = connection /\ reconnect_source' = reconnect_source /\ flight' = flight
      BY <1>2, <2>2 DEF SetOnline, socketVars, attemptVars
    <3> QED
      BY <3>1 DEF OneAttempt
  <2>3. CASE ~up
    BY <1>2, <2>3 DEF SetOnline, Forget, Rest, OneAttempt
  <2> QED
    BY <2>1, <2>2, <2>3
<1>3. ASSUME NEW keep \in BOOLEAN, Disconnect(keep) PROVE OneAttempt'
  BY <1>3 DEF Disconnect, Forget, Rest, OneAttempt
<1> QED
  BY <1>1, <1>2, <1>3 DEF Called

(* An answer of the current generation moves the attempt on or ends it.    *)
LEMMA AnsweredOne == ASSUME OneAttempt, Answered PROVE OneAttempt'
<1>1. CASE Discovered
  BY <1>1 DEF Discovered, Current, ScheduleReconnect, socketVars, OneAttempt
<1>2. CASE Received
  BY <1>2 DEF Received, Current, socketVars, OneAttempt
<1>3. CASE Opened
  BY <1>3 DEF Opened, Current, ScheduleReconnect, OneAttempt
<1> QED
  BY <1>1, <1>2, <1>3 DEF Answered

(* So does every other step: a pending reconnection and the connection it  *)
(* replaces go together.                                                   *)
LEMMA PushNextOne == ASSUME OneAttempt, [PushNext]_clientVars PROVE OneAttempt'
<1> USE DEF OneAttempt
<1>1. CASE Reconnect
  BY <1>1 DEF Reconnect, Connect
<1>2. CASE \E stage \in Stage : Dropped(stage)
  BY <1>2 DEF Dropped, socketVars
<1>3. CASE Authenticated \/ Refused \/ OldClosed
  <2>1. connection' = connection /\ reconnect_source' = reconnect_source /\ flight' = flight
    BY <1>3 DEF Authenticated, Refused, OldClosed, attemptVars, socketVars
  <2> QED
    BY <2>1
<1>4. CASE Closed
  BY <1>4 DEF Closed, ClosedRetry, ScheduleReconnect
<1>5. CASE UNCHANGED clientVars
  BY <1>5 DEF clientVars, attemptVars, socketVars
<1> QED
  BY <1>1, <1>2, <1>3, <1>4, <1>5, CalledOne, AnsweredOne DEF PushNext

(* At most one request in flight, open connection or pending reconnection  *)
(* exists, in whatever order calls, answers and signals come               *)
(* (NotifyPushClient.connect and _schedule_reconnect).                     *)
THEOREM OneAttemptOnly == PushSpec => []OneAttempt
<1>1. PushInit => OneAttempt
  BY DEF PushInit, OneAttempt
<1> QED
  BY <1>1, PushNextOne, PTL DEF PushSpec

(* What a client that stops trying was told or answered.                   *)
GivenReason ==
  Trying /\ ~Trying' /\ enabled' /\ online' =>
    \/ \E keep \in BOOLEAN : Disconnect(keep)
    \/ shown' \in {"AUTH_REQUIRED", "UNSUPPORTED"}
    \/ connection /\ intentional_close

(* A new configuration or network leaves an enabled client connected or    *)
(* connecting.                                                             *)
LEMMA CalledGoesOn == ASSUME Called PROVE GivenReason
<1>1. ASSUME NEW on \in BOOLEAN, NEW changed \in BOOLEAN, Configure(on, changed)
      PROVE  enabled' /\ online' => connection' \/ flight' = "discover"
  BY <1>1 DEF Configure, Connect, Forget, Rest, socketVars, attemptVars
<1>2. ASSUME NEW up \in BOOLEAN, SetOnline(up), enabled', online', Trying PROVE Trying'
  BY <1>2 DEF SetOnline, Connect, socketVars, attemptVars, Trying
<1> QED
  BY <1>1, <1>2 DEF Called, GivenReason, Trying

(* An answer that ends an attempt schedules the next or is definite.       *)
LEMMA AnsweredGoesOn == ASSUME Answered PROVE GivenReason
<1> USE DEF GivenReason, Trying
<1>1. CASE Discovered
  <2>1. ASSUME ScheduleReconnect, enabled', online' PROVE reconnect_source'
    BY <1>1, <2>1 DEF Discovered, ScheduleReconnect, calledVars
  <2>2. \/ ScheduleReconnect
        \/ shown' \in {"AUTH_REQUIRED", "UNSUPPORTED"}
        \/ flight' \in {"pre_auth", "open"}
    BY <1>1 DEF Discovered
  <2> QED
    BY <2>1, <2>2
<1>2. CASE Received
  BY <1>2 DEF Received
<1>3. CASE Opened
  BY <1>3 DEF Opened, ScheduleReconnect, calledVars
<1> QED
  BY <1>1, <1>2, <1>3 DEF Answered

(* A client that is enabled and online stops trying only by disconnect, on *)
(* a definite answer, or when it takes a loss for an intentional close     *)
(* (NotifyPushClient._on_closed and _schedule_reconnect).                  *)
THEOREM AbandonedForAReason == PushSpec => AbandonedOnlyBy
<1>1. [PushNext]_clientVars =>
        [Trying /\ ~Trying' /\ enabled' /\ online' =>
           \/ \E keep \in BOOLEAN : Disconnect(keep)
           \/ shown' \in {"AUTH_REQUIRED", "UNSUPPORTED"}
           \/ connection /\ intentional_close]_clientVars
  <2> SUFFICES ASSUME PushNext PROVE GivenReason
    BY DEF GivenReason
  <2>1. CASE Reconnect
    BY <2>1 DEF Reconnect, Connect, calledVars, GivenReason, Trying
  <2>2. CASE \E stage \in Stage : Dropped(stage)
    BY <2>2 DEF Dropped, socketVars, GivenReason, Trying
  <2>3. CASE Authenticated \/ Refused \/ OldClosed
    BY <2>3 DEF Authenticated, Refused, OldClosed, attemptVars, socketVars, GivenReason, Trying
  <2>4. CASE Closed
    BY <2>4 DEF Closed, ClosedRetry, ScheduleReconnect, calledVars, GivenReason, Trying
  <2> QED
    BY <2>1, <2>2, <2>3, <2>4, CalledGoesOn, AnsweredGoesOn DEF PushNext
<1> QED
  BY <1>1, PTL DEF PushSpec, AbandonedOnlyBy

-----------------------------------------------------------------------------
(* The types of the push client.                                           *)
USE DEF Stage, LongestBackoff

(* The parts of PushTypeOK, which the provers take better one at a time.   *)
FlagsTyped ==
  /\ enabled \in BOOLEAN /\ online \in BOOLEAN /\ connection \in BOOLEAN
  /\ reconnect_source \in BOOLEAN /\ intentional_close \in BOOLEAN
  /\ pre_auth_token \in BOOLEAN /\ authenticated \in BOOLEAN /\ force_password_auth \in BOOLEAN

ValuesTyped ==
  /\ flight \in Stage \cup {"none"} /\ stale \subseteq Stage /\ closing \in 0 .. MaxClosing
  /\ endpoints \in {"none", "plain", "pre_auth"} /\ auth_mode \in {"", "pre_auth", "password"}
  /\ backoff \in 0 .. LongestBackoff
  /\ shown \in {"DISABLED", "CONNECTING", "CONNECTED", "RECONNECTING",
                "UNSUPPORTED", "AUTH_REQUIRED"}

PushTyped == FlagsTyped /\ ValuesTyped

(* What disconnect forgets has its type.                                   *)
LEMMA ForgetTyped ==
  ASSUME PushTyped, Forget \/ UNCHANGED <<socketVars, endpoints, authVars>>
  PROVE  /\ connection' \in BOOLEAN /\ closing' \in 0 .. MaxClosing
         /\ intentional_close' \in BOOLEAN /\ endpoints' \in {"none", "plain", "pre_auth"}
         /\ pre_auth_token' \in BOOLEAN /\ authenticated' \in BOOLEAN
         /\ auth_mode' \in {"", "pre_auth", "password"} /\ force_password_auth' \in BOOLEAN
<1>1. closing' \in 0 .. MaxClosing
  <2>1. closing \in 0 .. MaxClosing
    BY DEF PushTyped, FlagsTyped, ValuesTyped
  <2>2. closing' = closing \/ (closing < MaxClosing /\ closing' = closing + 1)
    BY DEF Forget, socketVars
  <2> QED
    BY <2>1, <2>2, ClosingAssumption
<1>2. CASE Forget
  BY <1>1, <1>2 DEF PushTyped, FlagsTyped, ValuesTyped, Forget
<1>3. CASE UNCHANGED <<socketVars, endpoints, authVars>>
  BY <1>1, <1>3 DEF PushTyped, FlagsTyped, ValuesTyped, socketVars, authVars
<1> QED
  BY <1>2, <1>3

(* An attempt that begins or ends is at one of its stages.                 *)
LEMMA AttemptTyped ==
  ASSUME PushTyped, Connect \/ Rest \/ UNCHANGED attemptVars
  PROVE  flight' \in Stage \cup {"none"} /\ stale' \subseteq Stage /\ reconnect_source' \in BOOLEAN
BY DEF PushTyped, FlagsTyped, ValuesTyped, Connect, Rest, Abandoned, attemptVars, Stage

(* Nor does a scheduled reconnection.                                      *)
LEMMA RetryTyped ==
  ASSUME PushTyped, ScheduleReconnect
  PROVE  /\ flight' \in Stage \cup {"none"} /\ reconnect_source' \in BOOLEAN
         /\ backoff' \in 0 .. LongestBackoff
         /\ shown' \in {"DISABLED", "CONNECTING", "CONNECTED", "RECONNECTING",
                        "UNSUPPORTED", "AUTH_REQUIRED"}
<1>1. NextDelay \in 0 .. LongestBackoff
  <2>1. backoff \in 0 .. LongestBackoff
    BY DEF PushTyped, FlagsTyped, ValuesTyped
  <2> QED
    BY <2>1 DEF NextDelay
<1> QED
  BY <1>1 DEF ScheduleReconnect, PushTyped, FlagsTyped, ValuesTyped

(* The runtime's calls.                                                    *)
LEMMA CalledTyped == ASSUME PushTyped, Called PROVE PushTyped'
<1>1. ASSUME NEW on \in BOOLEAN, NEW changed \in BOOLEAN, Configure(on, changed)
      PROVE  PushTyped'
  <2>1. Forget \/ UNCHANGED <<socketVars, endpoints, authVars>>
    BY <1>1 DEF Configure
  <2>2. Connect \/ Rest \/ UNCHANGED attemptVars
    BY <1>1 DEF Configure
  <2>3. /\ enabled' \in BOOLEAN /\ online' \in BOOLEAN /\ backoff' \in 0 .. LongestBackoff
        /\ shown' \in {"CONNECTING", "DISABLED", shown}
    BY <1>1 DEF Configure, Connect, PushTyped, FlagsTyped, ValuesTyped
  <2> QED
    BY <2>1, <2>2, <2>3, ForgetTyped, AttemptTyped DEF PushTyped, FlagsTyped, ValuesTyped
<1>2. ASSUME NEW up \in BOOLEAN, SetOnline(up) PROVE PushTyped'
  <2>1. Forget \/ UNCHANGED <<socketVars, endpoints, authVars>>
    BY <1>2 DEF SetOnline
  <2>2. Connect \/ Rest \/ UNCHANGED attemptVars
    BY <1>2 DEF SetOnline
  <2>3. /\ enabled' \in BOOLEAN /\ online' \in BOOLEAN /\ backoff' \in 0 .. LongestBackoff
        /\ shown' \in {"CONNECTING", shown}
    BY <1>2 DEF SetOnline, Connect, PushTyped, FlagsTyped, ValuesTyped
  <2> QED
    BY <2>1, <2>2, <2>3, ForgetTyped, AttemptTyped DEF PushTyped, FlagsTyped, ValuesTyped
<1>3. ASSUME NEW keep \in BOOLEAN, Disconnect(keep) PROVE PushTyped'
  <2>1. /\ enabled' \in BOOLEAN /\ online' \in BOOLEAN /\ backoff' \in 0 .. LongestBackoff
        /\ shown' \in {"DISABLED", shown}
    BY <1>3 DEF Disconnect, calledVars, PushTyped, FlagsTyped, ValuesTyped
  <2> QED
    BY <1>3, <2>1, ForgetTyped, AttemptTyped DEF Disconnect, PushTyped, FlagsTyped, ValuesTyped
<1> QED
  BY <1>1, <1>2, <1>3 DEF Called

(* The answers, each of which may lead to another attempt.                 *)
LEMMA AnsweredTyped == ASSUME PushTyped, Answered PROVE PushTyped'
<1>1. CASE Discovered
  <2>1. /\ UNCHANGED <<calledVars, stale, socketVars, authenticated, auth_mode,
                       force_password_auth>>
        /\ endpoints' \in {"none", "plain", "pre_auth"} /\ pre_auth_token' \in BOOLEAN
    BY <1>1 DEF Discovered, PushTyped, FlagsTyped, ValuesTyped
  <2>2. ScheduleReconnect \/ /\ flight' \in Stage \cup {"none"}
                             /\ shown' \in {"AUTH_REQUIRED", "UNSUPPORTED", shown}
                             /\ UNCHANGED <<reconnect_source, backoff>>
    BY <1>1 DEF Discovered, Stage
  <2>3. FlagsTyped'
    BY <2>1, <2>2, RetryTyped DEF PushTyped, FlagsTyped, calledVars, socketVars
  <2>4. ValuesTyped'
    BY <2>1, <2>2, RetryTyped DEF PushTyped, ValuesTyped, calledVars, socketVars
  <2> QED
    BY <2>3, <2>4 DEF PushTyped
<1>2. CASE Received
  BY <1>2 DEF Received, PushTyped, FlagsTyped, ValuesTyped, calledVars, socketVars, Stage
<1>3. CASE Opened
  <2>1. /\ UNCHANGED <<calledVars, stale, closing, intentional_close, endpoints, pre_auth_token,
                       force_password_auth>>
        /\ connection' \in BOOLEAN /\ authenticated' \in BOOLEAN
        /\ auth_mode' \in {"", "pre_auth", "password"}
    BY <1>3 DEF Opened, PushTyped, FlagsTyped, ValuesTyped
  <2>2. ScheduleReconnect \/ (flight' = "none" /\ UNCHANGED <<reconnect_source, backoff, shown>>)
    BY <1>3 DEF Opened
  <2> QED
    BY <2>1, <2>2, RetryTyped DEF PushTyped, FlagsTyped, ValuesTyped, calledVars
<1> QED
  BY <1>1, <1>2, <1>3 DEF Answered

(* The timer and the signals of the socket.                                *)
LEMMA SignalTyped ==
  ASSUME PushTyped, Reconnect \/ Authenticated \/ Refused \/ OldClosed \/ Closed
  PROVE  PushTyped'
<1>1. CASE Reconnect
  <2>1. flight' \in Stage \cup {"none"} /\ stale' \subseteq Stage /\ reconnect_source' \in BOOLEAN
        /\ shown' \in {"CONNECTING", shown}
    BY <1>1 DEF Reconnect, Connect, Abandoned, PushTyped, FlagsTyped, ValuesTyped, Stage
  <2> QED
    BY <1>1, <2>1 DEF Reconnect, calledVars, authVars, PushTyped, FlagsTyped, ValuesTyped
<1>2. CASE Authenticated
  <2>1. /\ UNCHANGED <<calledVars, attemptVars, socketVars, endpoints, pre_auth_token, auth_mode>>
        /\ authenticated' = TRUE /\ force_password_auth' = FALSE /\ backoff' = 0
        /\ shown' = "CONNECTED" /\ 0 \in 0 .. LongestBackoff
    BY <1>2 DEF Authenticated
  <2>2. FlagsTyped'
    BY <2>1 DEF PushTyped, FlagsTyped, calledVars, attemptVars, socketVars
  <2>3. ValuesTyped'
    BY <2>1 DEF PushTyped, ValuesTyped, calledVars, attemptVars, socketVars
  <2> QED
    BY <2>2, <2>3 DEF PushTyped
<1>3. CASE Refused
  <2>1. FlagsTyped'
    BY <1>3
       DEF Refused, PushTyped, FlagsTyped, calledVars, attemptVars, socketVars, authVars
  <2>2. ValuesTyped'
    BY <1>3
       DEF Refused, PushTyped, ValuesTyped, calledVars, attemptVars, socketVars, authVars
  <2> QED
    BY <2>1, <2>2 DEF PushTyped
<1>4. CASE OldClosed
  <2>1. closing \in 0 .. MaxClosing
    BY DEF PushTyped, FlagsTyped, ValuesTyped
  <2>2. closing > 0 /\ closing' = closing - 1
    BY <1>4 DEF OldClosed
  <2>3. closing' \in 0 .. MaxClosing
    BY <2>1, <2>2, ClosingAssumption
  <2>4. FlagsTyped'
    BY <1>4 DEF OldClosed, PushTyped, FlagsTyped, calledVars, attemptVars, authVars
  <2>5. ValuesTyped'
    BY <1>4, <2>3
       DEF OldClosed, PushTyped, ValuesTyped, calledVars, attemptVars, authVars
  <2> QED
    BY <2>4, <2>5 DEF PushTyped
<1>5. CASE Closed
  <2>1. /\ UNCHANGED <<calledVars, stale, closing, endpoints, authenticated, auth_mode>>
        /\ connection' \in BOOLEAN /\ intentional_close' \in BOOLEAN
        /\ force_password_auth' \in BOOLEAN /\ pre_auth_token' \in BOOLEAN
    BY <1>5 DEF Closed, Fallback, PushTyped, FlagsTyped, ValuesTyped
  <2>2. ScheduleReconnect \/ UNCHANGED <<flight, reconnect_source, shown, backoff>>
    BY <1>5 DEF Closed, ClosedRetry
  <2>3. FlagsTyped'
    BY <2>1, <2>2, RetryTyped DEF PushTyped, FlagsTyped, calledVars
  <2>4. ValuesTyped'
    BY <2>1, <2>2, RetryTyped DEF PushTyped, ValuesTyped, calledVars
  <2> QED
    BY <2>3, <2>4 DEF PushTyped
<1> QED
  BY <1>1, <1>2, <1>3, <1>4, <1>5

(* Every variable of the push client keeps its type, for any number of     *)
(* closed connections whose signal may still come.                         *)
THEOREM PushTypeCorrect == PushSpec => []PushTypeOK
<1>1. PushInit => PushTyped
  <2>1. PushInit => FlagsTyped
    BY DEF PushInit, PushTyped, FlagsTyped
  <2>2. 0 \in 0 .. MaxClosing /\ 0 \in 0 .. LongestBackoff
    BY ClosingAssumption
  <2>3. PushInit => ValuesTyped
    BY <2>2 DEF PushInit, ValuesTyped
  <2> QED
    BY <2>1, <2>3 DEF PushTyped
<1>2. PushTyped /\ [PushNext]_clientVars => PushTyped'
  <2> SUFFICES ASSUME PushTyped, [PushNext]_clientVars PROVE PushTyped'
    OBVIOUS
  <2>1. CASE (\E stage \in Stage : Dropped(stage)) \/ UNCHANGED clientVars
    <3>1. FlagsTyped'
      BY <2>1
         DEF Dropped, PushTyped, FlagsTyped, clientVars, calledVars, attemptVars, socketVars,
             authVars
    <3>2. ValuesTyped'
      BY <2>1
         DEF Dropped, PushTyped, ValuesTyped, clientVars, calledVars, attemptVars, socketVars,
             authVars
    <3> QED
      BY <3>1, <3>2 DEF PushTyped
  <2> QED
    BY <2>1, CalledTyped, AnsweredTyped, SignalTyped DEF PushNext
<1>3. PushTyped => PushTypeOK
  BY Zenon DEF PushTyped, FlagsTyped, ValuesTyped, PushTypeOK
<1> QED
  BY <1>1, <1>2, <1>3, PTL DEF PushSpec

-----------------------------------------------------------------------------
(* What the run composes: a step of it is one of one part, so that the      *)
(* parts keep their types.                                                 *)
THEOREM PartsKeepTypes == AllSpec => []PartsTyped
<1>1. AllInit => Init /\ PushInit
  BY DEF AllInit
<1>2. [AllNext]_allVars => [Next]_vars /\ [PushNext]_clientVars
  BY DEF AllNext, allVars
<1>3. AllSpec => Spec /\ PushSpec
  BY <1>1, <1>2, PTL DEF AllSpec, Spec, PushSpec
<1>4. TypeOK /\ PushTypeOK => PartsTyped
  BY DEF PartsTyped
<1> QED
  BY <1>3, <1>4, RuntimeTypeCorrect, PushTypeCorrect, PTL
=============================================================================
