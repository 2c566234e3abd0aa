---------------------------- MODULE SignInProofs ----------------------------
(***************************************************************************)
(* Proofs about the browser login and the two windows that use it, for any *)
(* number of authorizations and attempts: the reconnection window leaks no *)
(* authorization and keeps no revoked password, and the setup assistant    *)
(* finishes with what it stored.  One lemma for each kind of step of the   *)
(* login flow serves both windows.                                         *)
(***************************************************************************)
EXTENDS MCAccount, AccountProofs

-----------------------------------------------------------------------------
(* The login flow and the reconnection window.                             *)

(* The login flow by itself: what may be polled is not canceled and has its*)
(* timer, and what runs uncanceled has somebody waiting for it.            *)
FlowInv ==
  /\ cancelled \in BOOLEAN /\ callback \in BOOLEAN /\ endpoint \in BOOLEAN
  /\ handle \in BOOLEAN /\ polling \in BOOLEAN /\ initiating \in Nat /\ timers \in Nat
  /\ handle = endpoint /\ (endpoint => ~cancelled /\ timers > 0) /\ (polling => endpoint)
  /\ callback => ~cancelled
  /\ ~cancelled /\ ~callback => initiating = 0 /\ ~endpoint

(* The authorizations the server granted by now.                           *)
Granted == 2 .. granted

WindowTyped ==
  /\ closed \in BOOLEAN /\ waiting_box \in BOOLEAN /\ interrupted \in BOOLEAN
  /\ granted \in Nat \ {0}
  /\ pending_result \in {None} \cup Granted /\ retry \in {None} \cup Granted
  /\ in_keyring \in 0 .. granted /\ old_password \in 0 .. granted
  /\ revoked \subseteq 1 .. granted
  /\ validations \subseteq [auth : Granted, current : BOOLEAN]
  /\ writes \subseteq [auth : Granted, step : {"writing", "verifying", "stored", "failed"}]

(* What is being validated, or is to be validated again, is the pending    *)
(* authorization; a closed window has none.                                *)
PendingFollowed ==
  /\ retry # None => retry = pending_result
  /\ \A v \in validations : v.current => v.auth = pending_result
  /\ closed => pending_result = None

(* One thing at a time, as long as no write is interrupted: a lookup, the  *)
(* browser, or the pending authorization, which is the one being written.  *)
OneAtATime ==
  /\ closed => writes = {}
  /\ pending_result # None => waiting_box
  /\ callback \/ "current" \in lookups =>
       waiting_box /\ ~closed /\ pending_result = None /\ writes = {}
  /\ ~(callback /\ "current" \in lookups)
  /\ \A s, t \in writes : s = t
  /\ \A s \in writes :
       s.auth = pending_result /\ (s.step = "stored" => in_keyring = s.auth)
  /\ writes # {} => retry = None /\ \A v \in validations : ~v.current

(* Where the authorizations are, then.                                     *)
Accounted ==
  /\ pending_result \notin revoked
  /\ ~closed => \/ in_keyring \in {None, Old} \cup revoked
                \/ \E s \in writes : s.auth = in_keyring
  /\ \A a \in Granted : a \in {in_keyring, pending_result} \cup revoked

WindowInv ==
  FlowInv /\ WindowTyped /\ PendingFollowed /\ (~interrupted => OneAtATime /\ Accounted)

-----------------------------------------------------------------------------
(* Nothing runs at first.                                                  *)
LEMMA FlowInitInv == ASSUME FlowInit PROVE FlowInv
<1>1. initiating = 0 /\ timers = 0
  BY DEF FlowInit
<1>2. ~cancelled /\ ~callback /\ ~endpoint /\ ~handle /\ ~polling
  BY DEF FlowInit
<1>3. /\ cancelled \in BOOLEAN /\ callback \in BOOLEAN /\ endpoint \in BOOLEAN
      /\ handle \in BOOLEAN /\ polling \in BOOLEAN /\ handle = endpoint
  BY DEF FlowInit
<1> QED
  BY <1>1, <1>2, <1>3 DEF FlowInv

(* The steps of the login flow.                                            *)
LEMMA CancelFlowInv ==
  ASSUME FlowInv, CancelFlow PROVE FlowInv' /\ cancelled' /\ ~callback'
<1>1. /\ handle' = FALSE /\ endpoint' = FALSE /\ polling' = FALSE
      /\ cancelled' = TRUE /\ callback' = FALSE /\ initiating' = initiating
  BY DEF CancelFlow, Reset
<1>2. timers' \in Nat
  BY DEF CancelFlow, Reset, FlowInv
<1> QED
  BY <1>1, <1>2 DEF FlowInv

(* start() makes somebody wait, and the flow run.                          *)
LEMMA StartFlowInv ==
  ASSUME FlowInv, StartFlow PROVE FlowInv' /\ callback' /\ ~cancelled' /\ FlowActive'
<1>1. /\ handle' = FALSE /\ endpoint' = FALSE /\ polling' = FALSE
      /\ cancelled' = FALSE /\ callback' = TRUE
  BY DEF StartFlow, Reset
<1>2. timers' \in Nat /\ initiating' \in Nat /\ initiating' > 0
  BY DEF StartFlow, Reset, FlowInv
<1> QED
  BY <1>1, <1>2 DEF FlowInv, FlowActive

(* An error and an authorization come while somebody waits, who then is not*)
(* waiting any more.                                                       *)
LEMMA FlowEndsInv ==
  ASSUME FlowInv, FlowError \/ PolledResult PROVE FlowInv' /\ callback /\ ~callback'
<1>1. CASE InitiatedFails
  <2>1. initiating > 0 /\ ~cancelled /\ initiating' = initiating - 1 /\ Reset /\ cancelled'
          /\ ~callback' /\ cancelled' \in BOOLEAN /\ callback' \in BOOLEAN
    BY <1>1 DEF InitiatedFails
  <2>2. /\ handle' = FALSE /\ endpoint' = FALSE /\ polling' = FALSE /\ timers' \in Nat
    BY <2>1 DEF Reset, FlowInv
  <2>3. initiating' \in Nat /\ initiating # 0
    BY <2>1 DEF FlowInv
  <2>4. callback
    BY <2>1, <2>3 DEF FlowInv
  <2> QED
    BY <2>1, <2>2, <2>3, <2>4 DEF FlowInv
<1>2. CASE PollExpires \/ PolledResult
  BY <1>2, CancelFlowInv DEF PollExpires, PolledResult
<1> QED
  BY <1>1, <1>2 DEF FlowError

(* The other steps stop what runs only when an answer is refused, and make *)
(* nobody wait.                                                            *)
LEMMA FlowSilentInv ==
  ASSUME FlowInv, FlowSilent
  PROVE  FlowInv' /\ (callback' => callback) /\ (FlowActive => FlowActive' \/ PolledRefused)
<1>1. CASE InitiatedDropped
  <2>1. cancelled /\ initiating' = initiating - 1 /\ initiating > 0
          /\ UNCHANGED <<cancelled, callback, endpoint, timers, handle, polling>>
    BY <1>1 DEF InitiatedDropped
  <2>2. initiating' \in Nat
    BY <2>1 DEF FlowInv
  <2> QED
    BY <2>1, <2>2 DEF FlowInv, FlowActive
<1>2. CASE PollingBegins
  <2>1. ~cancelled /\ initiating' = initiating - 1 /\ initiating > 0 /\ endpoint' = TRUE
          /\ handle' = TRUE /\ timers' = timers + 1
          /\ UNCHANGED <<cancelled, callback, polling>>
    BY <1>2 DEF PollingBegins
  <2>2. initiating' \in Nat /\ timers' \in Nat /\ timers' > 0 /\ initiating # 0
    BY <2>1 DEF FlowInv
  <2> QED
    BY <2>1, <2>2 DEF FlowInv, FlowActive
<1>3. CASE PollEnds
  <2>1. (cancelled \/ ~endpoint) /\ timers' = timers - 1 /\ timers > 0
          /\ UNCHANGED <<cancelled, callback, initiating, endpoint, handle, polling>>
    BY <1>3 DEF PollEnds
  <2>2. timers' \in Nat /\ ~endpoint
    BY <2>1 DEF FlowInv
  <2> QED
    BY <2>1, <2>2 DEF FlowInv, FlowActive
<1>4. CASE PollSent \/ PolledNothing
  <2>1. UNCHANGED <<cancelled, callback, initiating, endpoint, timers, handle>>
          /\ polling' \in BOOLEAN /\ (polling' => endpoint)
    BY <1>4 DEF PollSent, MayPoll, PolledNothing
  <2> QED
    BY <2>1 DEF FlowInv, FlowActive
<1>5. CASE PolledRefused
  BY <1>5, CancelFlowInv DEF PolledRefused
<1> QED
  BY <1>1, <1>2, <1>3, <1>4, <1>5 DEF FlowSilent

-----------------------------------------------------------------------------
(* What becomes of earlier attempts' answers.                              *)
LEMMA Earlier ==
  ASSUME WindowTyped
  PROVE  /\ "current" \notin EarlierLookups
         /\ EarlierValidations \subseteq [auth : Granted, current : BOOLEAN]
         /\ \A v \in EarlierValidations : ~v.current
  BY DEF WindowTyped, EarlierLookups, EarlierValidations

(* What leaves the flow alone keeps what holds of it.                      *)
LEMMA FlowSame ==
  ASSUME FlowInv, UNCHANGED flowVars
  PROVE  FlowInv' /\ callback' = callback /\ (FlowActive <=> FlowActive')
  BY DEF flowVars, FlowInv, FlowActive

RevokedStep ==
  in_keyring \notin revoked /\ ~interrupted' /\ ~Unverified => in_keyring' \notin revoked'

WaitsStep == ~Stranded /\ Stranded' => PolledRefused

(* What every step is shown to do.                                         *)
Kept == WindowInv' /\ RevokedStep /\ WaitsStep

(* A step that moves no password keeps the keyring's one unrevoked.        *)
LEMMA NothingRevoked ==
  ASSUME in_keyring' = in_keyring, revoked' = revoked PROVE RevokedStep
  BY DEF RevokedStep

(* An idle window begins an authorization.                                 *)
LEMMA BeginKept == ASSUME WindowInv, Begin PROVE Kept
<1>1. /\ ~closed /\ ~waiting_box /\ waiting_box' = TRUE /\ retry' = None
      /\ lookups' = EarlierLookups \cup {"current"}
      /\ UNCHANGED <<flowVars, closed, old_password, pending_result, validations, writes,
                     in_keyring, granted, revoked, completed, interrupted>>
  BY DEF Begin
<1>2. FlowInv' /\ callback' = callback
  BY <1>1, FlowSame DEF WindowInv
<1>3. WindowTyped'
  BY <1>1 DEF WindowInv, WindowTyped, Granted
<1>4. PendingFollowed'
  BY <1>1 DEF WindowInv, PendingFollowed
<1>5. ASSUME ~interrupted PROVE OneAtATime' /\ Accounted'
  <2>1. OneAtATime /\ Accounted
    BY <1>5 DEF WindowInv
  <2>2. pending_result = None /\ ~callback
    BY <1>1, <2>1 DEF OneAtATime
  <2>3. writes = {}
    <3>1. \A s \in writes : s.auth \in Granted /\ s.auth = pending_result
      BY <2>1 DEF WindowInv, WindowTyped, OneAtATime
    <3> QED
      BY <2>2, <3>1 DEF Granted, None
  <2>4. OneAtATime'
    BY <1>1, <1>2, <2>1, <2>2, <2>3 DEF OneAtATime
  <2>5. Accounted'
    BY <1>1, <2>1 DEF Accounted, Granted
  <2> QED
    BY <2>4, <2>5
<1>6. WaitsStep
  BY <1>1 DEF WaitsStep, Stranded
<1> QED
  BY <1>1, <1>2, <1>3, <1>4, <1>5, <1>6, NothingRevoked DEF Kept, WindowInv

(* The old password, or none, starts the browser flow.                     *)
LEMMA CredentialReadyKept == ASSUME WindowInv, CredentialReady PROVE Kept
<1>1. /\ "current" \in lookups /\ ~closed /\ lookups' = lookups \ {"current"}
      /\ old_password' \in {None, in_keyring} /\ StartFlow
      /\ UNCHANGED <<closed, waiting_box, pending_result, validations, retry, writes,
                     in_keyring, granted, revoked, completed, interrupted>>
  BY DEF CredentialReady, windowVars
<1>2. FlowInv' /\ FlowActive'
  BY <1>1, StartFlowInv DEF WindowInv
<1>3. WindowTyped'
  BY <1>1 DEF WindowInv, WindowTyped, Granted, None
<1>4. PendingFollowed'
  BY <1>1 DEF WindowInv, PendingFollowed
<1>5. ASSUME ~interrupted PROVE OneAtATime' /\ Accounted'
  <2>1. OneAtATime /\ Accounted
    BY <1>5 DEF WindowInv
  <2>2. waiting_box /\ pending_result = None /\ writes = {}
    BY <1>1, <2>1 DEF OneAtATime
  <2>3. OneAtATime'
    BY <1>1, <2>1, <2>2 DEF OneAtATime
  <2>4. Accounted'
    BY <1>1, <2>1 DEF Accounted, Granted
  <2> QED
    BY <2>3, <2>4
<1>6. WaitsStep
  BY <1>2 DEF WaitsStep, Stranded
<1> QED
  BY <1>1, <1>2, <1>3, <1>4, <1>5, <1>6, NothingRevoked DEF Kept, WindowInv

(* Steps of which the window learns nothing.                               *)
LEMMA UnheardKept == ASSUME WindowInv, LookupIgnored \/ Silent PROVE Kept
<1>1. UNCHANGED <<closed, old_password, waiting_box, pending_result, validations, retry,
                  writes, in_keyring, granted, revoked, completed, interrupted>>
  BY DEF LookupIgnored, Silent, windowVars
<1>2. /\ FlowInv' /\ (callback' => callback) /\ (FlowActive => FlowActive' \/ PolledRefused)
      /\ "current" \in lookups' => "current" \in lookups
      /\ "current" \in lookups => "current" \in lookups' \/ closed
  <2>1. CASE LookupIgnored
    BY <2>1, FlowSame DEF LookupIgnored, WindowInv
  <2>2. CASE Silent
    BY <2>2, FlowSilentInv DEF Silent, WindowInv
  <2> QED
    BY <2>1, <2>2
<1>3. WindowTyped' /\ PendingFollowed'
  BY <1>1 DEF WindowInv, WindowTyped, PendingFollowed, Granted
<1>4. ASSUME ~interrupted PROVE OneAtATime' /\ Accounted'
  <2>1. OneAtATime /\ Accounted
    BY <1>4 DEF WindowInv
  <2>2. OneAtATime'
    BY <1>1, <1>2, <2>1 DEF OneAtATime
  <2>3. Accounted'
    BY <1>1, <2>1 DEF Accounted, Granted
  <2> QED
    BY <2>2, <2>3
<1>5. WaitsStep
  BY <1>1, <1>2 DEF WaitsStep, Stranded
<1> QED
  BY <1>1, <1>2, <1>3, <1>4, <1>5, NothingRevoked DEF Kept, WindowInv

(* An authorization that fails ends the waiting.                           *)
LEMMA BrowserFailsKept == ASSUME WindowInv, BrowserFails PROVE Kept
<1>1. /\ FlowError /\ waiting_box' = FALSE
      /\ UNCHANGED <<closed, lookups, old_password, pending_result, validations, retry, writes,
                     in_keyring, granted, revoked, completed, interrupted>>
  BY DEF BrowserFails
<1>2. FlowInv' /\ callback /\ ~callback'
  BY <1>1, FlowEndsInv DEF WindowInv
<1>3. WindowTyped' /\ PendingFollowed'
  BY <1>1 DEF WindowInv, WindowTyped, PendingFollowed, Granted
<1>4. ASSUME ~interrupted PROVE OneAtATime' /\ Accounted'
  <2>1. OneAtATime /\ Accounted
    BY <1>4 DEF WindowInv
  <2>2. pending_result = None /\ "current" \notin lookups /\ writes = {}
    BY <1>2, <2>1 DEF OneAtATime
  <2>3. OneAtATime'
    BY <1>1, <1>2, <2>1, <2>2 DEF OneAtATime
  <2>4. Accounted'
    BY <1>1, <2>1 DEF Accounted, Granted
  <2> QED
    BY <2>3, <2>4
<1>5. WaitsStep
  BY <1>1 DEF WaitsStep, Stranded
<1> QED
  BY <1>1, <1>2, <1>3, <1>4, <1>5, NothingRevoked DEF Kept, WindowInv

(* What was granted before is among what is granted then.                  *)
LEMMA MoreGranted ==
  ASSUME WindowTyped, granted' = granted + 1
  PROVE  /\ granted' \in Nat \ {0} /\ granted' \in Granted' /\ granted' \notin Granted
         /\ \A a \in Granted' : a \in Granted \/ a = granted'
         /\ \A a \in Granted : a \in Granted'
         /\ granted' # None /\ granted' # Old /\ granted' \notin revoked
         /\ granted' \notin 0 .. granted
         /\ 0 .. granted \subseteq 0 .. granted' /\ 1 .. granted \subseteq 1 .. granted'
         /\ granted' \in 1 .. granted'
  BY DEF WindowTyped, Granted, None, Old

(* A granted authorization is the only one, and is refused or validated.   *)
LEMMA BrowserFinishedKept == ASSUME WindowInv, BrowserFinished PROVE Kept
<1>1. /\ PolledResult /\ ~closed /\ granted' = granted + 1 /\ retry' = None
      /\ UNCHANGED <<closed, lookups, old_password, writes, in_keyring, completed,
                     interrupted>>
  BY DEF BrowserFinished
<1> DEFINE refused == /\ pending_result' = None /\ revoked' = revoked \cup {granted'}
                      /\ waiting_box' = FALSE /\ validations' = EarlierValidations
<1> DEFINE next == [auth |-> granted', current |-> TRUE]
<1> DEFINE taken == /\ pending_result' = granted' /\ waiting_box' = TRUE /\ revoked' = revoked
                    /\ validations' = EarlierValidations \cup {next}
<1>2. refused \/ taken
  BY DEF BrowserFinished
<1>3. FlowInv' /\ callback /\ ~callback'
  BY <1>1, FlowEndsInv DEF WindowInv
<1>4. WindowTyped
  BY DEF WindowInv
<1>5. EarlierValidations \subseteq [auth : Granted, current : BOOLEAN]
        /\ \A v \in EarlierValidations : ~v.current
  BY <1>4, Earlier
<1>6. /\ granted' \in Nat \ {0} /\ granted' \in Granted' /\ granted' \notin Granted
      /\ \A a \in Granted' : a \in Granted \/ a = granted'
      /\ \A a \in Granted : a \in Granted'
      /\ granted' # None /\ granted' # Old /\ granted' \notin revoked
      /\ granted' \notin 0 .. granted
      /\ 0 .. granted \subseteq 0 .. granted' /\ 1 .. granted \subseteq 1 .. granted'
      /\ granted' \in 1 .. granted'
  BY <1>1, <1>4, MoreGranted
<1>7. next.auth = granted' /\ next.current = TRUE
        /\ next \in [auth : Granted', current : BOOLEAN]
  BY <1>6
<1>8. [auth : Granted, current : BOOLEAN] \subseteq [auth : Granted', current : BOOLEAN]
  BY <1>6
<1>9. WindowTyped'
  <2>1. validations' \subseteq [auth : Granted', current : BOOLEAN]
    BY <1>2, <1>5, <1>7, <1>8
  <2>2. revoked' \subseteq 1 .. granted' /\ pending_result' \in {None} \cup Granted'
          /\ waiting_box' \in BOOLEAN /\ retry' \in {None} \cup Granted'
    BY <1>1, <1>2, <1>4, <1>6 DEF WindowTyped
  <2>3. writes' \subseteq
          [auth : Granted', step : {"writing", "verifying", "stored", "failed"}]
    BY <1>1, <1>4, <1>6 DEF WindowTyped
  <2>4. in_keyring' \in 0 .. granted' /\ old_password' \in 0 .. granted'
    BY <1>1, <1>4, <1>6 DEF WindowTyped
  <2> QED
    BY <1>1, <1>4, <1>6, <2>1, <2>2, <2>3, <2>4 DEF WindowTyped
<1>10. PendingFollowed'
  BY <1>1, <1>2, <1>5, <1>7 DEF PendingFollowed
<1>11. ASSUME ~interrupted
       PROVE  OneAtATime' /\ Accounted' /\ in_keyring # granted'
  <2>1. OneAtATime /\ Accounted
    BY <1>11 DEF WindowInv
  <2>2. pending_result = None /\ "current" \notin lookups /\ writes = {}
    BY <1>3, <2>1 DEF OneAtATime
  <2>3. OneAtATime'
    BY <1>1, <1>2, <1>3, <2>1, <2>2 DEF OneAtATime
  <2>4. in_keyring # granted'
    BY <1>4, <1>6 DEF WindowTyped
  <2>5. Accounted'
    <3>1. pending_result' \notin revoked'
      BY <1>2, <1>4, <1>6 DEF WindowTyped, None
    <3>2. in_keyring' \in {None, Old} \cup revoked'
      BY <1>1, <1>2, <2>1, <2>2 DEF Accounted
    <3>3. \A a \in Granted' : a \in {in_keyring', pending_result'} \cup revoked'
      <4> SUFFICES ASSUME NEW a \in Granted'
                   PROVE  a \in {in_keyring', pending_result'} \cup revoked'
        OBVIOUS
      <4>1. CASE a = granted'
        BY <1>2, <4>1
      <4>2. CASE a \in Granted
        <5>1. a \in {in_keyring, None} \cup revoked /\ a # None
          BY <2>1, <2>2, <4>2 DEF Accounted, Granted, None
        <5> QED
          BY <1>1, <1>2, <5>1
      <4> QED
        BY <1>6, <4>1, <4>2
    <3> QED
      BY <3>1, <3>2, <3>3 DEF Accounted
  <2> QED
    BY <2>3, <2>4, <2>5
<1>12. WaitsStep
  BY <1>2, <1>7 DEF WaitsStep, Stranded
<1>13. RevokedStep
  BY <1>1, <1>2, <1>11 DEF RevokedStep
<1> QED
  BY <1>1, <1>3, <1>9, <1>10, <1>11, <1>12, <1>13 DEF Kept, WindowInv

(* What rejecting the pending authorization leaves, as long as no write is *)
(* interrupted.                                                            *)
LEMMA RejectKept ==
  ASSUME WindowInv, NEW auth \in Granted, ~closed, Reject(auth), writes' \subseteq writes,
         validations' \subseteq [auth : Granted, current : BOOLEAN],
         \A v \in validations' : ~v.current,
         UNCHANGED <<flowVars, closed, lookups, old_password, in_keyring, granted,
                     interrupted>>,
         ~interrupted => auth = pending_result /\ writes' = {}
  PROVE  WindowInv' /\ WaitsStep
<1>1. /\ retry' = None /\ revoked' = revoked \cup {auth} /\ waiting_box' = FALSE
      /\ pending_result' = IF pending_result = auth THEN None ELSE pending_result
  BY DEF Reject
<1>2. WindowTyped'
  <2>1. auth \in 1 .. granted
    BY DEF WindowInv, WindowTyped, Granted
  <2>2. writes' \subseteq [auth : Granted, step : {"writing", "verifying", "stored", "failed"}]
    BY DEF WindowInv, WindowTyped
  <2>3. Granted' = Granted
    BY DEF Granted
  <2> QED
    BY <1>1, <2>1, <2>2, <2>3 DEF WindowInv, WindowTyped
<1>3. PendingFollowed'
  BY <1>1 DEF PendingFollowed
<1>4. FlowInv' /\ callback' = callback
  BY FlowSame DEF WindowInv
<1>5. ASSUME ~interrupted PROVE OneAtATime' /\ Accounted'
  <2>1. OneAtATime /\ Accounted
    BY <1>5 DEF WindowInv
  <2>2. pending_result' = None /\ pending_result # None /\ writes' = {}
    BY <1>1, <1>5 DEF Granted, None
  <2>3. ~callback /\ "current" \notin lookups
    BY <2>1, <2>2 DEF OneAtATime
  <2>4. OneAtATime'
    BY <1>1, <1>4, <2>2, <2>3 DEF OneAtATime
  <2>5. None \notin revoked'
    BY <1>1 DEF WindowInv, WindowTyped, Granted, None
  <2>6. \A s \in writes : s.auth = auth
    BY <1>5, <2>1 DEF OneAtATime
  <2>7. Granted' = Granted
    BY DEF Granted
  <2>8. Accounted'
    BY <1>1, <1>5, <2>1, <2>2, <2>5, <2>6, <2>7 DEF Accounted
  <2> QED
    BY <2>4, <2>8
<1>6. WaitsStep
  BY <1>1 DEF WaitsStep, Stranded
<1> QED
  BY <1>2, <1>3, <1>4, <1>5, <1>6 DEF WindowInv

(* Validation: ignored, limited and tried again, rejected, or stored.      *)
LEMMA ValidatedKept ==
  ASSUME WindowInv, NEW v \in validations, Validated(v) PROVE Kept
<1>1. UNCHANGED <<flowVars, closed, lookups, old_password, in_keyring, granted, completed,
                  interrupted>>
  BY DEF Validated
<1>2. FlowInv' /\ callback' = callback /\ (FlowActive <=> FlowActive')
  BY <1>1, FlowSame DEF WindowInv
<1>3. v \in [auth : Granted, current : BOOLEAN] /\ Granted' = Granted
        /\ v.auth # None /\ v.auth \in Granted
  BY <1>1 DEF WindowInv, WindowTyped, Granted, None
<1>4. CASE /\ ~Heard(v) /\ validations' = validations \ {v}
           /\ UNCHANGED <<waiting_box, pending_result, retry, writes, revoked>>
  <2>1. WindowTyped' /\ PendingFollowed'
    BY <1>1, <1>3, <1>4 DEF WindowInv, WindowTyped, PendingFollowed
  <2>2. ASSUME ~interrupted PROVE OneAtATime' /\ Accounted'
    BY <1>1, <1>2, <1>3, <1>4, <2>2 DEF WindowInv, OneAtATime, Accounted
  <2>3. WaitsStep
    BY <1>1, <1>2, <1>4 DEF WaitsStep, Stranded, Heard
  <2> QED
    BY <1>1, <1>2, <1>4, <2>1, <2>2, <2>3, NothingRevoked DEF Kept, WindowInv
<1>5. CASE /\ Heard(v) /\ validations' = validations \ {v} /\ Limited(v.auth)
  <2>1. /\ retry' = v.auth /\ waiting_box' = TRUE
        /\ UNCHANGED <<pending_result, revoked, writes>>
    BY <1>5 DEF Limited
  <2>2. v.auth = pending_result /\ v.current /\ ~closed
    BY <1>5 DEF Heard, WindowInv, PendingFollowed
  <2>3. WindowTyped' /\ PendingFollowed'
    BY <1>1, <1>3, <1>5, <2>1, <2>2 DEF WindowInv, WindowTyped, PendingFollowed
  <2>4. ASSUME ~interrupted PROVE OneAtATime' /\ Accounted'
    <3>1. OneAtATime /\ Accounted
      BY <2>4 DEF WindowInv
    <3>2. writes = {}
      BY <2>2, <3>1 DEF OneAtATime
    <3> QED
      BY <1>1, <1>2, <1>3, <1>5, <2>1, <2>2, <3>1, <3>2 DEF OneAtATime, Accounted
  <2>5. WaitsStep
    BY <1>3, <2>1 DEF WaitsStep, Stranded
  <2> QED
    BY <1>1, <1>2, <2>1, <2>3, <2>4, <2>5, NothingRevoked DEF Kept, WindowInv
<1>6. CASE /\ Heard(v) /\ Reject(v.auth) /\ writes' = writes
           /\ validations' = {[w EXCEPT !.current = FALSE] : w \in validations \ {v}}
  <2>1. v.auth = pending_result /\ v.current /\ ~closed
    BY <1>6 DEF Heard, WindowInv, PendingFollowed
  <2>2. /\ validations' \subseteq [auth : Granted, current : BOOLEAN]
        /\ \A w \in validations' : ~w.current
    BY <1>6 DEF WindowInv, WindowTyped
  <2>3. ~interrupted => writes = {}
    BY <2>1 DEF WindowInv, OneAtATime
  <2>4. WindowInv' /\ WaitsStep
    BY <1>1, <1>3, <1>6, <2>1, <2>2, <2>3, RejectKept
  <2>5. RevokedStep
    <3> SUFFICES ASSUME in_keyring \notin revoked, ~interrupted, ~Unverified
                 PROVE  in_keyring' \notin revoked'
      BY <1>1 DEF RevokedStep
    <3>1. in_keyring \in {None, Old}
      BY <2>1, <2>3 DEF WindowInv, Accounted
    <3>2. revoked' = revoked \cup {v.auth}
      BY <1>6 DEF Reject
    <3> QED
      BY <1>1, <1>3, <3>1, <3>2 DEF Granted, None, Old
  <2> QED
    BY <2>4, <2>5 DEF Kept
<1>7. CASE /\ Heard(v) /\ validations' = validations \ {v} /\ retry' = None
           /\ writes' = writes \cup {[auth |-> v.auth, step |-> "writing"]}
           /\ UNCHANGED <<waiting_box, pending_result, revoked>>
  <2> DEFINE s == [auth |-> v.auth, step |-> "writing"]
  <2>1. v.auth = pending_result /\ v.current /\ ~closed
    BY <1>7 DEF Heard, WindowInv, PendingFollowed
  <2>2. s.auth = v.auth /\ s.step = "writing"
          /\ s \in [auth : Granted, step : {"writing", "verifying", "stored", "failed"}]
    BY <1>3
  <2>3. WindowTyped' /\ PendingFollowed'
    BY <1>1, <1>3, <1>7, <2>2 DEF WindowInv, WindowTyped, PendingFollowed
  <2>4. ASSUME ~interrupted PROVE OneAtATime' /\ Accounted'
    <3>1. OneAtATime /\ Accounted
      BY <2>4 DEF WindowInv
    <3>2. writes = {}
      BY <2>1, <3>1 DEF OneAtATime
    <3>3. pending_result # None
      BY <1>3, <2>1
    <3>4. \A w \in validations' : ~w.current
      <4>1. \A w \in validations : w \in [auth : Granted, current : BOOLEAN]
        BY DEF WindowInv, WindowTyped
      <4>2. ASSUME NEW w \in validations, w.current PROVE w = v
        <5>1. w.auth = v.auth /\ w.current = TRUE /\ v.current = TRUE
          BY <1>3, <2>1, <4>1, <4>2 DEF WindowInv, PendingFollowed
        <5> QED
          BY <1>3, <4>1, <5>1
      <4> QED
        BY <1>7, <4>2
    <3>5. writes' = {s}
      BY <1>7, <3>2
    <3>6. OneAtATime'
      BY <1>1, <1>2, <1>7, <2>1, <2>2, <3>1, <3>3, <3>4, <3>5 DEF OneAtATime
    <3>7. Accounted'
      BY <1>1, <1>3, <1>7, <2>1, <2>2, <3>1, <3>2 DEF Accounted
    <3> QED
      BY <3>6, <3>7
  <2>5. WaitsStep
    BY <1>7 DEF WaitsStep, Stranded
  <2> QED
    BY <1>1, <1>2, <1>7, <2>3, <2>4, <2>5, NothingRevoked DEF Kept, WindowInv
<1> QED
  BY <1>4, <1>5, <1>6, <1>7 DEF Validated

(* The retry timer validates the pending authorization again.              *)
LEMMA RetryKept == ASSUME WindowInv, Retry PROVE Kept
<1> DEFINE v == [auth |-> retry, current |-> TRUE]
<1>1. /\ retry # None /\ ~closed /\ retry' = None
      /\ UNCHANGED <<flowVars, closed, lookups, old_password, pending_result, writes,
                     in_keyring, granted, revoked, completed, interrupted>>
  BY DEF Retry
<1>2. FlowInv' /\ callback' = callback
  BY <1>1, FlowSame DEF WindowInv
<1>3. retry = pending_result
  BY <1>1 DEF WindowInv, PendingFollowed
<1>4. validations' = EarlierValidations \cup {v} /\ waiting_box' = TRUE
  BY <1>3 DEF Retry, WindowInv, WindowTyped
<1>5. EarlierValidations \subseteq [auth : Granted, current : BOOLEAN]
        /\ \A w \in EarlierValidations : ~w.current
  BY Earlier DEF WindowInv
<1>6. v.auth = retry /\ v.current = TRUE /\ v \in [auth : Granted, current : BOOLEAN]
        /\ Granted' = Granted
  BY <1>1 DEF WindowInv, WindowTyped, Granted
<1>7. WindowTyped' /\ PendingFollowed'
  BY <1>1, <1>3, <1>4, <1>5, <1>6 DEF WindowInv, WindowTyped, PendingFollowed
<1>8. ASSUME ~interrupted PROVE OneAtATime' /\ Accounted'
  <2>1. OneAtATime /\ Accounted
    BY <1>8 DEF WindowInv
  <2>2. writes = {}
    BY <1>1, <2>1 DEF OneAtATime
  <2>3. OneAtATime' /\ Accounted'
    BY <1>1, <1>2, <1>4, <1>6, <2>1, <2>2 DEF OneAtATime, Accounted
  <2> QED
    BY <2>3
<1>9. WaitsStep
  BY <1>4, <1>6 DEF WaitsStep, Stranded
<1> QED
  BY <1>1, <1>2, <1>7, <1>8, <1>9, NothingRevoked DEF Kept, WindowInv

(* The keyring write: what it writes is the pending authorization, which is*)
(* not revoked.                                                            *)
LEMMA StoreStepsKept ==
  ASSUME WindowInv, NEW s \in writes, StoreSteps(s) PROVE Kept
<1>1. UNCHANGED <<flowVars, closed, lookups, old_password, waiting_box, pending_result,
                  validations, retry, granted, revoked, completed, interrupted>>
  BY DEF StoreSteps
<1>2. FlowInv' /\ callback' = callback
  BY <1>1, FlowSame DEF WindowInv
<1>3. s \in [auth : Granted, step : {"writing", "verifying", "stored", "failed"}]
        /\ Granted' = Granted /\ s.auth # None /\ s.auth \in 0 .. granted
  BY <1>1 DEF WindowInv, WindowTyped, Granted, None
<1>4. PICK step \in {"verifying", "stored", "failed"} :
        /\ writes' = (writes \ {s}) \cup {[s EXCEPT !.step = step]}
        /\ in_keyring' = in_keyring \/ (step = "verifying" /\ in_keyring' = s.auth)
        /\ step = "stored" => in_keyring' = s.auth
        /\ step = "verifying" => in_keyring' = s.auth
  BY DEF StoreSteps, MoveStore
<1> DEFINE t == [s EXCEPT !.step = step]
<1>5. t.auth = s.auth /\ t.step = step
        /\ t \in [auth : Granted, step : {"writing", "verifying", "stored", "failed"}]
  BY <1>3
<1>6. writes' = (writes \ {s}) \cup {t}
  BY <1>4
<1>7. WindowTyped' /\ PendingFollowed'
  <2>1. in_keyring' \in 0 .. granted
    BY <1>3, <1>4 DEF WindowInv, WindowTyped
  <2>2. writes' \subseteq [auth : Granted, step : {"writing", "verifying", "stored", "failed"}]
    BY <1>5, <1>6 DEF WindowInv, WindowTyped
  <2> QED
    BY <1>1, <1>3, <2>1, <2>2 DEF WindowInv, WindowTyped, PendingFollowed
<1>8. ASSUME ~interrupted
      PROVE  /\ OneAtATime' /\ Accounted'
             /\ s.auth \notin revoked
  <2>1. OneAtATime /\ Accounted
    BY <1>8 DEF WindowInv
  <2>2. writes = {s} /\ writes' = {t} /\ s.auth = pending_result
    BY <1>6, <2>1 DEF OneAtATime
  <2>3. OneAtATime'
    BY <1>1, <1>2, <1>4, <1>5, <2>1, <2>2 DEF OneAtATime
  <2>4. in_keyring' = in_keyring \/ in_keyring' = s.auth
    BY <1>4
  <2>5. Accounted'
    <3>1. pending_result' \notin revoked'
      BY <1>1, <2>1 DEF Accounted
    <3>2. \/ in_keyring' \in {None, Old} \cup revoked'
          \/ \E w \in writes' : w.auth = in_keyring'
      <4>1. ~closed
        BY <2>1, <2>2 DEF OneAtATime
      <4>2. in_keyring \in {None, Old} \cup revoked \/ in_keyring = s.auth
        BY <2>1, <2>2, <4>1 DEF Accounted
      <4> QED
        BY <1>1, <1>5, <2>2, <2>4, <4>2
    <3>3. \A a \in Granted : a \in {in_keyring', pending_result'} \cup revoked'
      <4> SUFFICES ASSUME NEW a \in Granted
                   PROVE  a \in {in_keyring', pending_result'} \cup revoked'
        OBVIOUS
      <4>1. a # None /\ a # Old
        BY DEF WindowInv, WindowTyped, Granted, None, Old
      <4>2. a \in {in_keyring, pending_result} \cup revoked /\ ~closed
        BY <2>1, <2>2 DEF Accounted, OneAtATime
      <4>3. in_keyring \in {None, Old} \cup revoked \/ in_keyring = s.auth
        BY <2>1, <2>2, <4>2 DEF Accounted
      <4> QED
        BY <1>1, <2>2, <4>1, <4>2, <4>3
    <3> QED
      BY <1>3, <3>1, <3>2, <3>3 DEF Accounted
  <2>6. s.auth \notin revoked
    BY <2>1, <2>2 DEF Accounted
  <2> QED
    BY <2>3, <2>5, <2>6
<1>9. RevokedStep
  BY <1>1, <1>4, <1>8 DEF RevokedStep
<1>10. WaitsStep
  BY <1>6 DEF WaitsStep, Stranded
<1> QED
  BY <1>1, <1>2, <1>7, <1>8, <1>9, <1>10 DEF Kept, WindowInv

(* stored: ignored, rejected, or the end, with the old password revoked.   *)
LEMMA StoredKept ==
  ASSUME WindowInv, NEW s \in writes, Stored(s) PROVE Kept
<1>1. /\ writes' = writes \ {s} /\ s.step \in {"stored", "failed"}
      /\ UNCHANGED <<lookups, old_password, in_keyring, granted>>
  BY DEF Stored
<1>2. /\ s \in [auth : Granted, step : {"writing", "verifying", "stored", "failed"}]
      /\ Granted' = Granted /\ s.auth \in Granted /\ s.auth # None
  BY <1>1 DEF WindowInv, WindowTyped, Granted, None
<1>3. EarlierValidations \subseteq [auth : Granted, current : BOOLEAN]
        /\ \A w \in EarlierValidations : ~w.current
  BY Earlier DEF WindowInv
<1>4. CASE closed /\ UNCHANGED <<flowVars, closed, pending_result, validations, retry,
                                 revoked, waiting_box, completed, interrupted>>
  <2>1. FlowInv'
    BY <1>4, FlowSame DEF WindowInv
  <2>2. WindowTyped' /\ PendingFollowed'
    BY <1>1, <1>2, <1>4 DEF WindowInv, WindowTyped, PendingFollowed
  <2>3. interrupted
    BY <1>4 DEF WindowInv, OneAtATime
  <2>4. WaitsStep
    BY <1>4 DEF WaitsStep, Stranded
  <2> QED
    BY <1>1, <1>4, <2>1, <2>2, <2>3, <2>4, NothingRevoked DEF Kept, WindowInv
<1>5. CASE /\ ~closed /\ s.step = "failed" /\ Reject(s.auth)
           /\ validations' = EarlierValidations
           /\ UNCHANGED <<flowVars, closed, completed, interrupted>>
  <2>1. ~interrupted => s.auth = pending_result /\ writes' = {}
    BY <1>1 DEF WindowInv, OneAtATime
  <2>2. WindowInv' /\ WaitsStep
    BY <1>1, <1>2, <1>3, <1>5, <2>1, RejectKept
  <2>3. RevokedStep
    <3> SUFFICES ASSUME in_keyring \notin revoked, ~Unverified
                 PROVE  in_keyring' \notin revoked'
      BY DEF RevokedStep
    <3>1. s.auth # in_keyring
      BY <1>5 DEF Unverified
    <3>2. revoked' = revoked \cup {s.auth}
      BY <1>5 DEF Reject
    <3> QED
      BY <1>1, <3>1, <3>2
  <2> QED
    BY <2>2, <2>3 DEF Kept
<1>6. CASE /\ ~closed /\ s.step = "stored"
           /\ revoked' = revoked \cup Replaced(s.auth)
           /\ closed' = TRUE /\ pending_result' = None /\ retry' = None
           /\ validations' = EarlierValidations /\ CancelFlow
           /\ interrupted' = (interrupted \/ writes' # {})
           /\ UNCHANGED waiting_box
  <2>1. FlowInv' /\ ~callback'
    BY <1>6, CancelFlowInv DEF WindowInv
  <2>2. Replaced(s.auth) \subseteq 1 .. granted /\ s.auth \notin Replaced(s.auth)
          /\ None \notin Replaced(s.auth)
    BY DEF WindowInv, WindowTyped, Replaced, None
  <2>3. WindowTyped' /\ PendingFollowed'
    <3>1. interrupted' \in BOOLEAN
      BY <1>6 DEF WindowInv, WindowTyped
    <3>2. revoked' \subseteq 1 .. granted
      BY <1>6, <2>2 DEF WindowInv, WindowTyped
    <3> QED
      BY <1>1, <1>2, <1>3, <1>6, <3>1, <3>2 DEF WindowInv, WindowTyped, PendingFollowed
  <2>4. ASSUME ~interrupted'
        PROVE  OneAtATime' /\ Accounted' /\ in_keyring = s.auth
    <3>1. OneAtATime /\ Accounted /\ writes' = {}
      BY <1>6, <2>4 DEF WindowInv
    <3>2. s.auth = pending_result /\ in_keyring = s.auth
      BY <1>6, <3>1 DEF OneAtATime
    <3>3. ~callback /\ "current" \notin lookups
      BY <1>2, <3>1, <3>2 DEF OneAtATime
    <3>4. OneAtATime'
      BY <1>1, <1>6, <2>1, <3>1, <3>3 DEF OneAtATime
    <3>5. None \notin revoked
      BY DEF WindowInv, WindowTyped, None
    <3>6. Accounted'
      BY <1>1, <1>2, <1>6, <2>2, <3>1, <3>2, <3>5 DEF Accounted
    <3> QED
      BY <3>2, <3>4, <3>6
  <2>5. RevokedStep
    BY <1>1, <1>6, <2>2, <2>4 DEF RevokedStep
  <2>6. WaitsStep
    BY <1>6 DEF WaitsStep, Stranded
  <2> QED
    BY <2>1, <2>3, <2>4, <2>5, <2>6 DEF Kept, WindowInv
<1> QED
  BY <1>4, <1>5, <1>6 DEF Stored

(* Canceling and closing revoke the pending authorization.                 *)
LEMMA GiveUpKept == ASSUME WindowInv, CancelAuthorization \/ CloseRequested PROVE Kept
<1>1. /\ CancelFlow /\ pending_result' = None /\ ~closed
      /\ revoked' = revoked \cup ({pending_result} \ {None})
      /\ retry' = None /\ lookups' = EarlierLookups /\ validations' = EarlierValidations
      /\ interrupted' = (interrupted \/ writes # {})
      /\ UNCHANGED <<old_password, writes, in_keyring, granted, completed>>
      /\ \/ waiting_box' = FALSE /\ closed' = closed
         \/ waiting_box' = waiting_box /\ closed' = TRUE
  BY DEF CancelAuthorization, CloseRequested, GiveUp, PendingRevoked
<1>2. FlowInv' /\ ~callback'
  BY <1>1, CancelFlowInv DEF WindowInv
<1>3. EarlierValidations \subseteq [auth : Granted, current : BOOLEAN]
        /\ (\A w \in EarlierValidations : ~w.current) /\ "current" \notin EarlierLookups
        /\ Granted' = Granted
  BY <1>1, Earlier DEF WindowInv, Granted
<1>4. WindowTyped' /\ PendingFollowed'
  <2>1. {pending_result} \ {None} \subseteq 1 .. granted
    BY DEF WindowInv, WindowTyped, Granted, None
  <2>2. interrupted' \in BOOLEAN /\ waiting_box' \in BOOLEAN /\ closed' \in BOOLEAN
    BY <1>1 DEF WindowInv, WindowTyped
  <2>3. revoked' \subseteq 1 .. granted
    BY <1>1, <2>1 DEF WindowInv, WindowTyped
  <2> QED
    BY <1>1, <1>3, <2>2, <2>3 DEF WindowInv, WindowTyped, PendingFollowed
<1>5. ASSUME ~interrupted' PROVE OneAtATime' /\ Accounted' /\ RevokedStep
  <2>1. OneAtATime /\ Accounted /\ writes = {}
    BY <1>1, <1>5 DEF WindowInv
  <2>2. OneAtATime'
    BY <1>1, <1>2, <1>3, <2>1 DEF OneAtATime
  <2>3. None \notin revoked
    BY DEF WindowInv, WindowTyped, None
  <2>4. Accounted'
    BY <1>1, <1>3, <2>1, <2>3 DEF Accounted
  <2>5. RevokedStep
    <3> SUFFICES ASSUME in_keyring \notin revoked PROVE in_keyring' \notin revoked'
      BY DEF RevokedStep
    <3>1. in_keyring \in {None, Old}
      BY <1>1, <2>1 DEF Accounted
    <3>2. pending_result = None \/ pending_result \notin {None, Old}
      BY DEF WindowInv, WindowTyped, Granted, None, Old
    <3> QED
      BY <1>1, <3>1, <3>2
  <2> QED
    BY <2>2, <2>4, <2>5
<1>6. RevokedStep
  BY <1>5 DEF RevokedStep
<1>7. WaitsStep
  BY <1>1 DEF WaitsStep, Stranded
<1> QED
  BY <1>2, <1>4, <1>5, <1>6, <1>7 DEF Kept, WindowInv

(* Nothing is granted, asked for or revoked at first.                      *)
LEMMA WindowInitInv == ASSUME ReconnectInit PROVE WindowInv
<1> USE DEF ReconnectInit
<1>1. FlowInv
  BY FlowInitInv
<1>2. granted = 1 /\ Granted = {}
  BY DEF Granted, Old
<1>3. in_keyring \in 0 .. granted /\ old_password \in 0 .. granted /\ granted \in Nat \ {0}
  BY <1>2 DEF None, Old
<1>4. WindowTyped /\ PendingFollowed
  BY <1>3 DEF WindowTyped, PendingFollowed
<1>5. OneAtATime /\ Accounted
  BY <1>2 DEF FlowInit, OneAtATime, Accounted
<1> QED
  BY <1>1, <1>4, <1>5 DEF WindowInv

(* Every step of the window.                                               *)
LEMMA ReconnectNextKept == ASSUME WindowInv, ReconnectNext PROVE Kept
  BY BeginKept, CredentialReadyKept, UnheardKept, BrowserFailsKept, BrowserFinishedKept,
     ValidatedKept, RetryKept, StoreStepsKept, StoredKept, GiveUpKept DEF ReconnectNext

(* So the invariant holds of every state that is reached.                  *)
LEMMA WindowAlways == ReconnectSpec => []WindowInv
<1>1. WindowInv /\ UNCHANGED reconnectVars => WindowInv'
  <2> SUFFICES ASSUME WindowInv, UNCHANGED reconnectVars PROVE WindowInv'
    OBVIOUS
  <2>1. FlowInv'
    BY FlowSame DEF WindowInv, reconnectVars
  <2>2. UNCHANGED <<callback, closed, lookups, old_password, waiting_box, pending_result,
                    validations, retry, writes, in_keyring, granted, revoked, interrupted>>
    BY DEF reconnectVars, windowVars, flowVars
  <2>3. WindowTyped' /\ PendingFollowed'
    BY <2>2 DEF WindowInv, WindowTyped, PendingFollowed, Granted
  <2>4. ~interrupted => OneAtATime' /\ Accounted'
    BY <2>2 DEF WindowInv, OneAtATime, Accounted, Granted
  <2> QED
    BY <2>1, <2>2, <2>3, <2>4 DEF WindowInv
<1>2. WindowInv /\ ReconnectNext => WindowInv'
  BY ReconnectNextKept DEF Kept
<1> QED
  BY <1>1, <1>2, WindowInitInv, PTL DEF ReconnectSpec

(* Every authorization the server delivered is stored, on its way there or *)
(* revoked, unless the user interrupted a keyring write, for any number of *)
(* authorizations and attempts (ReconnectWindow._reject_result and         *)
(* _cancel_authorization).                                                 *)
THEOREM NoAuthorizationLeaks == ReconnectSpec => []NoneLeaked
<1>1. WindowInv => NoneLeaked
  BY DEF WindowInv, Accounted, Granted, NoneLeaked
<1> QED
  BY <1>1, WindowAlways, PTL

(* The password in the keyring is not revoked by a window whose writes are *)
(* not interrupted (ReconnectWindow._store_result).                        *)
THEOREM StoredIsNotRevoked == ReconnectSpec => RevokedOnlyIfInterrupted
<1>1. WindowInv /\ [ReconnectNext]_reconnectVars
      => [/\ in_keyring \notin revoked /\ ~interrupted' /\ ~Unverified
          => in_keyring' \notin revoked']_reconnectVars
  BY ReconnectNextKept DEF Kept, RevokedStep
<1> QED
  BY <1>1, WindowAlways, PTL DEF ReconnectSpec, RevokedOnlyIfInterrupted

(* A window is left waiting for nothing only by a poll answer that is      *)
(* refused or cannot be read (LoginFlowV2._polled).                        *)
THEOREM WaitsForSomething == ReconnectSpec => StrandedOnlyBy
<1>1. WindowInv /\ [ReconnectNext]_reconnectVars
      => [~Stranded /\ Stranded' => PolledRefused]_reconnectVars
  BY ReconnectNextKept DEF Kept, WaitsStep
<1> QED
  BY <1>1, WindowAlways, PTL DEF ReconnectSpec, StrandedOnlyBy

-----------------------------------------------------------------------------
(* The setup assistant.                                                    *)

(* One sign-in at a time, as long as none is overtaken: the browser, a     *)
(* validation or a keyring write, which is of the names the assistant has; *)
(* and none once the pages went past it.                                   *)
InOrder ==
  /\ FlowActive => validating = NoAccount /\ stores = {}
  /\ validating # NoAccount => stores = {}
  /\ stores \subseteq {[server |-> server, user |-> username]}
  /\ page \in {"folder", "summary", "done"} =>
       ~FlowActive /\ validating = NoAccount /\ stores = {}
  /\ page \in {"folder", "summary"} => [server |-> server, user |-> username] \in keyring

SetupInv ==
  /\ FlowInv /\ overtaken \in BOOLEAN
  /\ ~overtaken => InOrder /\ configured \in keyring \cup {NoAccount}

(* Nothing is under way at first.                                          *)
LEMMA SetupInitInv == ASSUME SetupInit PROVE SetupInv
<1> USE DEF SetupInit
<1>1. FlowInv
  BY FlowInitInv
<1>2. overtaken \in BOOLEAN /\ configured = NoAccount
  OBVIOUS
<1>3. initiating = 0 /\ endpoint = FALSE
  BY DEF FlowInit
<1>4. ~FlowActive
  BY <1>3 DEF FlowActive
<1>5. InOrder
  BY <1>4 DEF InOrder
<1> QED
  BY <1>1, <1>2, <1>5 DEF SetupInv

(* What is polled is under way.                                            *)
LEMMA PolledIsActive == ASSUME FlowInv, PolledResult PROVE FlowActive
  BY DEF FlowInv, PolledResult, FlowActive

(* Nothing is under way that was canceled, and no silent step begins one.  *)
LEMMA FlowStops ==
  ASSUME FlowInv
  PROVE  /\ CancelFlow \/ FlowError \/ PolledResult => ~FlowActive'
         /\ FlowSilent => (FlowActive' => FlowActive)
<1>1. cancelled' => ~FlowActive'
  BY DEF FlowActive
<1>2. CancelFlow \/ FlowError \/ PolledResult => cancelled'
  BY DEF CancelFlow, FlowError, InitiatedFails, PollExpires, PolledResult
<1>3. ASSUME InitiatedDropped \/ PollEnds \/ PollSent \/ PolledNothing, FlowActive'
      PROVE  FlowActive
  BY <1>3 DEF InitiatedDropped, PollEnds, PollSent, MayPoll, PolledNothing, FlowActive, FlowInv
<1>4. PollingBegins => FlowActive
  BY DEF PollingBegins, FlowActive
<1>5. PolledRefused => cancelled'
  BY DEF PolledRefused, CancelFlow
<1> QED
  BY <1>1, <1>2, <1>3, <1>4, <1>5 DEF FlowSilent

(* Pages are turned and continued.                                         *)
LEMMA PagesInv ==
  ASSUME SetupInv, TurnPage \/ FinishSetup \/ (\E s \in Server : ServerContinue(s))
  PROVE  SetupInv'
<1>1. UNCHANGED <<flowVars, username, browsing, validating, stores, keyring>>
  BY DEF TurnPage, FinishSetup, ServerContinue
<1>2. FlowInv' /\ (FlowActive <=> FlowActive')
  BY <1>1, FlowSame DEF SetupInv
<1>3. overtaken' \in BOOLEAN
  BY DEF TurnPage, FinishSetup, ServerContinue, SetupInv
<1>4. ASSUME ~overtaken' PROVE InOrder' /\ configured' \in keyring' \cup {NoAccount}
  <2>1. ~overtaken
    BY <1>4 DEF TurnPage, FinishSetup, ServerContinue
  <2>2. InOrder /\ configured \in keyring \cup {NoAccount}
    BY <2>1 DEF SetupInv
  <2>3. CASE TurnPage
    BY <1>1, <1>2, <2>2, <2>3 DEF TurnPage, Turn, InOrder
  <2>4. CASE FinishSetup
    BY <1>1, <1>2, <2>2, <2>4 DEF FinishSetup, InOrder
  <2>5. CASE \E s \in Server : ServerContinue(s)
    <3>1. ~FlowActive /\ validating = NoAccount /\ stores = {} /\ page' = "authentication"
            /\ configured' = configured
      BY <1>4, <2>5 DEF ServerContinue, Pending
    <3> QED
      BY <1>1, <1>2, <2>2, <3>1 DEF InOrder
  <2> QED
    BY <2>3, <2>4, <2>5
<1> QED
  BY <1>2, <1>3, <1>4 DEF SetupInv

(* The browser flow begins alone, and its result is stored under the names *)
(* it brings.                                                              *)
LEMMA BrowserInv ==
  ASSUME SetupInv,
         \/ BrowserLogin \/ CancelBrowser \/ SetupBrowserFails
         \/ \E u \in User : SetupBrowserFinished(u)
  PROVE  SetupInv'
<1>1. UNCHANGED <<page, validating, keyring, configured>>
  BY DEF BrowserLogin, CancelBrowser, SetupBrowserFails, SetupBrowserFinished
<1>2. FlowInv' /\ (FlowActive' => BrowserLogin)
  BY StartFlowInv, CancelFlowInv, FlowEndsInv, FlowStops
  DEF BrowserLogin, CancelBrowser, SetupBrowserFails, SetupBrowserFinished, SetupInv
<1>3. overtaken' \in BOOLEAN /\ (~overtaken' => ~overtaken)
  BY DEF BrowserLogin, CancelBrowser, SetupBrowserFails, SetupBrowserFinished, SetupInv
<1>4. ASSUME ~overtaken' PROVE InOrder' /\ configured' \in keyring' \cup {NoAccount}
  <2>1. InOrder /\ configured \in keyring \cup {NoAccount}
    BY <1>3, <1>4 DEF SetupInv
  <2>2. CASE BrowserLogin
    <3>1. validating = NoAccount /\ stores = {} /\ page = "authentication"
            /\ UNCHANGED <<server, username, stores>>
      BY <1>4, <2>2 DEF BrowserLogin, Pending
    <3> QED
      BY <1>1, <2>1, <3>1 DEF InOrder
  <2>3. CASE (CancelBrowser \/ SetupBrowserFails) /\ ~BrowserLogin
    <3>1. UNCHANGED <<server, username, stores>> /\ ~FlowActive'
      BY <1>2, <2>3 DEF CancelBrowser, SetupBrowserFails
    <3> QED
      BY <1>1, <2>1, <3>1 DEF InOrder
  <2>4. ASSUME NEW u \in User, SetupBrowserFinished(u), ~BrowserLogin
        PROVE  InOrder' /\ configured' \in keyring' \cup {NoAccount}
    <3>1. FlowActive
      BY <2>4, PolledIsActive DEF SetupBrowserFinished, SetupInv
    <3>2. validating = NoAccount /\ stores = {} /\ page \notin {"folder", "summary", "done"}
      BY <2>1, <3>1 DEF InOrder
    <3>3. stores' = {[server |-> server', user |-> username']} /\ ~FlowActive'
      BY <1>2, <2>4, <3>2 DEF SetupBrowserFinished, StoreUnder
    <3> QED
      BY <1>1, <2>1, <3>2, <3>3 DEF InOrder
  <2> QED
    BY <2>2, <2>3, <2>4
<1> QED
  BY <1>2, <1>3, <1>4 DEF SetupInv

(* So does the manual sign-in, and a verified write is of the names that   *)
(* the assistant still has.                                                *)
LEMMA SignInInv ==
  ASSUME SetupInv,
         \/ (\E u \in User : ManualLogin(u)) \/ SetupValidated
         \/ \E a \in stores : SetupStored(a)
  PROVE  SetupInv'
<1>1. UNCHANGED <<flowVars, server, configured>>
  BY DEF ManualLogin, SetupValidated, SetupStored
<1>2. FlowInv' /\ (FlowActive <=> FlowActive')
  BY <1>1, FlowSame DEF SetupInv
<1>3. overtaken' \in BOOLEAN /\ (~overtaken' => ~overtaken)
  BY DEF ManualLogin, SetupValidated, SetupStored, SetupInv
<1>4. ASSUME ~overtaken' PROVE InOrder' /\ configured' \in keyring' \cup {NoAccount}
  <2>1. InOrder /\ configured \in keyring \cup {NoAccount}
    BY <1>3, <1>4 DEF SetupInv
  <2>2. ASSUME NEW u \in User, ManualLogin(u)
        PROVE  InOrder' /\ configured' \in keyring' \cup {NoAccount}
    <3>1. ~FlowActive /\ stores = {} /\ page = "authentication"
            /\ UNCHANGED <<page, username, stores, keyring>>
      BY <1>4, <2>2 DEF ManualLogin, Pending
    <3> QED
      BY <1>1, <1>2, <2>1, <3>1 DEF InOrder
  <2>3. CASE SetupValidated
    <3>1. validating # NoAccount /\ validating' = NoAccount /\ UNCHANGED <<page, keyring>>
            /\ \/ UNCHANGED <<username, stores>>
               \/ stores' = stores \cup {[server |-> server', user |-> username']}
      BY <1>1, <2>3 DEF SetupValidated, NameTaken, StoreUnder
    <3>2. ~FlowActive /\ stores = {} /\ page \notin {"folder", "summary", "done"}
      BY <2>1, <3>1 DEF InOrder
    <3> QED
      BY <1>1, <1>2, <2>1, <3>1, <3>2 DEF InOrder
  <2>4. ASSUME NEW a \in stores, SetupStored(a)
        PROVE  InOrder' /\ configured' \in keyring' \cup {NoAccount}
    <3>1. a = [server |-> server, user |-> username] /\ stores' = {} /\ ~FlowActive
            /\ validating = NoAccount /\ UNCHANGED <<username, validating>>
      BY <2>1, <2>4 DEF SetupStored, InOrder
    <3>2. (keyring' = keyring \cup {a} /\ page' = "folder") \/ UNCHANGED <<keyring, page>>
      BY <2>4 DEF SetupStored, StoreEnds
    <3> QED
      BY <1>1, <1>2, <2>1, <3>1, <3>2 DEF InOrder
  <2> QED
    BY <2>2, <2>3, <2>4
<1> QED
  BY <1>2, <1>3, <1>4 DEF SetupInv

(* The flow's own steps and stuttering begin nothing.                      *)
LEMMA SilentInv ==
  ASSUME SetupInv, FlowSilent \/ UNCHANGED flowVars,
         UNCHANGED <<page, server, username, browsing, validating, stores, keyring, configured,
                     overtaken>>
  PROVE  SetupInv'
<1>1. FlowInv' /\ (FlowActive' => FlowActive)
  BY FlowSilentInv, FlowStops, FlowSame DEF SetupInv
<1>2. ~overtaken => InOrder'
  BY <1>1 DEF SetupInv, InOrder
<1> QED
  BY <1>1, <1>2 DEF SetupInv

(* The account that setup saves has a verified credential, unless a sign-in*)
(* was overtaken, for any servers and users (SetupWindow._store_secret and *)
(* _start_syncing).                                                        *)
THEOREM FinishedIsStored == SetupSpec => []FinishedIsStoredInOrder
<1>1. SetupInv /\ [SetupNext]_setupVars => SetupInv'
  BY PagesInv, BrowserInv, SignInInv, SilentInv DEF SetupNext, setupVars
<1>2. SetupInv => FinishedIsStoredInOrder
  BY DEF SetupInv, FinishedIsStoredInOrder
<1> QED
  BY <1>1, <1>2, SetupInitInv, PTL DEF SetupSpec

-----------------------------------------------------------------------------
(* The types of both windows.                                              *)

(* The requests that begin an authorization, and the timers they leave, are*)
(* bounded together.                                                       *)
FlowBounded == initiating + timers <= MaxStarts

(* Every step of the login flow keeps the bound.                           *)
LEMMA FlowKeepsBound ==
  ASSUME FlowInv, FlowBounded,
         \/ StartFlow \/ CancelFlow \/ FlowError \/ PolledResult \/ FlowSilent
         \/ UNCHANGED flowVars
  PROVE  FlowBounded'
<1>1. /\ initiating \in Nat /\ timers \in Nat /\ MaxStarts \in Nat /\ (handle => timers > 0)
  BY StartsAssumption DEF FlowInv
<1>2. CASE StartFlow
  BY <1>1, <1>2 DEF FlowBounded, StartFlow, Reset
<1>3. CASE CancelFlow \/ PollExpires \/ PolledResult \/ PolledRefused
  BY <1>1, <1>3 DEF FlowBounded, CancelFlow, PollExpires, PolledResult, PolledRefused, Reset
<1>4. CASE InitiatedFails
  BY <1>1, <1>4 DEF FlowBounded, InitiatedFails, Reset
<1>5. CASE InitiatedDropped \/ PollingBegins \/ PollEnds
  BY <1>1, <1>5 DEF FlowBounded, InitiatedDropped, PollingBegins, PollEnds
<1>6. CASE PollSent \/ PolledNothing \/ UNCHANGED flowVars
  BY <1>6 DEF FlowBounded, PollSent, PolledNothing, flowVars
<1> QED
  BY <1>2, <1>3, <1>4, <1>5, <1>6 DEF FlowError, FlowSilent

(* With the invariant of the flow, it gives the types.                     *)
LEMMA FlowIsTyped == ASSUME FlowInv, FlowBounded PROVE FlowTypeOK
<1>1. initiating \in 0 .. MaxStarts /\ timers \in 0 .. MaxStarts
  BY StartsAssumption DEF FlowInv, FlowBounded
<1> QED
  BY <1>1 DEF FlowInv, FlowTypeOK

(* What the types add to the invariant of the reconnection window.         *)
WindowBounded ==
  /\ FlowBounded /\ granted <= MaxGrants + 1
  /\ lookups \subseteq {"current", "earlier"} /\ completed \in BOOLEAN

(* Every step keeps that.                                                  *)
LEMMA WindowKeepsBounds ==
  ASSUME WindowInv, WindowBounded, [ReconnectNext]_reconnectVars PROVE WindowBounded'
<1>1. /\ granted \in Nat /\ MaxGrants \in Nat
      /\ granted' = granted \/ (granted <= MaxGrants /\ granted' = granted + 1)
  BY GrantsAssumption
  DEF WindowInv, WindowTyped, ReconnectNext, Begin, CredentialReady, LookupIgnored, Silent,
      BrowserFails, BrowserFinished, Validated, Retry, StoreSteps, Stored, CancelAuthorization,
      CloseRequested, GiveUp, reconnectVars, windowVars
<1>2. granted' <= MaxGrants + 1
  BY <1>1 DEF WindowBounded
<1>3. lookups' \subseteq {"current", "earlier"} /\ completed' \in BOOLEAN
  BY DEF WindowBounded, ReconnectNext, Begin, CredentialReady, LookupIgnored, Silent,
         BrowserFails, BrowserFinished, Validated, Retry, StoreSteps, Stored, CancelAuthorization,
         CloseRequested, GiveUp, EarlierLookups, reconnectVars, windowVars
<1>4. \/ StartFlow \/ CancelFlow \/ FlowError \/ PolledResult \/ FlowSilent
      \/ UNCHANGED flowVars
  <2>1. CASE Begin \/ LookupIgnored \/ Retry \/ UNCHANGED reconnectVars
    BY <2>1 DEF Begin, LookupIgnored, Retry, reconnectVars
  <2>2. CASE (\E v \in validations : Validated(v)) \/ (\E s \in writes : StoreSteps(s))
    BY <2>2 DEF Validated, StoreSteps
  <2>3. CASE \E s \in writes : Stored(s)
    BY <2>3 DEF Stored
  <2>4. CASE CredentialReady \/ BrowserFails \/ BrowserFinished \/ Silent
    BY <2>4 DEF CredentialReady, BrowserFails, BrowserFinished, Silent
  <2>5. CASE CancelAuthorization \/ CloseRequested
    BY <2>5 DEF CancelAuthorization, CloseRequested, GiveUp
  <2> QED
    BY <2>1, <2>2, <2>3, <2>4, <2>5 DEF ReconnectNext
<1>5. FlowBounded'
  BY <1>4, FlowKeepsBound DEF WindowInv, WindowBounded
<1> QED
  BY <1>2, <1>3, <1>5 DEF WindowBounded

(* Every variable of the reconnection window keeps its type, for any number*)
(* of authorizations and requests.                                         *)
THEOREM ReconnectTypeCorrect == ReconnectSpec => []ReconnectTypeOK
<1>1. ReconnectInit => WindowBounded
  <2>1. 0 + 0 <= MaxStarts /\ 1 <= MaxGrants + 1
    BY StartsAssumption, GrantsAssumption
  <2> QED
    BY <2>1 DEF ReconnectInit, FlowInit, WindowBounded, FlowBounded, Old
<1>2. WindowInv /\ WindowBounded => ReconnectTypeOK
  <2> SUFFICES ASSUME WindowInv, WindowBounded PROVE ReconnectTypeOK
    OBVIOUS
  <2>1. granted \in Nat \ {0} /\ granted <= MaxGrants + 1 /\ MaxGrants \in Nat
    BY GrantsAssumption DEF WindowInv, WindowTyped, WindowBounded
  <2>2. Granted \subseteq Grant /\ 0 .. granted \subseteq {None, Old} \cup Grant
          /\ 1 .. granted \subseteq {Old} \cup Grant /\ granted \in {Old} \cup Grant
    BY <2>1 DEF Granted, Grant, None, Old
  <2>3. FlowTypeOK
    BY FlowIsTyped DEF WindowInv, WindowBounded
  <2>4. WindowTyped
    BY DEF WindowInv
  <2>5. /\ validations \subseteq [auth : Grant, current : BOOLEAN]
        /\ writes \subseteq [auth : Grant, step : {"writing", "verifying", "stored", "failed"}]
    BY <2>2, <2>4 DEF WindowTyped
  <2> QED
    BY <2>2, <2>3, <2>4, <2>5 DEF WindowTyped, WindowBounded, ReconnectTypeOK
<1> QED
  BY <1>1, <1>2, WindowKeepsBounds, WindowAlways, PTL DEF ReconnectSpec

(* The part of SetupTypeOK that is the assistant's own, and what it rests  *)
(* on: the pages past the first two have a server, a sign-in that is under *)
(* way goes on with one, and the last pages have a name too.               *)
SetupTyped ==
  /\ page \in {"welcome", "server", "authentication", "folder", "summary", "done"}
  /\ server \in Server \cup {Nobody} /\ username \in User \cup {Nobody}
  /\ browsing \in Server \cup {Nobody}
  /\ validating \in Account \cup {NoAccount}
  /\ stores \subseteq Account /\ keyring \subseteq Account
  /\ configured \in Account \cup {NoAccount}

SetupNamed ==
  /\ page \notin {"welcome", "server"} => server # Nobody
  /\ callback => browsing # Nobody
  /\ validating # NoAccount => server # Nobody
  /\ stores # {} \/ page \in {"folder", "summary"} => server # Nobody /\ username # Nobody

(* The pages keep it, ...                                                  *)
LEMMA PagesTyped ==
  ASSUME SetupTyped, SetupNamed,
         TurnPage \/ FinishSetup \/ (\E s \in Server : ServerContinue(s))
  PROVE  SetupTyped' /\ SetupNamed' /\ UNCHANGED flowVars
<1>1. CASE TurnPage
  <2>1. /\ UNCHANGED <<flowVars, callback, server, username, browsing, validating, stores, keyring,
                       configured>>
        /\ page' \in {"welcome", "server", "authentication", "folder", "summary", "done"}
        /\ page' \notin {"welcome", "server"} => page \notin {"welcome", "server"}
        /\ page' \in {"folder", "summary"} => page \in {"folder", "summary"}
    BY <1>1 DEF TurnPage, Turn, flowVars
  <2> QED
    BY <2>1 DEF SetupTyped, SetupNamed
<1>2. CASE FinishSetup
  <2>1. /\ UNCHANGED <<flowVars, callback, server, username, browsing, validating, stores, keyring>>
        /\ page = "summary" /\ page' = "done"
        /\ configured' = [server |-> server, user |-> username]
    BY <1>2 DEF FinishSetup, flowVars
  <2>2. server \in Server /\ username \in User
    BY <2>1 DEF SetupTyped, SetupNamed
  <2>3. configured' \in Account
    BY <2>1, <2>2 DEF Account
  <2> QED
    BY <2>1, <2>2, <2>3, NobodyAssumption DEF SetupTyped, SetupNamed
<1>3. ASSUME NEW s \in Server, ServerContinue(s)
      PROVE  SetupTyped' /\ SetupNamed' /\ UNCHANGED flowVars
  <2>1. /\ UNCHANGED <<flowVars, callback, username, browsing, validating, stores, keyring,
                       configured>>
        /\ page' = "authentication" /\ server' = s /\ s # Nobody
    BY <1>3, NobodyAssumption DEF ServerContinue, flowVars
  <2> QED
    BY <2>1 DEF SetupTyped, SetupNamed
<1> QED
  BY <1>1, <1>2, <1>3

(* ... the browser does, ...                                               *)
LEMMA BrowserTyped ==
  ASSUME FlowInv, SetupTyped, SetupNamed,
         \/ BrowserLogin \/ CancelBrowser \/ SetupBrowserFails
         \/ \E u \in User : SetupBrowserFinished(u)
  PROVE  SetupTyped' /\ SetupNamed' /\ (StartFlow \/ CancelFlow \/ FlowError \/ PolledResult)
<1>1. CASE BrowserLogin
  BY <1>1 DEF BrowserLogin, SetupTyped, SetupNamed
<1>2. CASE CancelBrowser \/ SetupBrowserFails
  <2>1. ~callback'
    BY <1>2, CancelFlowInv, FlowEndsInv DEF CancelBrowser, SetupBrowserFails
  <2> QED
    BY <1>2, <2>1 DEF CancelBrowser, SetupBrowserFails, SetupTyped, SetupNamed
<1>3. ASSUME NEW u \in User, SetupBrowserFinished(u)
      PROVE  SetupTyped' /\ SetupNamed' /\ PolledResult
  <2>1. PolledResult /\ callback /\ ~callback'
    BY <1>3, FlowEndsInv DEF SetupBrowserFinished
  <2>2. browsing \in Server /\ u # Nobody /\ browsing # Nobody
    BY <2>1, NobodyAssumption DEF SetupTyped, SetupNamed
  <2>3. /\ server' = browsing /\ username' = u
        /\ stores' = stores \cup {[server |-> browsing, user |-> u]}
        /\ UNCHANGED <<page, browsing, validating, keyring, configured>>
    BY <1>3 DEF SetupBrowserFinished, StoreUnder
  <2>4. stores' \subseteq Account
    BY <2>2, <2>3 DEF SetupTyped, Account
  <2> QED
    BY <2>1, <2>2, <2>3, <2>4 DEF SetupTyped, SetupNamed
<1> QED
  BY <1>1, <1>2, <1>3

(* ... and so do the manual sign-in and the keyring.                       *)
LEMMA ManualTyped ==
  ASSUME SetupTyped, SetupNamed,
         \/ (\E u \in User : ManualLogin(u)) \/ SetupValidated \/ \E a \in stores : SetupStored(a)
  PROVE  SetupTyped' /\ SetupNamed' /\ UNCHANGED flowVars
<1>1. callback' = callback /\ UNCHANGED <<flowVars, server, browsing, configured>>
  BY DEF ManualLogin, SetupValidated, SetupStored, flowVars
<1>2. ASSUME NEW u \in User, ManualLogin(u) PROVE SetupTyped' /\ SetupNamed'
  <2>1. /\ page = "authentication" /\ validating' = [server |-> server, user |-> u]
        /\ UNCHANGED <<page, username, stores, keyring>>
    BY <1>2 DEF ManualLogin
  <2>2. server \in Server
    BY <2>1 DEF SetupTyped, SetupNamed
  <2>3. validating' \in Account
    BY <2>1, <2>2 DEF Account
  <2> QED
    BY <1>1, <2>1, <2>2, <2>3 DEF SetupTyped, SetupNamed
<1>3. CASE SetupValidated
  <2>1. /\ validating # NoAccount /\ validating' = NoAccount /\ UNCHANGED <<page, keyring>>
        /\ \/ UNCHANGED <<username, stores>>
           \/ /\ username' = validating.user
              /\ stores' = stores \cup {[server |-> server, user |-> validating.user]}
    BY <1>3 DEF SetupValidated, NameTaken, StoreUnder
  <2>2. server \in Server /\ validating \in Account
    BY <2>1 DEF SetupTyped, SetupNamed
  <2>3. validating.user \in User /\ validating.user # Nobody
    BY <2>2, NobodyAssumption DEF Account
  <2>4. stores' \subseteq Account
    BY <2>1, <2>2, <2>3 DEF SetupTyped, Account
  <2>5. SetupTyped'
    BY <1>1, <2>1, <2>3, <2>4 DEF SetupTyped
  <2> QED
    BY <1>1, <2>1, <2>2, <2>3, <2>5 DEF SetupNamed
<1>4. ASSUME NEW a \in stores, SetupStored(a) PROVE SetupTyped' /\ SetupNamed'
  <2>1. /\ stores' = stores \ {a} /\ UNCHANGED <<username, validating>>
        /\ (keyring' = keyring \cup {a} /\ page' = "folder") \/ UNCHANGED <<keyring, page>>
    BY <1>4 DEF SetupStored, StoreEnds
  <2> QED
    BY <1>1, <2>1 DEF SetupTyped, SetupNamed
<1> QED
  BY <1>1, <1>2, <1>3, <1>4

(* Every variable of the setup assistant keeps its type, for any servers,  *)
(* users and number of requests.                                           *)
THEOREM SetupTypeCorrect == SetupSpec => []SetupTypeOK
<1>1. SetupInit => FlowBounded /\ SetupTyped /\ SetupNamed
  <2>1. 0 + 0 <= MaxStarts
    BY StartsAssumption
  <2> QED
    BY <2>1 DEF SetupInit, FlowInit, FlowBounded, SetupTyped, SetupNamed
<1>2. SetupInv /\ FlowBounded /\ SetupTyped /\ SetupNamed /\ [SetupNext]_setupVars
      => FlowBounded' /\ SetupTyped' /\ SetupNamed'
  <2> SUFFICES ASSUME SetupInv, FlowBounded, SetupTyped, SetupNamed, [SetupNext]_setupVars
               PROVE  FlowBounded' /\ SetupTyped' /\ SetupNamed'
    OBVIOUS
  <2>1. FlowInv
    BY DEF SetupInv
  <2>2. CASE /\ FlowSilent \/ UNCHANGED flowVars
             /\ UNCHANGED <<page, server, username, browsing, validating, stores, keyring,
                            configured>>
    <3>1. callback' => callback
      BY <2>1, <2>2, FlowSilentInv, FlowSame
    <3> QED
      BY <2>1, <2>2, <3>1, FlowKeepsBound DEF SetupTyped, SetupNamed
  <2> QED
    BY <2>1, <2>2, PagesTyped, BrowserTyped, ManualTyped, FlowKeepsBound DEF SetupNext, setupVars
<1>3. SetupInv /\ [SetupNext]_setupVars => SetupInv'
  BY PagesInv, BrowserInv, SignInInv, SilentInv DEF SetupNext, setupVars
<1>4. SetupInv /\ FlowBounded /\ SetupTyped => SetupTypeOK
  BY FlowIsTyped DEF SetupInv, SetupTyped, SetupTypeOK
<1> QED
  BY <1>1, <1>2, <1>3, <1>4, SetupInitInv, PTL DEF SetupSpec

-----------------------------------------------------------------------------
(* What the run composes: the part is chosen at first, and a step is one of *)
(* that part.                                                              *)
InDetails == part = "details"
InKeyring == part = "keyring"
InReconnect == part = "reconnect"
InSetup == part = "setup"

(* So each part keeps its types in what the run composes, where the two    *)
(* windows take turns with one login flow.                                 *)
THEOREM PartsKeepTypes == AllSpec => []PartsTyped
<1>1. AllInit => DetailsInit /\ Init /\ ReconnectInit /\ SetupInit
  BY DEF AllInit
<1>2. [AllNext]_allVars =>
        /\ (InDetails <=> InDetails') /\ (InKeyring <=> InKeyring')
        /\ (InReconnect <=> InReconnect') /\ (InSetup <=> InSetup')
  BY DEF AllNext, allVars, InDetails, InKeyring, InReconnect, InSetup
<1>3. [AllNext]_allVars =>
        /\ InDetails => [DetailsNext]_detailsVars
        /\ InKeyring => [Next]_vars
        /\ InReconnect => [ReconnectNext]_reconnectVars
        /\ InSetup => [SetupNext]_setupVars
  BY DEF AllNext, allVars, reconnectVars, setupVars, reconnectOnly, setupOnly,
         InDetails, InKeyring, InReconnect, InSetup
<1>4. AllSpec => [](InDetails => DetailsTypeOK)
  BY <1>1, <1>2, <1>3, DetailsTypeCorrect, PTL DEF AllSpec, DetailsSpec
<1>5. AllSpec => [](InKeyring => TypeOK)
  BY <1>1, <1>2, <1>3, KeyringTypeCorrect, PTL DEF AllSpec, Spec
<1>6. AllSpec => [](InReconnect => ReconnectTypeOK)
  BY <1>1, <1>2, <1>3, ReconnectTypeCorrect, PTL DEF AllSpec, ReconnectSpec
<1>7. AllSpec => [](InSetup => SetupTypeOK)
  BY <1>1, <1>2, <1>3, SetupTypeCorrect, PTL DEF AllSpec, SetupSpec
<1>8. /\ (InDetails => DetailsTypeOK) /\ (InKeyring => TypeOK)
      /\ (InReconnect => ReconnectTypeOK) /\ (InSetup => SetupTypeOK)
      => PartsTyped
  BY DEF PartsTyped, InDetails, InKeyring, InReconnect, InSetup
<1> QED
  BY <1>4, <1>5, <1>6, <1>7, <1>8, PTL
=============================================================================
