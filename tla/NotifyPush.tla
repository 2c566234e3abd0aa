----------------------------- MODULE NotifyPush -----------------------------
(***************************************************************************)
(* NotifyPushClient (nextcloud/push.py): discovery, pre-authentication and *)
(* the WebSocket as a chain of asynchronous requests, abandoned by raising *)
(* _generation, and started again by a timer.  The generation is abstracted*)
(* to whether an attempt is the current one: the answers of the others are *)
(* still to come but are ignored.                                          *)
(***************************************************************************)
EXTENDS Naturals

CONSTANT MaxClosing   \* bound: closed connections whose signal may still come

ASSUME ClosingAssumption == MaxClosing \in Nat

VARIABLES
  enabled, online,
  flight,             \* the request of the current generation
  stale,              \* the requests of earlier generations
  connection,         \* self.connection is open
  closing,            \* closed by disconnect, the signal outstanding
  reconnect_source, intentional_close,
  endpoints,          \* what discovery found
  pre_auth_token, authenticated, auth_mode, force_password_auth,
  backoff,            \* min(_backoff_index, 5)
  shown               \* the last on_state

calledVars == <<enabled, online>>
attemptVars == <<flight, stale, reconnect_source>>
socketVars == <<connection, closing, intentional_close>>
authVars == <<pre_auth_token, authenticated, auth_mode, force_password_auth>>
clientVars == <<calledVars, attemptVars, socketVars, endpoints, authVars, backoff, shown>>

Stage == {"discover", "pre_auth", "open"}
LongestBackoff == 5

(* Everything has its type.                                                *)
PushTypeOK ==
  /\ enabled \in BOOLEAN /\ online \in BOOLEAN
  /\ flight \in Stage \cup {"none"} /\ stale \subseteq Stage
  /\ connection \in BOOLEAN /\ closing \in 0 .. MaxClosing
  /\ reconnect_source \in BOOLEAN /\ intentional_close \in BOOLEAN
  /\ endpoints \in {"none", "plain", "pre_auth"}
  /\ pre_auth_token \in BOOLEAN /\ authenticated \in BOOLEAN
  /\ auth_mode \in {"", "pre_auth", "password"} /\ force_password_auth \in BOOLEAN
  /\ backoff \in 0 .. LongestBackoff
  /\ shown \in {"DISABLED", "CONNECTING", "CONNECTED", "RECONNECTING",
                "UNSUPPORTED", "AUTH_REQUIRED"}

PushInit ==
  /\ enabled = FALSE /\ online = TRUE
  /\ flight = "none" /\ stale = {} /\ reconnect_source = FALSE
  /\ connection = FALSE /\ closing = 0 /\ intentional_close = FALSE
  /\ endpoints = "none" /\ pre_auth_token = FALSE /\ authenticated = FALSE
  /\ auth_mode = "" /\ force_password_auth = FALSE
  /\ backoff = 0 /\ shown = "DISABLED"

-----------------------------------------------------------------------------
(* A new generation: the request in flight is abandoned.                   *)
Abandoned == stale' = stale \cup ({flight} \ {"none"})

Connect == flight' = "discover" /\ reconnect_source' = FALSE /\ Abandoned
           /\ shown' = "CONNECTING"

(* disconnect: what it closes and forgets.                                 *)
Forget ==
  /\ connection' = FALSE
  /\ closing' = IF connection /\ closing < MaxClosing THEN closing + 1 ELSE closing
  /\ intentional_close' = (intentional_close \/ connection)
  /\ endpoints' = "none" /\ pre_auth_token' = FALSE /\ authenticated' = FALSE
  /\ auth_mode' = "" /\ force_password_auth' = FALSE

Rest == flight' = "none" /\ reconnect_source' = FALSE /\ Abandoned

Disconnect(keep_enabled) ==
  /\ Forget /\ Rest
  /\ shown' = IF keep_enabled THEN shown ELSE "DISABLED"
  /\ UNCHANGED <<calledVars, backoff>>

(* changed: the server, the user or enabled differ from before.            *)
Configure(on, changed) ==
  /\ on # enabled => changed
  /\ enabled' = on
  /\ IF changed THEN Forget ELSE UNCHANGED <<socketVars, endpoints, authVars>>
  /\ \/ on /\ online /\ ~connection' /\ Connect
     \/ /\ ~(on /\ online /\ ~connection')
        /\ IF changed THEN Rest ELSE UNCHANGED attemptVars
        /\ shown' = IF changed \/ ~on THEN "DISABLED" ELSE shown
  /\ UNCHANGED <<online, backoff>>

SetOnline(up) ==
  /\ online' = up
  /\ IF up THEN UNCHANGED <<socketVars, endpoints, authVars>> ELSE Forget
  /\ \/ up /\ enabled /\ ~connection /\ Connect
     \/ up /\ ~(enabled /\ ~connection) /\ UNCHANGED <<attemptVars, shown>>
     \/ ~up /\ Rest /\ UNCHANGED shown
  /\ UNCHANGED <<enabled, backoff>>

NextDelay == IF backoff < LongestBackoff THEN backoff + 1 ELSE backoff

(* _schedule_reconnect; every caller leaves no request in flight.          *)
ScheduleReconnect ==
  /\ flight' = "none"
  /\ IF enabled /\ online
     THEN /\ reconnect_source' = TRUE /\ shown' = "RECONNECTING"
          /\ backoff' = NextDelay
     ELSE UNCHANGED <<reconnect_source, shown, backoff>>

(* _reconnect drops whatever connection there is.                          *)
Reconnect ==
  /\ reconnect_source
  /\ connection' = FALSE
  /\ IF enabled /\ online THEN Connect
     ELSE reconnect_source' = FALSE /\ UNCHANGED <<flight, stale, shown>>
  /\ UNCHANGED <<calledVars, closing, intentional_close, endpoints, authVars, backoff>>

-----------------------------------------------------------------------------
(* Answers.  One of an earlier generation is dropped.                      *)
AnyGeneration(stage) == flight = stage \/ stage \in stale     \* mutant: no generation check

Current(stage) == flight = stage

Dropped(stage) ==
  /\ stage \in stale /\ stale' = stale \ {stage}
  /\ UNCHANGED <<calledVars, flight, reconnect_source, socketVars, endpoints, authVars,
                 backoff, shown>>

PreAuthWanted(found) == found = "pre_auth" /\ ~force_password_auth

(* discovered: it failed, or found a server without push, or endpoints.    *)
Discovered ==
  /\ Current("discover")
  /\ \/ /\ ScheduleReconnect /\ UNCHANGED <<endpoints, pre_auth_token>>
     \/ /\ shown' \in {"AUTH_REQUIRED", "UNSUPPORTED"} /\ flight' = "none"
        /\ UNCHANGED <<reconnect_source, endpoints, pre_auth_token, backoff>>
     \/ /\ endpoints' \in {"plain", "pre_auth"}
        /\ IF PreAuthWanted(endpoints')
           THEN flight' = "pre_auth" /\ UNCHANGED pre_auth_token
           ELSE flight' = "open" /\ pre_auth_token' = FALSE
        /\ UNCHANGED <<reconnect_source, backoff, shown>>
  /\ UNCHANGED <<calledVars, stale, socketVars, authenticated, auth_mode,
                 force_password_auth>>

(* received: with a token or without, the socket is opened.                *)
Received ==
  /\ Current("pre_auth") /\ endpoints # "none"
  /\ flight' = "open" /\ pre_auth_token' \in BOOLEAN
  /\ UNCHANGED <<calledVars, stale, reconnect_source, socketVars, endpoints,
                 authenticated, auth_mode, force_password_auth, backoff, shown>>

Opened ==
  /\ Current("open")
  /\ \/ ScheduleReconnect /\ UNCHANGED <<connection, authenticated, auth_mode>>
     \/ /\ flight' = "none" /\ connection' = TRUE /\ authenticated' = FALSE
        /\ auth_mode' = IF pre_auth_token THEN "pre_auth" ELSE "password"
        /\ UNCHANGED <<reconnect_source, backoff, shown>>
  /\ UNCHANGED <<calledVars, stale, closing, intentional_close, endpoints,
                 pre_auth_token, force_password_auth>>

-----------------------------------------------------------------------------
(* The socket's signals.  A connection that is being closed may still speak*)
(* and its closed signal may come, late, or never.                         *)
Authenticated ==
  /\ connection \/ closing > 0
  /\ authenticated' = TRUE /\ force_password_auth' = FALSE /\ backoff' = 0
  /\ shown' = "CONNECTED"
  /\ UNCHANGED <<calledVars, attemptVars, socketVars, endpoints, pre_auth_token, auth_mode>>

Refused ==
  /\ connection \/ closing > 0
  /\ shown' = "AUTH_REQUIRED"
  /\ UNCHANGED <<calledVars, attemptVars, socketVars, endpoints, authVars, backoff>>

OldClosed ==
  /\ closing > 0 /\ closing' = closing - 1
  /\ intentional_close' \in {FALSE, intentional_close}     \* the signal, or its loss
  /\ UNCHANGED <<calledVars, attemptVars, connection, endpoints, authVars, backoff, shown>>

ForgetsFallback == UNCHANGED <<force_password_auth, pre_auth_token>>
                              \* mutant: pre-authentication is tried again and again

Fallback ==
  /\ force_password_auth' = IF authenticated THEN force_password_auth
                            ELSE auth_mode = "pre_auth"
  /\ pre_auth_token' = (pre_auth_token /\ (authenticated \/ auth_mode # "pre_auth"))

CloseUnretried == flight' = "none" /\ UNCHANGED <<reconnect_source, shown, backoff>>
                              \* mutant: the loss of a connection is not retried

ClosedRetry == ScheduleReconnect

Closed ==
  /\ connection /\ connection' = FALSE
  /\ intentional_close' = FALSE
  /\ IF intentional_close \/ ~(enabled /\ online)
     THEN UNCHANGED <<force_password_auth, pre_auth_token, flight, reconnect_source,
                      shown, backoff>>
     ELSE Fallback /\ ClosedRetry
  /\ UNCHANGED <<calledVars, stale, closing, endpoints, authenticated, auth_mode>>

-----------------------------------------------------------------------------
(* What the runtime calls: settings, the network, resume and reconnection. *)
Called ==
  \/ \E on, changed \in BOOLEAN : Configure(on, changed)
  \/ \E up \in BOOLEAN : SetOnline(up)
  \/ \E keep \in BOOLEAN : Disconnect(keep)

Answered == Discovered \/ Received \/ Opened

PushNext ==
  \/ Called \/ Answered \/ Reconnect
  \/ \E stage \in Stage : Dropped(stage)
  \/ Authenticated \/ Refused \/ OldClosed \/ Closed

PushSpec == PushInit /\ [][PushNext]_clientVars

(* Requests end, timers fire, and the server answers a new connection.  At *)
(* most one of the three can happen at a time (OneAttempt).                *)
Progress ==
  \/ Answered \/ Reconnect
  \/ connection /\ ~authenticated /\ (Authenticated \/ Refused \/ Closed)

PushFairSpec == PushSpec /\ WF_clientVars(Progress)

-----------------------------------------------------------------------------
(* However calls, answers and signals are ordered, at most one of a request*)
(* in flight, an open connection and a pending reconnection exists: two    *)
(* sockets never serve one account.                                        *)
OneAttempt ==
  /\ flight # "none" => ~connection /\ ~reconnect_source
  /\ connection => ~reconnect_source

Trying == flight # "none" \/ connection \/ reconnect_source

(* An enabled client that is online stops trying only by disconnect, on a  *)
(* definite answer of the server, or when it takes the loss of a connection*)
(* for the close of an earlier one.                                        *)
AbandonedOnlyBy ==
  [][Trying /\ ~Trying' /\ enabled' /\ online' =>
       \/ \E keep \in BOOLEAN : Disconnect(keep)
       \/ shown' \in {"AUTH_REQUIRED", "UNSUPPORTED"}
       \/ connection /\ intentional_close]_clientVars

(* A server that closes every socket opened with a pre-authentication token*)
(* and accepts the password is reached all the same: if nothing else goes  *)
(* wrong from some moment on, a trying client is authenticated.            *)
TokenClosed == connection /\ auth_mode = "pre_auth" /\ ~authenticated /\ Closed
PasswordAccepted == connection /\ auth_mode = "password" /\ Authenticated

Smooth ==
  \/ (Answered /\ shown' \notin {"RECONNECTING", "AUTH_REQUIRED", "UNSUPPORTED"})
  \/ Reconnect \/ TokenClosed \/ PasswordAccepted
  \/ \E stage \in Stage : Dropped(stage)

FallsBack ==
  <>[][Smooth]_clientVars /\ <>[]~intentional_close
    => []<>(Trying => connection /\ authenticated)
=============================================================================
