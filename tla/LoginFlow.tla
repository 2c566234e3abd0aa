----------------------------- MODULE LoginFlow -----------------------------
(***************************************************************************)
(* LoginFlowV2 (nextcloud/login_flow.py): a request that begins a browser  *)
(* authorization, then polls every two seconds until it is granted, fails, *)
(* expires or is canceled.  The windows that use it call StartFlow and     *)
(* CancelFlow and say what a delivered answer does to them.                *)
(* A poll that cancel() cancels ends before another can begin, with an     *)
(* error nobody looks at, and is left out.                                 *)
(***************************************************************************)
EXTENDS Naturals

CONSTANT MaxStarts    \* bound: requests that begin an authorization, outstanding

ASSUME StartsAssumption == MaxStarts \in Nat

VARIABLES
  cancelled,     \* _cancelled
  callback,      \* _callback is set
  initiating,    \* requests of start() not answered yet; they cannot be canceled
  endpoint,      \* poll_endpoint, poll_token and login_url are set
  timers, handle,\* the poll timers, and whether _poll_source names one of them
  polling        \* _poll_in_flight

flowVars == <<cancelled, callback, initiating, endpoint, timers, handle, polling>>

FlowTypeOK ==
  /\ cancelled \in BOOLEAN /\ callback \in BOOLEAN /\ endpoint \in BOOLEAN
  /\ handle \in BOOLEAN /\ polling \in BOOLEAN
  /\ initiating \in 0 .. MaxStarts /\ timers \in 0 .. MaxStarts

FlowInit ==
  /\ cancelled = FALSE /\ callback = FALSE /\ initiating = 0
  /\ endpoint = FALSE /\ timers = 0 /\ handle = FALSE /\ polling = FALSE

(* Only the timer that the handle names is removed.                        *)
Reset ==
  /\ timers' = IF handle THEN timers - 1 ELSE timers
  /\ handle' = FALSE /\ endpoint' = FALSE /\ polling' = FALSE

CancelFlow == Reset /\ cancelled' = TRUE /\ callback' = FALSE /\ UNCHANGED initiating

StartFlow ==
  /\ initiating + timers < MaxStarts
  /\ Reset /\ cancelled' = FALSE /\ callback' = TRUE /\ initiating' = initiating + 1

(* initiated: dropped if canceled, an error of its own, or polling begins. *)
InitiatedDropped ==
  /\ initiating > 0 /\ cancelled
  /\ initiating' = initiating - 1
  /\ UNCHANGED <<cancelled, callback, endpoint, timers, handle, polling>>

InitiatedFails ==
  /\ initiating > 0 /\ ~cancelled
  /\ Reset /\ initiating' = initiating - 1 /\ cancelled' = TRUE /\ callback' = FALSE

PollingBegins ==
  /\ initiating > 0 /\ ~cancelled
  /\ initiating' = initiating - 1
  /\ endpoint' = TRUE /\ timers' = timers + 1 /\ handle' = TRUE
  /\ UNCHANGED <<cancelled, callback, polling>>

(* _poll: a timer without a token removes itself; one poll at a time; the  *)
(* six hundredth is the last.                                              *)
PollEnds ==
  /\ timers > 0 /\ (cancelled \/ ~endpoint)
  /\ timers' = timers - 1
  /\ UNCHANGED <<cancelled, callback, initiating, endpoint, handle, polling>>

MayPoll == timers > 0 /\ ~cancelled /\ endpoint /\ ~polling

PollSent ==
  /\ MayPoll /\ polling' = TRUE
  /\ UNCHANGED <<cancelled, callback, initiating, endpoint, timers, handle>>

PollExpires == MayPoll /\ callback /\ CancelFlow

(* polled: nothing yet; an answer that is refused or cannot be read, whose *)
(* callback cancel() has already dropped; or the authorization.            *)
PolledNothing ==
  /\ polling /\ polling' = FALSE
  /\ UNCHANGED <<cancelled, callback, initiating, endpoint, timers, handle>>

PolledRefused == polling /\ CancelFlow

PolledResult == polling /\ callback /\ CancelFlow

(* The flow's steps of which its window learns nothing.                    *)
FlowSilent ==
  InitiatedDropped \/ PollingBegins \/ PollEnds \/ PollSent \/ PolledNothing \/ PolledRefused

FlowError == InitiatedFails \/ PollExpires

FlowActive ==
  ~cancelled /\ (initiating > 0 \/ (endpoint /\ (timers > 0 \/ polling)))
=============================================================================
