----------------------------- MODULE Reconnect -----------------------------
(***************************************************************************)
(* ReconnectWindow (ui/reconnect.py): a new browser authorization replaces *)
(* the stored password: look the old one up, authorize, check the account, *)
(* validate (again after a rate limit), store, revoke the old one.  The    *)
(* user may cancel or close the window at any moment.  Passwords are       *)
(* numbered: 1 is the one to replace, the others are granted in order.     *)
(***************************************************************************)
EXTENDS LoginFlow

CONSTANT MaxGrants     \* bound: authorizations the server grants

ASSUME GrantsAssumption == MaxGrants \in Nat

None == 0
Old == 1
Grant == 2 .. (MaxGrants + 1)

VARIABLES
  closed,
  waiting_box,    \* it is shown, with its Cancel button
  lookups,        \* lookups of this and of earlier attempts
  old_password,
  pending_result,
  validations,    \* validation requests and whether they are of the current generation
  retry,          \* the authorization the retry timer holds
  writes,         \* the keyring writes under way
  in_keyring,     \* the stored password
  granted,        \* the last authorization delivered
  revoked,        \* the passwords the program has asked the server to revoke
  completed,      \* on_complete was called
  interrupted     \* history: canceled or closed during a write

windowVars == <<waiting_box, pending_result, validations, retry, writes, in_keyring, granted,
                revoked, completed, interrupted>>
reconnectVars == <<flowVars, closed, lookups, old_password, windowVars>>

(* Everything has its type.                                                *)
ReconnectTypeOK ==
  /\ FlowTypeOK
  /\ closed \in BOOLEAN /\ waiting_box \in BOOLEAN /\ lookups \subseteq {"current", "earlier"}
  /\ old_password \in {None, Old} \cup Grant /\ pending_result \in {None} \cup Grant
  /\ validations \subseteq [auth : Grant, current : BOOLEAN]
  /\ retry \in {None} \cup Grant
  /\ writes \subseteq [auth : Grant, step : {"writing", "verifying", "stored", "failed"}]
  /\ in_keyring \in {None, Old} \cup Grant /\ granted \in {Old} \cup Grant
  /\ revoked \subseteq {Old} \cup Grant
  /\ completed \in BOOLEAN /\ interrupted \in BOOLEAN

ReconnectInit ==
  /\ FlowInit /\ closed = FALSE /\ waiting_box = FALSE /\ lookups = {}
  /\ old_password = None /\ pending_result = None /\ validations = {} /\ retry = None
  /\ writes = {} /\ in_keyring \in {None, Old} /\ granted = Old /\ revoked = {}
  /\ completed = FALSE /\ interrupted = FALSE

-----------------------------------------------------------------------------
(* The answers on their way become those of an earlier attempt.            *)
EarlierLookups == IF "current" \in lookups THEN {"earlier"} ELSE lookups
EarlierValidations == {[v EXCEPT !.current = FALSE] : v \in validations}

(* _begin_authorization: the button is shown when nothing is awaited.      *)
Begin ==
  /\ ~closed /\ ~waiting_box
  /\ waiting_box' = TRUE /\ retry' = None
  /\ lookups' = EarlierLookups \cup {"current"}
  /\ UNCHANGED <<flowVars, closed, old_password, pending_result, validations, writes, in_keyring,
                 granted, revoked, completed, interrupted>>

(* credential_ready, with the password or without.                         *)
CredentialReady ==
  /\ "current" \in lookups /\ ~closed
  /\ lookups' = lookups \ {"current"}
  /\ old_password' \in {None, in_keyring}
  /\ StartFlow
  /\ UNCHANGED <<closed, windowVars>>

LookupIgnored ==
  /\ \/ "earlier" \in lookups /\ lookups' = lookups \ {"earlier"}
     \/ closed /\ lookups # {} /\ lookups' = {}
  /\ UNCHANGED <<flowVars, closed, old_password, windowVars>>

(* _reject_result                                                          *)
Reject(auth) ==
  /\ retry' = None /\ pending_result' = IF pending_result = auth THEN None ELSE pending_result
  /\ revoked' = revoked \cup {auth} /\ waiting_box' = FALSE

(* _browser_finished: an error, another server or account, or validation.  *)
BrowserFails ==
  /\ FlowError /\ ~closed
  /\ waiting_box' = FALSE
  /\ UNCHANGED <<closed, lookups, old_password, pending_result, validations, retry, writes,
                 in_keyring, granted, revoked, completed, interrupted>>

BrowserFinished ==
  /\ PolledResult /\ ~closed
  /\ granted <= MaxGrants /\ granted' = granted + 1
  /\ \/ /\ pending_result' = None /\ revoked' = revoked \cup {granted'} /\ waiting_box' = FALSE
        /\ validations' = EarlierValidations
     \/ /\ pending_result' = granted' /\ waiting_box' = TRUE /\ UNCHANGED revoked
        /\ validations' = EarlierValidations \cup {[auth |-> granted', current |-> TRUE]}
  /\ retry' = None
  /\ UNCHANGED <<closed, lookups, old_password, writes, in_keyring, completed, interrupted>>

-----------------------------------------------------------------------------
(* validated: ignored, rate limited, rejected, or accepted and stored.     *)
Heard(v) == ~closed /\ v.current

LimitForgotten(auth) ==     \* mutant: a rate-limited validation is not repeated
  retry' = None /\ waiting_box' = TRUE /\ UNCHANGED <<pending_result, revoked, writes>>

Limited(auth) ==
  /\ retry' = auth /\ waiting_box' = TRUE
  /\ UNCHANGED <<pending_result, revoked, writes>>

Validated(v) ==
  /\ v \in validations
  /\ \/ /\ ~Heard(v) /\ validations' = validations \ {v}
        /\ UNCHANGED <<waiting_box, pending_result, retry, writes, revoked>>
     \/ /\ Heard(v) /\ validations' = validations \ {v}
        /\ Limited(v.auth)
     \/ /\ Heard(v)
        /\ validations' = {[w EXCEPT !.current = FALSE] : w \in validations \ {v}}
        /\ Reject(v.auth) /\ UNCHANGED writes
     \/ /\ Heard(v) /\ validations' = validations \ {v}
        /\ retry' = None
        /\ writes' = writes \cup {[auth |-> v.auth, step |-> "writing"]}
        /\ UNCHANGED <<waiting_box, pending_result, revoked>>
  /\ UNCHANGED <<flowVars, closed, lookups, old_password, in_keyring, granted, completed,
                 interrupted>>

(* retry: the same authorization, if it is still the pending one.          *)
Retry ==
  /\ retry # None /\ ~closed
  /\ retry' = None
  /\ validations' = IF pending_result # retry THEN validations
                    ELSE EarlierValidations \cup {[auth |-> retry, current |-> TRUE]}
  /\ waiting_box' = (waiting_box \/ pending_result = retry)
  /\ UNCHANGED <<flowVars, closed, lookups, old_password, pending_result, writes, in_keyring,
                 granted, revoked, completed, interrupted>>

-----------------------------------------------------------------------------
(* CredentialStore.store on its thread: the write and the reading back.    *)
MoveStore(s, step) == writes' = (writes \ {s}) \cup {[s EXCEPT !.step = step]}

StoreSteps(s) ==
  /\ s \in writes
  /\ \/ s.step = "writing" /\ in_keyring' = s.auth /\ MoveStore(s, "verifying")
     \/ s.step = "writing" /\ UNCHANGED in_keyring /\ MoveStore(s, "failed")
     \/ /\ s.step = "verifying" /\ UNCHANGED in_keyring
        /\ \/ in_keyring = s.auth /\ MoveStore(s, "stored")
           \/ MoveStore(s, "failed")
  /\ UNCHANGED <<flowVars, closed, lookups, old_password, waiting_box, pending_result, validations,
                 retry, granted, revoked, completed, interrupted>>

RevokedAnyway(auth) == {old_password, auth} \ {None}   \* mutant: the new one goes as well
Replaced(auth) == {old_password} \ {None, auth}

(* stored: it looks at nothing but whether the window is closed.           *)
Stored(s) ==
  /\ s \in writes /\ s.step \in {"stored", "failed"}
  /\ writes' = writes \ {s}
  /\ \/ closed /\ UNCHANGED <<flowVars, closed, pending_result, validations, retry, revoked,
                              waiting_box, completed, interrupted>>
     \/ /\ ~closed /\ s.step = "failed" /\ Reject(s.auth)
        /\ validations' = EarlierValidations
        /\ UNCHANGED <<flowVars, closed, completed, interrupted>>
     \/ /\ ~closed /\ s.step = "stored"
        /\ revoked' = revoked \cup Replaced(s.auth)
        /\ completed' = TRUE
        /\ closed' = TRUE /\ pending_result' = None /\ retry' = None
        /\ validations' = EarlierValidations /\ CancelFlow
        /\ interrupted' = (interrupted \/ writes' # {})
        /\ UNCHANGED waiting_box
  /\ UNCHANGED <<lookups, old_password, in_keyring, granted>>

-----------------------------------------------------------------------------
(* What canceling and closing have in common.                              *)
PendingDropped == pending_result' = None /\ UNCHANGED revoked     \* mutant: nothing is revoked

PendingRevoked == pending_result' = None /\ revoked' = revoked \cup ({pending_result} \ {None})

GiveUp ==
  /\ CancelFlow /\ PendingRevoked
  /\ retry' = None /\ lookups' = EarlierLookups /\ validations' = EarlierValidations
  /\ interrupted' = (interrupted \/ writes # {})
  /\ UNCHANGED <<old_password, writes, in_keyring, granted, completed>>

CancelAuthorization == ~closed /\ waiting_box /\ GiveUp /\ waiting_box' = FALSE /\ UNCHANGED closed

CloseRequested == ~closed /\ GiveUp /\ closed' = TRUE /\ UNCHANGED waiting_box

Silent == FlowSilent /\ UNCHANGED <<closed, lookups, old_password, windowVars>>

ReconnectNext ==
  \/ Begin \/ CredentialReady \/ LookupIgnored \/ Silent
  \/ BrowserFails \/ BrowserFinished
  \/ (\E v \in validations : Validated(v)) \/ Retry
  \/ \E s \in writes : StoreSteps(s) \/ Stored(s)
  \/ CancelAuthorization \/ CloseRequested

ReconnectSpec == ReconnectInit /\ [][ReconnectNext]_reconnectVars

-----------------------------------------------------------------------------
(* Every authorization that was delivered is in the keyring or on its way  *)
(* there, waits for its validation, or is revoked, through rate limits,    *)
(* rejections, failed writes and cancellation, unless the user interrupted *)
(* a keyring write.                                                        *)
NoneLeaked ==
  \A a \in 2 .. granted :
    \/ a \in {in_keyring, pending_result} \cup revoked \/ interrupted
    \/ \E s \in writes : s.auth = a

(* The password in the keyring is never one the program has revoked, unless*)
(* a keyring write was interrupted: the old one goes only after the new one*)
(* is verified, and a rejected one was not stored.  (A write that fails    *)
(* its verification may have replaced the old password all the same.)      *)
Unverified == \E s \in writes : s.step = "failed" /\ s.auth = in_keyring

RevokedOnlyIfInterrupted ==
  [][/\ in_keyring \notin revoked /\ ~interrupted' /\ ~Unverified
     => in_keyring' \notin revoked']_reconnectVars

(* A window that waits has something to wait for: what leaves it waiting   *)
(* for nothing is only a poll answer that is refused or cannot be read,    *)
(* whose callback is lost.                                                 *)
Stranded ==
  /\ waiting_box /\ ~closed /\ ~FlowActive /\ "current" \notin lookups
  /\ retry = None /\ writes = {} /\ ~ \E v \in validations : v.current

StrandedOnlyBy == [][~Stranded /\ Stranded' => PolledRefused]_reconnectVars

(* "The renewed credential is verified before a normal protected           *)
(* synchronization resumes" (README): when the window reports completion,  *)
(* the keyring holds a password that was not revoked.                      *)
ResumesWithValid == [][completed' /\ ~completed => in_keyring \notin revoked']_reconnectVars
=============================================================================
