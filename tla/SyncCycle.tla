----------------------------- MODULE SyncCycle -----------------------------
(***************************************************************************)
(* What the scheduler promises about one account, with every queue, timer, *)
(* pause and display left out: nextcloudcmd runs one at a time, and each   *)
(* run is preceded by a passed safety check, or by one use of the user's   *)
(* approval of a deletion alert, or by a disabled guard.                   *)
(***************************************************************************)
VARIABLES
  phase,      \* the one operation in progress
  blocked,    \* the alert waiting for a decision
  approval,   \* an approval given and not yet used
  guarded     \* the setting safety.guard_enabled

cycleVars == <<phase, blocked, approval, guarded>>

Phase == {"idle", "checking", "cleared", "running", "recording"}
Alert == {"none", "deletion", "structural"}

Init ==
  /\ phase = "idle" /\ blocked = "none" /\ approval = FALSE
  /\ guarded \in BOOLEAN

(* A safety check is started; several triggers may have asked for it.      *)
Check ==
  /\ phase = "idle" /\ guarded /\ ~approval
  /\ phase' = "checking"
  /\ UNCHANGED <<blocked, approval, guarded>>

Pass ==
  /\ phase = "checking" /\ phase' = "cleared"
  /\ UNCHANGED <<blocked, approval, guarded>>

Block ==
  /\ phase = "checking" /\ phase' = "idle"
  /\ blocked' \in {"deletion", "structural"}
  /\ UNCHANGED <<approval, guarded>>

(* Without a check: the guard is off, or the approval is used up.          *)
Waive ==
  /\ phase = "idle" /\ (approval \/ ~guarded)
  /\ phase' = "cleared" /\ approval' = FALSE
  /\ UNCHANGED <<blocked, guarded>>

(* Only a deletion alert can be approved, and approving answers it.        *)
Approve ==
  /\ blocked = "deletion" /\ blocked' = "none"
  /\ approval' = TRUE
  /\ UNCHANGED <<phase, guarded>>

(* The approval is used in the call that gives it.                         *)
ApproveAndWaive ==
  /\ blocked = "deletion" /\ blocked' = "none"
  /\ phase = "idle" /\ phase' = "cleared" /\ approval' = FALSE
  /\ UNCHANGED guarded

Launch ==
  /\ phase = "cleared" /\ phase' = "running"
  /\ UNCHANGED <<blocked, approval, guarded>>

Exit ==
  /\ phase = "running" /\ phase' \in {"recording", "idle"}
  /\ UNCHANGED <<blocked, approval, guarded>>

(* A check or a credential that leads to nothing, a baseline recorded.     *)
Settle ==
  /\ phase \in {"checking", "cleared", "recording"} /\ phase' = "idle"
  /\ UNCHANGED <<blocked, approval, guarded>>

Configure == guarded' \in BOOLEAN /\ UNCHANGED <<phase, blocked, approval>>

Stop == blocked' = "none" /\ UNCHANGED <<phase, approval, guarded>>

Next ==
  \/ Check \/ Pass \/ Block \/ Waive \/ Approve \/ ApproveAndWaive
  \/ Launch \/ Exit \/ Settle \/ Configure \/ Stop

Spec == Init /\ [][Next]_cycleVars
=============================================================================
