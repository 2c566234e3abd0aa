---------------------------- MODULE GuardedSync ----------------------------
(***************************************************************************)
(* The deletion guard on a real folder: SafetyGuard and SafetyManifest     *)
(* (core/safety.py) with the run marker (core/sync_run_marker.py), in the  *)
(* cycle of SyncCycle, which Scheduler is shown to follow.  The folder and *)
(* the server change under it at any moment, nextcloudcmd reconciles them  *)
(* file by file, and the program may be killed between any two steps.      *)
(* nextcloudcmd and its journal are external: they do what the program     *)
(* relies on, propagating additions and deletions both ways.               *)
(***************************************************************************)
EXTENDS Naturals, FiniteSets

CONSTANTS
  GuardSettings,   \* the values the user gives safety.guard_enabled
  File,            \* the paths the inventories can name
  CountLimit,      \* safety.deletion_count_threshold
  MaxChanges,      \* bound: changes of the folder, the server and the switch, and crashes
  PercentLimit,    \* safety.deletion_percent_threshold
  NoJournal, NoManifest, NoScan, Saved     \* the absent values, unequal to the others

ASSUME LimitAssumption == CountLimit \in Nat /\ PercentLimit \in Nat /\ MaxChanges \in Nat
ASSUME GuardAssumption == GuardSettings \subseteq BOOLEAN
ASSUME FileAssumption == IsFiniteSet(File)
ASSUME AbsentAssumption ==
  NoScan # Saved /\ \A S \in SUBSET File : S # NoScan /\ S # Saved

VARIABLES
  root,       \* which folder is at local_root, and whether it can be read
  files,      \* its inventory
  journal,    \* the files the sync database records, or NoJournal
  remote,     \* the files on the server
  unsettled,  \* the files nextcloudcmd has still to look at
  manifest,   \* the saved baseline, or NoManifest
  marker,     \* sync-run.json exists
  marker_active,
  snapshot,   \* record_current: what its scan found, and whether it is saved
  alert_missing,    \* alert.missing_paths of the blocking alert
  phase, blocked, approval, guarded     \* the cycle

VARIABLES     \* history, read by the properties only
  clearance,  \* why the current run was allowed
  allowed,    \* the deletions the user approved for it
  late,       \* the files removed locally since it was allowed
  deleted,    \* the files it has deleted on the server
  uncommitted,\* a guarded run began and no baseline was saved since
  changes     \* how often the world has changed, up to MaxChanges

folderVars == <<root, files, journal>>
worldVars == <<root, files, journal, remote, unsettled>>
cycleVars == <<phase, blocked, approval, guarded>>
markerVars == <<marker, marker_active>>
runVars == <<clearance, allowed, late, deleted>>
historyVars == <<clearance, allowed, late, deleted, uncommitted, changes>>
vars == <<root, files, journal, remote, unsettled, manifest, marker, marker_active,
          snapshot, alert_missing, phase, blocked, approval, guarded,
          clearance, allowed, late, deleted, uncommitted, changes>>

Cycle == INSTANCE SyncCycle

Manifest == [files : SUBSET File, root : {"home", "other"}, database : BOOLEAN]

(* Everything has its type.                                                *)
TypeOK ==
  /\ root \in {"home", "other", "missing", "unreadable"}
  /\ files \subseteq File /\ remote \subseteq File /\ unsettled \subseteq File
  /\ journal = NoJournal \/ journal \in SUBSET File
  /\ manifest = NoManifest \/ manifest \in Manifest
  /\ marker \in BOOLEAN /\ marker_active \in BOOLEAN
  /\ snapshot \in {NoScan, Saved} \/ snapshot \in SUBSET File
  /\ alert_missing \subseteq File
  /\ phase \in Cycle!Phase /\ blocked \in Cycle!Alert
  /\ approval \in BOOLEAN /\ guarded \in BOOLEAN
  /\ clearance \in {"none", "checked", "approved", "unguarded"}
  /\ allowed \subseteq File /\ late \subseteq File /\ deleted \subseteq File
  /\ uncommitted \in BOOLEAN /\ changes \in 0 .. MaxChanges

(* The protected initialization has reconciled both sides and saved the    *)
(* first baseline, or its file was lost.                                   *)
Init ==
  /\ root = "home" /\ files = File /\ journal = File /\ remote = File /\ unsettled = {}
  /\ manifest \in {NoManifest, [files |-> File, root |-> "home", database |-> TRUE]}
  /\ marker = FALSE /\ marker_active = FALSE
  /\ snapshot = NoScan /\ alert_missing = {}
  /\ Cycle!Init /\ guarded \in GuardSettings
  /\ clearance = "none" /\ allowed = {} /\ late = {} /\ deleted = {}
  /\ uncommitted = FALSE /\ changes = 0

-----------------------------------------------------------------------------
(* SafetyGuard.check                                                       *)

MissingSwapped == files \ manifest.files     \* mutant: the difference is turned round

Missing == manifest.files \ files

(* At least the configured number or percentage, the limits clamped as the *)
(* code clamps them.                                                       *)
AtLeast(a, b) == IF a >= b THEN a ELSE b
AtMost(a, b) == IF a <= b THEN a ELSE b

OverLimits(missing, previous) ==
  /\ missing # {}
  /\ \/ Cardinality(missing) >= AtLeast(1, CountLimit)
     \/ Cardinality(missing) * 100 >=
          AtLeast(1, AtMost(100, PercentLimit)) * Cardinality(previous)

(* The first reason that applies, in the code's order.                     *)
Verdict ==
  IF ~guarded THEN "none"
  ELSE IF manifest = NoManifest THEN "manifest_missing"
  ELSE IF root = "missing" THEN "folder_missing"
  ELSE IF root # "unreadable" /\ root # manifest.root THEN "folder_replaced"
  ELSE IF root = "unreadable" THEN "scan_failed"
  ELSE IF manifest.files # {} /\ files = {} THEN "folder_emptied"
  ELSE IF manifest.database /\ journal = NoJournal THEN "database_missing"
  ELSE IF OverLimits(Missing, manifest.files) THEN "mass_local_deletion"
  ELSE "none"

CanApproveOnce(reason) == reason \in {"folder_emptied", "mass_local_deletion"}

Check ==
  /\ Cycle!Check
  /\ UNCHANGED <<worldVars, manifest, markerVars, snapshot, alert_missing, historyVars>>

CheckPasses ==
  /\ Verdict = "none" /\ Cycle!Pass
  /\ clearance' = IF guarded THEN "checked" ELSE "unguarded"
  /\ late' = {} /\ deleted' = {}
  /\ UNCHANGED <<worldVars, manifest, markerVars, snapshot, alert_missing,
                 allowed, uncommitted, changes>>

CheckBlocks ==
  /\ Verdict # "none" /\ Cycle!Block
  /\ blocked' = IF CanApproveOnce(Verdict) THEN "deletion" ELSE "structural"
  /\ alert_missing' = IF CanApproveOnce(Verdict) THEN Missing ELSE {}
  /\ UNCHANGED <<worldVars, manifest, markerVars, snapshot, historyVars>>

-----------------------------------------------------------------------------
(* The user's decision, and a run that needs no check.                     *)
Approve ==
  /\ Cycle!Approve
  /\ allowed' = alert_missing
  /\ UNCHANGED <<worldVars, manifest, markerVars, snapshot, alert_missing,
                 clearance, late, deleted, uncommitted, changes>>

Waive ==
  /\ Cycle!Waive
  /\ clearance' = IF guarded THEN "approved" ELSE "unguarded"
  /\ late' = {} /\ deleted' = {}
  /\ UNCHANGED <<worldVars, manifest, markerVars, snapshot, alert_missing,
                 allowed, uncommitted, changes>>

SetGuard ==
  /\ Cycle!Configure /\ guarded' \in GuardSettings
  /\ changes < MaxChanges /\ changes' = changes + 1
  /\ UNCHANGED <<worldVars, manifest, markerVars, snapshot, alert_missing,
                 clearance, allowed, late, deleted, uncommitted>>

-----------------------------------------------------------------------------
(* The run: marker first, then nextcloudcmd, file by file.                 *)
Launch ==
  /\ Cycle!Launch /\ unsettled' = File
  /\ marker' = (marker \/ guarded) /\ marker_active' = (marker_active \/ guarded)
  /\ uncommitted' = (uncommitted \/ guarded)
  /\ UNCHANGED <<folderVars, remote, manifest, snapshot, alert_missing,
                 runVars, changes>>

(* The history of a run that is over says nothing of the next one.         *)
RunOver ==
  /\ clearance' = "none" /\ late' = {} /\ deleted' = {}
  /\ allowed' = IF approval' THEN allowed ELSE {}

(* No credential, no command, no marker, or no process: the marker may be  *)
(* there already.                                                          *)
NoLaunch ==
  /\ phase = "cleared" /\ Cycle!Settle /\ RunOver
  /\ marker' \in {marker, marker \/ guarded}
  /\ marker_active' \in {marker_active, marker_active \/ (guarded /\ marker')}
  /\ UNCHANGED <<worldVars, manifest, snapshot, alert_missing, uncommitted, changes>>

Known == IF journal = NoJournal THEN {} ELSE journal
Accessible == root \in {"home", "other"}

(* nextcloudcmd settles one file: what the journal knows and one side has  *)
(* lost is deleted on the other, what it does not know is copied.          *)
Propagate(f) ==
  /\ phase = "running" /\ Accessible /\ f \in unsettled /\ unsettled' = unsettled \ {f}
  /\ LET keep == IF f \in Known THEN f \in files /\ f \in remote
                 ELSE f \in files \/ f \in remote IN
     /\ files' = IF keep THEN files \cup {f} ELSE files \ {f}
     /\ remote' = IF keep THEN remote \cup {f} ELSE remote \ {f}
     /\ journal' = IF keep THEN Known \cup {f} ELSE Known \ {f}
  /\ deleted' = deleted \cup (remote \ remote')
  /\ UNCHANGED <<root, manifest, markerVars, snapshot, alert_missing, cycleVars,
                 clearance, allowed, late, uncommitted, changes>>

(* It succeeds when it has looked at every file, and may fail at any point.*)
Exit ==
  /\ Cycle!Exit /\ RunOver /\ unsettled' = {}
  /\ phase' = "recording" => Accessible /\ unsettled = {}
  /\ UNCHANGED <<folderVars, remote, manifest, markerVars, snapshot, alert_missing,
                 uncommitted, changes>>

-----------------------------------------------------------------------------
(* record_current on its thread, and _baseline_recorded on the main loop.  *)
RecordScan ==
  /\ phase = "recording" /\ snapshot = NoScan /\ Accessible
  /\ snapshot' = files
  /\ UNCHANGED <<worldVars, manifest, markerVars, alert_missing, cycleVars, historyVars>>

(* What SafetyManifest.save writes of the folder at path: a folder it may  *)
(* not read keeps its inode but shows no database.                         *)
Baseline(found, path) ==
  [files |-> found, root |-> IF path = "unreadable" THEN "home" ELSE path,
   database |-> path # "unreadable" /\ journal # NoJournal]

RecordSaveBlind ==     \* mutant: the folder is not made again
  /\ snapshot \notin {NoScan, Saved} /\ snapshot' = Saved
  /\ manifest' = Baseline(snapshot, root) /\ uncommitted' = FALSE
  /\ UNCHANGED <<worldVars, markerVars, alert_missing, cycleVars, runVars, changes>>

(* SafetyManifest.save makes a vanished folder again before it reads the   *)
(* folder's identity.                                                      *)
RecordSave ==
  /\ snapshot \notin {NoScan, Saved} /\ snapshot' = Saved
  /\ root' = IF root = "missing" THEN "other" ELSE root
  /\ manifest' = Baseline(snapshot, root') /\ uncommitted' = FALSE
  /\ UNCHANGED <<files, journal, remote, unsettled, markerVars, alert_missing, cycleVars,
                 runVars, changes>>

BaselineAlwaysRecorded ==     \* mutant: what record_current returned is ignored
  /\ phase = "recording" /\ Cycle!Settle /\ snapshot' = NoScan
  /\ marker' = FALSE /\ marker_active' = FALSE
  /\ UNCHANGED <<worldVars, manifest, alert_missing, historyVars>>

(* Recorded or not, the thread reports; the marker goes only if it was.    *)
BaselineRecorded ==
  /\ phase = "recording" /\ Cycle!Settle /\ snapshot' = NoScan
  /\ \/ /\ snapshot = Saved /\ marker_active
        /\ marker' = FALSE /\ marker_active' = FALSE
     \/ UNCHANGED markerVars
  /\ UNCHANGED <<worldVars, manifest, alert_missing, historyVars>>

Counted == changes < MaxChanges /\ changes' = changes + 1

(* The program is killed and started again: files on disk remain.          *)
Crash ==
  /\ phase' = "idle" /\ blocked' = "none" /\ approval' = FALSE
  /\ snapshot' = NoScan /\ marker_active' = FALSE /\ alert_missing' = {}
  /\ RunOver /\ Counted /\ unsettled' = {}
  /\ UNCHANGED <<folderVars, remote, manifest, marker, guarded, uncommitted>>

-----------------------------------------------------------------------------
(* The folder and the server at any moment.                                *)
Removed(gone) ==
  late' = IF phase \in {"cleared", "running"} THEN late \cup gone ELSE late

Elsewhere ==
  Counted /\ UNCHANGED <<manifest, markerVars, snapshot, alert_missing, cycleVars,
                         clearance, allowed, deleted, uncommitted>>

LocalDelete(f) ==
  /\ Accessible /\ f \in files /\ files' = files \ {f} /\ Removed({f})
  /\ UNCHANGED <<root, journal, remote, unsettled>> /\ Elsewhere

LocalCreate(f) ==
  /\ Accessible /\ f \notin files /\ files' = files \cup {f}
  /\ UNCHANGED <<root, journal, remote, unsettled, late>> /\ Elsewhere

(* Everything in the folder is removed, the hidden database with it or not.*)
Emptied ==
  /\ Accessible /\ files' = {} /\ journal' \in {journal, NoJournal} /\ Removed(files)
  /\ UNCHANGED <<root, remote, unsettled>> /\ Elsewhere

(* Another, empty folder appears at the path, or none.                     *)
RootLost ==
  /\ root' \in {"other", "missing"}
  /\ files' = {} /\ journal' = NoJournal /\ Removed(files)
  /\ UNCHANGED <<remote, unsettled>> /\ Elsewhere

RootUnreadable ==
  /\ \/ root = "home" /\ root' = "unreadable"
     \/ root = "unreadable" /\ root' = "home"
  /\ UNCHANGED <<files, journal, remote, unsettled, late>> /\ Elsewhere

RemoteDelete(f) ==
  /\ f \in remote /\ remote' = remote \ {f}
  /\ UNCHANGED <<folderVars, unsettled, late>> /\ Elsewhere

Program ==
  \/ Check \/ CheckPasses \/ CheckBlocks \/ Approve \/ Waive \/ SetGuard
  \/ Launch \/ NoLaunch \/ Exit \/ RecordScan \/ RecordSave \/ BaselineRecorded
  \/ \E f \in File : Propagate(f)

World ==
  \/ \E f \in File : LocalDelete(f) \/ LocalCreate(f) \/ RemoteDelete(f)
  \/ Emptied \/ RootLost \/ RootUnreadable

Next == Program \/ World \/ Crash

Spec == Init /\ [][Next]_vars

-----------------------------------------------------------------------------
(* README: a checked synchronization is blocked when "at least 10 files or *)
(* 20% of the previous baseline disappear".  Of the baseline, a run that   *)
(* passed the check deletes on the server only a number of files below     *)
(* both limits, apart from files removed while the run was already allowed.*)
CheckedLossBounded ==
  phase = "running" /\ clearance = "checked" /\ manifest # NoManifest
    => ~OverLimits((deleted \cap manifest.files) \ late, manifest.files)

(* CHANGELOG 0.1.18: the marker is cleared "only after a successful run    *)
(* has produced and persisted a new safety baseline": across crashes, a    *)
(* guarded run whose outcome is in no baseline is marked on disk.          *)
UncommittedRunMarked == uncommitted => marker

(* README: the user may "explicitly approve those deletions for one run":  *)
(* an approved run deletes nothing of the baseline but what the approved   *)
(* alert named, or what was removed after the run was allowed.             *)
ApprovedOnlyThose ==
  phase = "running" /\ clearance = "approved" /\ manifest # NoManifest
    => deleted \cap manifest.files \subseteq allowed \cup late
=============================================================================
