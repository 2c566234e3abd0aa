-------------------------- MODULE GuardedSyncProofs --------------------------
(***************************************************************************)
(* The run marker is honest across crashes: while the outcome of a guarded *)
(* run is in no saved baseline, sync-run.json is on disk.  It is cleared   *)
(* only after a save, and what makes that safe is that a save belongs to   *)
(* the recording that follows the run: nothing saved survives into the     *)
(* next one.  And a run that passed the check loses fewer of the baseline's*)
(* files than the limits, however the folder changes under it.             *)
(***************************************************************************)
EXTENDS GuardedSync, FiniteSetTheorems, TLAPS

USE DEF folderVars, worldVars, markerVars, runVars, historyVars, cycleVars

(* Everything has its type initially.                                      *)
LEMMA TypeInit == Init => TypeOK
<1> SUFFICES ASSUME Init PROVE TypeOK OBVIOUS
<1>1. marker \in BOOLEAN BY DEF Init
<1>2. marker_active \in BOOLEAN BY DEF Init
<1>3. approval \in BOOLEAN BY DEF Init, Cycle!Init
<1>4. guarded \in BOOLEAN BY GuardAssumption DEF Init
<1>5. uncommitted \in BOOLEAN BY DEF Init
<1>6. manifest = NoManifest \/ manifest \in Manifest
  <2>1. [files |-> File, root |-> "home", database |-> TRUE] \in Manifest BY DEF Manifest
  <2> QED BY <2>1 DEF Init
<1>7. phase \in Cycle!Phase /\ blocked \in Cycle!Alert
  BY DEF Init, Cycle!Init, Cycle!Phase, Cycle!Alert
<1>8. /\ root = "home" /\ files = File /\ journal = File /\ remote = File
      /\ unsettled = {} /\ snapshot = NoScan /\ alert_missing = {}
      /\ clearance = "none" /\ allowed = {} /\ late = {} /\ deleted = {} /\ changes = 0
  BY DEF Init
<1> QED BY <1>1, <1>2, <1>3, <1>4, <1>5, <1>6, <1>7, <1>8, LimitAssumption DEF TypeOK

(* An event of the world changes the folder, the server and the history.   *)
LEMMA TypeWorld ==
  ASSUME TypeOK, World
  PROVE  TypeOK'
<1>1. /\ changes < MaxChanges /\ changes' = changes + 1
      /\ UNCHANGED <<manifest, markerVars, snapshot, alert_missing, cycleVars,
                     clearance, allowed, deleted, uncommitted>>
  BY DEF World, LocalDelete, LocalCreate, RemoteDelete, Emptied, RootLost,
         RootUnreadable, Elsewhere, Counted
<1>2. changes' \in 0 .. MaxChanges BY <1>1, LimitAssumption DEF TypeOK
<1>3. /\ root' \in {"home", "other", "missing", "unreadable"}
      /\ files' \subseteq File /\ remote' \subseteq File /\ unsettled' \subseteq File
      /\ journal' = NoJournal \/ journal' \in SUBSET File
      /\ late' \subseteq File
  BY DEF TypeOK, World, LocalDelete, LocalCreate, RemoteDelete, Emptied, RootLost,
         RootUnreadable, Removed
<1> QED BY <1>1, <1>2, <1>3 DEF TypeOK

(* The cycle assigns its own variables.                                    *)
LEMMA TypeCycle ==
  ASSUME TypeOK, Cycle!Next
  PROVE  /\ phase' \in Cycle!Phase /\ blocked' \in Cycle!Alert
         /\ approval' \in BOOLEAN /\ guarded' \in BOOLEAN
<1>1. phase' \in Cycle!Phase /\ blocked' \in Cycle!Alert
  BY DEF TypeOK, Cycle!Next, Cycle!Check, Cycle!Pass, Cycle!Block, Cycle!Waive,
         Cycle!Approve, Cycle!ApproveAndWaive, Cycle!Launch, Cycle!Exit, Cycle!Settle,
         Cycle!Configure, Cycle!Stop, Cycle!Phase, Cycle!Alert
<1>2. approval' \in BOOLEAN
  BY DEF TypeOK, Cycle!Next, Cycle!Check, Cycle!Pass, Cycle!Block, Cycle!Waive,
         Cycle!Approve, Cycle!ApproveAndWaive, Cycle!Launch, Cycle!Exit, Cycle!Settle,
         Cycle!Configure, Cycle!Stop
<1>3. guarded' \in BOOLEAN
  BY DEF TypeOK, Cycle!Next, Cycle!Check, Cycle!Pass, Cycle!Block, Cycle!Waive,
         Cycle!Approve, Cycle!ApproveAndWaive, Cycle!Launch, Cycle!Exit, Cycle!Settle,
         Cycle!Configure, Cycle!Stop
<1> QED BY <1>1, <1>2, <1>3

(* Every operation keeps the types.                                        *)
LEMMA TypeProgram ==
  ASSUME TypeOK, Program
  PROVE  TypeOK'
<1>a. ASSUME Cycle!Next
      PROVE  /\ phase' \in Cycle!Phase /\ blocked' \in Cycle!Alert
             /\ approval' \in BOOLEAN /\ guarded' \in BOOLEAN
  BY <1>a, TypeCycle
<1>1. CASE Check
  <2>1. Cycle!Next BY <1>1 DEF Check, Cycle!Next
  <2> QED BY <1>1, <1>a, <2>1 DEF Check, TypeOK
<1>2. CASE CheckPasses
  <2>1. Cycle!Next BY <1>2 DEF CheckPasses, Cycle!Next
  <2> QED BY <1>2, <1>a, <2>1 DEF CheckPasses, TypeOK
<1>3. CASE CheckBlocks
  <2>1. Cycle!Next BY <1>3 DEF CheckBlocks, Cycle!Next
  <2>2. alert_missing' \subseteq File
    <3>1. CanApproveOnce(Verdict) => manifest \in Manifest
      BY <1>3 DEF CanApproveOnce, Verdict, TypeOK
    <3> QED BY <1>3, <3>1 DEF CheckBlocks, Missing, Manifest
  <2> QED BY <1>3, <1>a, <2>1, <2>2 DEF CheckBlocks, TypeOK
<1>4. CASE Approve
  <2>1. Cycle!Next BY <1>4 DEF Approve, Cycle!Next
  <2> QED BY <1>4, <1>a, <2>1 DEF Approve, TypeOK
<1>5. CASE Waive
  <2>1. Cycle!Next BY <1>5 DEF Waive, Cycle!Next
  <2> QED BY <1>5, <1>a, <2>1 DEF Waive, TypeOK
<1>6. CASE SetGuard
  <2>1. Cycle!Next BY <1>6 DEF SetGuard, Cycle!Next
  <2>2. changes' \in 0 .. MaxChanges BY <1>6, LimitAssumption DEF SetGuard, TypeOK
  <2> QED BY <1>6, <1>a, <2>1, <2>2 DEF SetGuard, TypeOK
<1>7. CASE Launch
  <2>1. Cycle!Next BY <1>7 DEF Launch, Cycle!Next
  <2>2. marker' \in BOOLEAN BY <1>7 DEF Launch, TypeOK
  <2>3. marker_active' \in BOOLEAN BY <1>7 DEF Launch, TypeOK
  <2>4. uncommitted' \in BOOLEAN BY <1>7 DEF Launch, TypeOK
  <2>5. unsettled' \subseteq File
        /\ UNCHANGED <<folderVars, remote, manifest, snapshot, alert_missing,
                       runVars, changes>>
    BY <1>7 DEF Launch
  <2> QED BY <1>a, <2>1, <2>2, <2>3, <2>4, <2>5 DEF TypeOK
<1>8. CASE NoLaunch
  <2>1. Cycle!Next BY <1>8 DEF NoLaunch, Cycle!Next
  <2>2. marker' \in BOOLEAN BY <1>8 DEF NoLaunch, TypeOK
  <2>3. marker_active' \in BOOLEAN BY <1>8 DEF NoLaunch, TypeOK
  <2>4. /\ clearance' = "none" /\ late' = {} /\ deleted' = {} /\ allowed' \subseteq File
        /\ UNCHANGED <<worldVars, manifest, snapshot, alert_missing, uncommitted, changes>>
    BY <1>8 DEF NoLaunch, RunOver, TypeOK
  <2> QED BY <1>a, <2>1, <2>2, <2>3, <2>4 DEF TypeOK
<1>9. CASE Exit
  <2>1. Cycle!Next BY <1>9 DEF Exit, Cycle!Next
  <2>2. /\ clearance' = "none" /\ late' = {} /\ deleted' = {} /\ allowed' \subseteq File
        /\ unsettled' = {}
        /\ UNCHANGED <<folderVars, remote, manifest, markerVars, snapshot, alert_missing,
                       uncommitted, changes>>
    BY <1>9 DEF Exit, RunOver, TypeOK
  <2> QED BY <1>a, <2>1, <2>2 DEF TypeOK
<1>10. CASE RecordScan
  BY <1>10 DEF RecordScan, TypeOK
<1>11. CASE RecordSave
  <2>1. snapshot \in SUBSET File BY <1>11 DEF RecordSave, TypeOK
  <2>2. root' \in {"home", "other", "unreadable"} BY <1>11 DEF RecordSave, TypeOK
  <2>3. manifest' \in Manifest BY <1>11, <2>1, <2>2 DEF RecordSave, Baseline, Manifest
  <2>4. uncommitted' \in BOOLEAN BY <1>11 DEF RecordSave
  <2>5. /\ snapshot' = Saved
        /\ UNCHANGED <<files, journal, remote, unsettled, markerVars, alert_missing,
                       cycleVars, runVars, changes>>
    BY <1>11 DEF RecordSave
  <2> QED BY <2>2, <2>3, <2>4, <2>5 DEF TypeOK
<1>12. CASE BaselineRecorded
  <2>1. Cycle!Next BY <1>12 DEF BaselineRecorded, Cycle!Next
  <2>2. marker' \in BOOLEAN BY <1>12 DEF BaselineRecorded, TypeOK
  <2>3. marker_active' \in BOOLEAN BY <1>12 DEF BaselineRecorded, TypeOK
  <2>4. snapshot' = NoScan /\ UNCHANGED <<worldVars, manifest, alert_missing, historyVars>>
    BY <1>12 DEF BaselineRecorded
  <2> QED BY <1>a, <2>1, <2>2, <2>3, <2>4 DEF TypeOK
<1>13. ASSUME NEW f \in File, Propagate(f) PROVE TypeOK'
  <2>1. /\ files' \subseteq File /\ remote' \subseteq File /\ unsettled' \subseteq File
        /\ journal' \in SUBSET File
    BY <1>13 DEF Propagate, Known, TypeOK
  <2>2. deleted' \subseteq File BY <1>13 DEF Propagate, TypeOK
  <2>3. UNCHANGED <<root, manifest, markerVars, snapshot, alert_missing, cycleVars,
                    clearance, allowed, late, uncommitted, changes>>
    BY <1>13 DEF Propagate
  <2> QED BY <2>1, <2>2, <2>3 DEF TypeOK
<1> QED BY <1>1, <1>2, <1>3, <1>4, <1>5, <1>6, <1>7, <1>8, <1>9, <1>10, <1>11,
           <1>12, <1>13 DEF Program

(* A crash forgets what is in memory.                                      *)
LEMMA TypeCrash ==
  ASSUME TypeOK, Crash
  PROVE  TypeOK'
<1>1. approval' \in BOOLEAN BY DEF Crash
<1>2. marker_active' \in BOOLEAN BY DEF Crash
<1>3. changes' \in 0 .. MaxChanges BY LimitAssumption DEF Crash, Counted, TypeOK
<1>4. /\ phase' \in Cycle!Phase /\ blocked' \in Cycle!Alert
      /\ snapshot' = NoScan /\ alert_missing' = {} /\ unsettled' = {}
      /\ clearance' = "none" /\ late' = {} /\ deleted' = {} /\ allowed' \subseteq File
      /\ UNCHANGED <<folderVars, remote, manifest, marker, guarded, uncommitted>>
  BY DEF Crash, RunOver, TypeOK, Cycle!Phase, Cycle!Alert
<1> QED BY <1>1, <1>2, <1>3, <1>4 DEF TypeOK

(* Every variable keeps its type, for every set of files and every limit.  *)
THEOREM GuardedTypeCorrect == Spec => []TypeOK
<1>1. TypeOK /\ [Next]_vars => TypeOK'
  <2>1. TypeOK /\ UNCHANGED vars => TypeOK' BY DEF TypeOK, vars
  <2> QED BY <2>1, TypeProgram, TypeWorld, TypeCrash DEF Next
<1> QED BY <1>1, TypeInit, PTL DEF Spec

-----------------------------------------------------------------------------
(* What is known of the recording: it has a snapshot only in its phase, and*)
(* nothing guarded has begun since its save.                               *)
MarkerInv ==
  /\ UncommittedRunMarked
  /\ snapshot # NoScan => phase = "recording"
  /\ snapshot = Saved => ~uncommitted

(* Before the first run nothing is uncommitted.                            *)
LEMMA MarkerInit == Init => MarkerInv
BY DEF Init, MarkerInv, UncommittedRunMarked, Cycle!Init

(* A step that touches neither the marker nor the recording.               *)
LEMMA MarkerElsewhere ==
  ASSUME MarkerInv,
         UNCHANGED <<marker, uncommitted, snapshot>>,
         snapshot = NoScan \/ phase' = phase
  PROVE  MarkerInv'
BY DEF MarkerInv, UncommittedRunMarked

(* A world event touches neither.                                          *)
LEMMA MarkerWorld ==
  ASSUME MarkerInv, World
  PROVE  MarkerInv'
<1>1. UNCHANGED <<marker, uncommitted, snapshot, phase>>
  BY DEF World, LocalDelete, LocalCreate, RemoteDelete, Emptied, RootLost,
         RootUnreadable, Elsewhere
<1> QED BY <1>1, MarkerElsewhere

(* Every operation of the program keeps the marker honest.                 *)
LEMMA MarkerProgram ==
  ASSUME TypeOK, MarkerInv, Program
  PROVE  MarkerInv'
<1>1. CASE Check \/ CheckPasses \/ CheckBlocks \/ Waive
  <2>1. phase # "recording" /\ UNCHANGED <<marker, uncommitted, snapshot>>
    BY <1>1 DEF Check, CheckPasses, CheckBlocks, Waive, Cycle!Check, Cycle!Pass,
                Cycle!Block, Cycle!Waive
  <2> QED BY <2>1, MarkerElsewhere DEF MarkerInv
<1>2. CASE Approve \/ SetGuard \/ (\E f \in File : Propagate(f))
  <2>1. UNCHANGED <<marker, uncommitted, snapshot, phase>>
    BY <1>2 DEF Approve, SetGuard, Propagate, Cycle!Approve, Cycle!Configure
  <2> QED BY <2>1, MarkerElsewhere
<1>3. CASE Launch
  <2>1. phase = "cleared" /\ snapshot' = snapshot
    BY <1>3 DEF Launch, Cycle!Launch
  <2>2. snapshot = NoScan BY <2>1 DEF MarkerInv
  <2>3. uncommitted' => marker'
    BY <1>3 DEF Launch, MarkerInv, UncommittedRunMarked
  <2> QED BY <2>1, <2>2, <2>3, AbsentAssumption DEF MarkerInv, UncommittedRunMarked
<1>4. CASE NoLaunch
  <2>1. phase = "cleared" /\ snapshot' = snapshot /\ uncommitted' = uncommitted
    BY <1>4 DEF NoLaunch
  <2>2. snapshot = NoScan BY <2>1 DEF MarkerInv
  <2>3. marker => marker' BY <1>4 DEF NoLaunch
  <2> QED BY <2>1, <2>2, <2>3, AbsentAssumption DEF MarkerInv, UncommittedRunMarked
<1>5. CASE Exit
  <2>1. phase = "running" /\ UNCHANGED <<marker, uncommitted, snapshot>>
    BY <1>5 DEF Exit, Cycle!Exit
  <2> QED BY <2>1, MarkerElsewhere DEF MarkerInv
<1>6. CASE RecordScan
  <2>1. /\ phase' = "recording" /\ snapshot' = files
        /\ UNCHANGED <<marker, uncommitted>>
    BY <1>6 DEF RecordScan
  <2>2. snapshot' # Saved
    BY <2>1, AbsentAssumption DEF TypeOK
  <2> QED BY <2>1, <2>2 DEF MarkerInv, UncommittedRunMarked
<1>7. CASE RecordSave
  <2>1. phase = "recording" BY <1>7 DEF RecordSave, MarkerInv
  <2>2. phase' = "recording" /\ ~uncommitted' BY <1>7, <2>1 DEF RecordSave
  <2> QED BY <2>2 DEF MarkerInv, UncommittedRunMarked
<1>8. CASE BaselineRecorded
  <2>1. snapshot' = NoScan /\ uncommitted' = uncommitted
    BY <1>8 DEF BaselineRecorded
  <2>2. uncommitted' => marker'
    <3>1. CASE snapshot = Saved BY <2>1, <3>1 DEF MarkerInv
    <3>2. CASE marker' = marker
      <4>1. uncommitted => marker BY DEF MarkerInv, UncommittedRunMarked
      <4> QED BY <2>1, <3>2, <4>1
    <3>3. snapshot = Saved \/ marker' = marker BY <1>8 DEF BaselineRecorded
    <3> QED BY <3>1, <3>2, <3>3
  <2> QED BY <2>1, <2>2, AbsentAssumption DEF MarkerInv, UncommittedRunMarked
<1> QED BY <1>1, <1>2, <1>3, <1>4, <1>5, <1>6, <1>7, <1>8 DEF Program

(* After a crash nothing is being recorded.                                *)
LEMMA MarkerCrash ==
  ASSUME MarkerInv, Crash
  PROVE  MarkerInv'
<1>1. snapshot' = NoScan /\ UNCHANGED <<marker, uncommitted>> BY DEF Crash
<1> QED BY <1>1, AbsentAssumption DEF MarkerInv, UncommittedRunMarked

(* The marker's invariant always holds.                                    *)
LEMMA MarkerAlways == Spec => []MarkerInv
<1>1. TypeOK /\ MarkerInv /\ [Next]_vars => MarkerInv'
  <2>1. MarkerInv /\ UNCHANGED vars => MarkerInv'
    BY DEF MarkerInv, UncommittedRunMarked, vars
  <2> QED BY <2>1, MarkerProgram, MarkerWorld, MarkerCrash DEF Next
<1> QED BY <1>1, MarkerInit, GuardedTypeCorrect, PTL DEF Spec

(* A guarded run whose outcome is in no saved baseline is marked on disk,  *)
(* whatever crashes and whatever happens to the folder.                    *)
THEOREM MarkerHonest == Spec => []UncommittedRunMarked
<1>1. MarkerInv => UncommittedRunMarked BY DEF MarkerInv
<1> QED BY <1>1, MarkerAlways, PTL

-----------------------------------------------------------------------------
(* A checked run deletes on the server only a number of files below the    *)
(* limits.  The files missing when the check passed are below the limits;  *)
(* whatever the run may still delete is among them, or was removed after   *)
(* the check and is in late.  A file that the run itself has removed       *)
(* locally is settled: it is not looked at again.                          *)

(* Deleted on the server and not removed late, and what may still be: the  *)
(* files this run has yet to look at that are not here, none removed late. *)
Gone == deleted \ late
Open == (IF phase = "running" THEN unsettled ELSE File) \ (files \cup late)

(* missing stands for what was missing when the check passed.              *)
Covers(missing, previous, lost) ==
  /\ missing \subseteq previous /\ lost \cap previous \subseteq missing
  /\ ~OverLimits(missing, previous)

LossInv ==
  clearance = "checked" =>
    /\ phase \in {"cleared", "running"} /\ manifest \in Manifest
    /\ \E missing \in SUBSET File : Covers(missing, manifest.files, Gone \cup Open)

Inv == TypeOK /\ MarkerInv /\ LossInv

(* Fewer missing files are not over limits that more are below.            *)
LEMMA LimitsMonotone ==
  ASSUME NEW S \in SUBSET File, NEW M \in SUBSET File, NEW P \in SUBSET File, S \subseteq M,
         OverLimits(S, P)
  PROVE  OverLimits(M, P)
<1>1. IsFiniteSet(M) /\ IsFiniteSet(S) /\ IsFiniteSet(P)
  BY FileAssumption, FS_Subset
<1>2. Cardinality(S) \in Nat /\ Cardinality(M) \in Nat /\ Cardinality(P) \in Nat
  BY <1>1, FS_CardinalityType
<1>3. Cardinality(S) <= Cardinality(M)
  BY <1>1, FS_Subset
<1>4. AtLeast(1, CountLimit) \in Nat /\ AtLeast(1, AtMost(100, PercentLimit)) \in Nat
  BY LimitAssumption DEF AtLeast, AtMost
<1> DEFINE count == AtLeast(1, CountLimit)
           share == AtLeast(1, AtMost(100, PercentLimit)) * Cardinality(P)
<1>5. count \in Nat /\ share \in Nat
  BY <1>2, <1>4
<1>6. Cardinality(S) >= count \/ Cardinality(S) * 100 >= share
  BY DEF OverLimits
<1>7. M # {}
  BY DEF OverLimits
<1> HIDE DEF count, share
<1>8. Cardinality(M) >= count \/ Cardinality(M) * 100 >= share
  BY <1>2, <1>3, <1>5, <1>6
<1> QED
  BY <1>7, <1>8 DEF OverLimits, count, share

(* The bound follows.                                                      *)
LEMMA CoversBounds ==
  ASSUME TypeOK, LossInv
  PROVE  CheckedLossBounded
<1> SUFFICES ASSUME clearance = "checked",
                    OverLimits((deleted \cap manifest.files) \ late, manifest.files)
             PROVE  FALSE
  BY DEF CheckedLossBounded
<1>1. PICK missing \in SUBSET File : Covers(missing, manifest.files, Gone \cup Open)
  BY DEF LossInv
<1>2. manifest.files \in SUBSET File
  BY DEF LossInv, Manifest
<1>3. (deleted \cap manifest.files) \ late \subseteq missing
  BY <1>1 DEF Covers, Gone
<1>4. ~OverLimits(missing, manifest.files)
  BY <1>1 DEF Covers
<1>5. (deleted \cap manifest.files) \ late \in SUBSET File
  BY <1>2
<1> HIDE DEF LossInv
<1> QED
  BY <1>1, <1>2, <1>3, <1>4, <1>5, LimitsMonotone

(* Nothing is allowed at first.                                            *)
LEMMA InitLoss == Init => LossInv
  BY DEF Init, LossInv

(* What a run has deleted or may delete only shrinks once it is allowed.   *)
LEMMA CoverKept ==
  ASSUME LossInv, clearance = "checked", manifest' = manifest,
         phase' \in {"cleared", "running"}, (Gone \cup Open)' \subseteq Gone \cup Open
  PROVE  LossInv'
<1>1. PICK missing \in SUBSET File : Covers(missing, manifest.files, Gone \cup Open)
  BY DEF LossInv
<1> DEFINE lost == Gone \cup Open
           lostNext == (Gone \cup Open)'
<1>2. Covers(missing, manifest.files, lost) /\ lostNext \subseteq lost
  BY <1>1
<1> HIDE DEF lost, lostNext
<1>3. Covers(missing, manifest.files, lostNext)
  BY <1>2 DEF Covers
<1>4. manifest' \in Manifest
  BY DEF LossInv
<1> QED
  BY <1>3, <1>4 DEF LossInv, lostNext

(* A step that leaves the run alone: files are removed only into late.     *)
LEMMA RunKept ==
  ASSUME LossInv, UNCHANGED <<manifest, clearance, deleted, phase, unsettled>>,
         phase \in {"cleared", "running"}
           => late \subseteq late' /\ files \subseteq files' \cup late'
  PROVE  LossInv'
<1>1. CASE clearance # "checked"
  BY <1>1 DEF LossInv
<1>2. CASE clearance = "checked"
  <2>1. phase \in {"cleared", "running"}
    BY <1>2 DEF LossInv
  <2>2. late \subseteq late' /\ files \subseteq files' \cup late'
    BY <2>1
  <2>3. (Gone \cup Open)' \subseteq Gone \cup Open
    BY <2>2 DEF Gone, Open
  <2> QED
    BY <1>2, <2>1, <2>3, CoverKept
<1> QED
  BY <1>1, <1>2

(* The world removes files of an allowed run only into late.               *)
LEMMA WorldLoss == ASSUME Inv, World PROVE LossInv'
<1>1. UNCHANGED <<manifest, clearance, deleted, phase, unsettled>>
  BY DEF World, LocalDelete, LocalCreate, RemoteDelete, Emptied, RootLost, RootUnreadable,
         Elsewhere
<1>2. phase \in {"cleared", "running"}
        => late \subseteq late' /\ files \subseteq files' \cup late'
  BY DEF World, LocalDelete, LocalCreate, RemoteDelete, Emptied, RootLost, RootUnreadable,
         Removed
<1> QED
  BY <1>1, <1>2, RunKept DEF Inv

(* A check that passes covers what is missing now.                         *)
LEMMA CheckPassesLoss == ASSUME Inv, CheckPasses PROVE LossInv'
<1>1. CASE ~guarded
  BY <1>1 DEF CheckPasses, LossInv
<1>2. CASE guarded
  <2>1. manifest # NoManifest /\ ~OverLimits(Missing, manifest.files)
    BY <1>2 DEF CheckPasses, Verdict
  <2>2. manifest \in Manifest /\ manifest' = manifest /\ files' = files
    BY <2>1 DEF Inv, TypeOK, CheckPasses
  <2>3. phase' = "cleared" /\ deleted' = {} /\ late' = {}
    BY DEF CheckPasses, Cycle!Pass
  <2>4. Missing \in SUBSET File /\ Missing = manifest.files \ files /\ manifest.files \subseteq File
    BY <2>2 DEF Missing, Manifest
  <2>5. (Gone \cup Open)' = File \ files
    BY <2>2, <2>3 DEF Gone, Open
  <2>6. Covers(Missing, manifest.files, (Gone \cup Open)')
    <3>1. Missing \subseteq manifest.files /\ (File \ files) \cap manifest.files \subseteq Missing
      BY <2>4
    <3> QED
      BY <2>1, <2>5, <3>1 DEF Covers
  <2>7. \E missing \in SUBSET File : Covers(missing, manifest.files, (Gone \cup Open)')
    BY <2>4, <2>6
  <2> QED
    BY <2>2, <2>3, <2>7 DEF LossInv
<1> QED
  BY <1>1, <1>2

(* A run begins with every file still to look at.                          *)
LEMMA LaunchLoss == ASSUME Inv, Launch PROVE LossInv'
<1> SUFFICES ASSUME clearance' = "checked"
             PROVE  LossInv'
  BY DEF LossInv
<1>1. /\ clearance = "checked" /\ UNCHANGED <<files, manifest, deleted, late>>
      /\ phase = "cleared" /\ phase' = "running" /\ unsettled' = File
  BY DEF Launch, Cycle!Launch
<1>2. (Gone \cup Open)' \subseteq Gone \cup Open
  BY <1>1 DEF Gone, Open
<1> QED
  BY <1>1, <1>2, CoverKept DEF Inv

(* nextcloudcmd deletes on the server only a file it has still to look at  *)
(* and does not find here; what it removes here it does not look at again. *)
LEMMA PropagateLoss == ASSUME Inv, NEW f \in File, Propagate(f) PROVE LossInv'
<1> SUFFICES ASSUME clearance' = "checked"
             PROVE  LossInv'
  BY DEF LossInv
<1>1. /\ phase = "running" /\ f \in unsettled /\ unsettled' = unsettled \ {f}
      /\ clearance = "checked" /\ UNCHANGED <<manifest, phase, late>>
  BY DEF Propagate
<1> DEFINE keep == IF f \in Known THEN f \in files /\ f \in remote
                   ELSE f \in files \/ f \in remote
<1>2. /\ files' = IF keep THEN files \cup {f} ELSE files \ {f}
      /\ remote' = IF keep THEN remote \cup {f} ELSE remote \ {f}
      /\ deleted' = deleted \cup (remote \ remote')
  BY DEF Propagate
<1>3. f \in files /\ f \in remote => keep
  OBVIOUS
<1> HIDE DEF keep
<1>4. files \ {f} \subseteq files' /\ deleted' \subseteq deleted \cup {f}
  BY <1>2
<1>5. f \in files => deleted' = deleted
  BY <1>2, <1>3
<1>6. Gone' \subseteq Gone \cup Open
  BY <1>1, <1>4, <1>5 DEF Gone, Open
<1>7. Open' \subseteq Open
  BY <1>1, <1>4 DEF Open
<1> QED
  BY <1>1, <1>6, <1>7, CoverKept DEF Inv

(* Everything else comes before a run is allowed or after it is over.      *)
LEMMA OtherLoss ==
  ASSUME Inv,
         Check \/ CheckBlocks \/ Approve \/ Waive \/ SetGuard \/ NoLaunch \/ Exit \/ RecordScan
           \/ RecordSave \/ BaselineRecorded \/ Crash
  PROVE  LossInv'
<1>1. CASE Check \/ CheckBlocks \/ RecordScan \/ RecordSave \/ BaselineRecorded
  <2>1. phase \notin {"cleared", "running"} /\ clearance' = clearance
    BY <1>1 DEF Check, CheckBlocks, RecordScan, RecordSave, BaselineRecorded, Cycle!Check,
                Cycle!Block, Inv, MarkerInv
  <2> QED
    BY <2>1 DEF Inv, LossInv
<1>2. CASE Waive \/ NoLaunch \/ Exit \/ Crash
  BY <1>2 DEF Waive, NoLaunch, Exit, Crash, RunOver, LossInv
<1>3. CASE Approve \/ SetGuard
  <2>1. UNCHANGED <<manifest, clearance, deleted, phase, unsettled, late, files>>
    BY <1>3 DEF Approve, SetGuard, Cycle!Approve, Cycle!Configure
  <2> QED
    BY <2>1, RunKept DEF Inv
<1> QED
  BY <1>1, <1>2, <1>3

(* Every step keeps it.                                                    *)
LEMMA NextLoss == ASSUME Inv, [Next]_vars PROVE LossInv'
<1>1. CASE UNCHANGED vars
  <2>1. UNCHANGED <<manifest, clearance, deleted, phase, unsettled, late, files>>
    BY <1>1 DEF vars
  <2> QED
    BY <2>1, RunKept DEF Inv
<1> QED
  BY <1>1, WorldLoss, CheckPassesLoss, LaunchLoss, PropagateLoss, OtherLoss DEF Next, Program

(* Of the saved baseline, a run that passed the check deletes on the server*)
(* a number of files below both limits, apart from those removed after the *)
(* check (SafetyGuard.check before nextcloudcmd).                          *)
THEOREM LossIsBounded == Spec => []CheckedLossBounded
<1>1. TypeOK /\ MarkerInv /\ LossInv /\ [Next]_vars => LossInv'
  BY NextLoss DEF Inv
<1>2. TypeOK /\ LossInv => CheckedLossBounded
  BY CoversBounds
<1> QED
  BY <1>1, <1>2, InitLoss, MarkerAlways, GuardedTypeCorrect, PTL DEF Spec
=============================================================================
