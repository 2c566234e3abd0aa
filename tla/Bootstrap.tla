----------------------------- MODULE Bootstrap -----------------------------
(***************************************************************************)
(* The protected first synchronization (core/bootstrap.py, the window in   *)
(* ui/bootstrap.py): a copy of the server in a staging folder, a review,   *)
(* the merge into the copy, three runs of nextcloudcmd and a final         *)
(* comparison, while people change files on both sides.                    *)
(*                                                                         *)
(* A file has a version; None is no file.  Folders and files of different  *)
(* kinds under one path are conflicts like any other.  A place keeps a     *)
(* file under its own name (orig), versions preserved under dated names    *)
(* (alt), which are synchronized, and nextcloudcmd's conflict copies       *)
(* (conf), which are not.                                                  *)
(***************************************************************************)
EXTENDS Naturals, FiniteSets

CONSTANTS
  File,
  MaxEdits, MaxAttempts   \* bounds: edits of the users, analyses

ASSUME EditsAssumption == MaxEdits \in Nat /\ MaxAttempts \in Nat

None == 0
Mine == 1       \* the version the computer has at first, where it differs ...
Theirs == 2     \* ... from the server's
Same == 3
Version == 0 .. 3 + MaxEdits      \* the others are made by edits
Content == [f : File, v : Version \ {None}]

VARIABLES
  local, remote, staging,
  localJournal, stagingJournal,     \* .sync_*.db: the versions of the run before
  phase, attempts,    \* of the worker thread
  snapshot,       \* analysis.local
  plan,           \* the files whose computer version keeps the name
  applied,        \* entries of the staging folder copied into the local folder
  closing,        \* closed and _cancelled: the staging folder is being removed
  manifest,       \* the safety baseline, and whether it was saved
  complete,       \* bootstrap_complete
  edits,
  written,        \* history: every version there has been
  superseded,     \* history: versions a user has replaced or deleted
  late,           \* history: versions edited after the local folder was compared
  clashed,        \* history: versions that met another one on the server
  orphaned        \* history: versions on the server when a run was left behind

placeVars == <<local, remote, staging, localJournal, stagingJournal>>
workVars == <<snapshot, plan, applied>>
resultVars == <<manifest, complete>>
history == <<edits, written, superseded, late, clashed, orphaned>>
bootstrapVars == <<placeVars, phase, attempts, workVars, closing, resultVars, history>>

Names == [File -> Version]
Nothing == [f \in File |-> None]
Place == [orig : Names, alt : SUBSET Content, conf : SUBSET Content]
Empty == [orig |-> Nothing, alt |-> {}, conf |-> {}]
Contents(p) == {c \in Content : p.orig[c.f] = c.v} \cup p.alt \cup p.conf

Phase == {"idle", "snapshot", "review", "recheck", "merge", "upload_starting", "upload",
          "archive", "apply", "download", "verify", "error", "closed", "done"}

(* Everything has its type.                                                *)
BootstrapTypeOK ==
  /\ \A p \in {local, remote, staging} :
       p.orig \in Names /\ p.alt \subseteq Content /\ p.conf \subseteq Content
  /\ localJournal \in Names /\ stagingJournal \in Names
  /\ phase \in Phase /\ attempts \in 0 .. MaxAttempts /\ snapshot \in Names /\ plan \subseteq File
  /\ applied \subseteq File \cup {"alt", "conf"}
  /\ closing \in BOOLEAN /\ complete = (phase = "done")
  /\ manifest.saved \in BOOLEAN /\ manifest.files \in Names
  /\ edits \in 0 .. MaxEdits
  /\ written \subseteq Content /\ superseded \subseteq Content /\ late \subseteq Content
  /\ clashed \subseteq Content /\ orphaned \subseteq Content

BootstrapInit ==
  /\ local \in [orig : [File -> {None, Mine, Same}], alt : {{}}, conf : {{}}]
  /\ remote \in [orig : [File -> {None, Theirs, Same}], alt : {{}}, conf : {{}}]
  /\ localJournal \in {Nothing, local.orig}
  /\ staging = Empty /\ stagingJournal = Nothing
  /\ phase = "idle" /\ attempts = 0 /\ snapshot = Nothing /\ plan = {} /\ applied = {}
  /\ closing = FALSE
  /\ manifest = [saved |-> FALSE, files |-> Nothing] /\ complete = FALSE
  /\ edits = 0 /\ written = Contents(local) \cup Contents(remote)
  /\ superseded = {} /\ late = {} /\ clashed = {} /\ orphaned = {}

-----------------------------------------------------------------------------
(* People change files.                                                    *)
Edited(p, f, v) ==
  /\ edits < MaxEdits /\ edits' = edits + 1 /\ v \in {None, edits + 4} /\ v # p.orig[f]
  /\ written' = written \cup {c \in Content : c = [f |-> f, v |-> v]}
  /\ superseded' = superseded \cup {c \in Content : c = [f |-> f, v |-> p.orig[f]]}
  /\ UNCHANGED <<staging, localJournal, stagingJournal, phase, attempts, workVars, closing,
                 resultVars, clashed, orphaned>>

Applying == {"merge", "upload_starting", "upload", "archive", "apply"}
EditLocal(f, v) ==
  /\ Edited(local, f, v) /\ local' = [local EXCEPT !.orig[f] = v] /\ remote' = remote
  /\ late' = IF phase \in Applying THEN late \cup (written' \ written) ELSE late

EditRemote(f, v) ==
  /\ Edited(remote, f, v) /\ remote' = [remote EXCEPT !.orig[f] = v]
  /\ UNCHANGED <<local, late>>

-----------------------------------------------------------------------------
(* A run of nextcloudcmd in a place, for the files it gets to: a side that *)
(* has not changed since the journal follows the other one, and of two     *)
(* changes the server's keeps the name.                                    *)
Merged(p, j, f) ==
  IF p.orig[f] # j[f] /\ remote.orig[f] \in {j[f], None} THEN p.orig[f] ELSE remote.orig[f]
Clashes(p, j, f) == p.orig[f] \notin {None, j[f]} /\ remote.orig[f] \notin {None, j[f], p.orig[f]}
Aside(p, files) == {c \in Content : c.f \in files /\ p.orig[c.f] = c.v}

Synchronized(p, j, files) ==
  [orig |-> [f \in File |-> IF f \in files THEN Merged(p, j, f) ELSE p.orig[f]],
   alt |-> p.alt \cup remote.alt,
   conf |-> p.conf \cup Aside(p, {f \in files : Clashes(p, j, f)})]
AfterUpload(p, j, files) ==
  [orig |-> [f \in File |-> IF f \in files THEN Merged(p, j, f) ELSE remote.orig[f]],
   alt |-> p.alt \cup remote.alt, conf |-> {}]
Journal(p, j, files) == [f \in File |-> IF f \in files THEN Merged(p, j, f) ELSE j[f]]

SyncStaging(files) ==
  /\ staging' = Synchronized(staging, stagingJournal, files)
  /\ remote' = AfterUpload(staging, stagingJournal, files)
  /\ stagingJournal' = Journal(staging, stagingJournal, files)
  /\ clashed' = clashed \cup Synchronized(staging, stagingJournal, files).conf
  /\ UNCHANGED <<local, localJournal>>

SyncLocal(files) ==
  /\ local' = Synchronized(local, localJournal, files)
  /\ remote' = AfterUpload(local, localJournal, files)
  /\ localJournal' = Journal(local, localJournal, files)
  /\ UNCHANGED <<staging, stagingJournal, clashed>>

(* A run gets to every file, or fails on the way.                          *)
Ends(next, files) == phase' = IF files = File THEN next ELSE "error"

Untouched == UNCHANGED <<attempts, closing, resultVars, edits, written, superseded, late, orphaned>>

(* _begin_analysis and _analyze_worker, in a new staging folder.           *)
BeginAnalysis ==
  /\ phase = "idle" /\ attempts < MaxAttempts
  /\ phase' = "snapshot" /\ attempts' = attempts + 1
  /\ UNCHANGED <<placeVars, workVars, closing, resultVars, history>>

Snapshot(files) ==
  /\ phase = "snapshot" /\ SyncStaging(files) /\ Ends("review", files)
  /\ snapshot' = local.orig /\ UNCHANGED <<plan, applied>> /\ Untouched

(* Execute: the user's decision for every conflict.                        *)
Conflicts ==
  {f \in File : None \notin {snapshot[f], staging.orig[f]} /\ snapshot[f] # staging.orig[f]}

Execute(files) ==
  /\ phase = "review" /\ phase' = "recheck" /\ plan' = files
  /\ UNCHANGED <<placeVars, snapshot, applied, clashed>> /\ Untouched

FolderTrusted == TRUE     \* mutant: the folder is not compared with the analysis

FolderUnchanged == local.orig = snapshot

Recheck ==
  /\ phase = "recheck" /\ phase' = IF FolderUnchanged THEN "merge" ELSE "error"
  /\ UNCHANGED <<placeVars, workVars, clashed>> /\ Untouched

(* _merge_into_staging: what only the computer has, and both versions of a *)
(* conflict, one of them under a dated name.                               *)
LocalOnly == {f \in File : snapshot[f] # None /\ staging.orig[f] = None}

Preserved == Aside(staging, plan) \cup Aside(local, Conflicts \ plan)

(* A computer version that is gone cannot be copied.                       *)
Copied == \A f \in LocalOnly \cup Conflicts : local.orig[f] # None

Merge ==
  /\ phase = "merge" /\ Copied /\ phase' = "upload_starting"
  /\ staging' = [staging EXCEPT
       !.orig = [f \in File |-> IF f \in LocalOnly \cup plan THEN local.orig[f] ELSE @[f]],
       !.alt = @ \cup Preserved \cup local.alt, !.conf = @ \cup local.conf]
  /\ snapshot' = Nothing /\ plan' = {}     \* not looked at again
  /\ UNCHANGED <<local, remote, localJournal, stagingJournal, applied, clashed>> /\ Untouched

MergeFails ==
  /\ phase = "merge" /\ ~Copied /\ phase' = "error"
  /\ UNCHANGED <<placeVars, workVars, clashed>> /\ Untouched

(* _run_sync looks at _cancelled, and registers the process it starts.     *)
UploadStarts ==
  /\ phase = "upload_starting" /\ ~closing /\ phase' = "upload"
  /\ UNCHANGED <<placeVars, workVars, clashed>> /\ Untouched

Upload(files) ==
  /\ phase = "upload" /\ SyncStaging(files) /\ Ends("archive", files)
  /\ UNCHANGED workVars /\ Untouched

Archive ==
  /\ phase = "archive" /\ phase' = "apply" /\ localJournal' = Nothing
  /\ UNCHANGED <<local, remote, staging, stagingJournal, workVars, clashed>> /\ Untouched

(* _apply_staging, one entry at a time in an order of names; it may fail.  *)
ApplyOne(e) ==
  /\ phase = "apply" /\ e \notin applied /\ applied' = applied \cup {e} /\ phase' = phase
  /\ local' = CASE e = "alt" -> [local EXCEPT !.alt = @ \cup staging.alt]
                [] e = "conf" -> [local EXCEPT !.conf = @ \cup staging.conf]
                [] e \in File /\ staging.orig[e] = None -> local
                [] OTHER -> [local EXCEPT !.orig[e] = staging.orig[e]]
  /\ UNCHANGED <<remote, staging, localJournal, stagingJournal, snapshot, plan, clashed>>
  /\ Untouched

AllEntries == File \cup {"alt", "conf"}
Applied ==
  /\ phase = "apply" /\ phase' = IF applied = AllEntries THEN "download" ELSE "error"
  /\ applied' = {}
  /\ UNCHANGED <<placeVars, snapshot, plan, clashed>> /\ Untouched

Download(files) ==
  /\ phase = "download" /\ SyncLocal(files) /\ Ends("verify", files)
  /\ UNCHANGED workVars /\ Untouched

(* inventory_differences of the staged and the final snapshot.             *)
NotCompared == TRUE     \* mutant: the final comparison is left out

NoDifferences == local = staging

(* Removed: the staging folder, with its journal; the analysis is of no    *)
(* use any more.                                                           *)
Removed == staging' = Empty /\ stagingJournal' = Nothing /\ snapshot' = Nothing
           /\ plan' = {} /\ applied' = {}

(* The baseline is saved before the window marks the first                 *)
(* synchronization as complete.                                            *)
Verified ==
  /\ phase = "verify" /\ NoDifferences /\ phase' = "done" /\ complete' = TRUE
  /\ manifest' = [saved |-> TRUE, files |-> local.orig] /\ Removed
  /\ UNCHANGED <<local, remote, localJournal, attempts, closing, history>>

Differs ==
  /\ phase = "verify" /\ ~NoDifferences /\ phase' = "error"
  /\ UNCHANGED <<placeVars, workVars, clashed>> /\ Untouched

(* _restart_analysis: "Try Again" removes the staging folder first.        *)
RestartAnalysis ==
  /\ phase = "error" /\ phase' = "idle" /\ Removed
  /\ UNCHANGED <<local, remote, localJournal, clashed>> /\ Untouched

-----------------------------------------------------------------------------
(* _on_close_request: the run is terminated, if it is registered, the      *)
(* staging folder removed file by file, and the application quits.         *)
Closes == ~closing /\ phase # "done"

Close ==
  /\ Closes /\ closing' = TRUE
  /\ phase' = IF phase = "upload_starting" THEN phase ELSE "closed"
  /\ UNCHANGED <<placeVars, attempts, workVars, resultVars, history>>

RemoveStaged(f) ==
  /\ closing /\ phase = "upload_starting" /\ staging.orig[f] # None
  /\ staging' = [staging EXCEPT !.orig[f] = None] /\ phase' = phase
  /\ UNCHANGED <<local, remote, localJournal, stagingJournal, workVars, clashed>> /\ Untouched

(* The process was started after _cancelled had been looked at: nobody     *)
(* terminates it before its first line of output, and it takes what has    *)
(* been removed for deletions.                                             *)
OrphanRuns(files) ==
  /\ phase = "upload_starting" /\ closing /\ phase' = "closed"
  /\ SyncStaging(files) /\ orphaned' = orphaned \cup Contents(remote)
  /\ UNCHANGED <<attempts, workVars, closing, resultVars, edits, written, superseded, late>>

(* The application is started again, after a crash too.                    *)
Reopen ==
  /\ phase = "closed" /\ phase' = "idle" /\ closing' = FALSE /\ Removed
  /\ UNCHANGED <<local, remote, localJournal, attempts, resultVars, history>>

NextWorker ==
  \/ BeginAnalysis \/ Recheck \/ Merge \/ MergeFails \/ UploadStarts \/ Archive
  \/ Applied \/ Verified \/ Differs \/ RestartAnalysis \/ Reopen
  \/ \E files \in SUBSET File :
       \/ Snapshot(files) \/ Upload(files) \/ Download(files) \/ OrphanRuns(files)
       \/ files \subseteq Conflicts /\ Execute(files)
  \/ \E e \in File \cup {"alt", "conf"} : ApplyOne(e)
  \/ Close \/ \E f \in File : RemoveStaged(f)

BootstrapNext ==
  \/ NextWorker
  \/ \E f \in File, v \in Version : EditLocal(f, v) \/ EditRemote(f, v)

BootstrapSpec == BootstrapInit /\ [][BootstrapNext]_bootstrapVars

-----------------------------------------------------------------------------
Lost == written \ (superseded \cup Contents(local) \cup Contents(remote) \cup Contents(staging))

(* "Merge while preserving both versions" (README): no version is lost     *)
(* that nobody has replaced or deleted, but by a run left behind.          *)
NothingLost == Lost \subseteq orphaned

(* A version is lost only when it was made after the folder was compared,  *)
(* met another change on the server during the upload, or when the window  *)
(* was closed on an upload about to start.                                 *)
LostOnlyBy == Lost \subseteq late \cup clashed \cup orphaned

(* Bidirectional mode begins "only after the reviewed result is applied,   *)
(* verified, and saved as a safety baseline" (README): the baseline has    *)
(* only what the last run found in agreement with the server.              *)
BaselineAgreed ==
  complete => manifest.saved /\ \A f \in File : manifest.files[f] \in {None, localJournal[f]}
=============================================================================
