-------------------------- MODULE BootstrapProofs ---------------------------
(***************************************************************************)
(* Proofs about the protected initialization, for any files and any number *)
(* of edits and attempts.  The baseline that ends it is of files that the  *)
(* last run found in agreement with the server.  People edit the folder    *)
(* until the final comparison: what makes the comparison sufficient is that*)
(* a version made by an edit is a new one, which the staging folder cannot *)
(* hold, so that an edited file differs there unless it was deleted on both*)
(* sides.  And no version is lost but by the named races.  That argument   *)
(* needs neither the staging folder, which is removed when the             *)
(* initialization is given up, nor what an analysis has found: whatever a  *)
(* step overwrites in the local folder or on the server is kept there under*)
(* a dated name, was replaced by a user, or belongs to one of the races.   *)
(* Last, what the run composes has the types of its parts.                 *)
(***************************************************************************)
EXTENDS MCApplication, LifecycleProofs

USE DEF placeVars, workVars, resultVars, history, None, Mine, Theirs, Same

(* Every version is one of the first ones or made by an edit so far.       *)
Known == 0 .. 3 + edits
KnownPlace == [orig : [File -> Known], alt : SUBSET Content, conf : SUBSET Content]
PlacesInv ==
  /\ edits \in Nat
  /\ local \in KnownPlace /\ remote \in KnownPlace /\ staging \in KnownPlace

AgreeInv ==
  /\ complete => phase = "done"
  /\ phase = "verify" => \A f \in File : \/ local.orig[f] \in {None, localJournal[f]}
                                         \/ local.orig[f] # staging.orig[f]
  /\ phase = "done" =>
       manifest.saved /\ \A f \in File : manifest.files[f] \in {None, localJournal[f]}

-----------------------------------------------------------------------------
(* A place is made of its three parts.                                     *)
LEMMA PlaceMade ==
  ASSUME NEW orig \in [File -> Known], NEW alt \in SUBSET Content, NEW conf \in SUBSET Content
  PROVE  [orig |-> orig, alt |-> alt, conf |-> conf] \in KnownPlace
BY DEF KnownPlace

(* The parts of a place.                                                   *)
LEMMA PlaceParts ==
  ASSUME NEW p \in KnownPlace
  PROVE  /\ p.orig \in [File -> Known] /\ p.alt \in SUBSET Content /\ p.conf \in SUBSET Content
         /\ p = [orig |-> p.orig, alt |-> p.alt, conf |-> p.conf]
BY DEF KnownPlace

(* A place with one part given anew.                                       *)
LEMMA OrigGiven ==
  ASSUME NEW p \in KnownPlace, NEW orig
  PROVE  [p EXCEPT !.orig = orig] = [orig |-> orig, alt |-> p.alt, conf |-> p.conf]
BY PlaceParts

(* The dated names given anew.                                            *)
LEMMA AltGiven ==
  ASSUME NEW p \in KnownPlace, NEW alt
  PROVE  [p EXCEPT !.alt = alt] = [orig |-> p.orig, alt |-> alt, conf |-> p.conf]
BY PlaceParts

(* The conflict copies given anew.                                        *)
LEMMA ConfGiven ==
  ASSUME NEW p \in KnownPlace, NEW conf
  PROVE  [p EXCEPT !.conf = conf] = [orig |-> p.orig, alt |-> p.alt, conf |-> conf]
BY PlaceParts

(* A place with every part given anew.                                     *)
LEMMA PlaceGiven ==
  ASSUME NEW p \in KnownPlace, NEW orig, NEW alt, NEW conf
  PROVE  [p EXCEPT !.orig = orig, !.alt = alt, !.conf = conf]
           = [orig |-> orig, alt |-> alt, conf |-> conf]
<1>1. [p EXCEPT !.orig = orig] = [orig |-> orig, alt |-> p.alt, conf |-> p.conf]
  BY OrigGiven
<1>2. [[orig |-> orig, alt |-> p.alt, conf |-> p.conf] EXCEPT !.alt = alt]
        = [orig |-> orig, alt |-> alt, conf |-> p.conf]
  OBVIOUS
<1>3. [[orig |-> orig, alt |-> alt, conf |-> p.conf] EXCEPT !.conf = conf]
        = [orig |-> orig, alt |-> alt, conf |-> conf]
  OBVIOUS
<1>4. [p EXCEPT !.orig = orig, !.alt = alt, !.conf = conf]
        = [[[p EXCEPT !.orig = orig] EXCEPT !.alt = alt] EXCEPT !.conf = conf]
  OBVIOUS
<1> QED
  BY <1>1, <1>2, <1>3, <1>4

(* A run of nextcloudcmd leaves known versions on both sides.              *)
LEMMA SyncKnown ==
  ASSUME PlacesInv, NEW p \in KnownPlace, NEW j, NEW files \in SUBSET File
  PROVE  /\ Synchronized(p, j, files) \in KnownPlace
         /\ AfterUpload(p, j, files) \in KnownPlace
<1>1. /\ p.orig \in [File -> Known] /\ p.alt \in SUBSET Content /\ p.conf \in SUBSET Content
      /\ remote.orig \in [File -> Known] /\ remote.alt \in SUBSET Content
  BY PlaceParts DEF PlacesInv
<1>2. \A f \in File : Merged(p, j, f) \in Known
  BY <1>1 DEF Merged
<1>3. /\ [f \in File |-> IF f \in files THEN Merged(p, j, f) ELSE p.orig[f]] \in [File -> Known]
      /\ [f \in File |-> IF f \in files THEN Merged(p, j, f) ELSE remote.orig[f]]
           \in [File -> Known]
  BY <1>1, <1>2
<1>4. /\ p.alt \cup remote.alt \in SUBSET Content
      /\ p.conf \cup Aside(p, {f \in files : Clashes(p, j, f)}) \in SUBSET Content
  BY <1>1 DEF Aside
<1> QED
  BY <1>3, <1>4, PlaceMade DEF Synchronized, AfterUpload

(* Known versions stay known.                                              *)
LEMMA KnownGrows ==
  ASSUME edits \in Nat, edits' \in {edits, edits + 1}, NEW p \in KnownPlace
  PROVE  p \in KnownPlace' /\ p.orig \in [File -> Known'] /\ edits' \in Nat
<1>1. 0 .. 3 + edits \subseteq 0 .. 3 + edits'
  <2>1. CASE edits' = edits
    BY <2>1
  <2>2. CASE edits' = edits + 1
    BY <2>2
  <2> QED
    BY <2>1, <2>2
<1>2. Known \subseteq Known'
  BY <1>1 DEF Known
<1>3. \A q \in [File -> Known] : q \in [File -> Known']
  BY <1>2
<1> QED
  BY <1>3 DEF KnownPlace

(* A step that counts no edit has the same versions.                       *)
LEMMA KnownKept ==
  ASSUME PlacesInv, edits' = edits,
         local' \in KnownPlace, remote' \in KnownPlace, staging' \in KnownPlace
  PROVE  PlacesInv'
<1>1. KnownPlace' = KnownPlace
  BY DEF KnownPlace, Known
<1> QED
  BY <1>1 DEF PlacesInv

(* The empty folder is a place.                                            *)
LEMMA EmptyKnown == ASSUME PlacesInv PROVE Empty \in KnownPlace
<1>1. Nothing \in [File -> Known]
  BY DEF PlacesInv, Nothing, Known
<1> QED
  BY <1>1, PlaceMade DEF Empty

-----------------------------------------------------------------------------
(* The folders hold first versions at first.                               *)
LEMMA PlacesInit == ASSUME BootstrapInit PROVE PlacesInv
<1>1. edits = 0
  BY DEF BootstrapInit
<1>2. /\ {0, 1, 3} \subseteq Known /\ {0, 2, 3} \subseteq Known
  BY <1>1 DEF Known
<1>3. Nothing \in [File -> Known]
  BY <1>2 DEF Nothing
<1>4. staging \in KnownPlace
  BY <1>3, PlaceMade DEF BootstrapInit, Empty
<1>5. local \in KnownPlace
  BY <1>2 DEF BootstrapInit, KnownPlace
<1>6. remote \in KnownPlace
  BY <1>2 DEF BootstrapInit, KnownPlace
<1> QED
  BY <1>1, <1>4, <1>5, <1>6 DEF PlacesInv

(* A user's edit makes a version that was not known.                       *)
LEMMA EditLocalPlaces ==
  ASSUME PlacesInv, NEW f \in File, NEW v \in Version, EditLocal(f, v)
  PROVE  /\ PlacesInv' /\ phase' = phase /\ UNCHANGED <<staging, localJournal, resultVars>>
         /\ local'.orig[f] \in {None, edits + 4}
         /\ \A g \in File \ {f} : local'.orig[g] = local.orig[g]
<1>1. /\ edits' = edits + 1 /\ v \in {None, edits + 4}
      /\ local' = [local EXCEPT !.orig[f] = v] /\ remote' = remote
      /\ phase' = phase /\ UNCHANGED <<staging, localJournal, resultVars>>
  BY DEF EditLocal, Edited
<1>2. /\ edits \in Nat
      /\ \A p \in {local, remote, staging} :
           p \in KnownPlace /\ p \in KnownPlace' /\ p.orig \in [File -> Known']
  BY <1>1, KnownGrows DEF PlacesInv
<1>3. v \in Known'
  BY <1>1, <1>2 DEF Known
<1>4. local' = [orig |-> [local.orig EXCEPT ![f] = v], alt |-> local.alt, conf |-> local.conf]
  BY <1>1, <1>2, PlaceParts
<1>5. [local.orig EXCEPT ![f] = v] \in [File -> Known']
  BY <1>2, <1>3
<1>6. local.alt \in SUBSET Content /\ local.conf \in SUBSET Content
  BY <1>2, PlaceParts
<1>7. local' \in KnownPlace'
  BY <1>4, <1>5, <1>6 DEF KnownPlace
<1>8. local'.orig = [local.orig EXCEPT ![f] = v]
  BY <1>4
<1>9. /\ local'.orig[f] = v
      /\ \A g \in File \ {f} : local'.orig[g] = local.orig[g]
  BY <1>2, <1>8, PlaceParts
<1>10. edits' \in Nat
  BY <1>1, <1>2
<1>11. PlacesInv'
  BY <1>1, <1>2, <1>7, <1>10 DEF PlacesInv
<1> QED
  BY <1>1, <1>9, <1>11

(* So does one on the server.                                             *)
LEMMA EditRemotePlaces ==
  ASSUME PlacesInv, NEW f \in File, NEW v \in Version, EditRemote(f, v)
  PROVE  PlacesInv'
<1>1. /\ edits' = edits + 1 /\ v \in {None, edits + 4}
      /\ remote' = [remote EXCEPT !.orig[f] = v] /\ local' = local /\ staging' = staging
  BY DEF EditRemote, Edited
<1>2. /\ edits \in Nat
      /\ \A p \in {local, remote, staging} :
           p \in KnownPlace /\ p \in KnownPlace' /\ p.orig \in [File -> Known']
  BY <1>1, KnownGrows DEF PlacesInv
<1>3. v \in Known'
  BY <1>1, <1>2 DEF Known
<1>4. remote' = [orig |-> [remote.orig EXCEPT ![f] = v], alt |-> remote.alt, conf |-> remote.conf]
  BY <1>1, <1>2, PlaceParts
<1>5. [remote.orig EXCEPT ![f] = v] \in [File -> Known']
  BY <1>2, <1>3
<1>6. remote.alt \in SUBSET Content /\ remote.conf \in SUBSET Content
  BY <1>2, PlaceParts
<1>7. remote' \in KnownPlace'
  BY <1>4, <1>5, <1>6 DEF KnownPlace
<1> QED
  BY <1>1, <1>2, <1>7 DEF PlacesInv

(* The worker and the window move known versions about.                    *)
LEMMA WorkerPlaces == ASSUME PlacesInv, NextWorker PROVE PlacesInv'
<1>p. edits \in Nat /\ local \in KnownPlace /\ remote \in KnownPlace /\ staging \in KnownPlace
  BY DEF PlacesInv
<1>1. edits' = edits
  BY DEF NextWorker, BeginAnalysis, Recheck, Merge, MergeFails, UploadStarts, Archive, Applied,
         Verified, Differs, RestartAnalysis, Reopen, Snapshot, Upload, Download, OrphanRuns,
         Execute, ApplyOne, Close, RemoveStaged, Untouched
<1>2. CASE UNCHANGED <<local, remote, staging>>
  BY <1>1, <1>2, <1>p, KnownKept
<1>3. ASSUME NEW files \in SUBSET File, SyncStaging(files) PROVE PlacesInv'
  BY <1>1, <1>3, <1>p, SyncKnown, KnownKept DEF SyncStaging
<1>4. ASSUME NEW files \in SUBSET File, SyncLocal(files) PROVE PlacesInv'
  BY <1>1, <1>4, <1>p, SyncKnown, KnownKept DEF SyncLocal
<1>5. CASE Removed /\ UNCHANGED <<local, remote>>
  BY <1>1, <1>5, <1>p, EmptyKnown, KnownKept DEF Removed
<1>6. CASE Merge
  <2> DEFINE orig == [f \in File |-> IF f \in LocalOnly \cup plan THEN local.orig[f]
                                     ELSE staging.orig[f]]
             alt == staging.alt \cup (Preserved \cup local.alt)
             conf == staging.conf \cup local.conf
  <2>1. local.orig \in [File -> Known] /\ staging.orig \in [File -> Known]
    BY <1>p, PlaceParts
  <2>2. orig \in [File -> Known]
    BY <2>1
  <2>3. alt \in SUBSET Content /\ conf \in SUBSET Content
    BY <1>p, PlaceParts DEF Preserved, Aside
  <2>4. staging' = [staging EXCEPT !.orig = orig, !.alt = alt, !.conf = conf]
    <3>1. alt = staging.alt \cup Preserved \cup local.alt
      OBVIOUS
    <3> QED
      BY <1>6, <3>1 DEF Merge
  <2> HIDE DEF orig, alt, conf
  <2>5. staging' = [orig |-> orig, alt |-> alt, conf |-> conf]
    BY <1>p, <2>4, PlaceGiven
  <2>6. staging' \in KnownPlace
    BY <2>2, <2>3, <2>5, PlaceMade
  <2> QED
    BY <1>1, <1>6, <1>p, <2>6, KnownKept DEF Merge
<1>7. ASSUME NEW e \in File \cup {"alt", "conf"}, ApplyOne(e) PROVE PlacesInv'
  <2>1. \/ local' = local
        \/ local' = [local EXCEPT !.alt = local.alt \cup staging.alt]
        \/ local' = [local EXCEPT !.conf = local.conf \cup staging.conf]
        \/ e \in File /\ local' = [local EXCEPT !.orig[e] = staging.orig[e]]
    BY <1>7 DEF ApplyOne
  <2>2. /\ local.orig \in [File -> Known] /\ staging.orig \in [File -> Known]
        /\ local.alt \cup staging.alt \in SUBSET Content
        /\ local.conf \cup staging.conf \in SUBSET Content
        /\ local.alt \in SUBSET Content /\ local.conf \in SUBSET Content
    BY <1>p, PlaceParts
  <2>3. local' \in KnownPlace
    <3>1. CASE local' = [local EXCEPT !.alt = local.alt \cup staging.alt]
      <4>1. local' = [orig |-> local.orig, alt |-> local.alt \cup staging.alt,
                      conf |-> local.conf]
        BY <1>p, <3>1, AltGiven
      <4> QED
        BY <2>2, <4>1, PlaceMade
    <3>2. CASE local' = [local EXCEPT !.conf = local.conf \cup staging.conf]
      <4>1. local' = [orig |-> local.orig, alt |-> local.alt,
                      conf |-> local.conf \cup staging.conf]
        BY <1>p, <3>2, ConfGiven
      <4> QED
        BY <2>2, <4>1, PlaceMade
    <3>3. CASE e \in File /\ local' = [local EXCEPT !.orig[e] = staging.orig[e]]
      <4>1. [local.orig EXCEPT ![e] = staging.orig[e]] \in [File -> Known]
        BY <2>2, <3>3
      <4>2. local' = [local EXCEPT !.orig = [local.orig EXCEPT ![e] = staging.orig[e]]]
        BY <3>3
      <4>3. local' = [orig |-> [local.orig EXCEPT ![e] = staging.orig[e]],
                      alt |-> local.alt, conf |-> local.conf]
        BY <1>p, <4>2, OrigGiven
      <4> QED
        BY <2>2, <4>1, <4>3, PlaceMade
    <3> QED
      BY <1>p, <2>1, <3>1, <3>2, <3>3
  <2> QED
    BY <1>1, <1>7, <1>p, <2>3, KnownKept DEF ApplyOne
<1>8. ASSUME NEW f \in File, RemoveStaged(f) PROVE PlacesInv'
  <2>1. staging' = [orig |-> [staging.orig EXCEPT ![f] = 0],
                    alt |-> staging.alt, conf |-> staging.conf]
    BY <1>8, <1>p, PlaceParts DEF RemoveStaged
  <2>2. [staging.orig EXCEPT ![f] = 0] \in [File -> Known]
    BY <1>p, PlaceParts DEF Known
  <2>3. staging' \in KnownPlace
    BY <1>p, <2>1, <2>2, PlaceParts, PlaceMade
  <2> QED
    BY <1>1, <1>8, <1>p, <2>3, KnownKept DEF RemoveStaged
<1> QED
  BY <1>2, <1>3, <1>4, <1>5, <1>6, <1>7, <1>8
  DEF NextWorker, BeginAnalysis, Recheck, MergeFails, UploadStarts, Archive, Applied,
      Verified, Differs, RestartAnalysis, Reopen, Snapshot, Upload, Download, OrphanRuns, Execute,
      Close

(* Every step keeps versions known.                                       *)
LEMMA PlacesNext == ASSUME PlacesInv, [BootstrapNext]_bootstrapVars PROVE PlacesInv'
<1>1. CASE UNCHANGED bootstrapVars
  BY <1>1, KnownKept DEF bootstrapVars, PlacesInv
<1> QED
  BY <1>1, WorkerPlaces, EditLocalPlaces, EditRemotePlaces DEF BootstrapNext

-----------------------------------------------------------------------------
(* Nothing is compared at first.                                          *)
LEMMA AgreeInit == BootstrapInit => AgreeInv
  BY DEF BootstrapInit, AgreeInv

(* What the last run leaves in the folder is what its journal says.        *)
LEMMA DownloadAgrees ==
  ASSUME AgreeInv, NEW files \in SUBSET File, Download(files)
  PROVE  AgreeInv'
<1>1. /\ phase = "download" /\ complete' = complete /\ phase' \in {"verify", "error"}
      /\ phase' = "verify" => files = File
  BY DEF Download, Untouched, Ends
<1>2. /\ local' = Synchronized(local, localJournal, files)
      /\ localJournal' = Journal(local, localJournal, files)
  BY DEF Download, SyncLocal
<1>3. files = File => \A f \in File : local'.orig[f] = localJournal'[f]
  BY <1>2 DEF Synchronized, Journal
<1>4. ~complete
  BY <1>1 DEF AgreeInv
<1> QED
  BY <1>1, <1>3, <1>4 DEF AgreeInv

(* The comparison with the staging folder leaves what the journal says.    *)
LEMMA VerifiedAgrees == ASSUME AgreeInv, Verified PROVE AgreeInv'
<1>1. /\ phase = "verify" /\ local = staging /\ phase' = "done" /\ localJournal' = localJournal
      /\ manifest' = [saved |-> TRUE, files |-> local.orig]
  BY DEF Verified, NoDifferences
<1>2. \A f \in File : local.orig[f] \in {None, localJournal[f]}
  BY <1>1 DEF AgreeInv
<1>3. manifest'.saved /\ manifest'.files = local.orig
  BY <1>1
<1> QED
  BY <1>1, <1>2, <1>3 DEF AgreeInv

(* An edit before the comparison is of a version the staging folder has not*)
(* got, or of none.                                                        *)
LEMMA EditAgrees ==
  ASSUME PlacesInv, AgreeInv, NEW f \in File, NEW v \in Version, EditLocal(f, v)
  PROVE  AgreeInv'
<1>1. /\ phase' = phase /\ UNCHANGED <<staging, localJournal, resultVars>>
      /\ local'.orig[f] \in {None, edits + 4}
      /\ \A g \in File \ {f} : local'.orig[g] = local.orig[g]
  BY EditLocalPlaces
<1>2. edits \in Nat /\ staging.orig[f] \in 0 .. 3 + edits
  BY DEF PlacesInv, KnownPlace, Known
<1>3. local'.orig[f] = None \/ local'.orig[f] # staging'.orig[f]
  BY <1>1, <1>2
<1> QED
  BY <1>1, <1>3 DEF AgreeInv

(* Nothing else touches the folder, its journal or the baseline while they *)
(* are compared or after.                                                  *)
LEMMA OtherAgrees ==
  ASSUME AgreeInv,
         \/ UNCHANGED <<local, staging, localJournal, phase, resultVars>>
         \/ complete' = complete /\ phase # "done" /\ phase' \notin {"verify", "done"}
  PROVE  AgreeInv'
BY DEF AgreeInv

(* Every step of the worker and the window keeps what is compared agreed. *)
LEMMA WorkerAgrees ==
  ASSUME AgreeInv, NextWorker
  PROVE  AgreeInv'
<1>1. CASE Verified
  BY <1>1, VerifiedAgrees
<1>2. CASE \E files \in SUBSET File : Download(files)
  BY <1>2, DownloadAgrees
<1>3. CASE /\ ~Verified /\ ~\E files \in SUBSET File : Download(files)
  <2>1. complete' = complete /\ phase # "done" /\ phase' \notin {"verify", "done"}
    BY <1>3 DEF NextWorker, BeginAnalysis, Recheck, Merge, MergeFails, UploadStarts, Archive,
         Applied, Differs, RestartAnalysis, Reopen, Snapshot, Upload, OrphanRuns, Execute,
         ApplyOne, Close, Closes, RemoveStaged, Untouched, Ends
  <2> QED
    BY <2>1, OtherAgrees
<1> QED
  BY <1>1, <1>2, <1>3

(* Every step does.                                                       *)
LEMMA AgreeNext == ASSUME PlacesInv, AgreeInv, [BootstrapNext]_bootstrapVars PROVE AgreeInv'
<1>1. CASE UNCHANGED bootstrapVars
  BY <1>1, OtherAgrees DEF bootstrapVars
<1>2. CASE \E f \in File, v \in Version : EditRemote(f, v)
  <2>1. UNCHANGED <<local, staging, localJournal, phase, resultVars>>
    BY <1>2 DEF EditRemote, Edited
  <2> QED
    BY <2>1, OtherAgrees
<1> QED
  BY <1>1, <1>2, WorkerAgrees, EditAgrees DEF BootstrapNext

(* Once the first synchronization is complete there is a saved baseline,   *)
(* and a file in it is one the last run recorded as agreed with the server *)
(* (the final comparison of bootstrap.py, then SafetyManifest.save).       *)
THEOREM BaselineIsAgreed == BootstrapSpec => []BaselineAgreed
<1>1. AgreeInv => BaselineAgreed
  BY DEF AgreeInv, BaselineAgreed
<1> QED
  BY <1>1, PlacesInit, PlacesNext, AgreeInit, AgreeNext, PTL DEF BootstrapSpec

-----------------------------------------------------------------------------
(* No version is lost but by the named races.                              *)

(* What a user replaced, and what the races lose.                          *)
Safe == superseded \cup late \cup clashed \cup orphaned

(* Every version that is not, is in the local folder or on the server.     *)
Held ==
  \A c \in written :
    /\ c \in Content /\ c.v \in Known
    /\ \/ local.orig[c.f] = c.v \/ remote.orig[c.f] = c.v
       \/ c \in local.alt \cup local.conf \cup remote.alt \cup Safe

(* The staging folder starts empty and holds what its journal says until   *)
(* the merge.                                                              *)
Staged ==
  /\ phase \in {"idle", "snapshot"} => staging = Empty /\ stagingJournal = Nothing
  /\ phase \in {"review", "recheck", "merge"} => staging.orig = stagingJournal

(* The order of the steps: preserved versions are on the server, and the   *)
(* old journal gone, before the local folder is touched.                   *)
Orderly ==
  /\ closing => phase \in {"upload_starting", "closed"}
  /\ phase \in {"archive", "apply"} => staging.alt \subseteq remote.alt
  /\ phase \in {"apply", "download"} => localJournal = Nothing

(* What the staging journal has and the server has not, a user replaced.   *)
JournalSuperseded ==
  \A c \in Content : stagingJournal[c.f] = c.v /\ remote.orig[c.f] # c.v => c \in Safe

(* What the staging journal has and the merge replaced is preserved.       *)
JournalPreserved ==
  ~closing => \A c \in Content :
    stagingJournal[c.f] = c.v /\ staging.orig[c.f] # c.v => c \in staging.alt \cup Safe

(* The local folder is as analyzed until the merge, but for late edits,    *)
Compared ==
  phase = "merge" =>
    \A c \in Content : local.orig[c.f] = c.v /\ snapshot[c.f] # c.v => c \in Safe

(* and after it all of it is in the staging folder.                        *)
Covered ==
  phase \in {"upload_starting", "upload", "archive", "apply"} /\ ~closing =>
    \A c \in Content :
      local.orig[c.f] = c.v /\ staging.orig[c.f] # c.v => c \in staging.alt \cup Safe

LossInv ==
  /\ Held /\ Staged /\ Orderly /\ JournalSuperseded /\ JournalPreserved /\ Compared /\ Covered

(* A version of a file is one file and one version.                        *)
LEMMA ContentMade ==
  ASSUME NEW c \in Content
  PROVE  c.f \in File /\ c.v \in Version \ {None} /\ c = [f |-> c.f, v |-> c.v]
BY DEF Content

(* The bound follows.                                                      *)
LEMMA HeldBounds == ASSUME Held PROVE LostOnlyBy
<1> SUFFICES ASSUME NEW c \in written,
                    c \notin superseded, c \notin Contents(local), c \notin Contents(remote)
             PROVE  c \in late \cup clashed \cup orphaned
  BY DEF LostOnlyBy, Lost
<1> QED
  BY DEF Held, Safe, Contents

(* At first both folders hold all there is.                                *)
LEMMA LossInit == ASSUME BootstrapInit PROVE LossInv
<1>0. PlacesInv
  BY PlacesInit
<1>1. /\ edits = 0 /\ phase = "idle" /\ closing = FALSE
      /\ staging = Empty /\ stagingJournal = Nothing
      /\ superseded = {} /\ written = Contents(local) \cup Contents(remote)
      /\ local.alt = {} /\ local.conf = {} /\ remote.alt = {} /\ remote.conf = {}
  BY DEF BootstrapInit
<1>2. local.orig \in [File -> Known] /\ remote.orig \in [File -> Known]
  BY <1>0, PlaceParts DEF PlacesInv
<1>3. Held
  BY <1>1, <1>2, ContentMade DEF Held, Contents
<1>4. Staged /\ Orderly /\ Compared /\ Covered
  BY <1>1 DEF Staged, Orderly, Compared, Covered
<1>5. \A c \in Content : stagingJournal[c.f] # c.v
  BY <1>1, ContentMade DEF Nothing
<1>6. JournalSuperseded /\ JournalPreserved
  BY <1>5 DEF JournalSuperseded, JournalPreserved
<1> QED
  BY <1>3, <1>4, <1>6 DEF LossInv

-----------------------------------------------------------------------------
(* Steps that move on, without touching the folders.                       *)
LEMMA MovesLoss ==
  ASSUME LossInv,
         UNCHANGED <<local, remote, staging, stagingJournal, snapshot, edits, written,
                     superseded, late, clashed, orphaned>>, closing => closing',
         \/ phase' \in {"error", "closed"} /\ (closing' => phase' = "closed")
         \/ phase = "upload_starting" /\ phase' = phase /\ closing'
         \/ /\ closing' = FALSE /\ ~closing /\ localJournal' = localJournal
            /\ \/ phase = "idle" /\ phase' = "snapshot"
               \/ phase = "review" /\ phase' = "recheck"
               \/ phase = "recheck" /\ phase' = "merge" /\ local.orig = snapshot
               \/ phase = "upload_starting" /\ phase' = "upload"
               \/ phase = "apply" /\ phase' = "download"
         \/ /\ closing' = FALSE /\ ~closing /\ localJournal' = Nothing
            /\ phase = "archive" /\ phase' = "apply"
  PROVE  LossInv'
<1>1. Held' /\ JournalSuperseded'
  BY DEF LossInv, Held, JournalSuperseded, Safe, Known
<1>2. Staged'
  BY DEF LossInv, Staged
<1>3. Orderly'
  BY DEF LossInv, Orderly
<1>4. JournalPreserved'
  BY DEF LossInv, JournalPreserved, Orderly, Safe
<1>5. Compared'
  BY DEF LossInv, Compared, Safe
<1>6. Covered'
  BY DEF LossInv, Covered, Orderly, Safe
<1> QED
  BY <1>1, <1>2, <1>3, <1>4, <1>5, <1>6 DEF LossInv

(* The staging folder is removed with its journal.                         *)
LEMMA RemovedLoss ==
  ASSUME LossInv, Removed, phase' \in {"idle", "done"}, ~closing',
         UNCHANGED <<local, remote, edits, written, superseded, late, clashed, orphaned>>
  PROVE  LossInv'
<1>1. Held'
  BY DEF LossInv, Held, Safe, Known
<1>2. Staged' /\ Orderly' /\ Compared' /\ Covered'
  BY DEF LossInv, Staged, Orderly, Compared, Covered, Removed
<1>3. \A c \in Content : stagingJournal'[c.f] # c.v
  BY ContentMade DEF Removed, Nothing
<1>4. JournalSuperseded' /\ JournalPreserved'
  BY <1>3 DEF JournalSuperseded, JournalPreserved
<1> QED
  BY <1>1, <1>2, <1>4 DEF LossInv

-----------------------------------------------------------------------------
(* What a run in the staging folder does, version by version.              *)
LEMMA StagingRun ==
  ASSUME PlacesInv, NEW files \in SUBSET File, SyncStaging(files)
  PROVE  /\ \A f \in files : /\ staging'.orig[f] = Merged(staging, stagingJournal, f)
                             /\ remote'.orig[f] = Merged(staging, stagingJournal, f)
                             /\ stagingJournal'[f] = Merged(staging, stagingJournal, f)
         /\ \A f \in File \ files : /\ staging'.orig[f] = staging.orig[f]
                                    /\ remote'.orig[f] = remote.orig[f]
                                    /\ stagingJournal'[f] = stagingJournal[f]
         /\ staging'.alt = staging.alt \cup remote.alt
         /\ remote'.alt = staging.alt \cup remote.alt
         /\ \A c \in Content : c.f \in files /\ staging.orig[c.f] = c.v
              /\ Clashes(staging, stagingJournal, c.f) => c \in clashed'
         /\ clashed \subseteq clashed' /\ local' = local /\ localJournal' = localJournal
<1>1. /\ staging' = Synchronized(staging, stagingJournal, files)
      /\ remote' = AfterUpload(staging, stagingJournal, files)
      /\ stagingJournal' = Journal(staging, stagingJournal, files)
      /\ clashed' = clashed \cup Synchronized(staging, stagingJournal, files).conf
      /\ local' = local /\ localJournal' = localJournal
  BY DEF SyncStaging
<1>2. /\ \A f \in files : staging'.orig[f] = Merged(staging, stagingJournal, f)
      /\ \A f \in File \ files : staging'.orig[f] = staging.orig[f]
      /\ staging'.alt = staging.alt \cup remote.alt
  BY <1>1 DEF Synchronized
<1>3. /\ \A f \in files : remote'.orig[f] = Merged(staging, stagingJournal, f)
      /\ \A f \in File \ files : remote'.orig[f] = remote.orig[f]
      /\ remote'.alt = staging.alt \cup remote.alt
  BY <1>1 DEF AfterUpload
<1>4. /\ \A f \in files : stagingJournal'[f] = Merged(staging, stagingJournal, f)
      /\ \A f \in File \ files : stagingJournal'[f] = stagingJournal[f]
  BY <1>1 DEF Journal
<1>5. Synchronized(staging, stagingJournal, files).conf
        = staging.conf \cup Aside(staging, {f \in files : Clashes(staging, stagingJournal, f)})
  BY DEF Synchronized
<1>6. \A c \in Content : c.f \in files /\ staging.orig[c.f] = c.v
        /\ Clashes(staging, stagingJournal, c.f) => c \in clashed'
  BY <1>1, <1>5 DEF Aside
<1> QED
  BY <1>1, <1>2, <1>3, <1>4, <1>6

(* It loses nothing, keeps the journal's history and what covers the local *)
(* folder, whether it is the analysis, the upload or a run left behind,    *)
(* which makes all of the server's versions its own.                       *)
LEMMA StagingLoss ==
  ASSUME PlacesInv, LossInv, NEW files \in SUBSET File, SyncStaging(files),
         UNCHANGED <<edits, written, superseded, late>>, orphaned \subseteq orphaned',
         closing => Contents(remote) \subseteq orphaned'
  PROVE  /\ Held' /\ JournalSuperseded'
         /\ ~closing => \A c \in Content :
              stagingJournal'[c.f] = c.v /\ staging'.orig[c.f] # c.v
                => c \in staging'.alt \cup Safe'
         /\ (\A c \in Content : local.orig[c.f] = c.v /\ staging.orig[c.f] # c.v
              => c \in staging.alt \cup Safe)
             => \A c \in Content : local'.orig[c.f] = c.v /\ staging'.orig[c.f] # c.v
                  => c \in staging'.alt \cup Safe'
<1>1. /\ \A f \in files : /\ staging'.orig[f] = Merged(staging, stagingJournal, f)
                          /\ remote'.orig[f] = Merged(staging, stagingJournal, f)
                          /\ stagingJournal'[f] = Merged(staging, stagingJournal, f)
      /\ \A f \in File \ files : /\ staging'.orig[f] = staging.orig[f]
                                 /\ remote'.orig[f] = remote.orig[f]
                                 /\ stagingJournal'[f] = stagingJournal[f]
      /\ staging'.alt = staging.alt \cup remote.alt
      /\ remote'.alt = staging.alt \cup remote.alt
      /\ \A c \in Content : c.f \in files /\ staging.orig[c.f] = c.v
           /\ Clashes(staging, stagingJournal, c.f) => c \in clashed'
      /\ clashed \subseteq clashed' /\ local' = local /\ localJournal' = localJournal
  BY StagingRun
<1>2. Safe \subseteq Safe'
  BY <1>1 DEF Safe
<1>3. ASSUME NEW c \in Content, remote.orig[c.f] = c.v, remote'.orig[c.f] # c.v
      PROVE  c \in remote'.alt \cup Safe'
  <2>1. c.f \in files /\ c.f \in File /\ c.v # None
    BY <1>1, <1>3, ContentMade
  <2>2. CASE closing
    BY <1>3, <2>2 DEF Contents, Safe
  <2>3. CASE ~closing
    <3>1. stagingJournal[c.f] = c.v /\ staging.orig[c.f] # c.v
      BY <1>1, <1>3, <2>1 DEF Merged
    <3>2. c \in staging.alt \cup Safe
      BY <2>3, <3>1 DEF LossInv, JournalPreserved
    <3> QED
      BY <1>1, <1>2, <3>2
  <2> QED
    BY <2>2, <2>3
<1>4. ASSUME NEW c \in written
      PROVE  /\ c \in Content /\ c.v \in Known'
             /\ \/ local'.orig[c.f] = c.v \/ remote'.orig[c.f] = c.v
                \/ c \in local'.alt \cup local'.conf \cup remote'.alt \cup Safe'
  <2>1. /\ c \in Content /\ c.v \in Known
        /\ \/ local.orig[c.f] = c.v \/ remote.orig[c.f] = c.v
           \/ c \in local.alt \cup local.conf \cup remote.alt \cup Safe
    BY DEF LossInv, Held
  <2>2. c.v \in Known'
    BY <2>1 DEF Known
  <2> QED
    BY <1>1, <1>2, <1>3, <2>1, <2>2
<1>5. Held'
  BY <1>4 DEF Held
<1>6. JournalSuperseded'
  <2> SUFFICES ASSUME NEW c \in Content, stagingJournal'[c.f] = c.v, remote'.orig[c.f] # c.v
               PROVE  c \in Safe'
    BY DEF JournalSuperseded
  <2>1. c.f \in File \ files
    BY <1>1, ContentMade
  <2>2. stagingJournal[c.f] = c.v /\ remote.orig[c.f] # c.v
    BY <1>1, <2>1
  <2> QED
    BY <1>2, <2>2 DEF LossInv, JournalSuperseded
<1>7. ASSUME NEW c \in Content, stagingJournal'[c.f] = c.v, staging'.orig[c.f] # c.v, ~closing
      PROVE  c \in staging'.alt \cup Safe'
  <2>1. c.f \in File \ files
    BY <1>1, <1>7, ContentMade
  <2>2. stagingJournal[c.f] = c.v /\ staging.orig[c.f] # c.v
    BY <1>1, <1>7, <2>1
  <2>3. c \in staging.alt \cup Safe
    BY <1>7, <2>2 DEF LossInv, JournalPreserved
  <2> QED
    BY <1>1, <1>2, <2>3
<1>8. ASSUME NEW c \in Content, local'.orig[c.f] = c.v, staging'.orig[c.f] # c.v,
             staging.orig[c.f] # c.v => c \in staging.alt \cup Safe
      PROVE  c \in staging'.alt \cup Safe'
  <2>1. CASE staging.orig[c.f] # c.v
    BY <1>1, <1>2, <1>8, <2>1
  <2>2. CASE staging.orig[c.f] = c.v
    <3>1. c.f \in files /\ c.f \in File /\ c.v # None
      BY <1>1, <1>8, <2>2, ContentMade
    <3>2. CASE stagingJournal[c.f] = c.v
      <4>1. remote.orig[c.f] # c.v
        BY <1>1, <1>8, <2>2, <3>1, <3>2 DEF Merged
      <4> QED
        BY <1>2, <3>2, <4>1 DEF LossInv, JournalSuperseded
    <3>3. CASE stagingJournal[c.f] # c.v
      <4>1. Clashes(staging, stagingJournal, c.f)
        BY <1>1, <1>8, <2>2, <3>1, <3>3 DEF Merged, Clashes
      <4> QED
        BY <1>1, <2>2, <3>1, <4>1 DEF Safe
    <3> QED
      BY <3>2, <3>3
  <2> QED
    BY <2>1, <2>2
<1> QED
  BY <1>1, <1>5, <1>6, <1>7, <1>8

(* The analysis: a run into an empty folder.                               *)
LEMMA SnapshotLoss ==
  ASSUME PlacesInv, LossInv, NEW files \in SUBSET File, Snapshot(files)
  PROVE  LossInv'
<1>1. /\ phase = "snapshot" /\ SyncStaging(files) /\ closing' = closing
      /\ phase' \in {"review", "error"}
      /\ phase' = "review" => files = File
      /\ UNCHANGED <<edits, written, superseded, late, orphaned>>
  BY DEF Snapshot, Untouched, Ends
<1>2. ~closing
  BY <1>1 DEF LossInv, Orderly
<1>3. Held' /\ JournalSuperseded' /\ JournalPreserved'
  BY <1>1, <1>2, StagingLoss DEF JournalPreserved
<1>4. phase' = "review" => staging'.orig = stagingJournal'
  <2>1. /\ staging'.orig = [f \in File |-> IF f \in files THEN Merged(staging, stagingJournal, f)
                                           ELSE staging.orig[f]]
        /\ stagingJournal' = [f \in File |-> IF f \in files THEN Merged(staging, stagingJournal, f)
                                              ELSE stagingJournal[f]]
    BY <1>1 DEF SyncStaging, Synchronized, Journal
  <2> QED
    BY <1>1, <2>1
<1>5. Staged'
  BY <1>1, <1>4 DEF Staged
<1>6. Orderly' /\ Compared' /\ Covered'
  BY <1>1, <1>2 DEF Orderly, Compared, Covered
<1> QED
  BY <1>3, <1>5, <1>6 DEF LossInv

(* The upload keeps what covers the local folder, and its preserved        *)
(* versions are on the server.                                             *)
LEMMA UploadLoss ==
  ASSUME PlacesInv, LossInv, NEW files \in SUBSET File, Upload(files)
  PROVE  LossInv'
<1>1. /\ phase = "upload" /\ SyncStaging(files) /\ closing' = closing
      /\ phase' \in {"archive", "error"}
      /\ UNCHANGED <<edits, written, superseded, late, orphaned>>
  BY DEF Upload, Untouched, Ends
<1>2. ~closing
  BY <1>1 DEF LossInv, Orderly
<1>3. Held' /\ JournalSuperseded' /\ JournalPreserved'
  BY <1>1, <1>2, StagingLoss DEF JournalPreserved
<1>4. Covered'
  <2>1. \A c \in Content : local.orig[c.f] = c.v /\ staging.orig[c.f] # c.v
          => c \in staging.alt \cup Safe
    BY <1>1, <1>2 DEF LossInv, Covered
  <2>2. \A c \in Content : local'.orig[c.f] = c.v /\ staging'.orig[c.f] # c.v
          => c \in staging'.alt \cup Safe'
    BY <1>1, <1>2, <2>1, StagingLoss
  <2> QED
    BY <2>2 DEF Covered
<1>5. staging'.alt = remote'.alt
  BY <1>1, StagingRun
<1>6. Staged' /\ Orderly' /\ Compared'
  BY <1>1, <1>2, <1>5 DEF Staged, Orderly, Compared
<1> QED
  BY <1>3, <1>4, <1>6 DEF LossInv

(* The run left behind takes removed files for deletions.                  *)
LEMMA OrphanLoss ==
  ASSUME PlacesInv, LossInv, NEW files \in SUBSET File, OrphanRuns(files)
  PROVE  LossInv'
<1>1. /\ SyncStaging(files) /\ closing /\ closing' = closing /\ phase' = "closed"
      /\ orphaned' = orphaned \cup Contents(remote)
      /\ UNCHANGED <<edits, written, superseded, late>>
  BY DEF OrphanRuns
<1>2. Held' /\ JournalSuperseded'
  BY <1>1, StagingLoss
<1>3. JournalPreserved' /\ Staged' /\ Orderly' /\ Compared' /\ Covered'
  BY <1>1 DEF JournalPreserved, Staged, Orderly, Compared, Covered
<1> QED
  BY <1>2, <1>3 DEF LossInv

-----------------------------------------------------------------------------
(* The merge preserves under a dated name whatever it gives up.            *)
LEMMA MergeLoss == ASSUME PlacesInv, LossInv, Merge PROVE LossInv'
<1>1. /\ phase = "merge" /\ phase' = "upload_starting" /\ closing' = closing
      /\ UNCHANGED <<local, remote, localJournal, stagingJournal, clashed, edits, written,
                     superseded, late, orphaned>>
  BY DEF Merge, Untouched
<1>2. ~closing
  BY <1>1 DEF LossInv, Orderly
<1>3. staging \in KnownPlace
  BY DEF PlacesInv
<1> DEFINE orig == [f \in File |-> IF f \in LocalOnly \cup plan THEN local.orig[f]
                                   ELSE staging.orig[f]]
           alt == staging.alt \cup (Preserved \cup local.alt)
           conf == staging.conf \cup local.conf
<1>4. staging' = [staging EXCEPT !.orig = orig, !.alt = alt, !.conf = conf]
  <2>1. alt = staging.alt \cup Preserved \cup local.alt
    OBVIOUS
  <2> QED
    BY <2>1 DEF Merge
<1>5. orig = [f \in File |-> IF f \in LocalOnly \cup plan THEN local.orig[f]
                             ELSE staging.orig[f]]
  OBVIOUS
<1>6. Preserved \subseteq alt
  OBVIOUS
<1> HIDE DEF orig, alt, conf
<1>7. staging' = [orig |-> orig, alt |-> alt, conf |-> conf]
  BY <1>3, <1>4, PlaceGiven
<1>8. /\ \A f \in LocalOnly \cup plan : f \in File => staging'.orig[f] = local.orig[f]
      /\ \A f \in File \ (LocalOnly \cup plan) : staging'.orig[f] = staging.orig[f]
      /\ Preserved \subseteq staging'.alt
  BY <1>5, <1>6, <1>7
<1>9. Safe' = Safe /\ Known' = Known
  BY <1>1 DEF Safe, Known
<1>10. Held' /\ JournalSuperseded'
  BY <1>1, <1>9 DEF LossInv, Held, JournalSuperseded
<1>11. JournalPreserved'
  <2> SUFFICES ASSUME NEW c \in Content, stagingJournal[c.f] = c.v, staging'.orig[c.f] # c.v
               PROVE  c \in staging'.alt
    BY <1>1 DEF JournalPreserved
  <2>1. c.f \in File /\ c.v # None /\ staging.orig[c.f] = c.v
    BY <1>1, ContentMade DEF LossInv, Staged
  <2>2. c.f \in plan
    BY <1>8, <2>1 DEF LocalOnly
  <2> QED
    BY <1>8, <2>1, <2>2 DEF Preserved, Aside
<1>12. Covered'
  <2> SUFFICES ASSUME NEW c \in Content, local.orig[c.f] = c.v, staging'.orig[c.f] # c.v
               PROVE  c \in staging'.alt \cup Safe
    BY <1>1, <1>9 DEF Covered
  <2>1. c.f \in File /\ c.v # None
    BY ContentMade
  <2>2. c.f \notin LocalOnly \cup plan /\ staging.orig[c.f] # c.v
    BY <1>8, <2>1
  <2>3. CASE snapshot[c.f] # c.v
    BY <1>1, <2>3 DEF LossInv, Compared
  <2>4. CASE snapshot[c.f] = c.v
    <3>1. c.f \in Conflicts \ plan
      BY <2>1, <2>2, <2>4 DEF LocalOnly, Conflicts
    <3> QED
      BY <1>8, <3>1 DEF Preserved, Aside
  <2> QED
    BY <2>3, <2>4
<1>13. Staged' /\ Orderly' /\ Compared'
  BY <1>1, <1>2 DEF Staged, Orderly, Compared
<1> QED
  BY <1>10, <1>11, <1>12, <1>13 DEF LossInv

(* A file of the staging folder overwrites only what is in it under a dated*)
(* name, and there on the server, or belongs to a race.                    *)
LEMMA ApplyLoss ==
  ASSUME PlacesInv, LossInv, NEW e \in File \cup {"alt", "conf"}, ApplyOne(e)
  PROVE  LossInv'
<1>1. /\ phase = "apply" /\ phase' = phase /\ closing' = closing
      /\ UNCHANGED <<remote, staging, localJournal, stagingJournal, clashed, edits, written,
                     superseded, late, orphaned>>
  BY DEF ApplyOne, Untouched
<1>2. ~closing
  BY <1>1 DEF LossInv, Orderly
<1>3. local \in KnownPlace
  BY DEF PlacesInv
<1>4. \/ local' = local
      \/ local' = [local EXCEPT !.alt = local.alt \cup staging.alt]
      \/ local' = [local EXCEPT !.conf = local.conf \cup staging.conf]
      \/ e \in File /\ local' = [local EXCEPT !.orig[e] = staging.orig[e]]
  BY DEF ApplyOne
<1>5. /\ \A f \in File : local'.orig[f] \in {local.orig[f], staging.orig[f]}
      /\ local.alt \subseteq local'.alt /\ local.conf \subseteq local'.conf
  <2>1. CASE local' = [local EXCEPT !.alt = local.alt \cup staging.alt]
    <3>1. local' = [orig |-> local.orig, alt |-> local.alt \cup staging.alt,
                    conf |-> local.conf]
      BY <1>3, <2>1, AltGiven
    <3> QED
      BY <3>1
  <2>2. CASE local' = [local EXCEPT !.conf = local.conf \cup staging.conf]
    <3>1. local' = [orig |-> local.orig, alt |-> local.alt,
                    conf |-> local.conf \cup staging.conf]
      BY <1>3, <2>2, ConfGiven
    <3> QED
      BY <3>1
  <2>3. CASE e \in File /\ local' = [local EXCEPT !.orig[e] = staging.orig[e]]
    <3>1. local' = [local EXCEPT !.orig = [local.orig EXCEPT ![e] = staging.orig[e]]]
      BY <2>3
    <3>2. local' = [orig |-> [local.orig EXCEPT ![e] = staging.orig[e]],
                    alt |-> local.alt, conf |-> local.conf]
      BY <1>3, <3>1, OrigGiven
    <3>3. local.orig \in [File -> Known]
      BY <1>3, PlaceParts
    <3> QED
      BY <3>2, <3>3
  <2> QED
    BY <1>4, <2>1, <2>2, <2>3
<1>6. Safe' = Safe /\ Known' = Known
  BY <1>1 DEF Safe, Known
<1>7. Held'
  <2> SUFFICES ASSUME NEW c \in written
               PROVE  /\ c \in Content /\ c.v \in Known
                      /\ \/ local'.orig[c.f] = c.v \/ remote.orig[c.f] = c.v
                         \/ c \in local'.alt \cup local'.conf \cup remote.alt \cup Safe
    BY <1>1, <1>6 DEF Held
  <2>1. /\ c \in Content /\ c.v \in Known /\ c.f \in File
        /\ \/ local.orig[c.f] = c.v \/ remote.orig[c.f] = c.v
           \/ c \in local.alt \cup local.conf \cup remote.alt \cup Safe
    BY ContentMade DEF LossInv, Held
  <2>2. local.orig[c.f] = c.v /\ local'.orig[c.f] # c.v => c \in remote.alt \cup Safe
    <3>1. local.orig[c.f] = c.v /\ staging.orig[c.f] # c.v => c \in staging.alt \cup Safe
      BY <1>1, <1>2, <2>1 DEF LossInv, Covered
    <3>2. staging.alt \subseteq remote.alt
      BY <1>1 DEF LossInv, Orderly
    <3> QED
      BY <1>5, <2>1, <3>1, <3>2
  <2> QED
    BY <1>5, <2>1, <2>2
<1>8. Covered'
  <2> SUFFICES ASSUME NEW c \in Content, local'.orig[c.f] = c.v, staging.orig[c.f] # c.v
               PROVE  c \in staging.alt \cup Safe
    BY <1>1, <1>6 DEF Covered
  <2>1. local.orig[c.f] = c.v
    BY <1>5, ContentMade
  <2> QED
    BY <1>1, <1>2, <2>1 DEF LossInv, Covered
<1>9. JournalSuperseded' /\ JournalPreserved'
  BY <1>1, <1>6 DEF LossInv, JournalSuperseded, JournalPreserved
<1>10. Staged' /\ Orderly' /\ Compared'
  BY <1>1, <1>2 DEF LossInv, Staged, Orderly, Compared
<1> QED
  BY <1>7, <1>8, <1>9, <1>10 DEF LossInv

(* The last run knows of nothing, so that it deletes nothing, and of two   *)
(* versions it sets the local one aside.                                   *)
LEMMA DownloadLoss ==
  ASSUME PlacesInv, LossInv, NEW files \in SUBSET File, Download(files)
  PROVE  LossInv'
<1>1. /\ phase = "download" /\ phase' \in {"verify", "error"} /\ closing' = closing
      /\ local' = Synchronized(local, localJournal, files)
      /\ remote' = AfterUpload(local, localJournal, files)
      /\ UNCHANGED <<staging, stagingJournal, clashed, edits, written, superseded, late, orphaned>>
  BY DEF Download, SyncLocal, Untouched, Ends
<1>2. ~closing /\ localJournal = Nothing
  BY <1>1 DEF LossInv, Orderly
<1>3. \A f \in File :
        Merged(local, localJournal, f) = IF local.orig[f] # None /\ remote.orig[f] = None
                                         THEN local.orig[f] ELSE remote.orig[f]
  BY <1>2 DEF Merged, Nothing
<1>4. /\ \A f \in File : remote'.orig[f] = IF f \in files THEN Merged(local, localJournal, f)
                                            ELSE remote.orig[f]
      /\ remote'.alt = local.alt \cup remote.alt
  BY <1>1 DEF AfterUpload
<1>5. /\ \A f \in File : local'.orig[f] = IF f \in files THEN Merged(local, localJournal, f)
                                           ELSE local.orig[f]
      /\ local'.alt = local.alt \cup remote.alt
      /\ local'.conf = local.conf \cup Aside(local, {f \in files : Clashes(local, localJournal, f)})
  BY <1>1 DEF Synchronized
<1>6. \A f \in File : remote.orig[f] # None => remote'.orig[f] = remote.orig[f]
  BY <1>3, <1>4
<1>7. ASSUME NEW c \in Content, local.orig[c.f] = c.v
      PROVE  local'.orig[c.f] = c.v \/ c \in local'.conf
  <2>1. c.f \in File /\ c.v # None
    BY ContentMade
  <2>2. CASE c.f \in files /\ remote.orig[c.f] \notin {None, c.v}
    <3>1. Clashes(local, localJournal, c.f)
      BY <1>2, <1>7, <2>1, <2>2 DEF Clashes, Nothing
    <3> QED
      BY <1>5, <1>7, <2>2, <3>1 DEF Aside
  <2>3. CASE ~(c.f \in files /\ remote.orig[c.f] \notin {None, c.v})
    BY <1>3, <1>5, <1>7, <2>1, <2>3
  <2> QED
    BY <2>2, <2>3
<1>8. Safe' = Safe /\ Known' = Known
  BY <1>1 DEF Safe, Known
<1>9. Held'
  <2> SUFFICES ASSUME NEW c \in written
               PROVE  /\ c \in Content /\ c.v \in Known
                      /\ \/ local'.orig[c.f] = c.v \/ remote'.orig[c.f] = c.v
                         \/ c \in local'.alt \cup local'.conf \cup remote'.alt \cup Safe
    BY <1>1, <1>8 DEF Held
  <2>1. /\ c \in Content /\ c.v \in Known /\ c.f \in File /\ c.v # None
        /\ \/ local.orig[c.f] = c.v \/ remote.orig[c.f] = c.v
           \/ c \in local.alt \cup local.conf \cup remote.alt \cup Safe
    BY ContentMade DEF LossInv, Held
  <2> QED
    BY <1>4, <1>5, <1>6, <1>7, <2>1
<1>10. JournalSuperseded'
  <2> SUFFICES ASSUME NEW c \in Content, stagingJournal[c.f] = c.v, remote'.orig[c.f] # c.v
               PROVE  c \in Safe
    BY <1>1, <1>8 DEF JournalSuperseded
  <2>1. remote.orig[c.f] # c.v
    BY <1>6, ContentMade
  <2> QED
    BY <2>1 DEF LossInv, JournalSuperseded
<1>11. JournalPreserved'
  BY <1>1, <1>8 DEF LossInv, JournalPreserved
<1>12. Staged' /\ Orderly' /\ Compared' /\ Covered'
  BY <1>1, <1>2 DEF Staged, Orderly, Compared, Covered
<1> QED
  BY <1>9, <1>10, <1>11, <1>12 DEF LossInv

(* The staging folder goes while the window closes.                        *)
LEMMA RemoveStagedLoss ==
  ASSUME LossInv, NEW f \in File, RemoveStaged(f)
  PROVE  LossInv'
<1>1. /\ closing /\ closing' = closing /\ phase = "upload_starting" /\ phase' = phase
      /\ UNCHANGED <<local, remote, localJournal, stagingJournal, clashed, edits, written,
                     superseded, late, orphaned>>
  BY DEF RemoveStaged, Untouched
<1>2. Safe' = Safe /\ Known' = Known
  BY <1>1 DEF Safe, Known
<1>3. Held' /\ JournalSuperseded'
  BY <1>1, <1>2 DEF LossInv, Held, JournalSuperseded
<1>4. JournalPreserved' /\ Staged' /\ Orderly' /\ Compared' /\ Covered'
  BY <1>1 DEF JournalPreserved, Staged, Orderly, Compared, Covered
<1> QED
  BY <1>3, <1>4 DEF LossInv

-----------------------------------------------------------------------------
(* A user's edit: the version it replaces is superseded, the one it makes  *)
(* is new.                                                                 *)
LEMMA EditFacts ==
  ASSUME PlacesInv, Held, NEW f \in File, NEW v \in Version, NEW p \in KnownPlace, Edited(p, f, v)
  PROVE  /\ edits' = edits + 1 /\ superseded \subseteq superseded' /\ written \subseteq written'
         /\ UNCHANGED <<staging, localJournal, stagingJournal, phase, snapshot, closing,
                        clashed, orphaned>>
         /\ \A c \in Content : c.f = f /\ p.orig[f] = c.v => c \in superseded'
         /\ \A c \in Content : c.f = f /\ c.v = v => c \in written' \ written
         /\ \A c \in written' \ written : c \in Content /\ c.f = f /\ c.v = v
         /\ \A c \in written' : c.v \in Known'
<1>1. /\ edits' = edits + 1 /\ v \in {None, edits + 4}
      /\ written' = written \cup {c \in Content : c = [f |-> f, v |-> v]}
      /\ superseded' = superseded \cup {c \in Content : c = [f |-> f, v |-> p.orig[f]]}
      /\ UNCHANGED <<staging, localJournal, stagingJournal, phase, snapshot, closing,
                     clashed, orphaned>>
  BY DEF Edited
<1>2. \A c \in Content : c.f = f /\ p.orig[f] = c.v => c \in superseded'
  BY <1>1, ContentMade
<1>3. \A c \in Content : c.v # 0 /\ c = [f |-> c.f, v |-> c.v]
  BY ContentMade
<1>4. edits \in Nat
  BY DEF PlacesInv
<1>5. \A c \in written : c.v \in 0 .. 3 + edits
  BY DEF Held, Known
<1>6. ASSUME NEW c \in Content, c.f = f, c.v = v
      PROVE  c \in written' \ written
  <2>1. c.v = edits + 4
    BY <1>1, <1>3, <1>6
  <2>2. c \notin written
    BY <1>4, <1>5, <2>1
  <2>3. c = [f |-> f, v |-> v]
    BY <1>3, <1>6
  <2> QED
    BY <1>1, <2>2, <2>3
<1>7. ASSUME NEW c \in written' \ written
      PROVE  c \in Content /\ c.f = f /\ c.v = v
  BY <1>1, <1>7
<1>8. \A c \in written' : c.v \in 0 .. 3 + (edits + 1)
  <2>1. v \in 0 .. 3 + (edits + 1)
    BY <1>1, <1>4
  <2> QED
    BY <1>4, <1>5, <1>7, <2>1
<1>9. \A c \in written' : c.v \in Known'
  BY <1>1, <1>8 DEF Known
<1> QED
  BY <1>1, <1>2, <1>6, <1>7, <1>9

(* What a user changes in the local folder while it is being replaced is   *)
(* late.                                                                   *)
LEMMA EditLocalLoss ==
  ASSUME PlacesInv, LossInv, NEW f \in File, NEW v \in Version, EditLocal(f, v)
  PROVE  LossInv'
<1>1. /\ Edited(local, f, v) /\ local' = [local EXCEPT !.orig[f] = v] /\ remote' = remote
      /\ late' = IF phase \in Applying THEN late \cup (written' \ written) ELSE late
  BY DEF EditLocal
<1>2. local \in KnownPlace /\ Held
  BY DEF PlacesInv, LossInv
<1>3. /\ edits' = edits + 1 /\ superseded \subseteq superseded' /\ written \subseteq written'
      /\ UNCHANGED <<staging, localJournal, stagingJournal, phase, snapshot, closing,
                     clashed, orphaned>>
      /\ \A c \in Content : c.f = f /\ local.orig[f] = c.v => c \in superseded'
      /\ \A c \in Content : c.f = f /\ c.v = v => c \in written' \ written
      /\ \A c \in written' \ written : c \in Content /\ c.f = f /\ c.v = v
      /\ \A c \in written' : c.v \in Known'
  BY <1>1, <1>2, EditFacts
<1>4. /\ local'.orig[f] = v /\ local'.alt = local.alt /\ local'.conf = local.conf
      /\ \A g \in File : g # f => local'.orig[g] = local.orig[g]
  <2>1. local' = [local EXCEPT !.orig = [local.orig EXCEPT ![f] = v]]
    BY <1>1
  <2>2. local' = [orig |-> [local.orig EXCEPT ![f] = v], alt |-> local.alt, conf |-> local.conf]
    BY <1>2, <2>1, OrigGiven
  <2>3. local.orig \in [File -> Known]
    BY <1>2, PlaceParts
  <2> QED
    BY <2>2, <2>3
<1>5. late \subseteq late' /\ Safe \subseteq Safe'
  BY <1>1, <1>3 DEF Safe
<1>6. \A c \in Content : local.orig[c.f] = c.v => local'.orig[c.f] = c.v \/ c \in superseded'
  BY <1>3, <1>4, ContentMade
<1>7. \A c \in Content : local'.orig[c.f] = c.v =>
        local.orig[c.f] = c.v \/ (phase \in Applying => c \in late')
  BY <1>1, <1>3, <1>4, ContentMade
<1>8. Held'
  <2> SUFFICES ASSUME NEW c \in written'
               PROVE  /\ c \in Content /\ c.v \in Known'
                      /\ \/ local'.orig[c.f] = c.v \/ remote.orig[c.f] = c.v
                         \/ c \in local'.alt \cup local'.conf \cup remote.alt \cup Safe'
    BY <1>1 DEF Held
  <2>1. CASE c \in written
    <3>1. /\ c \in Content
          /\ \/ local.orig[c.f] = c.v \/ remote.orig[c.f] = c.v
             \/ c \in local.alt \cup local.conf \cup remote.alt \cup Safe
      BY <1>2, <2>1 DEF Held
    <3>2. c \in superseded' => c \in Safe'
      BY DEF Safe
    <3> QED
      BY <1>3, <1>4, <1>5, <1>6, <3>1, <3>2
  <2>2. CASE c \notin written
    BY <1>3, <1>4, <2>2
  <2> QED
    BY <2>1, <2>2
<1>9. JournalSuperseded' /\ JournalPreserved'
  BY <1>1, <1>3, <1>5 DEF LossInv, JournalSuperseded, JournalPreserved
<1>10. Staged' /\ Orderly'
  BY <1>1, <1>3 DEF LossInv, Staged, Orderly
<1>11. Compared'
  <2> SUFFICES ASSUME phase = "merge", NEW c \in Content, local'.orig[c.f] = c.v,
                      snapshot[c.f] # c.v
               PROVE  c \in Safe'
    BY <1>3 DEF Compared
  <2>1. CASE local.orig[c.f] = c.v
    BY <1>5, <2>1 DEF LossInv, Compared
  <2>2. CASE local.orig[c.f] # c.v
    BY <1>7, <2>2 DEF Safe, Applying
  <2> QED
    BY <2>1, <2>2
<1>12. Covered'
  <2> SUFFICES ASSUME phase \in {"upload_starting", "upload", "archive", "apply"}, ~closing,
                      NEW c \in Content, local'.orig[c.f] = c.v, staging.orig[c.f] # c.v
               PROVE  c \in staging.alt \cup Safe'
    BY <1>3 DEF Covered
  <2>1. CASE local.orig[c.f] = c.v
    BY <1>5, <2>1 DEF LossInv, Covered
  <2>2. CASE local.orig[c.f] # c.v
    BY <1>7, <2>2 DEF Safe, Applying
  <2> QED
    BY <2>1, <2>2
<1> QED
  BY <1>8, <1>9, <1>10, <1>11, <1>12 DEF LossInv

(* What a user changes on the server is in no folder of the computer's.    *)
LEMMA EditRemoteLoss ==
  ASSUME PlacesInv, LossInv, NEW f \in File, NEW v \in Version, EditRemote(f, v)
  PROVE  LossInv'
<1>1. /\ Edited(remote, f, v) /\ remote' = [remote EXCEPT !.orig[f] = v] /\ local' = local
      /\ late' = late
  BY DEF EditRemote
<1>2. remote \in KnownPlace /\ Held
  BY DEF PlacesInv, LossInv
<1>3. /\ edits' = edits + 1 /\ superseded \subseteq superseded' /\ written \subseteq written'
      /\ UNCHANGED <<staging, localJournal, stagingJournal, phase, snapshot, closing,
                     clashed, orphaned>>
      /\ \A c \in Content : c.f = f /\ remote.orig[f] = c.v => c \in superseded'
      /\ \A c \in Content : c.f = f /\ c.v = v => c \in written' \ written
      /\ \A c \in written' \ written : c \in Content /\ c.f = f /\ c.v = v
      /\ \A c \in written' : c.v \in Known'
  BY <1>1, <1>2, EditFacts
<1>4. /\ remote'.orig[f] = v /\ remote'.alt = remote.alt
      /\ \A g \in File : g # f => remote'.orig[g] = remote.orig[g]
  <2>1. remote' = [remote EXCEPT !.orig = [remote.orig EXCEPT ![f] = v]]
    BY <1>1
  <2>2. remote' = [orig |-> [remote.orig EXCEPT ![f] = v], alt |-> remote.alt,
                   conf |-> remote.conf]
    BY <1>2, <2>1, OrigGiven
  <2>3. remote.orig \in [File -> Known]
    BY <1>2, PlaceParts
  <2> QED
    BY <2>2, <2>3
<1>5. Safe \subseteq Safe' /\ superseded' \subseteq Safe'
  BY <1>1, <1>3 DEF Safe
<1>6. \A c \in Content : remote.orig[c.f] = c.v => remote'.orig[c.f] = c.v \/ c \in Safe'
  BY <1>3, <1>4, <1>5, ContentMade
<1>7. Held'
  <2> SUFFICES ASSUME NEW c \in written'
               PROVE  /\ c \in Content /\ c.v \in Known'
                      /\ \/ local.orig[c.f] = c.v \/ remote'.orig[c.f] = c.v
                         \/ c \in local.alt \cup local.conf \cup remote'.alt \cup Safe'
    BY <1>1 DEF Held
  <2>1. CASE c \in written
    <3>1. /\ c \in Content
          /\ \/ local.orig[c.f] = c.v \/ remote.orig[c.f] = c.v
             \/ c \in local.alt \cup local.conf \cup remote.alt \cup Safe
      BY <1>2, <2>1 DEF Held
    <3> QED
      BY <1>3, <1>4, <1>5, <1>6, <3>1
  <2>2. CASE c \notin written
    BY <1>3, <1>4, <2>2
  <2> QED
    BY <2>1, <2>2
<1>8. JournalSuperseded'
  <2> SUFFICES ASSUME NEW c \in Content, stagingJournal[c.f] = c.v, remote'.orig[c.f] # c.v
               PROVE  c \in Safe'
    BY <1>3 DEF JournalSuperseded
  <2> QED
    BY <1>5, <1>6 DEF LossInv, JournalSuperseded
<1>9. JournalPreserved'
  BY <1>3, <1>5 DEF LossInv, JournalPreserved
<1>10. Staged' /\ Orderly'
  BY <1>3, <1>4 DEF LossInv, Staged, Orderly
<1>11. Compared' /\ Covered'
  BY <1>1, <1>3, <1>5 DEF LossInv, Compared, Covered
<1> QED
  BY <1>7, <1>8, <1>9, <1>10, <1>11 DEF LossInv

-----------------------------------------------------------------------------
(* Every step of the worker and the window loses nothing.                  *)
LEMMA WorkerLoss == ASSUME PlacesInv, LossInv, NextWorker PROVE LossInv'
<1>1. CASE RestartAnalysis \/ Reopen \/ Verified
  <2>1. /\ Removed /\ phase' \in {"idle", "done"} /\ phase # "upload_starting"
        /\ UNCHANGED <<local, remote, edits, written, superseded, late, clashed, orphaned>>
        /\ closing' = FALSE \/ (closing' = closing /\ phase \notin {"upload_starting", "closed"})
    BY <1>1 DEF RestartAnalysis, Reopen, Verified, Untouched
  <2>2. ~closing'
    BY <2>1 DEF LossInv, Orderly
  <2> QED
    BY <2>1, <2>2, RemovedLoss
<1>2. CASE \/ BeginAnalysis \/ Recheck \/ MergeFails \/ UploadStarts \/ Archive \/ Applied
           \/ Differs \/ (\E files \in SUBSET File : Execute(files)) \/ Close
  <2>1. closing => phase \in {"upload_starting", "closed"}
    BY DEF LossInv, Orderly
  <2>2. UNCHANGED <<local, remote, staging, stagingJournal, snapshot, edits, written,
                    superseded, late, clashed, orphaned>>
    BY <1>2 DEF BeginAnalysis, Recheck, MergeFails, UploadStarts, Archive, Applied, Differs,
                Execute, Close, Untouched
  <2>3. CASE Close
    <3>1. /\ closing' = TRUE /\ ~closing
          /\ phase' = IF phase = "upload_starting" THEN phase ELSE "closed"
      BY <2>3 DEF Close, Closes
    <3> QED
      BY <2>2, <3>1, MovesLoss
  <2>4. CASE Archive
    <3>1. ~closing /\ closing' = FALSE
      BY <2>1, <2>4 DEF Archive, Untouched
    <3> QED
      BY <2>2, <2>4, <3>1, MovesLoss DEF Archive
  <2>5. CASE ~Close /\ ~Archive
    <3>1. /\ closing' = closing /\ localJournal' = localJournal
          /\ \/ phase \notin {"upload_starting", "closed"} /\ phase' = "error"
             \/ phase = "idle" /\ phase' = "snapshot"
             \/ phase = "review" /\ phase' = "recheck"
             \/ phase = "recheck" /\ phase' = "merge" /\ local.orig = snapshot
             \/ phase = "upload_starting" /\ phase' = "upload" /\ ~closing
             \/ phase = "apply" /\ phase' = "download"
      BY <1>2, <2>5 DEF BeginAnalysis, Recheck, MergeFails, UploadStarts, Applied, Differs, Execute,
                  Untouched, FolderUnchanged
    <3>2. ~closing /\ closing' = FALSE
      BY <2>1, <3>1
    <3> QED
      BY <2>2, <3>1, <3>2, MovesLoss
  <2> QED
    BY <2>3, <2>4, <2>5
<1> QED
  BY <1>1, <1>2, SnapshotLoss, UploadLoss, OrphanLoss, DownloadLoss, MergeLoss, ApplyLoss,
     RemoveStagedLoss DEF NextWorker

(* Every step loses nothing.                                               *)
LEMMA LossNext == ASSUME PlacesInv, LossInv, [BootstrapNext]_bootstrapVars PROVE LossInv'
<1>1. CASE UNCHANGED bootstrapVars
  BY <1>1 DEF bootstrapVars, LossInv, Held, Staged, Orderly, JournalSuperseded, JournalPreserved,
              Compared, Covered, Safe, Known
<1> QED
  BY <1>1, WorkerLoss, EditLocalLoss, EditRemoteLoss DEF BootstrapNext

(* A version is lost only when it was made after the local folder was      *)
(* compared, met another change on the server during the upload, or was on *)
(* the server when the window was closed on an upload about to start.      *)
THEOREM LossIsNamed == BootstrapSpec => []LostOnlyBy
<1>1. LossInv => LostOnlyBy
  BY HeldBounds DEF LossInv
<1> QED
  BY <1>1, PlacesInit, PlacesNext, LossInit, LossNext, PTL DEF BootstrapSpec

-----------------------------------------------------------------------------
(* The types of the initialization.                                        *)

(* The parts of the type invariant that PlacesInv does not give.           *)
CountsTyped ==
  /\ phase \in Phase /\ attempts \in 0 .. MaxAttempts /\ edits \in 0 .. MaxEdits
  /\ closing \in BOOLEAN /\ complete = (phase = "done")

WorkTyped ==
  /\ localJournal \in Names /\ stagingJournal \in Names /\ snapshot \in Names
  /\ plan \subseteq File /\ applied \subseteq AllEntries
  /\ manifest.saved \in BOOLEAN /\ manifest.files \in Names

HistoryTyped ==
  /\ written \subseteq Content /\ superseded \subseteq Content /\ late \subseteq Content
  /\ clashed \subseteq Content /\ orphaned \subseteq Content

(* What is known is a version, as long as edits are bounded.               *)
LEMMA KnownVersions ==
  ASSUME PlacesInv, CountsTyped
  PROVE  /\ Known \subseteq Version /\ Nothing \in Names
         /\ \A p \in {local, remote, staging} :
              /\ p \in KnownPlace /\ p.orig \in [File -> Known] /\ p.orig \in Names
              /\ p.alt \subseteq Content /\ p.conf \subseteq Content
<1>1. edits \in Nat /\ MaxEdits \in Nat /\ edits <= MaxEdits
  BY EditsAssumption DEF CountsTyped
<1>2. Known \subseteq Version
  BY <1>1 DEF Known, Version
<1>3. Nothing \in Names
  BY <1>1 DEF Nothing, Names, Version
<1>4. \A q \in [File -> Known] : q \in Names
  BY <1>2 DEF Names
<1> QED
  BY <1>2, <1>3, <1>4, PlaceParts DEF PlacesInv

(* The phases go on, and analyses and edits are counted.                   *)
LEMMA CountsKept ==
  ASSUME CountsTyped, [BootstrapNext]_bootstrapVars PROVE CountsTyped'
<1>1. CASE BeginAnalysis
  <2>1. attempts' \in 0 .. MaxAttempts
    BY <1>1, EditsAssumption DEF CountsTyped, BeginAnalysis
  <2> QED
    BY <1>1, <2>1 DEF CountsTyped, BeginAnalysis, Phase
<1>2. CASE \E f \in File, v \in Version : EditLocal(f, v) \/ EditRemote(f, v)
  <2>1. edits < MaxEdits /\ edits' = edits + 1
          /\ UNCHANGED <<phase, attempts, closing, complete>>
    BY <1>2 DEF EditLocal, EditRemote, Edited
  <2>2. edits' \in 0 .. MaxEdits
    BY <2>1, EditsAssumption DEF CountsTyped
  <2> QED
    BY <2>1, <2>2 DEF CountsTyped
<1>3. CASE Verified \/ UNCHANGED bootstrapVars
  BY <1>3 DEF CountsTyped, Phase, Verified, bootstrapVars
<1>4. CASE Close \/ Reopen
  BY <1>4 DEF CountsTyped, Phase, Close, Closes, Reopen
<1>5. CASE \/ Recheck \/ Merge \/ MergeFails \/ UploadStarts \/ Archive
           \/ Applied \/ Differs \/ RestartAnalysis \/ \E f \in File : RemoveStaged(f)
  BY <1>5 DEF CountsTyped, Phase, Recheck, Merge, MergeFails, UploadStarts, Archive, Applied,
              Differs, RestartAnalysis, RemoveStaged, Untouched
<1>6. CASE \E e \in File \cup {"alt", "conf"} : ApplyOne(e)
  <2>1. phase' = phase /\ Untouched
    BY <1>6 DEF ApplyOne
  <2> QED
    BY <2>1 DEF CountsTyped, Untouched
<1>7. CASE \E files \in SUBSET File :
             \/ Snapshot(files) \/ Upload(files) \/ Download(files) \/ OrphanRuns(files)
             \/ files \subseteq Conflicts /\ Execute(files)
  <2>1. /\ phase # "done"
        /\ phase' \in {"review", "archive", "verify", "error", "closed", "recheck"}
        /\ UNCHANGED <<attempts, closing, complete, edits>>
    BY <1>7 DEF Snapshot, Upload, Download, OrphanRuns, Execute, Ends, Untouched
  <2> QED
    BY <2>1 DEF CountsTyped, Phase
<1> QED
  BY <1>1, <1>2, <1>3, <1>4, <1>5, <1>6, <1>7 DEF BootstrapNext, NextWorker

(* A run writes a journal of versions.                                     *)
LEMMA JournalTyped ==
  ASSUME PlacesInv, CountsTyped, NEW p \in {local, staging}, NEW j \in Names,
         NEW files \in SUBSET File
  PROVE  /\ Journal(p, j, files) \in Names /\ Synchronized(p, j, files).conf \subseteq Content
<1>1. \A f \in File : Merged(p, j, f) \in Version
  BY KnownVersions DEF Merged
<1>2. Journal(p, j, files) \in Names
  BY <1>1 DEF Journal, Names
<1>3. Synchronized(p, j, files).conf \subseteq Content
  BY KnownVersions DEF Synchronized, Aside
<1> QED
  BY <1>2, <1>3

(* What is worked on has its type.                                         *)
LEMMA WorkKept ==
  ASSUME PlacesInv, CountsTyped, WorkTyped, [BootstrapNext]_bootstrapVars PROVE WorkTyped'
<1>1. /\ local.orig \in Names /\ Nothing \in Names
      /\ \A files \in SUBSET File : /\ Journal(staging, stagingJournal, files) \in Names
                                    /\ Journal(local, localJournal, files) \in Names
  BY KnownVersions, JournalTyped DEF WorkTyped
<1>2. CASE \/ BeginAnalysis \/ Recheck \/ MergeFails \/ UploadStarts \/ Differs \/ Close
           \/ (\E f \in File : RemoveStaged(f)) \/ UNCHANGED bootstrapVars
           \/ \E f \in File, v \in Version : EditLocal(f, v) \/ EditRemote(f, v)
  <2>1. UNCHANGED <<localJournal, stagingJournal, snapshot, plan, applied, manifest>>
    BY <1>2 DEF BeginAnalysis, Recheck, MergeFails, UploadStarts, Differs, Close, RemoveStaged,
                EditLocal, EditRemote, Edited, Untouched, bootstrapVars
  <2> QED
    BY <2>1 DEF WorkTyped
<1>3. CASE \/ Merge \/ Archive \/ Applied \/ RestartAnalysis \/ Reopen
  <2>1. /\ localJournal' \in {localJournal, Nothing}
        /\ stagingJournal' \in {stagingJournal, Nothing}
        /\ snapshot' \in {snapshot, Nothing} /\ plan' \in {plan, {}} /\ applied' \in {applied, {}}
        /\ manifest' = manifest
    BY <1>3 DEF Merge, Archive, Applied, RestartAnalysis, Reopen, Removed, Untouched
  <2> QED
    BY <1>1, <2>1 DEF WorkTyped
<1>4. CASE Verified
  <2>1. /\ localJournal' = localJournal /\ stagingJournal' = Nothing
        /\ snapshot' = Nothing /\ plan' = {} /\ applied' = {}
        /\ manifest' = [saved |-> TRUE, files |-> local.orig]
    BY <1>4 DEF Verified, Removed
  <2> QED
    BY <1>1, <2>1 DEF WorkTyped
<1>5. CASE \E e \in File \cup {"alt", "conf"} : ApplyOne(e)
  <2>1. /\ UNCHANGED <<localJournal, stagingJournal, snapshot, plan, manifest>>
        /\ \E e \in AllEntries : applied' = applied \cup {e}
    BY <1>5 DEF ApplyOne, Untouched, AllEntries
  <2> QED
    BY <2>1 DEF WorkTyped
<1>6. ASSUME NEW files \in SUBSET File,
             \/ Snapshot(files) \/ Upload(files) \/ Download(files) \/ OrphanRuns(files)
             \/ Execute(files)
      PROVE  WorkTyped'
  <2>1. /\ localJournal' \in {localJournal, Journal(local, localJournal, files)}
        /\ stagingJournal' \in {stagingJournal, Journal(staging, stagingJournal, files)}
        /\ snapshot' \in {snapshot, local.orig} /\ plan' \in {plan, files}
        /\ UNCHANGED <<applied, manifest>>
    BY <1>6 DEF Snapshot, Upload, Download, OrphanRuns, Execute, SyncStaging, SyncLocal, Untouched
  <2> QED
    BY <1>1, <2>1 DEF WorkTyped
<1> QED
  BY <1>2, <1>3, <1>4, <1>5, <1>6 DEF BootstrapNext, NextWorker

(* What is remembered is of files and their versions.                      *)
LEMMA HistoryKept ==
  ASSUME PlacesInv, CountsTyped, WorkTyped, HistoryTyped, [BootstrapNext]_bootstrapVars
  PROVE  HistoryTyped'
<1>1. CASE \E f \in File, v \in Version : EditLocal(f, v) \/ EditRemote(f, v)
  <2>1. written' \subseteq Content /\ superseded' \subseteq Content
          /\ UNCHANGED <<clashed, orphaned>>
    BY <1>1 DEF EditLocal, EditRemote, Edited, HistoryTyped
  <2>2. late' \subseteq Content
    BY <1>1, <2>1 DEF EditLocal, EditRemote, HistoryTyped
  <2> QED
    BY <2>1, <2>2 DEF HistoryTyped
<1>2. CASE NextWorker
  <2>1. UNCHANGED <<written, superseded, late>>
    BY <1>2
    DEF NextWorker, BeginAnalysis, Recheck, Merge, MergeFails, UploadStarts, Archive, Applied,
        Verified, Differs, RestartAnalysis, Reopen, Snapshot, Upload, Download, OrphanRuns,
        Execute, ApplyOne, Close, RemoveStaged, Untouched
  <2>2. Contents(remote) \subseteq Content
    BY KnownVersions DEF Contents
  <2>3. \A files \in SUBSET File :
          Synchronized(staging, stagingJournal, files).conf \subseteq Content
    BY JournalTyped DEF WorkTyped
  <2>4. /\ clashed' = clashed \/ \E files \in SUBSET File : SyncStaging(files)
        /\ orphaned' = orphaned \/ orphaned' = orphaned \cup Contents(remote)
    BY <1>2
    DEF NextWorker, BeginAnalysis, Recheck, Merge, MergeFails, UploadStarts, Archive, Applied,
        Verified, Differs, RestartAnalysis, Reopen, Snapshot, Upload, Download, OrphanRuns,
        Execute, ApplyOne, Close, RemoveStaged, Untouched, SyncLocal
  <2>5. clashed' \subseteq Content
    BY <2>3, <2>4 DEF SyncStaging, HistoryTyped
  <2> QED
    BY <2>1, <2>2, <2>4, <2>5 DEF HistoryTyped
<1>3. CASE UNCHANGED bootstrapVars
  BY <1>3 DEF bootstrapVars, HistoryTyped
<1> QED
  BY <1>1, <1>2, <1>3 DEF BootstrapNext

(* Every variable of the initialization keeps its type, for any files and  *)
(* any number of edits and analyses.                                       *)
THEOREM BootstrapTypeCorrect == BootstrapSpec => []BootstrapTypeOK
<1>1. BootstrapInit => CountsTyped /\ WorkTyped /\ HistoryTyped
  <2> SUFFICES ASSUME BootstrapInit PROVE CountsTyped /\ WorkTyped /\ HistoryTyped
    OBVIOUS
  <2>1. CountsTyped
    <3>1. 0 \in 0 .. MaxAttempts /\ 0 \in 0 .. MaxEdits
      BY EditsAssumption
    <3> QED
      BY <3>1 DEF BootstrapInit, CountsTyped, Phase
  <2>2. local.orig \in Names /\ Nothing \in Names
    BY <2>1, PlacesInit, KnownVersions
  <2>3. WorkTyped
    BY <2>2 DEF BootstrapInit, WorkTyped
  <2>4. Contents(local) \subseteq Content /\ Contents(remote) \subseteq Content
    BY <2>1, PlacesInit, KnownVersions DEF Contents
  <2>5. HistoryTyped
    BY <2>4 DEF BootstrapInit, HistoryTyped
  <2> QED
    BY <2>1, <2>3, <2>5
<1>2. PlacesInv /\ CountsTyped /\ WorkTyped /\ HistoryTyped => BootstrapTypeOK
  <2> SUFFICES ASSUME PlacesInv, CountsTyped, WorkTyped, HistoryTyped PROVE BootstrapTypeOK
    OBVIOUS
  <2>1. \A p \in {local, remote, staging} :
          p.orig \in Names /\ p.alt \subseteq Content /\ p.conf \subseteq Content
    BY KnownVersions
  <2> QED
    BY <2>1 DEF CountsTyped, WorkTyped, HistoryTyped, BootstrapTypeOK, AllEntries
<1> QED
  BY <1>1, <1>2, PlacesInit, PlacesNext, CountsKept, WorkKept, HistoryKept, PTL DEF BootstrapSpec

-----------------------------------------------------------------------------
(* What the run composes: a step of it is one of one part, so that the      *)
(* parts keep their types.                                                 *)
THEOREM PartsKeepTypes == AllSpec => []PartsTyped
<1>1. AllInit => Init /\ BootstrapInit
  BY DEF AllInit
<1>2. [AllNext]_allVars => [Next]_vars /\ [BootstrapNext]_bootstrapVars
  BY DEF AllNext, allVars
<1>3. AllSpec => Spec /\ BootstrapSpec
  BY <1>1, <1>2, PTL DEF AllSpec, Spec, BootstrapSpec
<1>4. TypeOK /\ BootstrapTypeOK => PartsTyped
  BY DEF PartsTyped
<1> QED
  BY <1>3, <1>4, LifecycleTypeCorrect, BootstrapTypeCorrect, PTL
=============================================================================
