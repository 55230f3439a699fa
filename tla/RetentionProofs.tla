-------------------------- MODULE RetentionProofs --------------------------
(* Proofs about Retention, for any recordings, requests and bounds.        *)
EXTENDS Retention, FiniteSetTheorems, TLAPS

USE DEF footage, clock, device

\* A pass that has nothing to do has the type of a pass.
LEMMA IdleFits == Idle \in Passes
  BY RetentionAssumption DEF Idle, Passes, Phases

\* So has one that leaves a recording out.
LEMMA SkippedFits ==
  ASSUME pass \in Passes, NEW r \in Recordings
  PROVE  Skipped(r) \in Passes
  BY DEF Skipped, Passes

\* And one at the beginning of any phase.
LEMMA IdleAtFits ==
  ASSUME NEW p \in Phases
  PROVE  [Idle EXCEPT !.phase = p] \in Passes
  BY IdleFits DEF Passes

\* The types hold, and lockCamera has one holder.
THEOREM Typing == Spec => []TypeOK
<1>1. Init => TypeOK
  <2> SUFFICES ASSUME Init PROVE TypeOK
    OBVIOUS
  <2>1. Cardinality(Recordings) = Count /\ Cardinality({}) = 0
    BY RetentionAssumption, FS_Interval, FS_EmptySet DEF Recordings
  <2>2. last \in 0 .. Count /\ files \subseteq Recordings
    BY <2>1, RetentionAssumption DEF Init
  <2> QED BY <2>2, RetentionAssumption DEF Init, TypeOK, Passes, Phases, Steps, Held, Idle, New, Recordings
<1>2. TypeOK /\ [Next]_vars => TypeOK'
  <2> SUFFICES ASSUME TypeOK, [Next]_vars PROVE TypeOK'
    OBVIOUS
  <2> USE RetentionAssumption DEF TypeOK
  <2>1. CASE Recorder
    <3>1. CASE Publish
      BY <3>1 DEF Publish, Recordings
    <3>2. CASE InsertRow
      BY <3>2 DEF InsertRow
    <3>3. CASE InsertFails
      BY <3>3 DEF InsertFails, Fault
    <3> QED BY <2>1, <3>1, <3>2, <3>3 DEF Recorder
  <2>2. CASE Age \/ Expire
    BY <2>2 DEF Age, Expire
  <2>3. CASE \E r \in Recordings : SetLocked(r)
    BY <2>3 DEF SetLocked
  <2>4. CASE CleanerStep
    <3>1. CASE BeginPass
      <4>1. ListExpiredRecordings \in SUBSET Recordings
        BY DEF ListExpiredRecordings
      <4>2. pass' \in Passes
        BY <3>1, <4>1, IdleFits DEF BeginPass, Passes, Phases
      <4> QED BY <3>1, <4>2 DEF BeginPass
    <3>2. ASSUME NEW r \in Recordings, UnlinkFile(r) PROVE TypeOK'
      <4>1. pass' \in Passes
        BY <3>2 DEF UnlinkFile, Passes
      <4> QED BY <3>2, <4>1 DEF UnlinkFile
    <3>3. ASSUME NEW r \in Recordings, UnlinkFails(r) PROVE TypeOK'
      BY <3>3, SkippedFits DEF UnlinkFails
    <3>4. ASSUME NEW r \in Recordings, DeleteRow(r) PROVE TypeOK'
      <4>1. (pass.phase = "disk") \in BOOLEAN
        OBVIOUS
      <4>2. pass' \in Passes
        BY <3>4, <4>1 DEF DeleteRow, Passes
      <4> QED BY <3>4, <4>2 DEF DeleteRow, WithoutRow
    <3>5. CASE ListArchive \/ CountRecordings \/ CheckDisk
      <4>1. ListExpiredArchivedRecordings \in SUBSET Recordings
        BY DEF ListExpiredArchivedRecordings
      <4>2. ASSUME ListArchive PROVE pass' \in Passes
        BY <4>1, <4>2, IdleFits DEF ListArchive, Passes, Phases
      <4>3. ASSUME CountRecordings PROVE pass' \in Passes
        <5>1. pass' = [Idle EXCEPT !.phase = "dir"] \/ pass' = [Idle EXCEPT !.phase = "check"]
          BY <4>3 DEF CountRecordings
        <5>2. "dir" \in Phases /\ "check" \in Phases
          BY DEF Phases
        <5> QED BY <5>1, <5>2, IdleAtFits
      <4>4. ASSUME CheckDisk PROVE pass' \in Passes
        <5>1. Batch \in 0 .. MaxCandidates
          OBVIOUS
        <5>2. \/ pass' = [Idle EXCEPT !.phase = "list", !.limit = Batch]
              \/ pass' = [Idle EXCEPT !.phase = "names"]
          BY <4>4 DEF CheckDisk
        <5>3. "list" \in Phases /\ "names" \in Phases
          BY DEF Phases
        <5>4. [Idle EXCEPT !.phase = "list", !.limit = Batch] \in Passes
          BY <5>1, <5>3, IdleFits DEF Passes
        <5> QED BY <5>2, <5>3, <5>4, IdleAtFits
      <4>5. pass' \in Passes
        BY <3>5, <4>2, <4>3, <4>4
      <4> QED BY <3>5, <4>5 DEF ListArchive, CountRecordings, CheckDisk
    <3>6. CASE RemoveDir \/ RemoveCamera
      <4>1. pass' \in Passes
        BY <3>6 DEF RemoveDir, RemoveCamera, Passes, Phases
      <4> QED BY <3>6, <4>1 DEF RemoveDir, RemoveCamera
    <3>7. CASE ListOldest
      <4> DEFINE found == ListOldestRecordings(pass.limit)
      <4>1. found \in SUBSET Recordings
        BY DEF ListOldestRecordings, Unarchived
      <4>2. (Cardinality(found) = pass.limit) \in BOOLEAN
        OBVIOUS
      <4>3. pass' = IF found = {} THEN [Idle EXCEPT !.phase = "names"]
                    ELSE [pass EXCEPT !.phase = "disk", !.todo = found \ pass.failed,
                                      !.deleted = FALSE,
                                      !.full = Cardinality(found) = pass.limit]
        BY <3>7 DEF ListOldest
      <4> HIDE DEF found
      <4>4. pass' \in Passes
        BY <4>1, <4>2, <4>3, IdleFits DEF Passes, Phases
      <4> QED BY <3>7, <4>4 DEF ListOldest
    <3>8. CASE EndBatch \/ RecheckDisk
      <4>1. ASSUME EndBatch PROVE pass' \in Passes
        <5> DEFINE more == IF pass.limit + Batch > MaxCandidates THEN MaxCandidates
                           ELSE pass.limit + Batch
        <5>1. more \in 0 .. MaxCandidates
          BY DEF Passes
        <5>2. pass' = IF ~pass.full \/ pass.limit >= MaxCandidates
                      THEN [Idle EXCEPT !.phase = "names"]
                      ELSE [pass EXCEPT !.phase = "list", !.limit = more]
          BY <4>1 DEF EndBatch
        <5> HIDE DEF more
        <5> QED BY <5>1, <5>2, IdleFits DEF Passes, Phases
      <4>2. ASSUME RecheckDisk PROVE pass' \in Passes
        BY <4>2, IdleFits DEF RecheckDisk, Passes, Phases
      <4>3. pass' \in Passes
        BY <3>8, <4>1, <4>2
      <4> QED BY <3>8, <4>3 DEF EndBatch, RecheckDisk
    <3>9. CASE ListNames \/ ListEntries \/ EndPass
      <4>1. ASSUME ListNames PROVE pass' \in Passes
        <5>1. rows \in SUBSET Recordings
          OBVIOUS
        <5> QED BY <4>1, <5>1, IdleFits DEF ListNames, Passes, Phases
      <4>2. ASSUME ListEntries PROVE pass' \in Passes
        BY <4>2 DEF ListEntries, Passes, Phases
      <4>3. pass' \in Passes
        BY <3>9, <4>1, <4>2, IdleFits DEF EndPass
      <4> QED BY <3>9, <4>3 DEF ListNames, ListEntries, EndPass
    <3>10. ASSUME NEW r \in Recordings, SweepEntry(r) PROVE TypeOK'
      <4>1. pass' \in Passes
        BY <3>10 DEF SweepEntry, Passes
      <4> QED BY <3>10, <4>1 DEF SweepEntry
    <3> QED BY <2>4, <3>1, <3>2, <3>3, <3>4, <3>5, <3>6, <3>7, <3>8, <3>9, <3>10 DEF CleanerStep
  <2>5. CASE \E r \in Recordings : DeleteRowFails(r)
    BY <2>5, SkippedFits DEF DeleteRowFails, Fault
  <2>6. ASSUME NEW c \in Clients, Request(c) PROVE TypeOK'
    <3> USE DEF Steps, Held, Goto, Finish, Done, New
    <3>1. CASE \E step \in {"archive", "restore", "erase"} : Ask(c, step)
      BY <3>1 DEF Ask
    <3>2. CASE LockToArchive(c) \/ StopToArchive(c) \/ ArchiveCamera(c)
      <4>1. CASE LockToArchive(c)
        BY <4>1 DEF LockToArchive
      <4>2. CASE StopToArchive(c)
        BY <4>2 DEF StopToArchive
      <4>3. CASE ArchiveCamera(c)
        BY <4>3 DEF ArchiveCamera
      <4> QED BY <3>2, <4>1, <4>2, <4>3
    <3>3. CASE ArchiveAllRecordings(c)
      BY <3>3 DEF ArchiveAllRecordings, Unlocked
    <3>4. CASE LockToRestore(c) \/ UnarchiveCamera(c)
      BY <3>4 DEF LockToRestore, UnarchiveCamera
    <3>5. CASE UnarchiveAllRecordings(c) \/ UnarchiveFails(c)
      BY <3>5 DEF UnarchiveAllRecordings, UnarchiveFails, Fault
    <3>6. CASE StartRestored(c)
      BY <3>6 DEF StartRestored, Unlocked
    <3>7. CASE StopToErase(c) \/ EraseRows(c) \/ EraseCamera(c) \/ EraseDir(c)
      <4>1. CASE StopToErase(c)
        BY <4>1 DEF StopToErase
      <4>2. CASE EraseRows(c)
        BY <4>2 DEF EraseRows
      <4>3. CASE EraseCamera(c)
        BY <4>3 DEF EraseCamera
      <4>4. CASE EraseDir(c)
        BY <4>4 DEF EraseDir
      <4> QED BY <3>7, <4>1, <4>2, <4>3, <4>4
    <3>8. CASE \E r \in Recordings : AskDrop(c, r)
      BY <3>8 DEF AskDrop
    <3>9. CASE DropFile(c) \/ DropCount(c) \/ DropCamera(c) \/ DropDir(c)
      BY <3>9 DEF DropFile, DropCount, DropCamera, DropDir
    <3>10. CASE DropRow(c) \/ DropRowFails(c)
      BY <3>10 DEF DropRow, DropRowFails, WithoutRow, Fault
    <3> QED BY <2>6, <3>1, <3>2, <3>3, <3>4, <3>5, <3>6, <3>7, <3>8, <3>9, <3>10 DEF Request
  <2>7. CASE Restart
    BY <2>7, IdleFits DEF Restart, New, Done, Steps, Held
  <2>8. CASE UNCHANGED vars
    BY <2>8 DEF vars
  <2> QED BY <2>1, <2>2, <2>3, <2>4, <2>5, <2>6, <2>7, <2>8 DEF Next
<1> QED BY <1>1, <1>2, PTL DEF Spec

-----------------------------------------------------------------------------
\* While the orphan pass looks at a directory, every row of an old recording is
\* among the names it read, and the recording being saved is still young.
SweepInv ==
  /\ saving # None => aged < saving
  /\ pass.phase \in {"entries", "sweep"} =>
       \A r \in rows : r <= aged => r \in pass.names

\* Every step keeps it.
LEMMA SweepInvStep == TypeOK /\ SweepInv /\ [Next]_vars => SweepInv'
<1> SUFFICES ASSUME TypeOK, SweepInv, [Next]_vars PROVE SweepInv'
  OBVIOUS
<1> USE RetentionAssumption DEF SweepInv
<1>0. pass \in Passes /\ last \in Nat /\ aged \in Nat /\ aged <= last /\ rows \subseteq Nat
  BY DEF TypeOK, Recordings
<1>1. CASE Recorder
  <2>1. CASE Publish
    BY <2>1, <1>0 DEF Publish
  <2>2. CASE InsertRow
    BY <2>2, <1>0 DEF InsertRow, TypeOK, Recordings
  <2>3. CASE InsertFails
    BY <2>3 DEF InsertFails
  <2> QED BY <1>1, <2>1, <2>2, <2>3 DEF Recorder
<1>2. CASE Age
  <2>1. saving # None => saving = last \/ saving \in Nat
    BY DEF TypeOK, Recordings
  <2> QED BY <1>2, <2>1, <1>0 DEF Age
<1>3. CASE Expire \/ \E r \in Recordings : SetLocked(r)
  BY <1>3 DEF Expire, SetLocked
<1>4. CASE CleanerStep
  <2>1. /\ rows' \subseteq rows /\ UNCHANGED <<aged, saving>>
        /\ \/ pass'.phase \notin {"entries", "sweep"}
           \/ pass.phase = "names" /\ pass'.names = rows
           \/ pass.phase \in {"entries", "sweep"} /\ pass'.names = pass.names
    <3> USE <1>0 DEF Passes, Idle, footage, clock
    <3>1. CASE BeginPass
      BY <3>1 DEF BeginPass
    <3>2. CASE ListArchive
      BY <3>2 DEF ListArchive
    <3>3. CASE CountRecordings
      BY <3>3 DEF CountRecordings
    <3>4. CASE \E r \in Recordings : UnlinkFile(r) \/ UnlinkFails(r)
      <4>1. CASE \E r \in Recordings : UnlinkFile(r)
        BY <4>1 DEF UnlinkFile, Deleting
      <4>2. CASE \E r \in Recordings : UnlinkFails(r)
        BY <4>2 DEF UnlinkFails, Skipped, Deleting
      <4> QED BY <3>4, <4>1, <4>2
    <3>5. CASE \E r \in Recordings : DeleteRow(r)
      BY <3>5 DEF DeleteRow, WithoutRow
    <3>6. CASE RemoveDir \/ RemoveCamera
      BY <3>6 DEF RemoveDir, RemoveCamera
    <3>7. CASE CheckDisk
      BY <3>7 DEF CheckDisk
    <3>8. CASE ListOldest
      BY <3>8 DEF ListOldest
    <3>9. CASE EndBatch
      BY <3>9 DEF EndBatch
    <3>10. CASE RecheckDisk
      BY <3>10 DEF RecheckDisk
    <3>11. CASE ListNames
      BY <3>11 DEF ListNames
    <3>12. CASE ListEntries
      BY <3>12 DEF ListEntries
    <3>13. CASE EndPass
      BY <3>13 DEF EndPass
    <3>14. CASE \E r \in Recordings : SweepEntry(r)
      BY <3>14 DEF SweepEntry
    <3> QED
      BY <1>4, <3>1, <3>2, <3>3, <3>4, <3>5, <3>6, <3>7, <3>8, <3>9, <3>10, <3>11, <3>12,
         <3>13, <3>14 DEF CleanerStep
  <2> QED BY <2>1
<1>5. CASE \E r \in Recordings : DeleteRowFails(r)
  BY <1>5, <1>0 DEF DeleteRowFails, Skipped, Passes, Deleting
<1>6. ASSUME NEW c \in Clients, Request(c) PROVE SweepInv'
  <2>1. pass' = pass /\ saving' = saving /\ aged' = aged /\ rows' \subseteq rows
    <3>1. CASE \E step \in {"archive", "restore", "erase"} : Ask(c, step)
      BY <3>1 DEF Ask
    <3>2. CASE LockToArchive(c) \/ StopToArchive(c) \/ ArchiveCamera(c) \/ ArchiveAllRecordings(c)
      BY <3>2 DEF LockToArchive, StopToArchive, ArchiveCamera, ArchiveAllRecordings
    <3>3. CASE LockToRestore(c) \/ UnarchiveCamera(c) \/ UnarchiveAllRecordings(c)
               \/ UnarchiveFails(c) \/ StartRestored(c)
      BY <3>3 DEF LockToRestore, UnarchiveCamera, UnarchiveAllRecordings, UnarchiveFails, StartRestored
    <3>4. CASE StopToErase(c) \/ EraseRows(c) \/ EraseCamera(c) \/ EraseDir(c)
      BY <3>4 DEF StopToErase, EraseRows, EraseCamera, EraseDir
    <3>5. CASE \E r \in Recordings : AskDrop(c, r)
      BY <3>5 DEF AskDrop
    <3>6. CASE DropFile(c) \/ DropRow(c) \/ DropRowFails(c)
      BY <3>6 DEF DropFile, DropRow, DropRowFails, WithoutRow
    <3>7. CASE DropCount(c) \/ DropCamera(c) \/ DropDir(c)
      BY <3>7 DEF DropCount, DropCamera, DropDir
    <3> QED BY <1>6, <3>1, <3>2, <3>3, <3>4, <3>5, <3>6, <3>7 DEF Request
  <2> QED BY <2>1
<1>7. CASE Restart
  BY <1>7 DEF Restart, Idle
<1>8. CASE UNCHANGED vars
  BY <1>8 DEF vars
<1> QED BY <1>1, <1>2, <1>3, <1>4, <1>5, <1>6, <1>7, <1>8 DEF Next

\* The orphan pass removes no listed file, and none that is about to be listed.
THEOREM OrphanPassIsSafe == Spec => OrphansHaveNoRow
<1>1. Init => SweepInv
  BY DEF Init, SweepInv, Idle
<1>2. ASSUME TypeOK, SweepInv, [Next]_vars
      PROVE  [\A r \in Recordings :
                SweepEntry(r) /\ r \in files \ files' => r \notin rows /\ saving # r]_vars
  <2> SUFFICES ASSUME NEW r \in Recordings, SweepEntry(r), r \in files \ files'
               PROVE  r \notin rows /\ saving # r
    OBVIOUS
  <2>1. r <= aged /\ r \notin pass.names /\ pass.phase = "sweep"
    BY DEF SweepEntry, IsOrphan
  <2>2. r \in Nat /\ aged \in Nat
    BY <1>2, RetentionAssumption DEF TypeOK, Recordings
  <2>3. None \notin Recordings
    BY RetentionAssumption
  <2> QED BY <1>2, <2>1, <2>2, <2>3 DEF SweepInv
<1> QED BY <1>1, <1>2, Typing, SweepInvStep, PTL DEF Spec, OrphansHaveNoRow

-----------------------------------------------------------------------------
(* An archive stays whole *)

\* Whoever archives a camera the manager does not know does so without lockCamera.
NoneUnmanaged == \A c \in Clients : LockToArchive(c) => running

\* A request that archives or restores has the lock up to its last query, and
\* nothing is recorded for an archived camera.
ArchiveInv ==
  /\ running => camera # "archived"
  /\ ~running => saving = None
  /\ \A c \in Clients :
       /\ req[c].step \in {"archive-camera", "archive-rows"} => camLock = c /\ ~running
       /\ req[c].step = "archive-rows" => camera # "active"
       /\ req[c].step \in {"restore-rows", "start"} => camera # "archived"

WholeInv == TypeOK /\ ArchiveInv /\ ArchiveIsWhole

-----------------------------------------------------------------------------
\* The recorder, the clock and the locks of users.
LEMMA RecorderKeepsWhole ==
  ASSUME WholeInv, Recorder \/ Age \/ Expire \/ \E r \in Recordings : SetLocked(r)
  PROVE  ArchiveInv' /\ ArchiveIsWhole'
<1> USE RetentionAssumption DEF WholeInv
<1>1. /\ UNCHANGED <<camera, running, camLock, req, crashes, archived>>
      /\ faults' >= faults /\ faults \in Nat /\ faults' \in Nat
      /\ saving' # None => saving = saving' \/ running
      /\ rows' # rows => saving # None
  BY DEF Recorder, Publish, InsertRow, InsertFails, Fault, Age, Expire, SetLocked, TypeOK
<1>2. ArchiveInv'
  BY <1>1 DEF ArchiveInv
<1>3. ArchiveIsWhole'
  BY <1>1 DEF ArchiveInv, ArchiveIsWhole, HalfWay
<1> QED
  BY <1>2, <1>3

\* Deletions take a recording out of the archive and of the table at once.
LEMMA CleanerKeepsWhole ==
  ASSUME WholeInv, CleanerStep \/ \E r \in Recordings : DeleteRowFails(r)
  PROVE  ArchiveInv' /\ ArchiveIsWhole'
<1> USE RetentionAssumption DEF WholeInv
<1>0. faults \in Nat
  BY DEF TypeOK
<1>1. /\ UNCHANGED <<running, camLock, saving, req, crashes>>
      /\ faults' = faults \/ faults' = faults + 1
      /\ camera' = camera \/ camera' = "gone"
      /\ (rows' = rows /\ archived' = archived) \/ \E r \in Recordings : WithoutRow(r)
  <2>1. CASE \E r \in Recordings : DeleteRow(r)
    BY <2>1 DEF DeleteRow
  <2>2. CASE \E r \in Recordings : DeleteRowFails(r)
    BY <2>2 DEF DeleteRowFails, Fault
  <2>3. CASE RemoveDir \/ RemoveCamera
    BY <2>3 DEF RemoveDir, RemoveCamera
  <2>4. CASE \E r \in Recordings : UnlinkFile(r) \/ UnlinkFails(r) \/ SweepEntry(r)
    BY <2>4 DEF UnlinkFile, UnlinkFails, SweepEntry
  <2>5. CASE BeginPass \/ ListArchive \/ CountRecordings \/ CheckDisk \/ ListOldest \/ EndBatch
             \/ RecheckDisk \/ ListNames \/ ListEntries \/ EndPass
    BY <2>5 DEF BeginPass, ListArchive, CountRecordings, CheckDisk, ListOldest, EndBatch, RecheckDisk,
                ListNames, ListEntries, EndPass
  <2> QED
    BY <2>1, <2>2, <2>3, <2>4, <2>5 DEF CleanerStep
<1>2. ArchiveInv'
  BY <1>1 DEF ArchiveInv
<1>3. \/ rows' = rows /\ archived' = archived
      \/ \E r \in Recordings : rows' = rows \ {r} /\ archived' = archived \ {r}
  BY <1>1 DEF WithoutRow
<1>4. /\ archived = {} => archived' = {}
      /\ archived = rows => archived' = rows'
  BY <1>3
<1>5. faults' = 0 => faults = 0
  BY <1>0, <1>1
<1>6. ArchiveIsWhole'
  BY <1>1, <1>4, <1>5 DEF ArchiveIsWhole, HalfWay
<1> QED
  BY <1>2, <1>6

\* Archiving and restoring, one after the other.
LEMMA ArchivingKeepsWhole ==
  ASSUME WholeInv, NoneUnmanaged, NEW c \in Clients,
         \/ LockToArchive(c) \/ StopToArchive(c) \/ ArchiveCamera(c) \/ ArchiveAllRecordings(c)
         \/ LockToRestore(c) \/ UnarchiveCamera(c) \/ UnarchiveAllRecordings(c)
         \/ UnarchiveFails(c) \/ StartRestored(c)
  PROVE  ArchiveInv' /\ ArchiveIsWhole'
<1> USE RetentionAssumption DEF WholeInv
<1>0. /\ \A d \in Clients \ {c} : req'[d] = req[d]
      /\ \A d \in Clients : req[d].step \in Held => camLock = d
      /\ \A d \in Clients : HalfWay(d) => camLock = d
  BY DEF LockToArchive, StopToArchive, ArchiveCamera, ArchiveAllRecordings, LockToRestore, UnarchiveCamera,
         UnarchiveAllRecordings, UnarchiveFails, StartRestored, Goto, Finish, TypeOK, HalfWay, Held, ArchiveInv
<1>1. CASE LockToArchive(c)
  <2>1. /\ req'[c].step = "stop" /\ camLock = None /\ running /\ req[c].step = "archive"
        /\ UNCHANGED <<rows, archived, camera, running, saving, faults, crashes>>
    BY <1>1 DEF LockToArchive, NoneUnmanaged, Goto, TypeOK
  <2>2. ArchiveInv'
    BY <1>0, <2>1 DEF ArchiveInv
  <2>3. ArchiveIsWhole'
    BY <1>0, <2>1 DEF ArchiveIsWhole, HalfWay
  <2> QED
    BY <2>2, <2>3
<1>2. CASE StopToArchive(c)
  <2>1. /\ req'[c].step = "archive-camera" /\ camLock = c /\ ~running' /\ saving = None
        /\ req[c].step = "stop"
        /\ UNCHANGED <<rows, archived, camera, camLock, saving, faults, crashes>>
    BY <1>2 DEF StopToArchive, Goto, TypeOK, Held
  <2>2. ArchiveInv'
    BY <1>0, <2>1 DEF ArchiveInv
  <2>3. ArchiveIsWhole'
    BY <1>0, <2>1 DEF ArchiveIsWhole, HalfWay
  <2> QED
    BY <2>2, <2>3
<1>3. CASE ArchiveCamera(c)
  <2>1. /\ req'[c].step = "archive-rows" /\ camLock = c /\ ~running /\ camera' # "active"
        /\ UNCHANGED <<running, camLock, saving>>
    BY <1>3 DEF ArchiveCamera, Goto, TypeOK, ArchiveInv
  <2>2. ArchiveInv'
    BY <1>0, <2>1 DEF ArchiveInv, Held
  <2>3. ArchiveIsWhole'
    BY <2>1 DEF ArchiveIsWhole, HalfWay
  <2> QED
    BY <2>2, <2>3
<1>4. CASE ArchiveAllRecordings(c)
  <2>1. /\ req'[c].step = "done" /\ camLock = c /\ camera # "active" /\ archived' = rows
        /\ UNCHANGED <<rows, camera, running, saving>>
    BY <1>4 DEF ArchiveAllRecordings, Finish, Done, TypeOK, ArchiveInv
  <2>2. ArchiveInv'
    BY <1>0, <2>1 DEF ArchiveInv, Held
  <2>3. ArchiveIsWhole'
    BY <2>1 DEF ArchiveIsWhole
  <2> QED
    BY <2>2, <2>3
<1>5. CASE LockToRestore(c)
  <2>1. /\ req'[c].step \in {"done", "restore-camera"} /\ camLock = None /\ req[c].step = "restore"
        /\ UNCHANGED <<rows, archived, camera, running, saving, faults, crashes>>
    BY <1>5 DEF LockToRestore, Goto, Finish, Done, TypeOK
  <2>2. ArchiveInv'
    BY <1>0, <2>1 DEF ArchiveInv
  <2>3. ArchiveIsWhole'
    BY <1>0, <2>1 DEF ArchiveIsWhole, HalfWay
  <2> QED
    BY <2>2, <2>3
<1>6. CASE UnarchiveCamera(c)
  <2>1. /\ camLock = c /\ req[c].step = "restore-camera"
        /\ \/ req'[c].step = "restore-rows" /\ camera' = "active" /\ camLock' = camLock
           \/ req'[c].step = "done" /\ camera' = camera
        /\ UNCHANGED <<rows, archived, running, saving, faults, crashes>>
    BY <1>6 DEF UnarchiveCamera, Goto, Finish, Done, TypeOK, Held
  <2>2. ArchiveInv'
    BY <1>0, <2>1 DEF ArchiveInv, Held
  <2>3. ArchiveIsWhole'
    BY <1>0, <2>1 DEF ArchiveIsWhole, HalfWay
  <2> QED
    BY <2>2, <2>3
<1>7. CASE UnarchiveAllRecordings(c)
  <2>1. /\ req'[c].step = "start" /\ camera # "archived" /\ archived' = {} /\ req[c].step = "restore-rows"
        /\ UNCHANGED <<camera, running, saving, camLock>>
    BY <1>7 DEF UnarchiveAllRecordings, Goto, TypeOK, ArchiveInv
  <2>2. ArchiveInv'
    BY <1>0, <2>1 DEF ArchiveInv
  <2>3. ArchiveIsWhole'
    BY <2>1 DEF ArchiveIsWhole
  <2> QED
    BY <2>2, <2>3
<1>8. CASE UnarchiveFails(c)
  <2>1. /\ req'[c].step = "start" /\ camera # "archived" /\ faults' # 0 /\ req[c].step = "restore-rows"
        /\ UNCHANGED <<camera, running, saving, camLock>>
    BY <1>8 DEF UnarchiveFails, Goto, TypeOK, ArchiveInv, Fault
  <2>2. ArchiveInv'
    BY <1>0, <2>1 DEF ArchiveInv
  <2>3. ArchiveIsWhole'
    BY <2>1 DEF ArchiveIsWhole
  <2> QED
    BY <2>2, <2>3
<1>9. CASE StartRestored(c)
  <2>1. /\ req'[c].step = "done" /\ camera # "archived" /\ running' /\ camLock = c /\ req[c].step = "start"
        /\ UNCHANGED <<rows, archived, camera, saving, faults, crashes>>
    BY <1>9 DEF StartRestored, Finish, Done, TypeOK, ArchiveInv, Held
  <2>2. ArchiveInv'
    BY <1>0, <2>1 DEF ArchiveInv, Held
  <2>3. ArchiveIsWhole'
    BY <1>0, <2>1 DEF ArchiveIsWhole, HalfWay
  <2> QED
    BY <2>2, <2>3
<1> QED
  BY <1>1, <1>2, <1>3, <1>4, <1>5, <1>6, <1>7, <1>8, <1>9

\* Erasing the camera, or one archived recording, and what precedes the lock.
LEMMA ErasingKeepsWhole ==
  ASSUME WholeInv, NEW c \in Clients,
         \/ \E step \in {"archive", "restore", "erase"} : Ask(c, step)
         \/ StopToErase(c) \/ EraseRows(c) \/ EraseCamera(c) \/ EraseDir(c)
         \/ \E r \in Recordings : AskDrop(c, r)
         \/ DropFile(c) \/ DropRow(c) \/ DropRowFails(c) \/ DropCount(c)
         \/ DropCamera(c) \/ DropDir(c)
  PROVE  ArchiveInv' /\ ArchiveIsWhole'
<1> USE RetentionAssumption DEF WholeInv
<1> DEFINE Quiet == {"archive", "restore", "erase", "erase-rows", "erase-camera", "erase-dir", "drop-file",
                     "drop-row", "drop-count", "drop-camera", "drop-dir", "done"}
<1>1. /\ \A d \in Clients \ {c} : req'[d] = req[d]
      /\ req'[c].step \in Quiet /\ req[c].step \in Quiet \cup {"new"}
  BY DEF Ask, StopToErase, EraseRows, EraseCamera, EraseDir, AskDrop, DropFile, DropRow, DropRowFails,
         DropCount, DropCamera, DropDir, Goto, Finish, New, Done, TypeOK
<1>2. /\ UNCHANGED <<saving, crashes, camLock>>
      /\ faults' >= faults /\ faults \in Nat /\ faults' \in Nat
      /\ running' = running \/ (running' = FALSE /\ saving = None)
      /\ camera' = camera \/ camera' = "gone"
      /\ \/ rows' = rows /\ archived' = archived
         \/ rows' = {} /\ archived' = {}
         \/ \E r : rows' = rows \ {r} /\ archived' = archived \ {r}
  BY DEF Ask, StopToErase, EraseRows, EraseCamera, EraseDir, AskDrop, DropFile, DropRow, DropRowFails,
         DropCount, DropCamera, DropDir, WithoutRow, Fault, TypeOK
<1>3. ArchiveInv'
  BY <1>1, <1>2 DEF ArchiveInv
<1>4. (\A d \in Clients : ~HalfWay(d))' => \A d \in Clients : ~HalfWay(d)
  BY <1>1 DEF HalfWay
<1>5. ArchiveIsWhole'
  BY <1>2, <1>4 DEF ArchiveIsWhole
<1> QED
  BY <1>3, <1>5

\* While each request finds the camera in the manager, an archive is whole, for
\* any number of recordings and requests: requests that archive and restore take
\* turns, and the recorder has ended when one archives.
THEOREM ArchivesAreWhole == Spec /\ [][NoneUnmanaged]_vars => []ArchiveIsWhole
<1>1. Init => ArchiveInv /\ ArchiveIsWhole
  <2> SUFFICES ASSUME Init PROVE ArchiveInv /\ ArchiveIsWhole
    OBVIOUS
  <2>1. /\ running => camera # "archived"
        /\ camera = "active" => archived = {}
        /\ camera = "archived" => archived = rows
        /\ saving = None
    BY DEF Init
  <2>2. \A c \in Clients : req[c].step = "new"
    BY DEF Init, New
  <2> QED
    BY <2>1, <2>2 DEF ArchiveInv, ArchiveIsWhole
<1>2. TypeOK /\ ArchiveInv /\ ArchiveIsWhole /\ [Next]_vars /\ [NoneUnmanaged]_vars
        => ArchiveInv' /\ ArchiveIsWhole'
  <2> SUFFICES ASSUME TypeOK, ArchiveInv, ArchiveIsWhole, [Next]_vars, [NoneUnmanaged]_vars
               PROVE  ArchiveInv' /\ ArchiveIsWhole'
    OBVIOUS
  <2>0. WholeInv
    BY DEF WholeInv
  <2>1. CASE UNCHANGED vars
    BY <2>1 DEF vars, ArchiveInv, ArchiveIsWhole, HalfWay
  <2>2. CASE Recorder \/ Age \/ Expire \/ (\E r \in Recordings : SetLocked(r))
    BY <2>0, <2>2, RecorderKeepsWhole
  <2>3. CASE CleanerStep \/ (\E r \in Recordings : DeleteRowFails(r))
    BY <2>0, <2>3, CleanerKeepsWhole
  <2>4. ASSUME NEW c \in Clients, Request(c), ~UNCHANGED vars PROVE ArchiveInv' /\ ArchiveIsWhole'
    <3>1. NoneUnmanaged
      BY <2>4
    <3> QED
      BY <2>0, <2>4, <3>1, ArchivingKeepsWhole, ErasingKeepsWhole DEF Request
  <2>5. CASE Restart
    BY <2>5, RetentionAssumption DEF Restart, ArchiveInv, ArchiveIsWhole, TypeOK, New, Done
  <2> QED
    BY <2>1, <2>2, <2>3, <2>4, <2>5 DEF Next
<1> QED
  BY <1>1, <1>2, Typing, PTL DEF Spec

=============================================================================
