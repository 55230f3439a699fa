----------------------------- MODULE Retention -----------------------------
(***************************************************************************)
(* What deletes the recordings of one camera: the passes of the cleanup    *)
(* (internal/cleanup/cleanup.go), and the requests that archive, restore   *)
(* and erase the camera (internal/api, internal/camera), while its         *)
(* recorder adds recordings and the process crashes and restarts.          *)
(*                                                                         *)
(* The archive has a finite retention (with 0 its pass skips the camera).  *)
(* A recording is a file, or a directory of frames, and a row; a step here *)
(* is one query or one call of the file system.  Recordings are numbered   *)
(* in the order in which they end, and age in that order.                  *)
(***************************************************************************)
EXTENDS Naturals, FiniteSets

CONSTANTS
  Count,          \* how many recordings the camera makes
  Frames,         \* those that are directories of JPEG frames
  Clients,        \* requests, each made once
  Threshold,      \* recordings that fit on the disk below disk_threshold_percent
  Batch,          \* the candidates of a first disk query (50)
  MaxCandidates,  \* maxCleanupCandidates (10000)
  MaxFaults,      \* bounds the queries that fail
  MaxCrashes,     \* bounds the crashes
  None

Recordings == 1 .. Count

ASSUME RetentionAssumption ==
  /\ Count \in Nat \ {0}
  /\ Frames \subseteq Recordings
  /\ Batch \in Nat \ {0} /\ MaxCandidates \in Nat /\ Batch <= MaxCandidates
  /\ Threshold \in Nat /\ MaxFaults \in Nat /\ MaxCrashes \in Nat
  /\ None \notin Recordings \cup Clients

VARIABLES
  files,      \* what the camera's directory holds
  rows,       \* the recordings the table lists
  archived,   \* those with archived = 1
  locked,     \* those with locked = 1
  last,       \* recordings made so far
  aged,       \* those up to here are more than an hour old
  expired,    \* those up to here are older than the retention
  camera,     \* the camera's row: active, archived or gone
  running,    \* the recorder runs (and the camera is in the configuration)
  saving,     \* the published recording whose row is being inserted
  camLock,    \* the request that holds lockCamera
  pass,       \* the cleanup goroutine
  req,        \* what each request is about to do
  faults, crashes

footage == <<files, rows, archived, locked, last>>
clock   == <<aged, expired>>
device  == <<camera, running, camLock>>
vars    == <<footage, clock, device, saving, pass, req, faults, crashes>>

Idle == [phase |-> "idle", todo |-> {}, at |-> None, names |-> {},
         limit |-> 0, failed |-> {}, full |-> FALSE, deleted |-> FALSE]

New  == [step |-> "new", rec |-> None]
Done == [step |-> "done", rec |-> None]

\* An active camera without recordings, or one archived earlier with them all.
Init ==
  /\ camera \in {"active", "archived"} /\ running = (camera = "active")
  /\ files = IF running THEN {} ELSE Recordings
  /\ rows = files /\ archived = files /\ locked = {}
  /\ last = Cardinality(files) /\ aged = last /\ expired = 0
  /\ saving = None /\ camLock = None
  /\ pass = Idle
  /\ req = [c \in Clients |-> New]
  /\ faults = 0 /\ crashes = 0

Fault == faults < MaxFaults /\ faults' = faults + 1

-----------------------------------------------------------------------------
(* The recorder, the clock and the locks of the users.                     *)

\* A segment gets its final name; its row comes next.
Publish ==
  /\ running /\ saving = None /\ last < Count
  /\ last' = last + 1
  /\ files' = files \cup {last + 1}
  /\ saving' = last + 1
  /\ UNCHANGED <<rows, archived, locked, clock, device, pass, req, faults, crashes>>

InsertRow ==
  /\ saving # None
  /\ rows' = rows \cup {saving}
  /\ saving' = None
  /\ UNCHANGED <<files, archived, locked, last, clock, device, pass, req, faults, crashes>>

\* The retries are used up: the file stays without a row.
InsertFails ==
  /\ saving # None
  /\ Fault
  /\ saving' = None
  /\ UNCHANGED <<footage, clock, device, pass, req, crashes>>

\* A recording gets its row within seconds, and the sweep of a directory takes
\* less than the hour that it spares.
Age ==
  /\ aged < last /\ saving # aged + 1
  /\ pass.phase \notin {"entries", "sweep"}
  /\ aged' = aged + 1
  /\ UNCHANGED <<footage, expired, device, saving, pass, req, faults, crashes>>

Expire ==
  /\ expired < aged
  /\ expired' = expired + 1
  /\ UNCHANGED <<footage, aged, device, saving, pass, req, faults, crashes>>

SetLocked(r) ==
  /\ r \in rows
  /\ locked' = IF r \in locked THEN locked \ {r} ELSE locked \cup {r}
  /\ UNCHANGED <<files, rows, archived, last, clock, device, saving, pass, req, faults, crashes>>

-----------------------------------------------------------------------------
(* The cleanup.  deleteRecording removes the file, then the row.           *)

ListExpiredRecordings ==
  {r \in (rows \ archived) \ locked : camera = "active" /\ r <= expired}

ListExpiredArchivedRecordings ==
  {r \in archived \ locked : r <= expired}

Unarchived == (rows \ archived) \ locked

\* The first limit rows by end time.
ListOldestRecordings(limit) ==
  {r \in Unarchived : Cardinality({s \in Unarchived : s < r}) < limit}

WithoutRow(r) ==
  /\ rows' = rows \ {r} /\ archived' = archived \ {r} /\ locked' = locked \ {r}

BeginPass ==
  /\ pass.phase = "idle"
  /\ pass' = [Idle EXCEPT !.phase = "expired", !.todo = ListExpiredRecordings]
  /\ UNCHANGED <<footage, clock, device, saving, req, faults, crashes>>

Deleting == pass.phase \in {"expired", "archive", "disk"}

\* Mutant: a file that is gone already is an error.
UnlinkRefusesMissing(r) == r \notin files \/ r \in Frames

\* os.Remove cannot remove a directory with frames in it.
UnlinkRefuses(r) == r \in files \cap Frames

UnlinkFile(r) ==
  /\ Deleting /\ pass.at = None
  /\ r \in pass.todo /\ \A s \in pass.todo : r <= s
  /\ ~UnlinkRefuses(r)
  /\ files' = files \ {r}
  /\ pass' = [pass EXCEPT !.at = r]
  /\ UNCHANGED <<rows, archived, locked, last, clock, device, saving, req, faults, crashes>>

Skipped(r) ==
  [pass EXCEPT !.at = None, !.todo = @ \ {r},
               !.failed = IF pass.phase = "disk" THEN @ \cup {r} ELSE @]

UnlinkFails(r) ==
  /\ Deleting /\ pass.at = None
  /\ r \in pass.todo /\ \A s \in pass.todo : r <= s
  /\ UnlinkRefuses(r)
  /\ pass' = Skipped(r)
  /\ UNCHANGED <<footage, clock, device, saving, req, faults, crashes>>

DeleteRow(r) ==
  /\ Deleting /\ pass.at = r
  /\ WithoutRow(r)
  /\ pass' = [pass EXCEPT !.at = None, !.todo = @ \ {r}, !.deleted = pass.phase = "disk"]
  /\ UNCHANGED <<files, last, clock, device, saving, req, faults, crashes>>

DeleteRowFails(r) ==
  /\ Deleting /\ pass.at = r
  /\ Fault
  /\ pass' = Skipped(r)
  /\ UNCHANGED <<footage, clock, device, saving, req, crashes>>

BatchDone == Deleting /\ pass.todo = {} /\ pass.at = None

\* The archive's own retention follows, if the camera is archived.
ListArchive ==
  /\ pass.phase = "expired" /\ BatchDone
  /\ pass' = IF camera = "archived"
             THEN [Idle EXCEPT !.phase = "archive", !.todo = ListExpiredArchivedRecordings]
             ELSE [Idle EXCEPT !.phase = "check"]
  /\ UNCHANGED <<footage, clock, device, saving, req, faults, crashes>>

CountRecordings ==
  /\ pass.phase = "archive" /\ BatchDone
  /\ pass' = [Idle EXCEPT !.phase = IF rows = {} THEN "dir" ELSE "check"]
  /\ UNCHANGED <<footage, clock, device, saving, req, faults, crashes>>

RemoveDir ==
  /\ pass.phase = "dir"
  /\ files' = {}
  /\ pass' = [pass EXCEPT !.phase = "camera"]
  /\ UNCHANGED <<rows, archived, locked, last, clock, device, saving, req, faults, crashes>>

RemoveCamera ==
  /\ pass.phase = "camera"
  /\ camera' = "gone"
  /\ pass' = [pass EXCEPT !.phase = "check"]
  /\ UNCHANGED <<footage, clock, running, camLock, saving, req, faults, crashes>>

DiskIsFull == Cardinality(files) > Threshold

CheckDisk ==
  /\ pass.phase = "check"
  /\ pass' = IF DiskIsFull THEN [Idle EXCEPT !.phase = "list", !.limit = Batch]
                           ELSE [Idle EXCEPT !.phase = "names"]
  /\ UNCHANGED <<footage, clock, device, saving, req, faults, crashes>>

ListOldest ==
  /\ pass.phase = "list"
  /\ LET found == ListOldestRecordings(pass.limit)
     IN pass' = IF found = {} THEN [Idle EXCEPT !.phase = "names"]
                ELSE [pass EXCEPT !.phase = "disk", !.todo = found \ pass.failed,
                                  !.deleted = FALSE,
                                  !.full = Cardinality(found) = pass.limit]
  /\ UNCHANGED <<footage, clock, device, saving, req, faults, crashes>>

\* Nothing of the batch could be deleted: more candidates, or the end.
EndBatch ==
  /\ pass.phase = "disk" /\ BatchDone /\ ~pass.deleted
  /\ pass' = IF ~pass.full \/ pass.limit >= MaxCandidates
             THEN [Idle EXCEPT !.phase = "names"]
             ELSE [pass EXCEPT !.phase = "list",
                               !.limit = IF @ + Batch > MaxCandidates THEN MaxCandidates
                                         ELSE @ + Batch]
  /\ UNCHANGED <<footage, clock, device, saving, req, faults, crashes>>

RecheckDisk ==
  /\ pass.phase = "disk" /\ BatchDone /\ pass.deleted
  /\ pass' = IF DiskIsFull THEN [pass EXCEPT !.phase = "list", !.deleted = FALSE]
                           ELSE [Idle EXCEPT !.phase = "names"]
  /\ UNCHANGED <<footage, clock, device, saving, req, faults, crashes>>

\* The orphan pass reads the table before the directory.
ListNames ==
  /\ pass.phase = "names"
  /\ pass' = IF camera = "active" THEN [Idle EXCEPT !.phase = "entries", !.names = rows]
                                  ELSE Idle
  /\ UNCHANGED <<footage, clock, device, saving, req, faults, crashes>>

ListEntries ==
  /\ pass.phase = "entries"
  /\ pass' = [pass EXCEPT !.phase = "sweep", !.todo = files]
  /\ UNCHANGED <<footage, clock, device, saving, req, faults, crashes>>

\* Mutant: young files are not spared.
IsOrphanAtAnyAge(r) == r \notin pass.names

IsOrphan(r) == r <= aged /\ r \notin pass.names

SweepEntry(r) ==
  /\ pass.phase = "sweep" /\ r \in pass.todo
  /\ files' = IF IsOrphan(r) THEN files \ {r} ELSE files
  /\ pass' = [pass EXCEPT !.todo = @ \ {r}]
  /\ UNCHANGED <<rows, archived, locked, last, clock, device, saving, req, faults, crashes>>

EndPass ==
  /\ pass.phase = "sweep" /\ pass.todo = {}
  /\ pass' = Idle
  /\ UNCHANGED <<footage, clock, device, saving, req, faults, crashes>>

-----------------------------------------------------------------------------
(* The requests.  Archiving, restoring and erasing hold lockCamera while   *)
(* the manager works; deleting one archived recording holds nothing.       *)

Goto(c, step) == req' = [req EXCEPT ![c].step = step]
Finish(c) == req' = [req EXCEPT ![c] = Done]
Unlocked(c) == camLock' = IF camLock = c THEN None ELSE camLock

\* Checks that precede the lock.
Ask(c, step) ==
  /\ req[c] = New
  /\ \/ step = "archive" /\ camera = "active"
     \/ step = "restore" /\ camera = "archived"
     \/ step = "erase"   /\ camera # "gone"
  /\ Goto(c, step)
  /\ UNCHANGED <<footage, clock, device, saving, pass, faults, crashes>>

\* Mutant: no lockCamera.
LockToArchiveUnlocked(c) ==
  /\ req[c].step = "archive"
  /\ Goto(c, IF running THEN "stop" ELSE "archive-camera")
  /\ UNCHANGED <<footage, clock, device, saving, pass, faults, crashes>>

\* A camera the manager does not know is archived in the tables directly.
LockToArchive(c) ==
  /\ req[c].step = "archive" /\ camLock = None
  /\ camLock' = IF running THEN c ELSE None
  /\ Goto(c, IF running THEN "stop" ELSE "archive-camera")
  /\ UNCHANGED <<footage, clock, camera, running, saving, pass, faults, crashes>>

\* The recorder's last segment gets its row before Stop returns.
StopToArchive(c) ==
  /\ req[c].step = "stop" /\ saving = None
  /\ running' = FALSE
  /\ Goto(c, "archive-camera")
  /\ UNCHANGED <<footage, clock, camera, camLock, saving, pass, faults, crashes>>

ArchiveCamera(c) ==
  /\ req[c].step = "archive-camera"
  /\ camera' = IF camera = "gone" THEN "gone" ELSE "archived"
  /\ Goto(c, "archive-rows")
  /\ UNCHANGED <<footage, clock, running, camLock, saving, pass, faults, crashes>>

ArchiveAllRecordings(c) ==
  /\ req[c].step = "archive-rows"
  /\ archived' = rows
  /\ Unlocked(c) /\ Finish(c)
  /\ UNCHANGED <<files, rows, locked, last, clock, camera, running, saving, pass, faults, crashes>>

LockToRestore(c) ==
  /\ req[c].step = "restore" /\ camLock = None
  /\ IF running THEN camLock' = None /\ Finish(c)
                ELSE camLock' = c /\ Goto(c, "restore-camera")
  /\ UNCHANGED <<footage, clock, camera, running, saving, pass, faults, crashes>>

\* UnarchiveCameraDB fails when the camera is no longer archived.
UnarchiveCamera(c) ==
  /\ req[c].step = "restore-camera"
  /\ IF camera = "archived"
     THEN camera' = "active" /\ camLock' = camLock /\ Goto(c, "restore-rows")
     ELSE camera' = camera /\ camLock' = None /\ Finish(c)
  /\ UNCHANGED <<footage, clock, running, saving, pass, faults, crashes>>

UnarchiveAllRecordings(c) ==
  /\ req[c].step = "restore-rows"
  /\ archived' = {}
  /\ Goto(c, "start")
  /\ UNCHANGED <<files, rows, locked, last, clock, device, saving, pass, faults, crashes>>

\* A failure is logged and the restore goes on.
UnarchiveFails(c) ==
  /\ req[c].step = "restore-rows"
  /\ Fault
  /\ Goto(c, "start")
  /\ UNCHANGED <<footage, clock, device, saving, pass, crashes>>

StartRestored(c) ==
  /\ req[c].step = "start"
  /\ running' = TRUE
  /\ Unlocked(c) /\ Finish(c)
  /\ UNCHANGED <<footage, clock, camera, saving, pass, faults, crashes>>

\* permanentlyDeleteCamera: the manager forgets the camera under the lock,
\* then the rows, the camera and the directory go without it.
StopToErase(c) ==
  /\ req[c].step = "erase" /\ camLock = None /\ saving = None
  /\ running' = FALSE
  /\ Goto(c, "erase-rows")
  /\ UNCHANGED <<footage, clock, camera, camLock, saving, pass, faults, crashes>>

EraseRows(c) ==
  /\ req[c].step = "erase-rows"
  /\ rows' = {} /\ archived' = {} /\ locked' = {}
  /\ Goto(c, "erase-camera")
  /\ UNCHANGED <<files, last, clock, device, saving, pass, faults, crashes>>

EraseCamera(c) ==
  /\ req[c].step = "erase-camera"
  /\ camera' = "gone"
  /\ Goto(c, "erase-dir")
  /\ UNCHANGED <<footage, clock, running, camLock, saving, pass, faults, crashes>>

EraseDir(c) ==
  /\ req[c].step = "erase-dir"
  /\ files' = {}
  /\ Finish(c)
  /\ UNCHANGED <<rows, archived, locked, last, clock, device, saving, pass, faults, crashes>>

\* handleDeleteArchiveRecording: one archived recording, and the camera with
\* its directory when no archived row is left.
AskDrop(c, r) ==
  /\ req[c] = New /\ r \in archived
  /\ req' = [req EXCEPT ![c] = [step |-> "drop-file", rec |-> r]]
  /\ UNCHANGED <<footage, clock, device, saving, pass, faults, crashes>>

DropFile(c) ==
  /\ req[c].step = "drop-file"
  /\ files' = IF UnlinkRefuses(req[c].rec) THEN files ELSE files \ {req[c].rec}
  /\ Goto(c, "drop-row")
  /\ UNCHANGED <<rows, archived, locked, last, clock, device, saving, pass, faults, crashes>>

DropRow(c) ==
  /\ req[c].step = "drop-row"
  /\ WithoutRow(req[c].rec)
  /\ Goto(c, "drop-count")
  /\ UNCHANGED <<files, last, clock, device, saving, pass, faults, crashes>>

DropRowFails(c) ==
  /\ req[c].step = "drop-row"
  /\ Fault
  /\ Finish(c)
  /\ UNCHANGED <<footage, clock, device, saving, pass, crashes>>

DropCount(c) ==
  /\ req[c].step = "drop-count"
  /\ IF archived = {} THEN Goto(c, "drop-camera") ELSE Finish(c)
  /\ UNCHANGED <<footage, clock, device, saving, pass, faults, crashes>>

DropCamera(c) ==
  /\ req[c].step = "drop-camera"
  /\ camera' = "gone"
  /\ Goto(c, "drop-dir")
  /\ UNCHANGED <<footage, clock, running, camLock, saving, pass, faults, crashes>>

DropDir(c) ==
  /\ req[c].step = "drop-dir"
  /\ files' = {}
  /\ Finish(c)
  /\ UNCHANGED <<rows, archived, locked, last, clock, device, saving, pass, faults, crashes>>

-----------------------------------------------------------------------------
(* A crash, and the start that follows it: the configuration is read from  *)
(* the table of cameras, and files of its cameras without a row get one.   *)

Restart ==
  /\ crashes < MaxCrashes
  /\ crashes' = crashes + 1
  /\ running' = (camera = "active")
  /\ rows' = IF camera = "active" THEN rows \cup files ELSE rows
  /\ saving' = None /\ camLock' = None
  /\ pass' = Idle
  /\ req' = [c \in Clients |-> IF req[c] = New THEN New ELSE Done]
  /\ UNCHANGED <<files, archived, locked, last, clock, camera, faults>>

-----------------------------------------------------------------------------
Recorder == Publish \/ InsertRow \/ InsertFails

\* The steps of a pass that succeed, and those that a fault ends.
CleanerStep ==
  \/ BeginPass
  \/ \E r \in Recordings : UnlinkFile(r) \/ UnlinkFails(r) \/ DeleteRow(r)
  \/ ListArchive \/ CountRecordings \/ RemoveDir \/ RemoveCamera
  \/ CheckDisk \/ ListOldest \/ EndBatch \/ RecheckDisk
  \/ ListNames \/ ListEntries
  \/ \E r \in Recordings : SweepEntry(r)
  \/ EndPass

Request(c) ==
  \/ \E step \in {"archive", "restore", "erase"} : Ask(c, step)
  \/ LockToArchive(c) \/ StopToArchive(c) \/ ArchiveCamera(c) \/ ArchiveAllRecordings(c)
  \/ LockToRestore(c) \/ UnarchiveCamera(c) \/ UnarchiveAllRecordings(c)
  \/ UnarchiveFails(c) \/ StartRestored(c)
  \/ StopToErase(c) \/ EraseRows(c) \/ EraseCamera(c) \/ EraseDir(c)
  \/ \E r \in Recordings : AskDrop(c, r)
  \/ DropFile(c) \/ DropRow(c) \/ DropRowFails(c) \/ DropCount(c)
  \/ DropCamera(c) \/ DropDir(c)

Next ==
  \/ Recorder \/ Age \/ Expire
  \/ \E r \in Recordings : SetLocked(r)
  \/ CleanerStep
  \/ \E r \in Recordings : DeleteRowFails(r)
  \/ \E c \in Clients : Request(c)
  \/ Restart

Spec == Init /\ [][Next]_vars

\* The ticker of the cleanup goroutine keeps coming, and a pass keeps going.
FairSpec == Spec /\ WF_vars(CleanerStep)

-----------------------------------------------------------------------------
Phases == {"idle", "expired", "archive", "dir", "camera", "check", "list", "disk",
           "names", "entries", "sweep"}

Passes ==
  [phase : Phases, todo : SUBSET Recordings, at : Recordings \cup {None},
   names : SUBSET Recordings, limit : 0 .. MaxCandidates, failed : SUBSET Recordings,
   full : BOOLEAN, deleted : BOOLEAN]

Steps == {"new", "archive", "stop", "archive-camera", "archive-rows",
          "restore", "restore-camera", "restore-rows", "start",
          "erase", "erase-rows", "erase-camera", "erase-dir",
          "drop-file", "drop-row", "drop-count", "drop-camera", "drop-dir", "done"}

Held == {"stop", "restore-camera", "restore-rows", "start"}

\* Types; and lockCamera is held by the one request that works in the manager.
TypeOK ==
  /\ files \subseteq Recordings /\ rows \subseteq Recordings
  /\ archived \subseteq rows /\ locked \subseteq rows
  /\ last \in 0 .. Count /\ aged \in 0 .. last /\ expired \in 0 .. aged
  /\ camera \in {"active", "archived", "gone"} /\ running \in BOOLEAN
  /\ saving \in Recordings \cup {None}
  /\ camLock \in Clients \cup {None}
  /\ pass \in Passes
  /\ req \in [Clients -> [step : Steps, rec : Recordings \cup {None}]]
  /\ \A c \in Clients : req[c].step \in Held => camLock = c
  /\ faults \in 0 .. MaxFaults /\ crashes \in 0 .. MaxCrashes

\* The orphan pass (cleanOrphansForCamera) never removes a file that the table
\* lists, or that the recorder has published and is about to list, although the
\* table was read before the directory.
OrphansHaveNoRow ==
  [][\A r \in Recordings :
       SweepEntry(r) /\ r \in files \ files' => r \notin rows /\ saving # r]_vars

\* Between the two queries that archive, or restore, a camera.
HalfWay(c) == req[c].step \in {"archive-rows", "restore-rows"}

\* However two requests overlap, an active camera has no archived recordings
\* and all those of an archived one are archived, except while a request is
\* between its two queries (ArchiveCamera and RestoreArchivedCamera).  A crash
\* or a failed query between the two breaks it; so does a third request, when
\* one archives a camera that the manager does not know (README).
ArchiveIsWhole ==
  (\A c \in Clients : ~HalfWay(c)) /\ faults = 0 /\ crashes = 0 =>
    /\ camera = "active" => archived = {}
    /\ camera = "archived" => archived = rows

\* A recording that the camera's retention, or the archive's, does not cover
\* any longer, and that no lock keeps.
Overdue(r) ==
  /\ r \in rows \ locked /\ r <= expired
  /\ \/ camera = "active" /\ r \notin archived
     \/ camera = "archived" /\ r \in archived

\* An overdue recording goes, the row of one whose file is gone already
\* included: deletions that a failing query or a crash cut in half are
\* repeated (deleteRecording), and the disk pass ends however many of the
\* oldest recordings it cannot delete.  Directories of frames stay (README).
ExpiredGoes ==
  \A r \in Recordings \ Frames : []<>~Overdue(r)

\* Contrary to the comment in handleDeleteArchiveRecording, the directory of a
\* camera can go while recordings are listed.
DirIsEmpty ==
  [][\A c \in Clients : DropDir(c) => files \cap rows = {}]_vars

=============================================================================
