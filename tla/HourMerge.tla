----------------------------- MODULE HourMerge -----------------------------
(***************************************************************************)
(* merge.MergeManager on the recordings of one camera in one window.       *)
(*                                                                         *)
(* A merge moves footage between files and rows that no transaction spans: *)
(* it journals the old end of the hour file, overwrites that end in place, *)
(* hides the absorbed files, moves the rows in one transaction, and only   *)
(* then drops the journal and the hidden files.  The process may crash     *)
(* between any two of these steps; the recorder closes segments, and the   *)
(* API and the cleanup delete recordings, without the camera lock a merge  *)
(* holds.                                                                  *)
(*                                                                         *)
(* Footage is named after the recording it was first written to.  Codec    *)
(* parameters are abstracted: any readable recordings may form one group.  *)
(* A pass handles one group.  A crash is one of the process: what was      *)
(* written and renamed before it is there after it.                        *)
(***************************************************************************)
EXTENDS Naturals, FiniteSets

CONSTANTS
    Segments,        \* short recordings the recorder closes
    Hours,           \* merged recordings
    InitialHours,    \* those that exist when the model starts
    ApiTargets,      \* recordings a user may delete
    CleanupTargets,  \* recordings the cleanup may delete
    PeriodicPass,    \* whether the periodic merge runs beside the rolling one
    MinSegments,     \* merge.min_segments_to_merge
    DBMayFail,       \* whether a query or a transaction may fail
    SyncMayFail,     \* whether the sync after an append may fail
    MaxCrashes,      \* bound on the crashes of the process
    None

Recordings == Segments \cup Hours

\* mergeJournal: the absorbed segments and what the old moov lists.
Journals == [ids : SUBSET Recordings, old : SUBSET Recordings]

ASSUME HourAssumption ==
    /\ InitialHours \subseteq Hours
    /\ Segments \cap Hours = {}
    /\ ApiTargets \cup CleanupTargets \subseteq Recordings
    /\ None \notin Recordings \cup Journals
ASSUME HourBoundAssumption ==
    /\ PeriodicPass \in BOOLEAN
    /\ DBMayFail \in BOOLEAN
    /\ SyncMayFail \in BOOLEAN
    /\ MinSegments \in Nat \ {0}
    /\ MaxCrashes \in Nat

VARIABLES
    row,       \* recordings.merge_status, "none" if there is no row
    file,      \* the recording's file: "none", "visible", "hidden" (.consumed)
    footage,   \* the footage the file's moov lists
    torn,      \* files whose moov is being overwritten: no player reads them
    journal,   \* the .mjournal beside a file, or None
    fresh,     \* segments the recorder has not closed yet
    closing,   \* the segment whose row the recorder is about to insert
    pc,        \* where the merge that holds the camera lock is
    after,     \* where it goes on once a journal is dealt with
    todo,      \* buckets whose journal is still to be reconciled
    bucket,    \* the hour file it works on
    adds,      \* the recordings that go into it
    left,      \* those of adds the current loop has still to visit
    apiFile,   \* the recording whose file the API is about to delete
    victim,    \* the recording the cleanup is deleting
    unlinked,  \* whether the cleanup has deleted its file already
    deleted,   \* footage whose deletion was asked for (history)
    crashes

diskVars  == <<row, file, footage, torn, journal>>
closeVars == <<fresh, closing>>
mergeVars == <<pc, after, todo, bucket, adds, left>>
eraseVars == <<apiFile, victim, unlinked, deleted>>
vars == <<diskVars, closeVars, mergeVars, eraseVars, crashes>>

Steps == {"idle", "scan", "plan", "append", "samples", "writing", "hide", "grow",
          "commit", "consume", "create", "replace", "erase",
          "undo", "undoing", "unhide", "keep", "drop", "rollback", "rewind", "rewinding"}

\* The types, and that no step works on a file that was not chosen.
TypeOK ==
    /\ row \in [Recordings -> {"none", "pending", "merged", "failed"}]
    /\ file \in [Recordings -> {"none", "visible", "hidden"}]
    /\ footage \in [Recordings -> SUBSET Recordings]
    /\ torn \subseteq Recordings
    /\ journal \in [Recordings -> Journals \cup {None}]
    /\ fresh \subseteq Segments
    /\ closing \in Segments \cup {None}
    /\ pc \in Steps
    /\ after \in {"scan", "append", "idle"}
    /\ todo \subseteq Recordings
    /\ bucket \in Recordings \cup {None}
    /\ adds \subseteq Recordings
    /\ left \subseteq Recordings
    /\ apiFile \in Recordings \cup {None}
    /\ victim \in Recordings \cup {None}
    /\ unlinked \in BOOLEAN
    /\ deleted \subseteq Recordings
    /\ crashes \in 0..MaxCrashes
    /\ pc \notin {"idle", "scan", "plan", "create"} => bucket \in Recordings
    /\ pc \in {"undo", "undoing", "unhide", "keep", "samples", "writing", "hide", "grow",
              "rollback", "rewind", "rewinding"}
          => journal[bucket] # None

Init ==
    /\ row = [r \in Recordings |-> IF r \in InitialHours THEN "merged" ELSE "none"]
    /\ file = [r \in Recordings |-> IF r \in InitialHours THEN "visible" ELSE "none"]
    /\ footage = [r \in Recordings |-> IF r \in InitialHours THEN {r} ELSE {}]
    /\ torn = {}
    /\ journal = [r \in Recordings |-> None]
    /\ fresh = Segments
    /\ closing = None
    /\ pc = "idle"
    /\ after = "idle"
    /\ todo = {}
    /\ bucket = None
    /\ adds = {}
    /\ left = {}
    /\ apiFile = None
    /\ victim = None
    /\ unlinked = FALSE
    /\ deleted = {}
    /\ crashes = 0

Pending  == {r \in Recordings : row[r] = "pending"}
Readable == {r \in Recordings : file[r] = "visible" /\ r \notin torn}
FootageIn(S) == UNION {footage[r] : r \in S}

Goto(step) == pc' = step
With(f, S, v) == [r \in Recordings |-> IF r \in S THEN v ELSE f[r]]

-----------------------------------------------------------------------------
(* The recorder closes a segment *)

\* recSession.closeSegment renames the finished file into place ...
CloseSegment(s) ==
    /\ closing = None
    /\ s \in fresh
    /\ fresh' = fresh \ {s}
    /\ closing' = s
    /\ file' = [file EXCEPT ![s] = "visible"]
    /\ footage' = [footage EXCEPT ![s] = {s}]
    /\ UNCHANGED <<row, torn, journal, mergeVars, eraseVars, crashes>>

\* ... and then inserts its row; a failure is only logged.
InsertRecording ==
    /\ closing # None
    /\ closing' = None
    /\ \/ row' = [row EXCEPT ![closing] = "pending"]
       \/ DBMayFail /\ UNCHANGED row
    /\ UNCHANGED <<file, footage, torn, journal, fresh, mergeVars, eraseVars, crashes>>

-----------------------------------------------------------------------------
(* Reconciling the journal of a bucket *)

\* Some absorbed segment is still in the database.
UndoNeeded(b) == \E r \in journal[b].ids : row[r] # "none"

\* Mutant: an append that was interrupted always counts as finished.
ReconcileKeeping(b, then) ==
    /\ journal[b] # None
    /\ bucket' = b
    /\ left' = journal[b].ids
    /\ after' = then
    /\ Goto("keep")

\* reconcileMergeJournal reads the journal and asks for every row it names.
Reconcile(b, then) ==
    /\ journal[b] # None
    /\ bucket' = b
    /\ left' = journal[b].ids
    /\ after' = then
    /\ Goto(IF UndoNeeded(b) THEN "undo" ELSE "keep")

\* A query fails: MergeHour logs it and goes on, an append gives up.
ReconcileFails(b) ==
    /\ DBMayFail
    /\ journal[b] # None

\* restoreJournalFile cuts the file off where the old moov began ...
RestoreBegin(from, to) ==
    /\ pc = from
    /\ file[bucket] = "visible"
    /\ torn' = torn \cup {bucket}
    /\ Goto(to)
    /\ UNCHANGED <<row, file, footage, journal, after, todo, bucket, adds, left>>

\* ... and writes the old moov and mdat size back.
RestoreEnd(from, to) ==
    /\ pc = from
    /\ torn' = torn \ {bucket}
    /\ footage' = [footage EXCEPT ![bucket] = journal[bucket].old]
    /\ Goto(to)
    /\ UNCHANGED <<row, file, journal, after, todo, bucket, adds, left>>

\* Nothing to restore: the reconciliation fails and leaves the journal, a
\* rollback goes on to remove it.
RestoreMissing(from, to) ==
    /\ pc = from
    /\ file[bucket] # "visible"
    /\ Goto(to)
    /\ UNCHANGED <<diskVars, after, todo, bucket, adds, left>>

Unhide(from, to) ==
    /\ pc = from
    /\ IF left = {}
       THEN Goto(to) /\ UNCHANGED <<file, left>>
       ELSE \E r \in left :
               /\ left' = left \ {r}
               /\ file' = IF file[r] = "hidden" THEN [file EXCEPT ![r] = "visible"] ELSE file
               /\ UNCHANGED pc
    /\ UNCHANGED <<row, footage, torn, journal, after, todo, bucket, adds>>

RemoveConsumed(from, to) ==
    /\ pc = from
    /\ IF left = {}
       THEN Goto(to) /\ UNCHANGED <<file, left>>
       ELSE \E r \in left :
               /\ left' = left \ {r}
               /\ file' = IF file[r] = "hidden" THEN [file EXCEPT ![r] = "none"] ELSE file
               /\ UNCHANGED pc
    /\ UNCHANGED <<row, footage, torn, journal, after, todo, bucket, adds>>

DropJournal ==
    /\ pc = "drop"
    /\ journal' = [journal EXCEPT ![bucket] = None]
    /\ Goto(after)
    /\ UNCHANGED <<row, file, footage, torn, after, todo, bucket, adds, left>>

ReconcileStep ==
    \/ RestoreBegin("undo", "undoing")
    \/ RestoreEnd("undoing", "unhide")
    \/ RestoreMissing("undo", IF after = "append" THEN "idle" ELSE after)
    \/ Unhide("unhide", "drop")
    \/ RemoveConsumed("keep", "drop")
    \/ DropJournal

-----------------------------------------------------------------------------
(* MergeHour *)

\* The pending segments and the buckets are listed.  Only a merge writes
\* journals, so the buckets that have one can be told at once.
MergeHour ==
    /\ pc = "idle"
    /\ Pending # {}
    /\ adds' = Pending
    /\ todo' = {b \in Recordings : row[b] = "merged" /\ journal[b] # None}
    /\ Goto("scan")
    /\ UNCHANGED <<diskVars, after, bucket, left>>

ScanJournals ==
    /\ pc = "scan"
    /\ \/ /\ todo = {}
          /\ Goto("plan")
          /\ UNCHANGED <<todo, after, bucket, left>>
       \/ \E b \in todo :
             /\ todo' = todo \ {b}
             /\ \/ Reconcile(b, "scan")
                \/ ReconcileFails(b) /\ UNCHANGED <<pc, after, bucket, left>>
    /\ UNCHANGED <<diskVars, adds>>

\* The listed segments and buckets are parsed, and a group of the readable
\* segments goes onto a bucket or, two or more of them, into a new file.
PlanAppend(b, S) ==
    /\ pc = "plan"
    /\ row[b] = "merged"
    /\ b \in Readable
    /\ S # {}
    /\ S \subseteq adds \cap Readable
    /\ bucket' = b
    /\ adds' = S
    /\ Goto("append")
    /\ UNCHANGED <<diskVars, after, todo, left>>

PlanCreate(S) ==
    /\ pc = "plan"
    /\ Cardinality(S) >= 2
    /\ S \subseteq adds \cap Readable
    /\ adds' = S
    /\ Goto("create")
    /\ UNCHANGED <<diskVars, after, todo, bucket, left>>

\* Nothing readable to merge, or no room on the disk.
PlanNothing ==
    /\ pc = "plan"
    /\ Goto("idle")
    /\ UNCHANGED <<diskVars, after, todo, bucket, adds, left>>

-----------------------------------------------------------------------------
(* appendOntoBucket *)

\* It reconciles the bucket once more: a query may have failed before.
ReconcileBucket ==
    /\ pc = "append"
    /\ \/ Reconcile(bucket, "append")
       \/ ReconcileFails(bucket) /\ Goto("idle") /\ UNCHANGED <<after, bucket, left>>
    /\ UNCHANGED <<diskVars, todo, adds>>

\* Mutant: the append starts without a journal.
AppendUnjournalled ==
    /\ pc = "append"
    /\ journal[bucket] = None
    /\ bucket \in Readable
    /\ after' = "idle"
    /\ Goto("samples")
    /\ UNCHANGED <<diskVars, todo, bucket, adds, left>>

WriteJournal ==
    /\ pc = "append"
    /\ journal[bucket] = None
    /\ bucket \in Readable
    /\ journal' = [journal EXCEPT ![bucket] = [ids |-> adds, old |-> footage[bucket]]]
    /\ after' = "idle"
    /\ Goto("samples")
    /\ UNCHANGED <<row, file, footage, torn, todo, bucket, adds, left>>

\* The bucket's layout does not allow an append: it is remuxed instead.
NotAppendable ==
    /\ pc = "append"
    /\ journal[bucket] = None
    /\ bucket \in Readable
    /\ adds' = adds \cup {bucket}
    /\ Goto("create")
    /\ UNCHANGED <<diskVars, after, todo, bucket, left>>

\* The bucket cannot be read any more, no room, or the journal is not written.
AppendRefused ==
    /\ pc = "append"
    /\ journal[bucket] = None
    /\ Goto("idle")
    /\ UNCHANGED <<diskVars, after, todo, bucket, adds, left>>

\* AppendMP4Samples stages the samples of the sources and starts to overwrite.
WriteSamples ==
    /\ pc = "samples"
    /\ adds \cup {bucket} \subseteq Readable
    /\ torn' = torn \cup {bucket}
    /\ Goto("writing")
    /\ UNCHANGED <<row, file, footage, journal, after, todo, bucket, adds, left>>

\* It gives up before the first write.  The journal stays for the next pass.
SamplesRefused ==
    /\ pc = "samples"
    /\ Goto("idle")
    /\ UNCHANGED <<diskVars, after, todo, bucket, adds, left>>

\* The new moov is written and synced; an error of the sync keeps it, too, but
\* ends the merge.
WriteMoov ==
    /\ pc = "writing"
    /\ torn' = torn \ {bucket}
    /\ footage' = [footage EXCEPT ![bucket] = @ \cup FootageIn(adds)]
    /\ left' = adds
    /\ pc' \in IF SyncMayFail THEN {"hide", "idle"} ELSE {"hide"}
    /\ UNCHANGED <<row, file, journal, after, todo, bucket, adds>>

\* A write fails and AppendMP4Samples puts the old moov back.
WriteFails ==
    /\ pc = "writing"
    /\ torn' = torn \ {bucket}
    /\ Goto("idle")
    /\ UNCHANGED <<row, file, footage, journal, after, todo, bucket, adds, left>>

\* Mutant: the sources are deleted before the rows are moved.
HideByDeleting ==
    /\ pc = "hide"
    /\ \E r \in left :
          /\ file' = [file EXCEPT ![r] = "none"]
          /\ left' = left \ {r}
    /\ UNCHANGED <<row, footage, torn, journal, pc, after, todo, bucket, adds>>

\* hideConsumed renames the sources; one that is gone, or the bucket's own
\* file gone at the end, undoes the append.
HideConsumed ==
    /\ pc = "hide"
    /\ \E r \in left :
          \/ /\ file[r] = "visible"
             /\ file' = [file EXCEPT ![r] = "hidden"]
             /\ left' = left \ {r}
             /\ UNCHANGED pc
          \/ /\ file[r] = "none"
             /\ left' = adds
             /\ Goto("rollback")
             /\ UNCHANGED file
    /\ UNCHANGED <<row, footage, torn, journal, after, todo, bucket, adds>>

AllHidden ==
    /\ pc = "hide"
    /\ left = {}
    /\ IF file[bucket] = "visible"
       THEN Goto("grow") /\ UNCHANGED left
       ELSE Goto("rollback") /\ left' = adds
    /\ UNCHANGED <<diskVars, after, todo, bucket, adds>>

\* One transaction grows the bucket's row and deletes the absorbed ones.
GrowMergedRecording ==
    /\ pc = "grow"
    /\ row[bucket] # "none"
    /\ row' = With(row, adds, "none")
    /\ Goto("commit")
    /\ UNCHANGED <<file, footage, torn, journal, after, todo, bucket, adds, left>>

\* Mutant: a failed transaction is taken for a committed one.
GrowFailsUnnoticed ==
    /\ pc = "grow"
    /\ row[bucket] = "none" \/ DBMayFail
    /\ Goto("commit")
    /\ UNCHANGED <<diskVars, after, todo, bucket, adds, left>>

GrowFails ==
    /\ pc = "grow"
    /\ row[bucket] = "none" \/ DBMayFail
    /\ left' = adds
    /\ Goto("rollback")
    /\ UNCHANGED <<diskVars, after, todo, bucket, adds>>

\* The journal goes first, then the hidden sources.
CommitAppend ==
    /\ pc = "commit"
    /\ journal' = [journal EXCEPT ![bucket] = None]
    /\ left' = adds
    /\ Goto("consume")
    /\ UNCHANGED <<row, file, footage, torn, after, todo, bucket, adds>>

Rollback ==
    \/ Unhide("rollback", "rewind")
    \/ RestoreBegin("rewind", "rewinding")
    \/ RestoreEnd("rewinding", "drop")
    \/ RestoreMissing("rewind", "drop")

AppendStep ==
    \/ ReconcileBucket \/ WriteJournal \/ NotAppendable \/ AppendRefused
    \/ WriteSamples \/ SamplesRefused \/ WriteMoov \/ WriteFails
    \/ HideConsumed \/ AllHidden \/ GrowMergedRecording \/ GrowFails \/ CommitAppend
    \/ RemoveConsumed("consume", "idle")
    \/ Rollback

-----------------------------------------------------------------------------
(* writeMergedGroup and the periodic pass *)

\* The group is remuxed into a temporary file that is renamed into place, under
\* a name that was never used: it carries the time in nanoseconds.
CreateMerged(h) ==
    /\ pc = "create"
    /\ footage[h] = {}
    /\ adds \subseteq Readable
    /\ bucket' = h
    /\ file' = [file EXCEPT ![h] = "visible"]
    /\ footage' = [footage EXCEPT ![h] = FootageIn(adds)]
    /\ Goto("replace")
    /\ UNCHANGED <<row, torn, journal, after, todo, adds, left>>

CreateRefused ==
    /\ pc = "create"
    /\ Goto("idle")
    /\ UNCHANGED <<diskVars, after, todo, bucket, adds, left>>

\* Mutant: the merged row is inserted and the old ones stay.
ReplaceKeepingRows ==
    /\ pc = "replace"
    /\ row' = [row EXCEPT ![bucket] = "merged"]
    /\ left' = adds
    /\ Goto("erase")
    /\ UNCHANGED <<file, footage, torn, journal, after, todo, bucket, adds>>

\* MergeAndReplaceRecordings inserts the merged row and deletes the old ones.
MergeAndReplace ==
    /\ pc = "replace"
    /\ row' = [With(row, adds, "none") EXCEPT ![bucket] = "merged"]
    /\ left' = adds
    /\ Goto("erase")
    /\ UNCHANGED <<file, footage, torn, journal, after, todo, bucket, adds>>

ReplaceFails ==
    /\ pc = "replace"
    /\ DBMayFail
    /\ file' = [file EXCEPT ![bucket] = "none"]
    /\ Goto("idle")
    /\ UNCHANGED <<row, footage, torn, journal, after, todo, bucket, adds, left>>

DeleteSources ==
    /\ pc = "erase"
    /\ IF left = {}
       THEN Goto("idle") /\ UNCHANGED <<file, left>>
       ELSE \E r \in left :
               /\ left' = left \ {r}
               /\ file' = IF file[r] = "visible" THEN [file EXCEPT ![r] = "none"] ELSE file
               /\ UNCHANGED pc
    /\ UNCHANGED <<row, footage, torn, journal, after, todo, bucket, adds>>

\* processCamera: pending segments it cannot parse are marked failed for good,
\* a group of the others is merged into a new file.
ProcessCamera ==
    /\ PeriodicPass
    /\ pc = "idle"
    /\ Cardinality(Pending) >= MinSegments
    /\ row' = With(row, Pending \ Readable, "failed")
    /\ \/ UNCHANGED <<pc, adds>>
       \/ \E S \in SUBSET (Pending \cap Readable) :
             /\ Cardinality(S) >= MinSegments
             /\ adds' = S
             /\ Goto("create")
    /\ UNCHANGED <<file, footage, torn, journal, after, todo, bucket, left>>

\* A window's only pending segment counts as merged.
MarkSingleton ==
    /\ PeriodicPass
    /\ pc = "idle"
    /\ \E r \in Recordings :
          /\ Pending = {r}
          /\ row' = [row EXCEPT ![r] = "merged"]
    /\ UNCHANGED <<file, footage, torn, journal, mergeVars>>

RemuxStep ==
    \/ \E h \in Hours : CreateMerged(h)
    \/ CreateRefused \/ MergeAndReplace \/ ReplaceFails \/ DeleteSources

MergeStep ==
    /\ \/ MergeHour
       \/ ScanJournals
       \/ \E b \in Recordings, S \in SUBSET Recordings : PlanAppend(b, S)
       \/ \E S \in SUBSET Recordings : PlanCreate(S)
       \/ PlanNothing
       \/ ReconcileStep
       \/ AppendStep
       \/ RemuxStep
       \/ ProcessCamera
       \/ MarkSingleton
    /\ UNCHANGED <<closeVars, eraseVars, crashes>>

-----------------------------------------------------------------------------
(* Deletions *)

\* The journal of b will be undone: by the merge that is working on b, or by
\* the next reconciliation.
InFlight(b) == bucket = b /\ pc \in {"samples", "writing", "hide", "grow", "rollback", "rewind",
                                     "rewinding", "undo", "undoing", "unhide"}
Undone(b) == journal[b] # None /\ (UndoNeeded(b) \/ InFlight(b))

\* The footage a reader gets from r once pending journals are dealt with.
Recovered(r) ==
    IF Undone(r) THEN journal[r].old
    ELSE IF r \in torn THEN {} ELSE footage[r]

\* handleDeleteRecording deletes the row first ...
ApiDeleteRow(r) ==
    /\ apiFile = None
    /\ row[r] # "none"
    /\ row' = [row EXCEPT ![r] = "none"]
    /\ apiFile' = r
    /\ deleted' = deleted \cup Recovered(r)
    /\ UNCHANGED <<file, footage, torn, journal, closeVars, mergeVars, victim, unlinked, crashes>>

Unlink(r) == file' = IF file[r] = "visible" THEN [file EXCEPT ![r] = "none"] ELSE file

\* ... and then the file, which may be gone from there.
ApiDeleteFile ==
    /\ apiFile # None
    /\ Unlink(apiFile)
    /\ apiFile' = None
    /\ UNCHANGED <<row, footage, torn, journal, closeVars, mergeVars, victim, unlinked, deleted, crashes>>

\* The cleanup lists a recording, deletes its file and only then its row.
CleanupList(r) ==
    /\ victim = None
    /\ row[r] # "none"
    /\ victim' = r
    /\ unlinked' = FALSE
    /\ deleted' = deleted \cup Recovered(r)
    /\ UNCHANGED <<diskVars, closeVars, mergeVars, apiFile, crashes>>

CleanupFile ==
    /\ victim # None
    /\ ~unlinked
    /\ Unlink(victim)
    /\ unlinked' = TRUE
    /\ UNCHANGED <<row, footage, torn, journal, closeVars, mergeVars, apiFile, victim, deleted, crashes>>

CleanupRow ==
    /\ victim # None
    /\ unlinked
    /\ row' = [row EXCEPT ![victim] = "none"]
    /\ victim' = None
    /\ UNCHANGED <<file, footage, torn, journal, closeVars, mergeVars, apiFile, unlinked, deleted, crashes>>

-----------------------------------------------------------------------------
(* A crash and the start after it *)

\* Files without a row are registered before anything else runs.
Crash ==
    /\ crashes < MaxCrashes
    /\ crashes' = crashes + 1
    /\ row' = With(row, {r \in Recordings : row[r] = "none" /\ file[r] = "visible"}, "pending")
    /\ closing' = None
    /\ pc' = "idle"
    /\ after' = "idle"
    /\ todo' = {}
    /\ bucket' = None
    /\ adds' = {}
    /\ left' = {}
    /\ apiFile' = None
    /\ victim' = None
    /\ unlinked' = FALSE
    /\ UNCHANGED <<file, footage, torn, journal, fresh, deleted>>

-----------------------------------------------------------------------------
Next ==
    \/ \E s \in Segments : CloseSegment(s)
    \/ InsertRecording
    \/ MergeStep
    \/ \E r \in ApiTargets : ApiDeleteRow(r)
    \/ ApiDeleteFile
    \/ \E r \in CleanupTargets : CleanupList(r)
    \/ CleanupFile
    \/ CleanupRow
    \/ Crash

Spec == Init /\ [][Next]_vars

-----------------------------------------------------------------------------
(* Properties *)

\* Assumed beside deletions: the cleanup has no hour file in hand that an append gave
\* a new end.  What the file gained since it was listed goes with it (README).
NoVictimGrows ==
    pc \in {"hide", "grow", "rollback", "rewind", "rewinding"} => bucket # victim

\* A listed file whose end is being overwritten can be put back, after a crash
\* too: its journal is on disk and names a row that is still there, which is
\* what makes reconcileMergeJournal restore it.
TornIsJournalled ==
    \A r \in torn : row[r] # "none" /\ file[r] = "visible"
                       => journal[r] # None /\ UndoNeeded(r)

\* Footage nobody asked to delete is in a file that can be read, or in a hidden
\* one that the journal of a bucket which is still listed, or the merge that is
\* at it, will bring back.
FootageKept ==
    \A f \in (InitialHours \cup Segments) \ (fresh \cup deleted) :
        \E r \in Recordings :
            \/ file[r] = "visible" /\ f \in Recovered(r)
            \/ /\ file[r] = "hidden" /\ f \in footage[r]
               /\ \E b \in Recordings :
                     /\ Undone(b)
                     /\ r \in journal[b].ids
                     /\ row[b] # "none" \/ InFlight(b)

\* No footage is listed twice: a reader who adds up the recordings of a window
\* sees every second of it once.
FootageListedOnce ==
    \A r, q \in Recordings :
        r # q /\ row[r] # "none" /\ row[q] # "none" => Recovered(r) \cap Recovered(q) = {}

Archive == INSTANCE HourArchive WITH
    Deletable <- ApiTargets \cup CleanupTargets,
    archive <- [r \in Recordings |-> IF row[r] = "none" THEN {} ELSE Recovered(r)]

\* The files and rows, read through the pending journals, behave like an
\* archive in which a merge, appendOntoBucket's or writeMergedGroup's, is one step.
ImplementsArchive == Archive!ArchiveSpec

=============================================================================
