-------------------------- MODULE HourMergeProofs --------------------------
(***************************************************************************)
(* Theorems about HourMerge, for any sets of segments and hour files: a    *)
(* merge that is alone, whatever crashes there are, and one beside         *)
(* deletions, a periodic pass and failing queries.                         *)
(***************************************************************************)
EXTENDS HourMerge, FiniteSetTheorems, TLAPS

\* The footage in some recordings is footage of recordings.
LEMMA FootageInType == ASSUME TypeOK, NEW S \in SUBSET Recordings
                       PROVE  FootageIn(S) \subseteq Recordings
<1> SUFFICES ASSUME NEW f \in FootageIn(S) PROVE f \in Recordings
  OBVIOUS
<1>1. PICK r \in S : f \in footage[r]
  BY DEF FootageIn
<1> QED
  BY <1>1 DEF TypeOK

\* Setting a field of some recordings keeps a function's type.
LEMMA WithType == ASSUME NEW D, NEW f \in [Recordings -> D], NEW S, NEW v \in D
                  PROVE  With(f, S, v) \in [Recordings -> D]
  BY DEF With

\* Every step works on a bucket that was chosen, and on a journal that is there.
THEOREM HourTyping == Spec => []TypeOK
<1>1. Init => TypeOK
  <2> SUFFICES ASSUME Init PROVE TypeOK
    OBVIOUS
  <2>1. footage \in [Recordings -> SUBSET Recordings]
    BY HourAssumption DEF Init, Recordings
  <2>2. crashes \in 0..MaxCrashes
    BY HourBoundAssumption DEF Init
  <2>3. fresh \subseteq Segments /\ pc = "idle"
    BY DEF Init
  <2> QED
    BY <2>1, <2>2, <2>3 DEF Init, TypeOK, Steps
<1>2. TypeOK /\ [Next]_vars => TypeOK'
  <2> SUFFICES ASSUME TypeOK, [Next]_vars PROVE TypeOK'
    OBVIOUS
  <2> USE HourAssumption, HourBoundAssumption
      DEF TypeOK, Steps, Goto, diskVars, closeVars, mergeVars, eraseVars
  <2> DEFINE Rest == UNCHANGED <<closeVars, eraseVars, crashes>>
  <2>1. ASSUME NEW s \in Segments, CloseSegment(s) PROVE TypeOK'
    BY <2>1 DEF CloseSegment, Recordings
  <2>2. CASE InsertRecording
    BY <2>2 DEF InsertRecording
  <2>3. CASE MergeHour /\ Rest
    BY <2>3 DEF MergeHour, Pending
  <2>4. CASE ScanJournals /\ Rest
    BY <2>4 DEF ScanJournals, Reconcile, ReconcileFails, Journals
  <2>5. CASE (\E b \in Recordings, S \in SUBSET Recordings : PlanAppend(b, S)) /\ Rest
    BY <2>5 DEF PlanAppend
  <2>6. CASE (PlanNothing \/ \E S \in SUBSET Recordings : PlanCreate(S)) /\ Rest
    BY <2>6 DEF PlanNothing, PlanCreate
  <2>7. CASE ReconcileStep /\ Rest
    <3>1. CASE RestoreBegin("undo", "undoing")
      BY <2>7, <3>1 DEF RestoreBegin
    <3>2. CASE RestoreEnd("undoing", "unhide")
      BY <2>7, <3>2 DEF RestoreEnd, Journals
    <3>3. CASE RestoreMissing("undo", IF after = "append" THEN "idle" ELSE after)
      BY <2>7, <3>3 DEF RestoreMissing
    <3>4. CASE Unhide("unhide", "drop")
      BY <2>7, <3>4 DEF Unhide
    <3>5. CASE RemoveConsumed("keep", "drop")
      BY <2>7, <3>5 DEF RemoveConsumed
    <3>6. CASE DropJournal
      BY <2>7, <3>6 DEF DropJournal
    <3> QED
      BY <2>7, <3>1, <3>2, <3>3, <3>4, <3>5, <3>6 DEF ReconcileStep
  <2>8. CASE AppendStep /\ Rest
    <3>1. CASE ReconcileBucket
      BY <2>8, <3>1 DEF ReconcileBucket, Reconcile, ReconcileFails, Journals
    <3>2. CASE WriteJournal
      <4>1. [ids |-> adds, old |-> footage[bucket]] \in Journals
        BY <3>2 DEF WriteJournal, Journals
      <4> QED
        BY <2>8, <3>2, <4>1 DEF WriteJournal
    <3>3. CASE NotAppendable \/ AppendRefused
      BY <2>8, <3>3 DEF NotAppendable, AppendRefused
    <3>4. CASE WriteSamples \/ SamplesRefused
      BY <2>8, <3>4 DEF WriteSamples, SamplesRefused
    <3>5. CASE WriteMoov
      <4>1. footage[bucket] \cup FootageIn(adds) \in SUBSET Recordings
        BY <3>5, FootageInType DEF WriteMoov
      <4> QED
        BY <2>8, <3>5, <4>1 DEF WriteMoov
    <3>6. CASE WriteFails
      BY <2>8, <3>6 DEF WriteFails
    <3>7. CASE HideConsumed \/ AllHidden
      BY <2>8, <3>7 DEF HideConsumed, AllHidden
    <3>8. CASE GrowMergedRecording \/ GrowFails \/ CommitAppend
      BY <2>8, <3>8 DEF GrowMergedRecording, GrowFails, CommitAppend, With
    <3>9. CASE RemoveConsumed("consume", "idle")
      BY <2>8, <3>9 DEF RemoveConsumed
    <3>10. CASE Rollback
      BY <2>8, <3>10 DEF Rollback, Unhide, RestoreBegin, RestoreEnd, RestoreMissing, Journals
    <3> QED
      BY <2>8, <3>1, <3>2, <3>3, <3>4, <3>5, <3>6, <3>7, <3>8, <3>9, <3>10 DEF AppendStep
  <2>9. CASE RemuxStep /\ Rest
    <3>1. ASSUME NEW h \in Hours, CreateMerged(h) PROVE TypeOK'
      <4>1. FootageIn(adds) \in SUBSET Recordings
        BY FootageInType
      <4> QED
        BY <2>9, <3>1, <4>1 DEF CreateMerged, Recordings
    <3>2. CASE CreateRefused \/ ReplaceFails
      BY <2>9, <3>2 DEF CreateRefused, ReplaceFails
    <3>3. CASE MergeAndReplace
      <4>1. row' \in [Recordings -> {"none", "pending", "merged", "failed"}]
        BY <3>3, WithType DEF MergeAndReplace
      <4> QED
        BY <2>9, <3>3, <4>1 DEF MergeAndReplace
    <3>4. CASE DeleteSources
      BY <2>9, <3>4 DEF DeleteSources
    <3> QED
      BY <2>9, <3>1, <3>2, <3>3, <3>4 DEF RemuxStep
  <2>10. CASE (ProcessCamera \/ MarkSingleton) /\ Rest
    BY <2>10 DEF ProcessCamera, MarkSingleton, With, Pending
  <2>11. ASSUME NEW r \in Recordings, ApiDeleteRow(r) \/ CleanupList(r) PROVE TypeOK'
    <3>1. Recovered(r) \subseteq Recordings
      <4>1. journal[r] # None => journal[r].old \subseteq Recordings
        BY DEF Journals
      <4> QED
        BY <4>1 DEF Recovered, Undone
    <3>a. deleted \cup Recovered(r) \subseteq Recordings
      BY <3>1
    <3>2. CASE ApiDeleteRow(r)
      <4>1. row' \in [Recordings -> {"none", "pending", "merged", "failed"}]
        BY <3>2 DEF ApiDeleteRow
      <4> HIDE DEF TypeOK
      <4>2. deleted' \subseteq Recordings /\ apiFile' \in Recordings
        BY <3>a, <3>2 DEF ApiDeleteRow
      <4> QED
        BY <3>2, <4>1, <4>2 DEF ApiDeleteRow, TypeOK
    <3>3. CASE CleanupList(r)
      <4>1. deleted' \subseteq Recordings /\ victim' \in Recordings /\ unlinked' \in BOOLEAN
        BY <3>a, <3>3 DEF CleanupList
      <4> HIDE DEF TypeOK
      <4> QED
        BY <3>3, <4>1 DEF CleanupList, TypeOK
    <3> QED
      BY <2>11, <3>2, <3>3
  <2>12. CASE ApiDeleteFile \/ CleanupFile \/ CleanupRow
    <3>1. CASE ApiDeleteFile
      BY <3>1 DEF ApiDeleteFile, Unlink
    <3>2. CASE CleanupFile
      BY <3>2 DEF CleanupFile, Unlink
    <3>3. CASE CleanupRow
      BY <3>3 DEF CleanupRow
    <3> QED
      BY <2>12, <3>1, <3>2, <3>3
  <2>13. CASE Crash
    <3>1. row' \in [Recordings -> {"none", "pending", "merged", "failed"}]
      BY <2>13, WithType DEF Crash
    <3>2. crashes' \in 0..MaxCrashes
      BY <2>13 DEF Crash
    <3> QED
      BY <2>13, <3>1, <3>2 DEF Crash
  <2>14. CASE UNCHANGED vars
    BY <2>14 DEF vars
  <2> QED
    BY <2>1, <2>2, <2>3, <2>4, <2>5, <2>6, <2>7, <2>8, <2>9, <2>10, <2>11, <2>12, <2>13, <2>14
       DEF Next, MergeStep
<1> QED
  BY <1>1, <1>2, PTL DEF Spec

-----------------------------------------------------------------------------
(* A torn hour file can be put back *)

\* The merge is the only one that deletes rows: nothing deletes recordings, no
\* periodic pass runs beside it, and no query fails.
MergeAlone ==
    /\ ApiTargets = {}
    /\ CleanupTargets = {}
    /\ PeriodicPass = FALSE
    /\ DBMayFail = FALSE

Reconciling == {"undo", "undoing", "unhide", "keep", "drop"}
Appending   == {"samples", "writing", "hide", "grow", "rollback", "rewind", "rewinding"}
Overwriting == {"undo", "undoing", "writing", "rewinding"}
Settled     == {"plan", "append", "create", "replace", "erase", "commit", "consume"} \cup Appending

\* What the journal of a torn file promises, and where a torn file can be: only
\* among the buckets whose journal is still to be reconciled, and under the
\* merge's own hands.
TornInv ==
    /\ \A r \in torn :
          row[r] = "merged" /\ file[r] = "visible" /\ journal[r] # None /\ UndoNeeded(r)
    /\ pc # "idle" => torn \subseteq todo \cup (IF pc \in Overwriting THEN {bucket} ELSE {})

\* No bucket waits for its journal once the pass has planned what to do.
TodoInv ==
    /\ pc # "idle" => \A b \in todo : row[b] = "merged"
    /\ pc \in Settled \/ (pc \in Reconciling /\ after # "scan") => todo = {}
    /\ pc \in Reconciling => bucket \notin todo

\* The rows of what is being merged are there until the transaction, so that
\* until then a reconciliation would undo it.
AddsInv ==
    /\ pc \notin {"idle", "commit", "consume", "erase"} => \A r \in adds : row[r] # "none"
    /\ pc \notin {"idle", "commit", "consume", "erase", "create", "replace", "plan"} => adds # {}
    /\ pc \in {"undo", "undoing"} \cup Appending => UndoNeeded(bucket)
    /\ pc \in {"append"} \cup Reconciling \cup Appending => row[bucket] = "merged"

\* The recorder inserts a row only once, and a user or the cleanup is not there.
CallersInv ==
    /\ apiFile = None
    /\ victim = None
    /\ \A s \in fresh : row[s] = "none" /\ file[s] = "none"
    /\ closing # None => row[closing] = "none" /\ closing \notin fresh
    /\ pc = "replace" => bucket \in Hours

HourInv == TornInv /\ TodoInv /\ AddsInv /\ CallersInv

LEMMA HourInit == ASSUME Init PROVE HourInv
  BY HourAssumption DEF Init, HourInv, TornInv, TodoInv, AddsInv, CallersInv, Reconciling,
     Appending, Settled, Recordings

\* A step of the recorder or a crash only adds rows.
LEMMA RecorderKeepsHour ==
    ASSUME TypeOK, HourInv,
           InsertRecording \/ (\E s \in Segments : CloseSegment(s)) \/ Crash
    PROVE  HourInv'
<1> USE HourAssumption DEF TypeOK, mergeVars, eraseVars, Recordings
<1>1. ASSUME NEW s \in Segments, CloseSegment(s) PROVE HourInv'
  BY <1>1 DEF CloseSegment, HourInv, TornInv, TodoInv, AddsInv, CallersInv, UndoNeeded
<1>2. CASE InsertRecording
  <2>1. \A r \in Recordings : row[r] # "none" => row'[r] = row[r]
    BY <1>2 DEF InsertRecording, HourInv, CallersInv
  <2>2. TornInv'
    BY <1>2, <2>1 DEF InsertRecording, HourInv, TornInv, UndoNeeded, Journals
  <2>3. TodoInv' /\ CallersInv'
    BY <1>2, <2>1 DEF InsertRecording, HourInv, TodoInv, CallersInv
  <2>4. AddsInv'
    BY <1>2, <2>1 DEF InsertRecording, HourInv, AddsInv, UndoNeeded, Journals,
                      Reconciling, Appending
  <2> QED
    BY <2>2, <2>3, <2>4 DEF HourInv
<1>3. CASE Crash
  <2>1. \A r \in Recordings : row[r] # "none" => row'[r] = row[r]
    BY <1>3 DEF Crash, With
  <2>2. \A s \in fresh : row'[s] = row[s]
    BY <1>3 DEF Crash, With, HourInv, CallersInv
  <2>3. TornInv'
    BY <1>3, <2>1 DEF Crash, HourInv, TornInv, UndoNeeded, Journals
  <2>4. TodoInv' /\ AddsInv'
    BY <1>3 DEF Crash, TodoInv, AddsInv, Reconciling, Appending, Settled
  <2>5. CallersInv'
    BY <1>3, <2>2 DEF Crash, HourInv, CallersInv
  <2> QED
    BY <2>3, <2>4, <2>5 DEF HourInv
<1> QED
  BY <1>1, <1>2, <1>3

\* A pass lists every bucket that can be torn before it plans anything.
LEMMA PlanKeepsHour ==
    ASSUME TypeOK, HourInv, MergeAlone, UNCHANGED <<closeVars, eraseVars, crashes>>,
           \/ MergeHour
           \/ ScanJournals
           \/ \E b \in Recordings, S \in SUBSET Recordings : PlanAppend(b, S)
           \/ \E S \in SUBSET Recordings : PlanCreate(S)
           \/ PlanNothing
    PROVE  HourInv'
<1> USE DEF TypeOK, HourInv, CallersInv, Goto, diskVars, closeVars, eraseVars,
            Reconciling, Appending, Settled, Overwriting, UndoNeeded, Recordings
<1>1. CASE MergeHour
  BY <1>1 DEF MergeHour, Pending, TornInv, TodoInv, AddsInv
<1>2. CASE ScanJournals
  BY <1>2 DEF ScanJournals, Reconcile, ReconcileFails, MergeAlone, TornInv, TodoInv, AddsInv
<1>3. ASSUME NEW b \in Recordings, NEW S \in SUBSET Recordings, PlanAppend(b, S)
      PROVE  HourInv'
  BY <1>3 DEF PlanAppend, TornInv, TodoInv, AddsInv
<1>4. ASSUME NEW S \in SUBSET Recordings, PlanCreate(S) PROVE HourInv'
  BY <1>4 DEF PlanCreate, TornInv, TodoInv, AddsInv
<1>5. CASE PlanNothing
  BY <1>5 DEF PlanNothing, TornInv, TodoInv, AddsInv
<1> QED
  BY <1>1, <1>2, <1>3, <1>4, <1>5

\* Bringing hidden sources back, and removing them, leaves the other files alone.
LEMMA HiddenFilesOnly ==
    ASSUME TypeOK, NEW from, NEW to, Unhide(from, to) \/ RemoveConsumed(from, to)
    PROVE  \A r \in Recordings : file[r] # "hidden" => file'[r] = file[r]
<1>1. CASE Unhide(from, to)
  BY <1>1 DEF Unhide, TypeOK
<1>2. CASE RemoveConsumed(from, to)
  BY <1>2 DEF RemoveConsumed, TypeOK
<1> QED
  BY <1>1, <1>2

\* A journal goes only once its file is whole.
LEMMA ReconcileKeepsHour ==
    ASSUME TypeOK, HourInv, UNCHANGED <<closeVars, eraseVars, crashes>>, ReconcileStep
    PROVE  HourInv'
<1> USE DEF TypeOK, HourInv, CallersInv, Goto, diskVars, closeVars, eraseVars,
            Reconciling, Appending, Settled, Overwriting, UndoNeeded, Recordings
<1>1. CASE RestoreBegin("undo", "undoing")
  BY <1>1 DEF RestoreBegin, TornInv, TodoInv, AddsInv
<1>2. CASE RestoreEnd("undoing", "unhide")
  BY <1>2 DEF RestoreEnd, TornInv, TodoInv, AddsInv
<1>3. CASE RestoreMissing("undo", IF after = "append" THEN "idle" ELSE after)
  BY <1>3 DEF RestoreMissing, TornInv, TodoInv, AddsInv
<1>4. CASE Unhide("unhide", "drop")
  <2>1. \A r \in Recordings : file[r] # "hidden" => file'[r] = file[r]
    BY <1>4, HiddenFilesOnly
  <2>2. /\ pc = "unhide" /\ pc' \in {"unhide", "drop"}
        /\ UNCHANGED <<row, footage, torn, journal, after, todo, bucket, adds>>
    BY <1>4 DEF Unhide
  <2> QED
    BY <2>1, <2>2 DEF TornInv, TodoInv, AddsInv
<1>5. CASE RemoveConsumed("keep", "drop")
  <2>1. \A r \in Recordings : file[r] # "hidden" => file'[r] = file[r]
    BY <1>5, HiddenFilesOnly
  <2>2. /\ pc = "keep" /\ pc' \in {"keep", "drop"}
        /\ UNCHANGED <<row, footage, torn, journal, after, todo, bucket, adds>>
    BY <1>5 DEF RemoveConsumed
  <2> QED
    BY <2>1, <2>2 DEF TornInv, TodoInv, AddsInv
<1>6. CASE DropJournal
  BY <1>6 DEF DropJournal, TornInv, TodoInv, AddsInv
<1> QED
  BY <1>1, <1>2, <1>3, <1>4, <1>5, <1>6 DEF ReconcileStep

\* The file is overwritten only while its journal would undo that.
LEMMA AppendKeepsHour ==
    ASSUME TypeOK, HourInv, MergeAlone, UNCHANGED <<closeVars, eraseVars, crashes>>, AppendStep
    PROVE  HourInv'
<1> USE DEF TypeOK, HourInv, CallersInv, Goto, diskVars, closeVars, eraseVars,
            Reconciling, Appending, Settled, Overwriting, UndoNeeded, Recordings
<1>1. CASE ReconcileBucket
  BY <1>1 DEF ReconcileBucket, Reconcile, ReconcileFails, MergeAlone, TornInv, TodoInv, AddsInv
<1>2. CASE WriteJournal
  BY <1>2 DEF WriteJournal, TornInv, TodoInv, AddsInv
<1>3. CASE NotAppendable
  BY <1>3 DEF NotAppendable, TornInv, TodoInv, AddsInv
<1>4. CASE AppendRefused \/ SamplesRefused
  BY <1>4 DEF AppendRefused, SamplesRefused, TornInv, TodoInv, AddsInv
<1>5. CASE WriteSamples
  BY <1>5 DEF WriteSamples, Readable, TornInv, TodoInv, AddsInv
<1>6. CASE WriteMoov \/ WriteFails
  BY <1>6 DEF WriteMoov, WriteFails, TornInv, TodoInv, AddsInv
<1>7. CASE HideConsumed \/ AllHidden
  <2>1. \A r \in Recordings : file[r] = "none" => file'[r] = "none"
    BY <1>7 DEF HideConsumed, AllHidden
  <2>2. /\ pc = "hide" /\ pc' \in {"hide", "grow", "rollback"}
        /\ UNCHANGED <<row, footage, torn, journal, after, todo, bucket, adds>>
    BY <1>7 DEF HideConsumed, AllHidden
  <2>3. torn = {}
    BY <2>2 DEF TornInv, TodoInv
  <2> QED
    BY <2>1, <2>2, <2>3 DEF TornInv, TodoInv, AddsInv
<1>8. CASE GrowMergedRecording
  <2>1. torn = {} /\ todo = {}
    BY <1>8 DEF GrowMergedRecording, TornInv, TodoInv
  <2>2. \A r \in Recordings : row[r] = "none" => row'[r] = "none"
    BY <1>8 DEF GrowMergedRecording, With
  <2>3. CallersInv'
    BY <1>8, <2>2 DEF GrowMergedRecording
  <2> QED
    BY <1>8, <2>1, <2>3 DEF GrowMergedRecording, TornInv, TodoInv, AddsInv
<1>9. CASE GrowFails \/ CommitAppend
  BY <1>9 DEF GrowFails, CommitAppend, TornInv, TodoInv, AddsInv
<1>10. CASE RemoveConsumed("consume", "idle")
  <2>1. \A r \in Recordings : file[r] # "hidden" => file'[r] = file[r]
    BY <1>10, HiddenFilesOnly
  <2>2. /\ pc = "consume" /\ pc' \in {"consume", "idle"}
        /\ UNCHANGED <<row, footage, torn, journal, after, todo, bucket, adds>>
    BY <1>10 DEF RemoveConsumed
  <2> QED
    BY <2>1, <2>2 DEF TornInv, TodoInv, AddsInv
<1>11. CASE Rollback
  <2>1. CASE Unhide("rollback", "rewind")
    <3>1. \A r \in Recordings : file[r] # "hidden" => file'[r] = file[r]
      BY <2>1, HiddenFilesOnly
    <3>2. /\ pc = "rollback" /\ pc' \in {"rollback", "rewind"}
          /\ UNCHANGED <<row, footage, torn, journal, after, todo, bucket, adds>>
      BY <2>1 DEF Unhide
    <3> QED
      BY <3>1, <3>2 DEF TornInv, TodoInv, AddsInv
  <2>2. CASE RestoreBegin("rewind", "rewinding")
    BY <2>2 DEF RestoreBegin, TornInv, TodoInv, AddsInv
  <2>3. CASE RestoreEnd("rewinding", "drop")
    BY <2>3 DEF RestoreEnd, TornInv, TodoInv, AddsInv
  <2>4. CASE RestoreMissing("rewind", "drop")
    BY <2>4 DEF RestoreMissing, TornInv, TodoInv, AddsInv
  <2> QED
    BY <1>11, <2>1, <2>2, <2>3, <2>4 DEF Rollback
<1> QED
  BY <1>1, <1>2, <1>3, <1>4, <1>5, <1>6, <1>7, <1>8, <1>9, <1>10, <1>11 DEF AppendStep

\* A group is remuxed only when no file is torn.
LEMMA RemuxKeepsHour ==
    ASSUME TypeOK, HourInv, UNCHANGED <<closeVars, eraseVars, crashes>>, RemuxStep
    PROVE  HourInv'
<1> USE HourAssumption
    DEF TypeOK, HourInv, CallersInv, Goto, diskVars, closeVars, eraseVars, Recordings,
        Reconciling, Appending, Settled, Overwriting, UndoNeeded
<1>1. ASSUME NEW h \in Hours, CreateMerged(h) PROVE HourInv'
  BY <1>1 DEF CreateMerged, TornInv, TodoInv, AddsInv
<1>2. CASE CreateRefused
  BY <1>2 DEF CreateRefused, TornInv, TodoInv, AddsInv
<1>3. CASE MergeAndReplace
  BY <1>3 DEF MergeAndReplace, With, TornInv, TodoInv, AddsInv
<1>4. CASE ReplaceFails
  BY <1>4 DEF ReplaceFails, TornInv, TodoInv, AddsInv
<1>5. CASE DeleteSources
  BY <1>5 DEF DeleteSources, TornInv, TodoInv, AddsInv
<1> QED
  BY <1>1, <1>2, <1>3, <1>4, <1>5 DEF RemuxStep

LEMMA HourStep == ASSUME TypeOK, HourInv, MergeAlone, [Next]_vars PROVE HourInv'
<1>1. CASE InsertRecording \/ (\E s \in Segments : CloseSegment(s)) \/ Crash
  BY <1>1, RecorderKeepsHour
<1>2. CASE MergeStep
  BY <1>2, PlanKeepsHour, ReconcileKeepsHour, AppendKeepsHour, RemuxKeepsHour
     DEF MergeStep, MergeAlone, ProcessCamera, MarkSingleton
<1>3. ~ \E r \in ApiTargets \cup CleanupTargets : TRUE
  BY DEF MergeAlone
<1>4. ~ (ApiDeleteFile \/ CleanupFile \/ CleanupRow)
  BY DEF ApiDeleteFile, CleanupFile, CleanupRow, HourInv, CallersInv
<1>5. CASE UNCHANGED vars
  BY <1>5 DEF vars, diskVars, closeVars, mergeVars, eraseVars, HourInv, TornInv, TodoInv,
              AddsInv, CallersInv, UndoNeeded
<1> QED
  BY <1>1, <1>2, <1>3, <1>4, <1>5 DEF Next

\* A merge that is alone never leaves a listed hour file torn without the journal
\* that restores it, wherever the process crashes.
THEOREM TornFilesAreJournalled == ASSUME MergeAlone PROVE Spec => []TornIsJournalled
<1>1. Init => HourInv
  BY HourInit
<1>2. TypeOK /\ HourInv /\ [Next]_vars => HourInv'
  BY HourStep
<1>3. HourInv => TornIsJournalled
  BY DEF HourInv, TornInv, TornIsJournalled
<1> QED
  BY <1>1, <1>2, <1>3, HourTyping, PTL DEF Spec

-----------------------------------------------------------------------------
(* No footage is lost *)

\* A recording with a row has a file, and no file is empty.  What the recorder
\* has not registered yet has no row.
FileInv ==
    /\ \A r \in Recordings : row[r] # "none" \/ file[r] # "none" => footage[r] # {}
    /\ \A r \in Recordings : row[r] # "none" => file[r] # "none"
    /\ \A s \in fresh : footage[s] = {} /\ s \notin adds
    /\ closing # None => file[closing] = "visible" /\ closing \notin adds
    /\ deleted = {}

\* There is at most one journal, beside a listed hour file, and the merge that
\* runs has it in hand or is going to reconcile it.
JournalInv ==
    /\ \A b, c \in Recordings : journal[b] # None /\ journal[c] # None => b = c
    /\ \A b \in Recordings : journal[b] # None =>
          /\ row[b] = "merged" /\ file[b] = "visible"
          /\ journal[b].old # {} /\ journal[b].old \subseteq footage[b]
          /\ journal[b].ids # {}
          /\ pc = "idle" \/ b \in todo \/ (bucket = b /\ pc \in Reconciling \cup Appending \cup {"commit"})

\* A journal names rows that are all there, or its hour file holds everything
\* the absorbed segments held and no player sees them any more.
UndoInv ==
    \A b \in Recordings : journal[b] # None =>
       \/ \A r \in journal[b].ids : row[r] = "pending"
       \/ /\ b \notin torn
          /\ footage[b] = journal[b].old \cup FootageIn(journal[b].ids)
          /\ \A r \in journal[b].ids :
                row[r] = "none" /\ file[r] # "visible" /\ footage[r] # {} /\ b # r

\* What a merge is about to absorb: pending rows whose files are there.
SourcesInv ==
    /\ pc \in {"scan", "plan", "append"} \cup Reconciling \cup Appending => \A r \in adds : row[r] = "pending"
    /\ pc \in {"append", "create", "samples", "writing"} => adds # {} /\ \A r \in adds : file[r] = "visible"
    /\ pc \in {"append", "hide", "grow"} => file[bucket] = "visible"
    /\ pc \in Appending \cup {"commit"} => journal[bucket] # None /\ journal[bucket].ids = adds
    /\ pc = "hide" => left \subseteq adds /\ \A r \in adds : file[r] = IF r \in left THEN "visible" ELSE "hidden"
    /\ pc = "grow" => \A r \in adds : file[r] = "hidden"

\* What it has absorbed: the hour file holds it before any source goes.
AbsorbedInv ==
    /\ pc \in {"samples", "writing"} => footage[bucket] = journal[bucket].old
    /\ pc \in {"hide", "grow"} => footage[bucket] = journal[bucket].old \cup FootageIn(adds)
    /\ pc \in {"commit", "consume", "erase"} => \A r \in adds : row[r] = "none"
    /\ pc \in {"consume", "replace", "erase"} =>
          /\ bucket \notin adds
          /\ file[bucket] = "visible"
          /\ FootageIn(adds) \subseteq footage[bucket]
    /\ pc \in {"consume", "erase"} => left \subseteq adds
    /\ pc = "replace" => row[bucket] = "none"

\* How far a reconciliation has come; an append that is alone is never rolled back.
ReconcileInv ==
    /\ pc \notin {"rollback", "rewind", "rewinding"}
    /\ pc \in Reconciling => after = "scan"
    /\ pc \in {"undo", "undoing"} => left = journal[bucket].ids
    /\ pc \in {"unhide", "drop"} => bucket \notin torn /\ journal[bucket] # None
    /\ pc = "unhide" => /\ footage[bucket] = journal[bucket].old
                        /\ \A r \in journal[bucket].ids \ left : file[r] = "visible"
                        /\ UndoNeeded(bucket)
    /\ pc = "drop" /\ UndoNeeded(bucket) => /\ footage[bucket] = journal[bucket].old
                                            /\ \A r \in journal[bucket].ids : file[r] = "visible"
    /\ pc = "keep" => ~UndoNeeded(bucket)
    /\ pc \in {"unhide", "keep"} => left \subseteq journal[bucket].ids

KeepInv == FileInv /\ JournalInv /\ UndoInv /\ SourcesInv /\ AbsorbedInv /\ ReconcileInv

\* Undoing is due exactly while the rows of the absorbed segments are there.
LEMMA UndoneIsNeeded ==
    ASSUME KeepInv, AddsInv, TypeOK, NEW b \in Recordings PROVE Undone(b) <=> journal[b] # None /\ UndoNeeded(b)
  BY DEF KeepInv, ReconcileInv, AddsInv, Undone, InFlight, Appending

\* The program starts with merged hour files only and no work in hand.
LEMMA KeepInit == ASSUME Init PROVE KeepInv
  BY HourAssumption DEF Init, KeepInv, FileInv, JournalInv, UndoInv, SourcesInv, AbsorbedInv,
     ReconcileInv, Reconciling, Appending, Recordings, UndoNeeded

\* The recorder and a crash add rows only for visible files.
LEMMA RecorderKeepsFiles ==
    ASSUME TypeOK, HourInv, KeepInv,
           InsertRecording \/ (\E s \in Segments : CloseSegment(s)) \/ Crash
    PROVE  KeepInv'
<1> USE HourAssumption DEF TypeOK, mergeVars, eraseVars, Recordings
<1> USE DEF KeepInv, Reconciling, Appending
<1>1. ASSUME NEW s \in Segments, CloseSegment(s) PROVE KeepInv'
  <2>1. /\ s \in Recordings /\ row[s] = "none" /\ file[s] = "none" /\ footage[s] = {}
        /\ s \notin adds
    BY <1>1 DEF CloseSegment, HourInv, CallersInv, FileInv
  <2>2. \A S \in SUBSET Recordings : s \notin S => FootageIn(S)' = FootageIn(S)
    BY <1>1 DEF CloseSegment, FootageIn
  <2>3. FileInv'
    BY <1>1, <2>1 DEF CloseSegment, FileInv
  <2>4. JournalInv'
    BY <1>1, <2>1 DEF CloseSegment, JournalInv
  <2>5. UndoInv'
    BY <1>1, <2>1, <2>2 DEF CloseSegment, UndoInv, Journals, JournalInv
  <2>a. /\ \A r \in Recordings : r # s => file'[r] = file[r] /\ footage'[r] = footage[r]
        /\ UNCHANGED <<row, torn, journal, pc, after, todo, bucket, adds, left>>
    BY <1>1 DEF CloseSegment
  <2>6. SourcesInv'
    <3>1. pc \in {"append", "create", "samples", "writing", "hide", "grow"} => s \notin adds
      BY <2>1 DEF SourcesInv
    <3>2. pc \in {"append", "hide", "grow"} => bucket \in Recordings \ {s}
      BY <2>1 DEF SourcesInv
    <3> QED
      BY <2>a, <3>1, <3>2 DEF SourcesInv
  <2>7. AbsorbedInv'
    <3>1. pc \in {"samples", "writing", "hide", "grow", "consume", "replace", "erase"} => bucket \in Recordings \ {s}
      BY <2>1 DEF AbsorbedInv, SourcesInv, JournalInv
    <3>2. FootageIn(adds)' = FootageIn(adds)
      BY <2>1, <2>a DEF FootageIn
    <3> HIDE DEF TypeOK, KeepInv
    <3>3. AbsorbedInv
      BY DEF KeepInv
    <3> QED
      BY <2>1, <2>a, <3>1, <3>2, <3>3 DEF AbsorbedInv
  <2>8. ReconcileInv'
    <3>1. \A b \in Recordings : journal[b] # None => b # s /\ UndoNeeded(b)' = UndoNeeded(b)
      BY <2>1, <2>a DEF JournalInv, UndoNeeded
    <3>2. pc \in {"unhide", "drop"} /\ UndoNeeded(bucket) => s \notin journal[bucket].ids
      BY <2>1 DEF ReconcileInv, UndoNeeded, UndoInv
    <3> QED
      BY <2>a, <3>1, <3>2 DEF ReconcileInv, Journals
  <2> QED
    BY <2>3, <2>4, <2>5, <2>6, <2>7, <2>8
<1>2. CASE InsertRecording
  <2>1. \A r \in Recordings : r # closing => row'[r] = row[r]
    BY <1>2 DEF InsertRecording
  <2>2. /\ closing \in Recordings /\ row[closing] = "none" /\ file[closing] = "visible"
        /\ row'[closing] \in {"none", "pending"}
    BY <1>2 DEF InsertRecording, HourInv, CallersInv, FileInv
  <2>0. \A S : FootageIn(S)' = FootageIn(S)
    BY <1>2 DEF InsertRecording, FootageIn
  <2>3. FileInv'
    BY <1>2, <2>1, <2>2 DEF InsertRecording, FileInv
  <2>4. JournalInv'
    BY <1>2, <2>1, <2>2 DEF InsertRecording, JournalInv
  <2>5. UndoInv'
    BY <1>2, <2>0, <2>1, <2>2 DEF InsertRecording, UndoInv, Journals
  <2>6. SourcesInv'
    BY <1>2, <2>1, <2>2 DEF InsertRecording, SourcesInv
  <2>7. AbsorbedInv'
    <3>1. closing \notin adds
      BY <1>2 DEF InsertRecording, FileInv
    <3>2. pc = "replace" => bucket # closing
      BY <1>2 DEF InsertRecording, HourInv, CallersInv
    <3> QED
      BY <1>2, <2>0, <2>1, <3>1, <3>2 DEF InsertRecording, AbsorbedInv
  <2>8. ReconcileInv'
    <3>1. \A b \in Recordings : journal[b] # None => closing \notin journal[b].ids
      BY <2>2 DEF UndoInv
    <3>2. \A b \in Recordings : journal[b] # None => UndoNeeded(b)' = UndoNeeded(b)
      BY <1>2, <2>1, <3>1 DEF InsertRecording, UndoNeeded, Journals
    <3> QED
      BY <1>2, <2>1, <3>2 DEF InsertRecording, ReconcileInv
  <2> QED
    BY <2>3, <2>4, <2>5, <2>6, <2>7, <2>8
<1>3. CASE Crash
  <2>1. \A r \in Recordings : row[r] # "none" \/ file[r] # "visible" => row'[r] = row[r]
    BY <1>3 DEF Crash, With
  <2>2. \A r \in Recordings : row'[r] # "none" => row[r] # "none" \/ file[r] = "visible"
    BY <1>3, <2>1
  <2>3. FileInv'
    BY <1>3, <2>1, <2>2 DEF Crash, FileInv
  <2>4. JournalInv'
    BY <1>3, <2>1, <2>2 DEF Crash, JournalInv
  <2>5. UndoInv'
    BY <1>3, <2>1, <2>2 DEF Crash, UndoInv, FootageIn, Journals
  <2>6. SourcesInv' /\ AbsorbedInv' /\ ReconcileInv'
    BY <1>3 DEF Crash, SourcesInv, AbsorbedInv, ReconcileInv, Reconciling, Appending
  <2> QED
    BY <2>3, <2>4, <2>5, <2>6
<1> QED
  BY <1>1, <1>2, <1>3

\* Nothing is read or planned before the journals are dealt with.
LEMMA PlanKeepsFiles ==
    ASSUME TypeOK, HourInv, KeepInv, MergeAlone, UNCHANGED <<closeVars, eraseVars, crashes>>,
           \/ MergeHour
           \/ ScanJournals
           \/ \E b \in Recordings, S \in SUBSET Recordings : PlanAppend(b, S)
           \/ \E S \in SUBSET Recordings : PlanCreate(S)
           \/ PlanNothing
    PROVE  KeepInv'
<1> USE DEF TypeOK, Goto, diskVars, closeVars, eraseVars, Recordings, KeepInv, Reconciling,
            Appending, FootageIn, UndoNeeded
<1>0. FileInv' /\ UndoInv'
  <2>1. UNCHANGED <<row, file, footage, torn, journal>>
    BY DEF MergeHour, ScanJournals, PlanAppend, PlanCreate, PlanNothing
  <2>2. (\A s \in fresh : s \notin adds') /\ (closing # None => closing \notin adds')
    BY DEF MergeHour, ScanJournals, PlanAppend, PlanCreate, PlanNothing, FileInv, Pending,
           HourInv, CallersInv
  <2> QED
    BY <2>1, <2>2 DEF FileInv, UndoInv
<1>1. CASE MergeHour
  <2>1. JournalInv'
    BY <1>1 DEF MergeHour, JournalInv
  <2>2. SourcesInv'
    BY <1>1 DEF MergeHour, SourcesInv, Pending
  <2>3. AbsorbedInv' /\ ReconcileInv'
    BY <1>1 DEF MergeHour, AbsorbedInv, ReconcileInv
  <2> QED
    BY <1>0, <2>1, <2>2, <2>3
<1>2. CASE ScanJournals
  <2>1. JournalInv'
    BY <1>2 DEF ScanJournals, Reconcile, ReconcileFails, MergeAlone, JournalInv, HourInv, TodoInv
  <2>2. SourcesInv'
    BY <1>2 DEF ScanJournals, Reconcile, ReconcileFails, MergeAlone, SourcesInv
  <2>3. AbsorbedInv'
    BY <1>2 DEF ScanJournals, Reconcile, ReconcileFails, MergeAlone, AbsorbedInv
  <2>4. ReconcileInv'
    BY <1>2 DEF ScanJournals, Reconcile, ReconcileFails, MergeAlone, ReconcileInv
  <2> QED
    BY <1>0, <2>1, <2>2, <2>3, <2>4
<1>3. ASSUME NEW b \in Recordings, NEW S \in SUBSET Recordings, PlanAppend(b, S)
      PROVE  KeepInv'
  <2>1. JournalInv'
    BY <1>3 DEF PlanAppend, JournalInv, HourInv, TodoInv, Settled
  <2>2. SourcesInv'
    BY <1>3 DEF PlanAppend, SourcesInv, Readable
  <2>3. AbsorbedInv' /\ ReconcileInv'
    BY <1>3 DEF PlanAppend, AbsorbedInv, ReconcileInv
  <2> QED
    BY <1>0, <2>1, <2>2, <2>3
<1>4. ASSUME NEW S \in SUBSET Recordings, PlanCreate(S) PROVE KeepInv'
  <2>0. S # {}
    <3>1. S = {} => Cardinality(S) = 0
      BY FS_EmptySet
    <3> QED
      BY <1>4, <3>1 DEF PlanCreate
  <2>1. JournalInv'
    BY <1>4 DEF PlanCreate, JournalInv, HourInv, TodoInv, Settled
  <2>2. SourcesInv'
    BY <1>4, <2>0 DEF PlanCreate, SourcesInv, Readable
  <2>3. AbsorbedInv' /\ ReconcileInv'
    BY <1>4 DEF PlanCreate, AbsorbedInv, ReconcileInv
  <2> QED
    BY <1>0, <2>1, <2>2, <2>3
<1>5. CASE PlanNothing
  <2>1. JournalInv'
    BY <1>5 DEF PlanNothing, JournalInv, HourInv, TodoInv, Settled
  <2>3. SourcesInv' /\ AbsorbedInv' /\ ReconcileInv'
    BY <1>5 DEF PlanNothing, SourcesInv, AbsorbedInv, ReconcileInv
  <2> QED
    BY <1>0, <2>1, <2>3
<1> QED
  BY <1>1, <1>2, <1>3, <1>4, <1>5

\* A file loses its journal only once it holds what the rows say.
LEMMA ReconcileKeepsFiles ==
    ASSUME TypeOK, HourInv, KeepInv, UNCHANGED <<closeVars, eraseVars, crashes>>, ReconcileStep
    PROVE  KeepInv'
<1> USE DEF TypeOK, Goto, diskVars, closeVars, eraseVars, Recordings, KeepInv, Reconciling,
            Appending
<1>1. CASE RestoreBegin("undo", "undoing")
  <2>1. UndoNeeded(bucket)
    BY <1>1 DEF RestoreBegin, HourInv, AddsInv
  <2>2. FileInv' /\ JournalInv'
    BY <1>1 DEF RestoreBegin, FileInv, JournalInv
  <2>3. UndoInv'
    BY <1>1, <2>1 DEF RestoreBegin, UndoInv, FootageIn, UndoNeeded, Journals
  <2>4. SourcesInv' /\ AbsorbedInv' /\ ReconcileInv'
    BY <1>1 DEF RestoreBegin, SourcesInv, AbsorbedInv, ReconcileInv
  <2> QED
    BY <2>2, <2>3, <2>4
<1>2. CASE RestoreEnd("undoing", "unhide")
  <2>1. UndoNeeded(bucket) /\ journal[bucket] # None /\ journal[bucket].old # {}
    BY <1>2 DEF RestoreEnd, HourInv, AddsInv, JournalInv
  <2>2. FileInv' /\ JournalInv'
    BY <1>2, <2>1 DEF RestoreEnd, FileInv, JournalInv
  <2>3. UndoInv'
    BY <1>2, <2>1 DEF RestoreEnd, UndoInv, JournalInv, UndoNeeded, Journals
  <2>4. SourcesInv'
    BY <1>2 DEF RestoreEnd, SourcesInv
  <2>5. AbsorbedInv'
    <3>1. pc' = "unhide"
      BY <1>2 DEF RestoreEnd
    <3> HIDE DEF TypeOK, KeepInv
    <3> QED
      BY <3>1 DEF AbsorbedInv
  <2>6. ReconcileInv'
    BY <1>2, <2>1 DEF RestoreEnd, ReconcileInv, UndoNeeded
  <2> QED
    BY <2>2, <2>3, <2>4, <2>5, <2>6
<1>3. CASE RestoreMissing("undo", IF after = "append" THEN "idle" ELSE after)
  BY <1>3 DEF RestoreMissing, JournalInv
<1>4. CASE Unhide("unhide", "drop")
  <2>1. /\ pc = "unhide" /\ pc' \in {"unhide", "drop"}
        /\ left' \subseteq left /\ (pc' = "drop" => left = {})
        /\ UNCHANGED <<row, footage, torn, journal, after, todo, bucket, adds>>
    BY <1>4 DEF Unhide
  <2>2. \A r \in Recordings : /\ file'[r] = file[r] \/ (file[r] = "hidden" /\ file'[r] = "visible")
                              /\ r \in left \ left' => file'[r] # "hidden"
    BY <1>4 DEF Unhide
  <2>3. /\ UndoNeeded(bucket) /\ journal[bucket] # None
        /\ \A r \in journal[bucket].ids : r \in Recordings /\ row[r] = "pending"
    BY <2>1 DEF ReconcileInv, UndoInv, UndoNeeded, Journals
  <2>4. FileInv' /\ JournalInv'
    BY <2>1, <2>2 DEF FileInv, JournalInv
  <2>5. UndoInv'
    BY <2>1, <2>3 DEF UndoInv, JournalInv
  <2>6. SourcesInv' /\ AbsorbedInv'
    BY <2>1 DEF SourcesInv, AbsorbedInv
  <2>7. ReconcileInv'
    BY <2>1, <2>2, <2>3 DEF ReconcileInv, UndoNeeded, FileInv
  <2> QED
    BY <2>4, <2>5, <2>6, <2>7
<1>5. CASE RemoveConsumed("keep", "drop")
  <2>1. /\ pc = "keep" /\ pc' \in {"keep", "drop"} /\ left' \subseteq left
        /\ UNCHANGED <<row, footage, torn, journal, after, todo, bucket, adds>>
    BY <1>5 DEF RemoveConsumed
  <2>2. \A r \in Recordings :
           file'[r] = file[r] \/ (r \in left /\ file[r] = "hidden" /\ file'[r] = "none")
    BY <1>5 DEF RemoveConsumed
  <2>3. /\ ~UndoNeeded(bucket) /\ journal[bucket] # None
        /\ \A r \in left : row[r] = "none" /\ footage[r] # {}
    BY <2>1 DEF ReconcileInv, UndoNeeded, UndoInv, JournalInv, Journals
  <2>4. FileInv'
    BY <2>1, <2>2, <2>3 DEF FileInv
  <2>5. JournalInv'
    BY <2>1, <2>2 DEF JournalInv
  <2>6. UndoInv'
    BY <2>1, <2>2 DEF UndoInv, FootageIn, Journals
  <2>7. SourcesInv' /\ AbsorbedInv'
    BY <2>1 DEF SourcesInv, AbsorbedInv
  <2>8. ReconcileInv'
    BY <2>1, <2>3 DEF ReconcileInv, UndoNeeded, HourInv, TornInv
  <2> QED
    BY <2>4, <2>5, <2>6, <2>7, <2>8
<1>6. CASE DropJournal
  <2>1. FileInv' /\ JournalInv'
    BY <1>6 DEF DropJournal, FileInv, JournalInv
  <2>3. UndoInv'
    BY <1>6 DEF DropJournal, UndoInv, FootageIn
  <2>4. SourcesInv' /\ AbsorbedInv' /\ ReconcileInv'
    BY <1>6 DEF DropJournal, SourcesInv, AbsorbedInv, ReconcileInv
  <2> QED
    BY <2>1, <2>3, <2>4
<1> QED
  BY <1>1, <1>2, <1>3, <1>4, <1>5, <1>6 DEF ReconcileStep

\* Removing hidden files leaves what an append has read and written alone.
LEMMA AppendKeepsFiles ==
    ASSUME TypeOK, HourInv, KeepInv, MergeAlone, UNCHANGED <<closeVars, eraseVars, crashes>>,
           AppendStep
    PROVE  KeepInv'
<1> USE DEF TypeOK, Goto, diskVars, closeVars, eraseVars, Recordings, KeepInv, Reconciling,
            Appending
<1>0. pc = "append" => todo = {} /\ \A b \in Recordings : journal[b] = None
  BY DEF HourInv, TodoInv, Settled, JournalInv
<1>1. CASE ReconcileBucket
  BY <1>0, <1>1 DEF ReconcileBucket, Reconcile, ReconcileFails
<1>2. CASE WriteJournal
  <2>0. adds # {} /\ footage[bucket] # {} /\ row[bucket] = "merged" /\ file[bucket] = "visible"
    BY <1>2 DEF WriteJournal, SourcesInv, FileInv, HourInv, AddsInv
  <2>1. /\ pc' = "samples" /\ journal'[bucket] = [ids |-> adds, old |-> footage[bucket]]
        /\ journal'[bucket] # None
        /\ \A b \in Recordings \ {bucket} : journal'[b] = None
        /\ UNCHANGED <<row, file, footage, torn, todo, bucket, adds, left>>
    BY <1>0, <1>2, HourAssumption DEF WriteJournal, Journals
  <2>2. FileInv'
    BY <2>1 DEF FileInv
  <2>3. JournalInv'
    BY <2>0, <2>1 DEF JournalInv
  <2>4. SourcesInv'
    BY <1>2, <2>1 DEF SourcesInv, WriteJournal
  <2>5. UndoInv'
    BY <2>1, <2>4 DEF UndoInv, SourcesInv
  <2>6. AbsorbedInv' /\ ReconcileInv'
    BY <2>1 DEF AbsorbedInv, ReconcileInv
  <2> QED
    BY <2>2, <2>3, <2>4, <2>5, <2>6
<1>3. CASE NotAppendable
  <2>1. FileInv'
    BY <1>3 DEF NotAppendable, FileInv, HourInv, AddsInv, CallersInv
  <2>2. JournalInv' /\ UndoInv'
    BY <1>0, <1>3 DEF NotAppendable, JournalInv, UndoInv
  <2>3. SourcesInv'
    BY <1>3 DEF NotAppendable, SourcesInv
  <2>4. AbsorbedInv' /\ ReconcileInv'
    BY <1>3 DEF NotAppendable, AbsorbedInv, ReconcileInv
  <2> QED
    BY <2>1, <2>2, <2>3, <2>4
<1>4. CASE AppendRefused \/ SamplesRefused \/ WriteFails
  <2>1. /\ pc' = "idle"
        /\ UNCHANGED <<row, file, footage, journal, after, todo, bucket, adds, left>>
        /\ torn' \subseteq torn
    BY <1>4 DEF AppendRefused, SamplesRefused, WriteFails
  <2>2. FileInv' /\ JournalInv'
    BY <2>1 DEF FileInv, JournalInv
  <2>3. UndoInv'
    BY <2>1 DEF UndoInv, FootageIn
  <2>4. SourcesInv' /\ AbsorbedInv' /\ ReconcileInv'
    BY <2>1 DEF SourcesInv, AbsorbedInv, ReconcileInv
  <2> QED
    BY <2>2, <2>3, <2>4
<1>5. CASE WriteSamples
  <2>1. /\ pc = "samples" /\ pc' = "writing" /\ torn' = torn \cup {bucket} /\ journal[bucket] # None
        /\ UNCHANGED <<row, file, footage, journal, after, todo, bucket, adds, left>>
        /\ UndoNeeded(bucket)
    BY <1>5 DEF WriteSamples, HourInv, AddsInv
  <2>2. FileInv'
    BY <2>1 DEF FileInv
  <2>3. JournalInv'
    BY <1>5, <2>1 DEF JournalInv, WriteSamples
  <2>4. SourcesInv'
    BY <1>5, <2>1 DEF SourcesInv, WriteSamples
  <2>a. /\ journal[bucket].ids = adds /\ \A r \in adds : row[r] = "pending"
        /\ \A b \in Recordings : journal[b] # None => b = bucket
    BY <1>5, <2>1 DEF JournalInv, SourcesInv, WriteSamples
  <2>5. UndoInv'
    BY <2>1, <2>a DEF UndoInv
  <2>6. AbsorbedInv' /\ ReconcileInv'
    BY <2>1 DEF AbsorbedInv, ReconcileInv
  <2> QED
    BY <2>2, <2>3, <2>4, <2>5, <2>6
<1>6. CASE WriteMoov
  <2>1. /\ pc = "writing" /\ pc' \in {"hide", "idle"} /\ torn' = torn \ {bucket} /\ left' = adds
        /\ UNCHANGED <<row, file, journal, after, todo, bucket, adds>>
        /\ \A r \in Recordings \ {bucket} : footage'[r] = footage[r]
        /\ footage'[bucket] = footage[bucket] \cup FootageIn(adds)
    BY <1>6 DEF WriteMoov
  <2>2. /\ journal[bucket] # None /\ journal[bucket].ids = adds /\ bucket \notin adds
        /\ row[bucket] = "merged" /\ file[bucket] = "visible" /\ adds # {}
        /\ \A r \in adds : row[r] = "pending" /\ file[r] = "visible"
        /\ \A b \in Recordings : journal[b] # None => b = bucket
    BY <2>1 DEF SourcesInv, JournalInv
  <2>3. FootageIn(adds)' = FootageIn(adds)
    <3>1. \A r \in adds : footage'[r] = footage[r]
      BY <2>1, <2>2
    <3> QED
      BY <2>1, <3>1 DEF FootageIn
  <2>4. FileInv'
    BY <2>1, <2>2 DEF FileInv, HourInv, CallersInv
  <2>5. JournalInv'
    BY <2>1, <2>2 DEF JournalInv
  <2>6. UndoInv'
    BY <2>1, <2>2 DEF UndoInv
  <2>7. SourcesInv'
    BY <2>1, <2>2 DEF SourcesInv
  <2>8. AbsorbedInv'
    BY <2>1, <2>2, <2>3 DEF AbsorbedInv
  <2>9. ReconcileInv'
    BY <2>1 DEF ReconcileInv
  <2> QED
    BY <2>4, <2>5, <2>6, <2>7, <2>8, <2>9
<1>7. CASE HideConsumed \/ AllHidden
  <2>1. /\ pc = "hide"
        /\ UNCHANGED <<row, footage, torn, journal, after, todo, bucket, adds>>
    BY <1>7 DEF HideConsumed, AllHidden
  <2>2. /\ journal[bucket] # None /\ journal[bucket].ids = adds /\ bucket \notin adds
        /\ row[bucket] = "merged" /\ file[bucket] = "visible" /\ left \subseteq adds
        /\ \A r \in adds : row[r] = "pending" /\ file[r] = IF r \in left THEN "visible" ELSE "hidden"
    BY <2>1 DEF SourcesInv, JournalInv
  <2>3. \/ pc' = "grow" /\ left = {} /\ UNCHANGED <<file, left>>
        \/ \E r \in left : pc' = "hide" /\ file' = [file EXCEPT ![r] = "hidden"] /\ left' = left \ {r}
    BY <1>7, <2>2 DEF HideConsumed, AllHidden
  <2>4. \A r \in Recordings : file'[r] = file[r] \/ (file'[r] = "hidden" /\ r \in adds)
    BY <2>2, <2>3
  <2>5. FileInv'
    BY <2>1, <2>4 DEF FileInv, HourInv, CallersInv, SourcesInv
  <2>6. JournalInv'
    BY <2>1, <2>2, <2>3, <2>4 DEF JournalInv
  <2>7. UndoInv'
    BY <2>1, <2>2 DEF UndoInv, JournalInv
  <2>8. SourcesInv'
    BY <2>1, <2>2, <2>3 DEF SourcesInv
  <2>9. AbsorbedInv' /\ ReconcileInv'
    BY <2>1, <2>3 DEF AbsorbedInv, ReconcileInv, FootageIn
  <2> QED
    BY <2>5, <2>6, <2>7, <2>8, <2>9
<1>8. CASE GrowMergedRecording
  <2>1. /\ pc = "grow" /\ pc' = "commit"
        /\ UNCHANGED <<file, footage, torn, journal, after, todo, bucket, adds, left>>
        /\ \A r \in Recordings : row'[r] = IF r \in adds THEN "none" ELSE row[r]
    BY <1>8 DEF GrowMergedRecording, With
  <2>2. /\ journal[bucket] # None /\ journal[bucket].ids = adds /\ bucket \notin adds
        /\ row[bucket] = "merged" /\ file[bucket] = "visible"
        /\ \A r \in adds : row[r] = "pending" /\ file[r] = "hidden"
        /\ footage[bucket] = journal[bucket].old \cup FootageIn(adds)
        /\ \A b \in Recordings : journal[b] # None => b = bucket
    BY <2>1 DEF SourcesInv, JournalInv, AbsorbedInv
  <2>3. bucket \notin torn
    BY <2>1, <2>2 DEF HourInv, TornInv, TodoInv, Settled, Overwriting
  <2>4. FileInv'
    BY <2>1 DEF FileInv
  <2>5. JournalInv'
    BY <2>1, <2>2 DEF JournalInv
  <2>6. UndoInv'
    BY <2>1, <2>2, <2>3 DEF UndoInv, FileInv, FootageIn
  <2>7. SourcesInv'
    BY <2>1, <2>2 DEF SourcesInv
  <2>8. AbsorbedInv' /\ ReconcileInv'
    BY <2>1 DEF AbsorbedInv, ReconcileInv
  <2> QED
    BY <2>4, <2>5, <2>6, <2>7, <2>8
<1>9. CASE GrowFails
  BY <1>9 DEF GrowFails, MergeAlone, HourInv, AddsInv
<1>10. CASE CommitAppend
  <2>1. /\ pc = "commit" /\ pc' = "consume" /\ left' = adds
        /\ UNCHANGED <<row, file, footage, torn, after, todo, bucket, adds>>
        /\ \A b \in Recordings : journal'[b] = None
    BY <1>10 DEF CommitAppend, SourcesInv, JournalInv
  <2>2. /\ journal[bucket] # None /\ journal[bucket].ids = adds /\ file[bucket] = "visible"
        /\ row[bucket] = "merged" /\ adds # {} /\ \A r \in adds : row[r] = "none"
        /\ footage[bucket] = journal[bucket].old \cup FootageIn(adds)
    BY <2>1 DEF SourcesInv, JournalInv, AbsorbedInv, UndoInv
  <2>3. FootageIn(adds)' = FootageIn(adds)
    BY <2>1 DEF FootageIn
  <2>4. FileInv' /\ JournalInv' /\ UndoInv'
    BY <2>1 DEF FileInv, JournalInv, UndoInv
  <2>5. SourcesInv' /\ ReconcileInv'
    BY <2>1 DEF SourcesInv, ReconcileInv
  <2>6. AbsorbedInv'
    BY <2>1, <2>2, <2>3 DEF AbsorbedInv
  <2> QED
    BY <2>4, <2>5, <2>6
<1>11. CASE RemoveConsumed("consume", "idle")
  <2>1. /\ pc = "consume" /\ pc' \in {"consume", "idle"} /\ left' \subseteq left
        /\ UNCHANGED <<row, footage, torn, journal, after, todo, bucket, adds>>
        /\ \A b \in Recordings : journal[b] = None
    BY <1>11 DEF RemoveConsumed, JournalInv, HourInv, TodoInv, Settled
  <2>2. \A r \in Recordings :
           file'[r] = file[r] \/ (r \in left /\ file[r] = "hidden" /\ file'[r] = "none")
    BY <1>11 DEF RemoveConsumed
  <2>3. FileInv'
    BY <2>1, <2>2 DEF FileInv, AbsorbedInv
  <2>4. JournalInv' /\ UndoInv' /\ SourcesInv' /\ ReconcileInv'
    BY <2>1 DEF JournalInv, UndoInv, SourcesInv, ReconcileInv
  <2>5. AbsorbedInv'
    BY <2>1, <2>2 DEF AbsorbedInv, FootageIn
  <2> QED
    BY <2>3, <2>4, <2>5
<1>12. CASE Rollback
  BY <1>12 DEF Rollback, Unhide, RestoreBegin, RestoreEnd, RestoreMissing, ReconcileInv
<1> QED
  BY <1>1, <1>2, <1>3, <1>4, <1>5, <1>6, <1>7, <1>8, <1>9, <1>10, <1>11, <1>12 DEF AppendStep

\* A source is deleted only after its footage is in a listed file.
LEMMA RemuxKeepsFiles ==
    ASSUME TypeOK, HourInv, KeepInv, UNCHANGED <<closeVars, eraseVars, crashes>>, RemuxStep
    PROVE  KeepInv'
<1> USE HourAssumption
    DEF TypeOK, Goto, diskVars, closeVars, eraseVars, Recordings, KeepInv, Reconciling,
        Appending
<1>0. pc \in {"create", "replace", "erase"} => todo = {} /\ \A b \in Recordings : journal[b] = None
  BY DEF HourInv, TodoInv, Settled, JournalInv
<1>1. ASSUME NEW h \in Hours, CreateMerged(h) PROVE KeepInv'
  <2>1. /\ pc' = "replace" /\ bucket' = h /\ footage'[h] = FootageIn(adds) /\ file'[h] = "visible"
        /\ \A r \in Recordings \ {h} : file'[r] = file[r] /\ footage'[r] = footage[r]
        /\ UNCHANGED <<row, torn, journal, after, todo, adds, left>>
        /\ footage[h] = {} /\ pc = "create"
    BY <1>1 DEF CreateMerged
  <2>2. /\ adds # {} /\ h \notin adds /\ row[h] = "none" /\ \A r \in adds : footage[r] # {}
    BY <1>1, <2>1 DEF CreateMerged, SourcesInv, FileInv, Readable
  <2>3. FootageIn(adds)' = FootageIn(adds) /\ FootageIn(adds) # {}
    BY <2>1, <2>2 DEF FootageIn
  <2>4. FileInv'
    BY <2>1, <2>2, <2>3 DEF FileInv
  <2>5. JournalInv' /\ UndoInv' /\ SourcesInv' /\ ReconcileInv'
    BY <1>0, <2>1 DEF JournalInv, UndoInv, SourcesInv, ReconcileInv
  <2>6. AbsorbedInv'
    BY <2>1, <2>2, <2>3 DEF AbsorbedInv
  <2> QED
    BY <2>4, <2>5, <2>6
<1>2. CASE CreateRefused
  <2>1. FileInv' /\ JournalInv' /\ UndoInv'
    BY <1>0, <1>2 DEF CreateRefused, FileInv, JournalInv, UndoInv
  <2>2. SourcesInv' /\ AbsorbedInv' /\ ReconcileInv'
    BY <1>2 DEF CreateRefused, SourcesInv, AbsorbedInv, ReconcileInv
  <2> QED
    BY <2>1, <2>2
<1>3. CASE MergeAndReplace
  <2>1. /\ pc = "replace" /\ pc' = "erase" /\ left' = adds
        /\ UNCHANGED <<file, footage, torn, journal, after, todo, bucket, adds>>
        /\ \A r \in Recordings : row'[r] = IF r = bucket THEN "merged" ELSE IF r \in adds THEN "none" ELSE row[r]
    BY <1>3 DEF MergeAndReplace, With
  <2>2. FileInv'
    BY <2>1 DEF FileInv, AbsorbedInv
  <2>3. JournalInv' /\ UndoInv' /\ SourcesInv' /\ ReconcileInv'
    BY <1>0, <2>1 DEF JournalInv, UndoInv, SourcesInv, ReconcileInv
  <2>4. AbsorbedInv'
    BY <2>1 DEF AbsorbedInv, FootageIn
  <2> QED
    BY <2>2, <2>3, <2>4
<1>4. CASE ReplaceFails
  <2>1. FileInv'
    BY <1>4 DEF ReplaceFails, FileInv, AbsorbedInv, HourInv, CallersInv
  <2>2. JournalInv' /\ UndoInv' /\ SourcesInv'
    BY <1>0, <1>4 DEF ReplaceFails, JournalInv, UndoInv, SourcesInv
  <2>3. AbsorbedInv' /\ ReconcileInv'
    BY <1>4 DEF ReplaceFails, AbsorbedInv, ReconcileInv
  <2> QED
    BY <2>1, <2>2, <2>3
<1>5. CASE DeleteSources
  <2>1. /\ pc = "erase" /\ pc' \in {"erase", "idle"} /\ left' \subseteq left
        /\ UNCHANGED <<row, footage, torn, journal, after, todo, bucket, adds>>
    BY <1>5 DEF DeleteSources
  <2>2. \A r \in Recordings : file'[r] = file[r] \/ (r \in left /\ file'[r] = "none")
    BY <1>5 DEF DeleteSources
  <2>3. FileInv'
    BY <2>1, <2>2 DEF FileInv, AbsorbedInv, HourInv, CallersInv
  <2>4. JournalInv' /\ UndoInv' /\ SourcesInv' /\ ReconcileInv'
    BY <1>0, <2>1 DEF JournalInv, UndoInv, SourcesInv, ReconcileInv
  <2>5. AbsorbedInv'
    BY <2>1, <2>2 DEF AbsorbedInv, FootageIn
  <2> QED
    BY <2>3, <2>4, <2>5
<1> QED
  BY <1>1, <1>2, <1>3, <1>4, <1>5 DEF RemuxStep

\* The journal of b will be undone by whoever deals with it next.
Waits(b) == journal[b] # None /\ UndoNeeded(b)

\* What is in a file once its journal is dealt with.
Content(r) == IF Waits(r) THEN journal[r].old ELSE footage[r]

\* The footage that is recovered from a recording is its content.
LEMMA ContentIsRecovered ==
    ASSUME TypeOK, HourInv, KeepInv, NEW r \in Recordings PROVE Recovered(r) = Content(r)
<1>1. Undone(r) <=> Waits(r)
  BY UndoneIsNeeded DEF HourInv, Waits
<1>2. r \in torn => Waits(r)
  BY DEF HourInv, TornInv, Waits
<1> QED
  BY <1>1, <1>2 DEF Recovered, Content

\* The steps that give a file more: the recorder's, and the two that merge.
Gains == (\E s \in Segments : CloseSegment(s)) \/ GrowMergedRecording \/ (\E h \in Hours : CreateMerged(h))

\* A step that leaves a file, its journal and its rows alone leaves its content.
LEMMA SameContent ==
    ASSUME UNCHANGED <<row, footage, journal>> PROVE \A r \in Recordings : Content(r)' = Content(r)
  BY DEF Content, Waits, UndoNeeded

\* The steps of a reconciliation and of an append change what a file lists only
\* under a journal that says otherwise.
LEMMA ContentIsSteady ==
    ASSUME TypeOK, HourInv, KeepInv, MergeAlone, [Next]_vars, ~Gains
    PROVE  \A r \in Recordings : Content(r)' = Content(r)
<1> USE DEF Goto, diskVars, KeepInv
<1>1. CASE InsertRecording \/ Crash
  <2>1. UNCHANGED <<footage, journal>>
    BY <1>1 DEF InsertRecording, Crash
  <2>2. \A r \in Recordings : row'[r] = row[r] \/ (row[r] = "none" /\ file[r] = "visible" /\ row'[r] # "none")
    <3>1. CASE InsertRecording
      BY <3>1 DEF InsertRecording, FileInv, TypeOK, HourInv, CallersInv, Recordings
    <3>2. CASE Crash
      BY <3>2 DEF Crash, With
    <3> QED
      BY <1>1, <3>1, <3>2
  <2>3. \A b \in Recordings : journal[b] # None => UndoNeeded(b)' = UndoNeeded(b)
    BY <2>1, <2>2 DEF UndoNeeded, UndoInv, TypeOK, Journals
  <2> QED
    BY <2>1, <2>3 DEF Content, Waits
<1>2. CASE RestoreEnd("undoing", "unhide")
  <2>1. Waits(bucket) /\ bucket \in Recordings
    BY <1>2 DEF RestoreEnd, HourInv, AddsInv, Waits, TypeOK
  <2>2. UNCHANGED <<row, journal>> /\ \A r \in Recordings \ {bucket} : footage'[r] = footage[r]
    BY <1>2 DEF RestoreEnd, TypeOK
  <2> QED
    BY <2>1, <2>2 DEF Content, Waits, UndoNeeded
<1>3. CASE DropJournal
  <2>1. /\ bucket \in Recordings /\ journal[bucket] # None /\ journal'[bucket] = None
        /\ UndoNeeded(bucket) => footage[bucket] = journal[bucket].old
        /\ UNCHANGED <<row, footage, bucket>>
        /\ \A r \in Recordings \ {bucket} : journal'[r] = journal[r]
    BY <1>3 DEF DropJournal, ReconcileInv, TypeOK
  <2>2. \A r \in {bucket} : Content(r)' = Content(r)
    BY <2>1 DEF Content, Waits
  <2>3. \A r \in Recordings \ {bucket} : Content(r)' = Content(r)
    BY <2>1 DEF Content, Waits, UndoNeeded
  <2> QED
    BY <2>2, <2>3
<1>4. CASE WriteJournal
  <2>1. /\ bucket \in Recordings /\ journal[bucket] = None /\ journal'[bucket].old = footage[bucket]
        /\ UNCHANGED <<row, footage, bucket>>
        /\ \A r \in Recordings \ {bucket} : journal'[r] = journal[r]
    BY <1>4 DEF WriteJournal, TypeOK
  <2>2. \A r \in {bucket} : Content(r)' = Content(r)
    BY <2>1 DEF Content, Waits
  <2>3. \A r \in Recordings \ {bucket} : Content(r)' = Content(r)
    BY <2>1 DEF Content, Waits, UndoNeeded
  <2> QED
    BY <2>2, <2>3
<1>5. CASE WriteMoov
  <2>1. Waits(bucket) /\ bucket \in Recordings
    BY <1>5 DEF WriteMoov, HourInv, AddsInv, Waits, TypeOK, Appending
  <2>2. UNCHANGED <<row, journal>> /\ \A r \in Recordings \ {bucket} : footage'[r] = footage[r]
    BY <1>5 DEF WriteMoov, TypeOK
  <2> QED
    BY <2>1, <2>2 DEF Content, Waits, UndoNeeded
<1>6. CASE CommitAppend
  <2>1. /\ bucket \in Recordings /\ ~Waits(bucket) /\ journal'[bucket] = None
        /\ UNCHANGED <<row, footage, bucket>>
        /\ \A r \in Recordings \ {bucket} : journal'[r] = journal[r]
    BY <1>6 DEF CommitAppend, SourcesInv, AbsorbedInv, UndoNeeded, Waits, TypeOK
  <2>2. \A r \in {bucket} : Content(r)' = Content(r)
    BY <2>1 DEF Content, Waits
  <2>3. \A r \in Recordings \ {bucket} : Content(r)' = Content(r)
    BY <2>1 DEF Content, Waits, UndoNeeded
  <2> QED
    BY <2>2, <2>3
<1>7. CASE MergeAndReplace
  <2>1. UNCHANGED <<footage, journal>> /\ \A b \in Recordings : journal[b] = None
    BY <1>7 DEF MergeAndReplace, JournalInv, HourInv, TodoInv, Settled, Reconciling, Appending
  <2> QED
    BY <2>1 DEF Content, Waits
<1>8. ASSUME ~(InsertRecording \/ Crash), ~RestoreEnd("undoing", "unhide"), ~DropJournal, ~WriteJournal,
             ~WriteMoov, ~CommitAppend, ~MergeAndReplace
      PROVE  UNCHANGED <<row, footage, journal>>
  <2>1. CASE ReconcileStep
    BY <1>8, <2>1 DEF ReconcileStep, RestoreBegin, RestoreMissing, Unhide, RemoveConsumed
  <2>2. CASE AppendStep
    <3>1. CASE Rollback
      BY <3>1 DEF Rollback, Unhide, RestoreBegin, RestoreEnd, RestoreMissing, ReconcileInv
    <3> QED
      BY <1>8, <2>2, <3>1
         DEF AppendStep, ReconcileBucket, NotAppendable, AppendRefused, WriteSamples,
             SamplesRefused, WriteFails, HideConsumed, AllHidden, GrowFails, RemoveConsumed, Gains
  <2>3. CASE RemuxStep
    BY <1>8, <2>3 DEF RemuxStep, CreateRefused, ReplaceFails, DeleteSources, Gains
  <2>4. CASE UNCHANGED vars
    BY <2>4 DEF vars
  <2>5. ~ \E r \in ApiTargets \cup CleanupTargets : TRUE
    BY DEF MergeAlone
  <2>6. ~ (ApiDeleteFile \/ CleanupFile \/ CleanupRow)
    BY DEF ApiDeleteFile, CleanupFile, CleanupRow, HourInv, CallersInv
  <2> QED
    BY <1>8, <2>1, <2>2, <2>3, <2>4, <2>5, <2>6
       DEF Next, MergeStep, MergeHour, ScanJournals, PlanAppend, PlanCreate, PlanNothing, Gains,
           ProcessCamera, MarkSingleton, MergeAlone
<1> QED
  BY <1>1, <1>2, <1>3, <1>4, <1>5, <1>6, <1>7, <1>8, SameContent

\* The transaction of an append makes the hour file hold the absorbed segments.
LEMMA GrowContent ==
    ASSUME TypeOK, HourInv, KeepInv, GrowMergedRecording
    PROVE  /\ bucket \in Recordings /\ bucket \notin adds /\ adds # {}
           /\ file[bucket] = "visible" /\ row[bucket] # "none"
           /\ Waits(bucket) /\ journal[bucket].ids = adds
           /\ ~ Waits(bucket)'
           /\ \A r \in {bucket} : Content(r)' = Content(r) \cup FootageIn(adds)
           /\ \A r \in Recordings \ {bucket} : Content(r)' = Content(r) /\ Content(r) = footage[r]
           /\ \A r \in adds : row[r] # "none" /\ file[r] = "hidden"
           /\ \A r \in Recordings : row'[r] = IF r \in adds THEN "none" ELSE row[r]
<1> USE DEF KeepInv, Waits, Content
<1>1. /\ pc = "grow" /\ bucket \in Recordings /\ adds \subseteq Recordings
      /\ UNCHANGED <<file, footage, journal, bucket, adds>>
      /\ \A r \in Recordings : row'[r] = IF r \in adds THEN "none" ELSE row[r]
  BY DEF GrowMergedRecording, With, TypeOK
<1>2. /\ journal[bucket] # None /\ journal[bucket].ids = adds /\ bucket \notin adds /\ adds # {}
      /\ row[bucket] = "merged" /\ file[bucket] = "visible"
      /\ \A r \in adds : row[r] = "pending" /\ file[r] = "hidden"
      /\ footage[bucket] = journal[bucket].old \cup FootageIn(adds)
      /\ \A b \in Recordings : journal[b] # None => b = bucket
  BY <1>1 DEF SourcesInv, JournalInv, AbsorbedInv, Appending
<1>3. UndoNeeded(bucket) /\ ~UndoNeeded(bucket)'
  BY <1>1, <1>2 DEF UndoNeeded
<1>4. \A r \in {bucket} : Content(r)' = Content(r) \cup FootageIn(adds)
  BY <1>1, <1>2, <1>3
<1>5. \A r \in Recordings \ {bucket} : Content(r)' = Content(r) /\ Content(r) = footage[r]
  BY <1>1, <1>2
<1> QED
  BY <1>1, <1>2, <1>3, <1>4, <1>5

\* A remux writes the footage of its sources to a file that was not there.
LEMMA CreateContent ==
    ASSUME TypeOK, HourInv, KeepInv, NEW h \in Hours, CreateMerged(h)
    PROVE  /\ file[h] = "none" /\ Content(h) = {}
           /\ \A r \in Recordings \ {h} : Content(r)' = Content(r) /\ file'[r] = file[r]
           /\ \A b \in Recordings : ~Waits(b)
<1>1. \A b \in Recordings : journal[b] = None
  BY DEF CreateMerged, KeepInv, JournalInv, HourInv, TodoInv, Settled, Reconciling, Appending
<1> QED
  BY <1>1 DEF CreateMerged, Content, Waits, TypeOK, KeepInv, FileInv, Recordings

\* Closing a segment fills a file nothing else knows of yet.
LEMMA CloseContent ==
    ASSUME TypeOK, HourInv, KeepInv, NEW s \in Segments, CloseSegment(s)
    PROVE  /\ row[s] = "none" /\ file[s] = "none" /\ Content(s) = {}
           /\ file'[s] = "visible" /\ Content(s)' = {s}
           /\ \A r \in Recordings \ {s} : Content(r)' = Content(r) /\ file'[r] = file[r]
<1>1. s \in Recordings /\ s \in fresh /\ row[s] = "none" /\ file[s] = "none" /\ footage[s] = {}
  BY DEF CloseSegment, HourInv, CallersInv, KeepInv, FileInv, Recordings
<1>2. journal[s] = None
  BY <1>1 DEF KeepInv, JournalInv
<1>3. /\ UNCHANGED <<row, journal>> /\ file'[s] = "visible" /\ footage'[s] = {s}
      /\ \A r \in Recordings \ {s} : footage'[r] = footage[r] /\ file'[r] = file[r]
  BY <1>1 DEF CloseSegment, TypeOK
<1> QED
  BY <1>1, <1>2, <1>3 DEF Content, Waits, UndoNeeded

\* Where footage is: in a file that can be read, or in a hidden source of an
\* append that will be undone.
Holds(r, f) ==
    \/ file[r] = "visible" /\ f \in Content(r)
    \/ /\ file[r] = "hidden" /\ f \in footage[r]
       /\ \E b \in Recordings : Waits(b) /\ r \in journal[b].ids

\* A recording that holds footage keeps it recovered.
LEMMA HoldsIsKept ==
    ASSUME TypeOK, HourInv, KeepInv
    PROVE  FootageKept <=> \A f \in (InitialHours \cup Segments) \ fresh :
                              \E r \in Recordings : Holds(r, f)
<1>1. deleted = {}
  BY DEF KeepInv, FileInv
<1>2. \A b \in Recordings : Undone(b) <=> Waits(b)
  BY UndoneIsNeeded DEF Waits, HourInv
<1>3. \A b \in Recordings : Waits(b) => row[b] # "none"
  BY DEF Waits, KeepInv, JournalInv
<1>4. \A r \in Recordings : Recovered(r) = Content(r)
  BY ContentIsRecovered
<1> QED
  BY <1>1, <1>2, <1>3, <1>4 DEF FootageKept, Holds

\* A source the merge has hidden, or is about to hide, has no journal of its own.
LEMMA SourceContent ==
    ASSUME TypeOK, HourInv, KeepInv, NEW b \in Recordings, Waits(b)
    PROVE  \A r \in journal[b].ids : r \in Recordings /\ Content(r) = footage[r] /\ row[r] = "pending"
<1>1. \A r \in journal[b].ids : r \in Recordings /\ row[r] = "pending"
  BY DEF Waits, KeepInv, UndoInv, UndoNeeded, TypeOK, Journals
<1> QED
  BY <1>1 DEF Waits, Content, KeepInv, JournalInv

\* No step loses what a recording holds.
LEMMA HeldStaysHeld ==
    ASSUME TypeOK, HourInv, KeepInv, MergeAlone, [Next]_vars, ~Gains,
           NEW r \in Recordings, NEW f, Holds(r, f)
    PROVE  \E q \in Recordings : Holds(q, f)'
<1>0. \A q \in Recordings : Content(q)' = Content(q)
  BY ContentIsSteady
<1>v. CASE file[r] = "visible" /\ f \in Content(r) /\ file'[r] = "visible"
  BY <1>0, <1>v DEF Holds
<1>w. ASSUME NEW b \in Recordings, Waits(b), r \in journal[b].ids, file[r] = "hidden", f \in footage[r],
             file'[r] = "hidden", footage'[r] = footage[r], Waits(b)', journal'[b] = journal[b]
      PROVE  \E q \in Recordings : Holds(q, f)'
  BY <1>w DEF Holds
<1>u. \A b \in Recordings : Waits(b) => /\ \A c \in Recordings : journal[c] # None => c = b
                                        /\ file[b] = "visible"
                                        /\ \A q \in journal[b].ids : q \in Recordings /\ Content(q) = footage[q]
                                                                     /\ row[q] = "pending"
  BY SourceContent DEF Waits, KeepInv, JournalInv
<1> USE DEF Goto, diskVars, KeepInv, Reconciling, Appending
<1>1. CASE HideConsumed
  <2>1. /\ UNCHANGED <<row, footage, torn, journal, adds, bucket>> /\ bucket \in Recordings
        /\ pc = "hide" /\ journal[bucket] # None /\ journal[bucket].ids = adds /\ UndoNeeded(bucket)
        /\ \A q \in Recordings : file'[q] = file[q] \/ (q \in adds /\ file'[q] = "hidden")
    BY <1>1 DEF HideConsumed, SourcesInv, HourInv, AddsInv, TypeOK
  <2>2. \A b \in Recordings : Waits(b)' = Waits(b)
    BY <2>1 DEF Waits, UndoNeeded
  <2>3. CASE file[r] = "visible" /\ f \in Content(r) /\ file'[r] # "visible"
    <3>1. r \in adds /\ file'[r] = "hidden" /\ Waits(bucket)
      BY <2>1, <2>3 DEF Waits
    <3>2. f \in footage'[r] /\ Waits(bucket)' /\ r \in journal'[bucket].ids
      BY <1>u, <2>1, <2>2, <2>3, <3>1
    <3>3. \E b \in Recordings : Waits(b)' /\ r \in journal'[b].ids
      BY <2>1, <2>2, <3>1, <3>2
    <3> QED
      BY <3>1, <3>2, <3>3 DEF Holds
  <2>4. ASSUME NEW b \in Recordings, Waits(b), r \in journal[b].ids, file[r] = "hidden", f \in footage[r]
        PROVE  \E q \in Recordings : Holds(q, f)'
    BY <1>w, <2>1, <2>2, <2>4
  <2> QED
    BY <1>v, <2>3, <2>4 DEF Holds
<1>2. CASE Unhide("unhide", "drop")
  <2>1. /\ UNCHANGED <<row, footage, torn, journal>>
        /\ \A q \in Recordings : file'[q] = file[q] \/ file'[q] = "visible"
    BY <1>2 DEF Unhide, TypeOK
  <2>2. \A b \in Recordings : Waits(b)' = Waits(b)
    BY <2>1 DEF Waits, UndoNeeded
  <2>4. ASSUME NEW b \in Recordings, Waits(b), r \in journal[b].ids, file[r] = "hidden", f \in footage[r]
        PROVE  \E q \in Recordings : Holds(q, f)'
    <3>1. CASE file'[r] = "visible"
      BY <1>0, <1>u, <2>4, <3>1 DEF Holds
    <3> QED
      BY <1>w, <2>1, <2>2, <2>4, <3>1
  <2> QED
    BY <1>v, <2>1, <2>4 DEF Holds
<1>3. CASE RemoveConsumed("keep", "drop") \/ RemoveConsumed("consume", "idle")
  <2>1. /\ pc \in {"keep", "consume"}
        /\ \A q \in Recordings : file[q] = "visible" => file'[q] = "visible"
    BY <1>3 DEF RemoveConsumed, TypeOK
  <2>2. \A b \in Recordings : ~Waits(b)
    <3>1. CASE pc = "keep"
      <4>1. bucket \in Recordings /\ journal[bucket] # None /\ ~UndoNeeded(bucket)
        BY <3>1 DEF ReconcileInv, TypeOK
      <4> QED
        BY <1>u, <4>1 DEF Waits
    <3>2. CASE pc = "consume"
      BY <2>1, <3>2 DEF Waits, JournalInv, HourInv, TodoInv, Settled
    <3> QED
      BY <2>1, <3>1, <3>2
  <2> QED
    BY <1>v, <2>1, <2>2 DEF Holds
<1>4. CASE DeleteSources
  <2>1. /\ pc = "erase" /\ bucket \in Recordings
        /\ \A q \in Recordings : file'[q] = file[q] \/ q \in left
        /\ bucket \notin adds /\ file[bucket] = "visible" /\ left \subseteq adds
        /\ FootageIn(adds) \subseteq footage[bucket]
    BY <1>4 DEF DeleteSources, TypeOK, AbsorbedInv
  <2>2. \A b \in Recordings : journal[b] = None
    BY <2>1 DEF JournalInv, HourInv, TodoInv, Settled
  <2>3. CASE file'[r] # file[r]
    <3>1. f \in footage[r] /\ r \in adds
      BY <2>1, <2>2, <2>3 DEF Holds, Content, Waits
    <3>2. f \in footage[bucket]
      BY <2>1, <3>1 DEF FootageIn
    <3>3. f \in Content(bucket) /\ file'[bucket] = "visible"
      BY <2>1, <2>2, <3>2 DEF Content, Waits
    <3>4. \A q \in {bucket} : f \in Content(q)' /\ file'[q] = "visible"
      BY <1>0, <2>1, <3>3
    <3> QED
      BY <2>1, <3>4 DEF Holds
  <2> QED
    BY <1>v, <2>2, <2>3 DEF Holds, Waits
<1>5. CASE DropJournal \/ CommitAppend
  <2>1. /\ UNCHANGED file /\ pc \in {"drop", "commit"} /\ bucket \in Recordings /\ journal[bucket] # None
    BY <1>5 DEF DropJournal, CommitAppend, TypeOK, ReconcileInv, SourcesInv
  <2>2. \A b \in Recordings : Waits(b) => b = bucket /\ \A q \in journal[b].ids : file[q] = "visible"
    BY <1>u, <2>1 DEF ReconcileInv, AbsorbedInv, SourcesInv, Waits, UndoNeeded
  <2> QED
    BY <1>v, <2>1, <2>2 DEF Holds
<1>6. CASE WriteJournal \/ RestoreEnd("undoing", "unhide") \/ WriteMoov
  <2>1. /\ UNCHANGED <<row, file>> /\ bucket \in Recordings
        /\ \A q \in Recordings : q # bucket => footage'[q] = footage[q]
        /\ \A b \in Recordings : journal[b] # None => journal'[b] = journal[b]
    BY <1>6 DEF WriteJournal, RestoreEnd, WriteMoov, TypeOK
  <2>2. \A b \in Recordings : Waits(b) => Waits(b)'
    BY <2>1 DEF Waits, UndoNeeded
  <2>3. file[bucket] = "visible"
    BY <1>6, <2>1 DEF WriteJournal, RestoreEnd, WriteMoov, JournalInv, SourcesInv, TypeOK
  <2>4. ASSUME NEW b \in Recordings, Waits(b), r \in journal[b].ids, file[r] = "hidden", f \in footage[r]
        PROVE  \E q \in Recordings : Holds(q, f)'
    BY <1>w, <2>1, <2>2, <2>3, <2>4 DEF Waits
  <2> QED
    BY <1>v, <2>1, <2>4 DEF Holds
<1>7. CASE InsertRecording \/ Crash \/ MergeAndReplace
  <2>1. UNCHANGED <<file, footage, journal>>
    BY <1>7 DEF InsertRecording, Crash, MergeAndReplace
  <2>2. \A b \in Recordings : Waits(b) => Waits(b)'
    <3>1. CASE InsertRecording
      <4>1. \A q \in Recordings : row[q] # "none" => row'[q] # "none"
        BY <3>1 DEF InsertRecording, TypeOK
      <4>2. \A b \in Recordings : journal[b] # None => journal[b].ids \subseteq Recordings
        BY DEF TypeOK, Journals
      <4> QED
        BY <2>1, <4>1, <4>2 DEF Waits, UndoNeeded
    <3>2. CASE Crash
      BY <3>2 DEF Crash, With, Waits, UndoNeeded, TypeOK, Journals
    <3>3. CASE MergeAndReplace
      BY <3>3 DEF MergeAndReplace, Waits, JournalInv, HourInv, TodoInv, Settled
    <3> QED
      BY <1>7, <3>1, <3>2, <3>3
  <2>4. ASSUME NEW b \in Recordings, Waits(b), r \in journal[b].ids, file[r] = "hidden", f \in footage[r]
        PROVE  \E q \in Recordings : Holds(q, f)'
    BY <1>w, <2>1, <2>2, <2>4
  <2> QED
    BY <1>v, <2>1, <2>4 DEF Holds
<1>8. CASE UNCHANGED <<row, file, footage, journal>>
  <2>1. \A b \in Recordings : Waits(b)' = Waits(b)
    BY <1>8 DEF Waits, UndoNeeded
  <2>2. ASSUME NEW b \in Recordings, Waits(b), r \in journal[b].ids, file[r] = "hidden", f \in footage[r]
        PROVE  \E q \in Recordings : Holds(q, f)'
    BY <1>w, <1>8, <2>1, <2>2
  <2> QED
    BY <1>v, <1>8, <2>2 DEF Holds
<1>9. ASSUME ~HideConsumed, ~Unhide("unhide", "drop"),
             ~(RemoveConsumed("keep", "drop") \/ RemoveConsumed("consume", "idle")), ~DeleteSources,
             ~(DropJournal \/ CommitAppend), ~(WriteJournal \/ RestoreEnd("undoing", "unhide") \/ WriteMoov),
             ~(InsertRecording \/ Crash \/ MergeAndReplace)
      PROVE  UNCHANGED <<row, file, footage, journal>>
  <2>1. CASE ReconcileStep
    BY <1>9, <2>1 DEF ReconcileStep, RestoreBegin, RestoreMissing
  <2>2. CASE AppendStep
    <3>1. CASE Rollback
      BY <3>1 DEF Rollback, Unhide, RestoreBegin, RestoreEnd, RestoreMissing, ReconcileInv
    <3> QED
      BY <1>9, <2>2, <3>1
         DEF AppendStep, ReconcileBucket, NotAppendable, AppendRefused, WriteSamples,
             SamplesRefused, WriteFails, AllHidden, GrowFails, Gains
  <2>3. CASE RemuxStep
    BY <1>9, <2>3 DEF RemuxStep, CreateRefused, ReplaceFails, MergeAlone, Gains
  <2>4. CASE UNCHANGED vars
    BY <2>4 DEF vars
  <2>5. ~ \E c \in ApiTargets \cup CleanupTargets : TRUE
    BY DEF MergeAlone
  <2>6. ~ (ApiDeleteFile \/ CleanupFile \/ CleanupRow)
    BY DEF ApiDeleteFile, CleanupFile, CleanupRow, HourInv, CallersInv
  <2> QED
    BY <1>9, <2>1, <2>2, <2>3, <2>4, <2>5, <2>6
       DEF Next, MergeStep, MergeHour, ScanJournals, PlanAppend, PlanCreate, PlanNothing, Gains,
           ProcessCamera, MarkSingleton, MergeAlone
<1> QED
  BY <1>1, <1>2, <1>3, <1>4, <1>5, <1>6, <1>7, <1>8, <1>9

\* Footage goes from file to file, and no step of a merge or crash loses any.
LEMMA KeptStep ==
    ASSUME TypeOK, HourInv, KeepInv, MergeAlone, [Next]_vars,
           \A f \in (InitialHours \cup Segments) \ fresh : \E r \in Recordings : Holds(r, f)
    PROVE  \A f \in (InitialHours \cup Segments) \ fresh' : \E r \in Recordings : Holds(r, f)'
<1> SUFFICES ASSUME NEW f \in (InitialHours \cup Segments) \ fresh'
             PROVE  \E q \in Recordings : Holds(q, f)'
  OBVIOUS
<1>1. ASSUME NEW s \in Segments, CloseSegment(s) PROVE \E q \in Recordings : Holds(q, f)'
  <2>0. s \in Recordings /\ UNCHANGED <<row, journal>> /\ fresh' = fresh \ {s}
    BY <1>1 DEF CloseSegment, Recordings
  <2>1. CASE f = s
    BY <1>1, <2>0, <2>1, CloseContent DEF Holds
  <2>2. CASE f # s
    <3>1. PICK r \in Recordings : Holds(r, f)
      BY <2>0, <2>2
    <3>2. r # s /\ file'[r] = file[r] /\ Content(r)' = Content(r)
      BY <1>1, <3>1, CloseContent DEF Holds
    <3>3. footage'[r] = footage[r]
      BY <1>1, <3>2 DEF CloseSegment, TypeOK
    <3>4. \A b \in Recordings : Waits(b)' = Waits(b)
      BY <2>0 DEF Waits, UndoNeeded
    <3> QED
      BY <2>0, <3>1, <3>2, <3>3, <3>4 DEF Holds
  <2> QED
    BY <2>1, <2>2
<1>2. CASE ~ \E s \in Segments : CloseSegment(s)
  <2>0. fresh' = fresh
    BY <1>2 DEF Next, MergeStep, InsertRecording, closeVars, ApiDeleteRow, ApiDeleteFile,
               CleanupList, CleanupFile, CleanupRow, Crash, vars
  <2>1. PICK r \in Recordings : Holds(r, f)
    BY <2>0
  <2>2. CASE GrowMergedRecording
    <3>1. UNCHANGED <<file, footage, journal, bucket>>
      BY <2>2 DEF GrowMergedRecording
    <3>2. CASE file[r] = "visible" /\ f \in Content(r)
      BY <2>2, <3>1, <3>2, GrowContent DEF Holds
    <3>3. ASSUME NEW b \in Recordings, Waits(b), r \in journal[b].ids, f \in footage[r]
          PROVE  \E q \in Recordings : Holds(q, f)'
      <4>1. b = bucket /\ bucket \in Recordings
        BY <2>2, <3>3, GrowContent DEF Waits, KeepInv, JournalInv
      <4>2. f \in FootageIn(adds)
        BY <2>2, <3>3, <4>1, GrowContent DEF FootageIn
      <4>3. \A q \in {bucket} : f \in Content(q)' /\ file'[q] = "visible"
        BY <2>2, <3>1, <4>2, GrowContent
      <4> QED
        BY <4>1, <4>3 DEF Holds
    <3> QED
      BY <2>1, <3>2, <3>3 DEF Holds
  <2>3. ASSUME NEW h \in Hours, CreateMerged(h) PROVE \E q \in Recordings : Holds(q, f)'
    BY <2>1, <2>3, CreateContent DEF Holds
  <2>4. CASE ~Gains
    BY <2>1, <2>4, HeldStaysHeld
  <2> QED
    BY <1>2, <2>2, <2>3, <2>4 DEF Gains
<1> QED
  BY <1>1, <1>2

\* Every step keeps what the merge, the journals and the recorder rely on.
LEMMA KeepStep == ASSUME TypeOK, HourInv, KeepInv, MergeAlone, [Next]_vars PROVE KeepInv'
<1>1. CASE InsertRecording \/ (\E s \in Segments : CloseSegment(s)) \/ Crash
  BY <1>1, RecorderKeepsFiles
<1>2. CASE MergeStep
  BY <1>2, PlanKeepsFiles, ReconcileKeepsFiles, AppendKeepsFiles, RemuxKeepsFiles
     DEF MergeStep, MergeAlone, ProcessCamera, MarkSingleton
<1>3. ~ \E r \in ApiTargets \cup CleanupTargets : TRUE
  BY DEF MergeAlone
<1>4. ~ (ApiDeleteFile \/ CleanupFile \/ CleanupRow)
  BY DEF ApiDeleteFile, CleanupFile, CleanupRow, HourInv, CallersInv
<1>5. CASE UNCHANGED vars
  BY <1>5 DEF vars, diskVars, closeVars, mergeVars, eraseVars, KeepInv, FileInv, JournalInv,
              UndoInv, SourcesInv, AbsorbedInv, ReconcileInv, UndoNeeded, FootageIn
<1> QED
  BY <1>1, <1>2, <1>3, <1>4, <1>5 DEF Next

\* What a closed segment or an initial hour file recorded is, after any step of
\* a merge that is alone and any number of crashes, in a file that can be read
\* or in a hidden one that the journal of a listed hour file brings back.
THEOREM MergesLoseNothing == ASSUME MergeAlone PROVE Spec => []FootageKept
<1> DEFINE Kept == \A f \in (InitialHours \cup Segments) \ fresh : \E r \in Recordings : Holds(r, f)
           Inv == HourInv /\ KeepInv /\ Kept
<1>1. Init => Inv
  <2>1. Init => Kept
    BY HourAssumption DEF Init, Holds, Content, Waits, Recordings
  <2> QED
    BY <2>1, HourInit, KeepInit
<1>2. TypeOK /\ Inv /\ [Next]_vars => Inv'
  <2> SUFFICES ASSUME TypeOK, Inv, [Next]_vars PROVE Inv'
    OBVIOUS
  <2>1. HourInv' /\ KeepInv'
    BY HourStep, KeepStep
  <2>2. Kept'
    BY KeptStep
  <2> QED
    BY <2>1, <2>2
<1>3. TypeOK /\ Inv => FootageKept
  BY HoldsIsKept
<1> HIDE DEF Inv
<1> QED
  BY <1>1, <1>2, <1>3, HourTyping, PTL DEF Spec

-----------------------------------------------------------------------------
(* A merge is one step to whoever reads the recordings *)

\* A crash registers every file that has no row.  One in the middle of a remux
\* lists footage twice, in the new file and in its sources (README).
NoRemuxCrash == Hours = InitialHours \/ MaxCrashes = 0

\* What has no row yet is in no other file.
NewInv ==
    /\ \A s \in fresh : \A q \in Recordings : s \notin footage[q]
    /\ closing # None => /\ footage[closing] = {closing}
                         /\ \A q \in Recordings \ {closing} : closing \notin footage[q]
    /\ \A h \in InitialHours : footage[h] # {}
    /\ pc = "replace" => /\ footage[bucket] = FootageIn(adds)
                         /\ \A r \in adds : row[r] # "none"

\* Without a remux only the segment that is being closed has no row.
ListedInv ==
    Hours = InitialHours =>
        /\ pc \notin {"replace", "erase"}
        /\ \A r \in Recordings : row[r] = "none" /\ file[r] = "visible" => r = closing

ReadInv == NewInv /\ ListedInv

\* The program starts with a row for every file.
LEMMA ReadInit == ASSUME Init PROVE ReadInv
  BY HourAssumption DEF Init, ReadInv, NewInv, ListedInv, Recordings

\* The steps that move no footage and no rows.
LEMMA ReadFrame ==
    ASSUME UNCHANGED <<row, file, footage, fresh, closing>>, ReadInv, pc' \notin {"replace", "erase"}
    PROVE  ReadInv'
  BY DEF ReadInv, NewInv, ListedInv

\* The recorder puts new footage in the file it is closing only.
LEMMA RecorderKeepsRead ==
    ASSUME TypeOK, HourInv, KeepInv, ReadInv, MergeAlone,
           InsertRecording \/ (\E s \in Segments : CloseSegment(s)) \/ Crash
    PROVE  ReadInv'
<1> USE HourAssumption DEF ReadInv, mergeVars, eraseVars
<1>1. ASSUME NEW s \in Segments, CloseSegment(s) PROVE ReadInv'
  <2>1. /\ s \in Recordings /\ s \in fresh /\ s \notin adds /\ row[s] = "none" /\ footage[s] = {}
        /\ closing = None /\ closing' = s /\ fresh' = fresh \ {s}
        /\ UNCHANGED <<row, pc, bucket, adds>>
        /\ footage'[s] = {s}
        /\ \A r \in Recordings \ {s} : footage'[r] = footage[r] /\ file'[r] = file[r]
    BY <1>1 DEF CloseSegment, HourInv, CallersInv, KeepInv, FileInv, TypeOK, Recordings
  <2>2. pc = "replace" => bucket \in Recordings \ {s} /\ FootageIn(adds)' = FootageIn(adds)
    <3>1. FootageIn(adds)' = FootageIn(adds)
      BY <2>1 DEF FootageIn, TypeOK
    <3> QED
      BY <3>1 DEF TypeOK, HourInv, CallersInv, Recordings
  <2>3. s \notin InitialHours /\ InitialHours \subseteq Recordings
    BY DEF Recordings
  <2>4. NewInv'
    BY <2>1, <2>2, <2>3 DEF NewInv
  <2>5. ListedInv'
    BY <2>1 DEF ListedInv
  <2> QED
    BY <2>4, <2>5
<1>2. CASE InsertRecording
  <2>1. /\ closing \in Recordings /\ closing' = None /\ UNCHANGED <<file, footage, fresh, pc, bucket, adds>>
        /\ \A r \in Recordings \ {closing} : row'[r] = row[r]
        /\ closing \notin adds /\ adds \subseteq Recordings /\ row'[closing] = "pending"
    BY <1>2 DEF InsertRecording, KeepInv, FileInv, TypeOK, Recordings, MergeAlone
  <2>2. NewInv'
    BY <2>1 DEF NewInv, FootageIn
  <2>3. ListedInv'
    BY <2>1 DEF ListedInv
  <2> QED
    BY <2>2, <2>3
<1>3. CASE Crash
  <2>1. /\ closing' = None /\ pc' = "idle" /\ UNCHANGED <<file, footage, fresh>>
        /\ \A r \in Recordings : row'[r] = "none" => file[r] # "visible"
    BY <1>3 DEF Crash, With
  <2> QED
    BY <2>1 DEF NewInv, ListedInv
<1> QED
  BY <1>1, <1>2, <1>3

\* A merge step copies no footage that has no row yet.
LEMMA MergeKeepsRead ==
    ASSUME TypeOK, HourInv, KeepInv, ReadInv, MergeAlone, MergeStep
    PROVE  ReadInv'
<1> USE HourAssumption DEF Goto, diskVars, closeVars, eraseVars
<1>a. UNCHANGED <<fresh, closing>>
  BY DEF MergeStep
<1>b. closing # None => row[closing] = "none" /\ file[closing] = "visible" /\ closing \notin adds
  BY DEF HourInv, CallersInv, KeepInv, FileInv
<1>c. \A s \in fresh : s \in Recordings /\ row[s] = "none" /\ file[s] = "none" /\ footage[s] = {} /\ s \notin adds
  BY DEF HourInv, CallersInv, KeepInv, FileInv, TypeOK, Recordings
<1>1. CASE RestoreEnd("undoing", "unhide") \/ WriteMoov
  <2>1. /\ bucket \in Recordings /\ row[bucket] = "merged" /\ journal[bucket].old # {}
        /\ journal[bucket].old \subseteq footage[bucket]
    BY <1>1 DEF RestoreEnd, WriteMoov, TypeOK, KeepInv, JournalInv
  <2>2. /\ pc' \in {"unhide", "hide", "idle"} /\ pc \notin {"replace", "erase"} /\ UNCHANGED <<row, file>>
        /\ \A r \in Recordings \ {bucket} : footage'[r] = footage[r]
        /\ \/ footage'[bucket] = journal[bucket].old
           \/ footage'[bucket] = footage[bucket] \cup FootageIn(adds)
    BY <1>1 DEF RestoreEnd, WriteMoov, TypeOK
  <2>3. \A s \in fresh : s \notin FootageIn(adds)
    BY DEF ReadInv, NewInv, FootageIn, TypeOK
  <2>4. closing # None => closing \notin FootageIn(adds)
    BY <1>b DEF ReadInv, NewInv, FootageIn, TypeOK
  <2>a. /\ footage[bucket] # {} /\ (closing # None => closing # bucket /\ closing \in Recordings)
        /\ InitialHours \subseteq Recordings
    BY <1>b, <2>1 DEF KeepInv, FileInv, TypeOK, Recordings
  <2>5. NewInv'
    BY <1>a, <1>b, <1>c, <2>1, <2>2, <2>3, <2>4, <2>a DEF ReadInv, NewInv
  <2>6. ListedInv'
    BY <1>a, <2>2 DEF ReadInv, ListedInv
  <2> QED
    BY <2>5, <2>6 DEF ReadInv
<1>2. ASSUME NEW h \in Hours, CreateMerged(h) PROVE ReadInv'
  <2>1. /\ bucket' = h /\ UNCHANGED <<row, adds>> /\ footage[h] = {} /\ pc = "create"
        /\ footage'[h] = FootageIn(adds)
        /\ \A r \in Recordings \ {h} : footage'[r] = footage[r]
    BY <1>2 DEF CreateMerged, TypeOK, Recordings
  <2>2. Hours # InitialHours
    BY <2>1 DEF ReadInv, NewInv
  <2>3. h \notin adds /\ FootageIn(adds)' = FootageIn(adds)
    <3>1. h \notin adds
      BY <1>2, <2>1 DEF CreateMerged, Readable, KeepInv, FileInv, TypeOK
    <3> QED
      BY <2>1, <3>1 DEF FootageIn, TypeOK
  <2>4. /\ \A s \in fresh : s \notin FootageIn(adds) /\ s # h
        /\ closing # None => closing \notin FootageIn(adds) /\ closing # h
    BY <1>b DEF ReadInv, NewInv, FootageIn, TypeOK
  <2>5. \A r \in adds : row[r] # "none"
    BY <2>1 DEF HourInv, AddsInv
  <2>a. /\ h \notin InitialHours /\ InitialHours \subseteq Recordings /\ fresh \subseteq Recordings
        /\ closing # None => closing \in Recordings
    BY <2>1 DEF ReadInv, NewInv, TypeOK, Recordings
  <2>6. NewInv'
    <3>1. \A s \in fresh' : \A q \in Recordings : s \notin footage'[q]
      BY <1>a, <2>1, <2>4 DEF ReadInv, NewInv
    <3>2. closing # None => /\ footage'[closing] = {closing}
                            /\ \A q \in Recordings \ {closing} : closing \notin footage'[q]
      BY <2>1, <2>4, <2>a DEF ReadInv, NewInv
    <3>3. \A i \in InitialHours : footage'[i] # {}
      BY <2>1, <2>a DEF ReadInv, NewInv
    <3> QED
      BY <1>a, <2>1, <2>3, <2>5, <3>1, <3>2, <3>3 DEF NewInv
  <2> QED
    BY <2>2, <2>6 DEF ReadInv, ListedInv
<1>3. CASE MergeAndReplace \/ DeleteSources
  <2>1. pc \in {"replace", "erase"} /\ pc' # "replace" /\ UNCHANGED footage
    BY <1>3 DEF MergeAndReplace, DeleteSources
  <2> QED
    BY <1>a, <2>1 DEF ReadInv, NewInv, ListedInv
<1>4. CASE GrowMergedRecording
  <2>1. /\ UNCHANGED <<file, footage>> /\ pc' = "commit"
        /\ \A r \in Recordings : row'[r] = "none" /\ file[r] = "visible" => row[r] = "none"
    BY <1>4, GrowContent DEF GrowMergedRecording
  <2> QED
    BY <1>a, <2>1 DEF ReadInv, NewInv, ListedInv
<1>5. CASE \/ HideConsumed \/ Unhide("unhide", "drop")
           \/ RemoveConsumed("keep", "drop") \/ RemoveConsumed("consume", "idle")
  <2>1. /\ UNCHANGED <<row, footage>> /\ pc \notin {"replace", "erase"} /\ pc' \notin {"replace", "erase"}
        /\ \A r \in Recordings : file'[r] = file[r] \/ file'[r] # "visible"
                                 \/ (pc = "unhide" /\ r \in left)
    BY <1>5 DEF HideConsumed, Unhide, RemoveConsumed, TypeOK
  <2>2. pc = "unhide" => \A r \in left : row[r] # "none"
    BY SourceContent DEF Waits, KeepInv, ReconcileInv, TypeOK
  <2> QED
    BY <1>a, <2>1, <2>2 DEF ReadInv, NewInv, ListedInv
<1>6. ASSUME ~(RestoreEnd("undoing", "unhide") \/ WriteMoov), ~ \E h \in Hours : CreateMerged(h),
             ~(MergeAndReplace \/ DeleteSources), ~GrowMergedRecording,
             ~(\/ HideConsumed \/ Unhide("unhide", "drop")
               \/ RemoveConsumed("keep", "drop") \/ RemoveConsumed("consume", "idle"))
      PROVE  UNCHANGED <<row, file, footage>> /\ pc' \notin {"replace", "erase"}
  <2>1. CASE ReconcileStep
    BY <1>6, <2>1 DEF ReconcileStep, RestoreBegin, RestoreMissing, DropJournal, TypeOK
  <2>2. CASE AppendStep
    <3>1. CASE Rollback
      BY <3>1 DEF Rollback, Unhide, RestoreBegin, RestoreEnd, RestoreMissing, KeepInv, ReconcileInv
    <3>2. CASE ReconcileBucket
      BY <3>2 DEF ReconcileBucket, Reconcile, ReconcileFails
    <3> QED
      BY <1>6, <2>2, <3>1, <3>2
         DEF AppendStep, WriteJournal, NotAppendable, AppendRefused, WriteSamples,
             SamplesRefused, WriteFails, AllHidden, GrowFails, CommitAppend
  <2>3. CASE RemuxStep
    BY <1>6, <2>3 DEF RemuxStep, CreateRefused, ReplaceFails, MergeAlone
  <2>4. CASE ScanJournals
    BY <2>4 DEF ScanJournals, Reconcile, ReconcileFails
  <2> QED
    BY <1>6, <2>1, <2>2, <2>3, <2>4
       DEF MergeStep, MergeHour, PlanAppend, PlanCreate, PlanNothing, ProcessCamera,
           MarkSingleton, MergeAlone
<1> QED
  BY <1>a, <1>1, <1>2, <1>3, <1>4, <1>5, <1>6, ReadFrame

\* Every step keeps footage without a row out of every other file.
LEMMA ReadStep ==
    ASSUME TypeOK, HourInv, KeepInv, ReadInv, MergeAlone, [Next]_vars PROVE ReadInv'
<1>1. CASE InsertRecording \/ (\E s \in Segments : CloseSegment(s)) \/ Crash
  BY <1>1, RecorderKeepsRead
<1>2. CASE MergeStep
  BY <1>2, MergeKeepsRead
<1>3. ~ \E r \in ApiTargets \cup CleanupTargets : TRUE
  BY DEF MergeAlone
<1>4. ~ (ApiDeleteFile \/ CleanupFile \/ CleanupRow)
  BY DEF ApiDeleteFile, CleanupFile, CleanupRow, HourInv, CallersInv
<1>5. CASE UNCHANGED vars
  BY <1>5 DEF vars, diskVars, closeVars, mergeVars, ReadInv, NewInv, ListedInv, FootageIn
<1> QED
  BY <1>1, <1>2, <1>3, <1>4, <1>5 DEF Next

\* What a reader finds: the content of the recordings that have a row.
View == [r \in Recordings |-> IF row[r] = "none" THEN {} ELSE Content(r)]

\* A new row lists the segment that was closed; a transaction moves the content
\* of whole recordings; nothing else changes what a reader finds.
LEMMA ViewStep ==
    ASSUME TypeOK, HourInv, KeepInv, ReadInv, MergeAlone, NoRemuxCrash, [Next]_vars
    PROVE  \/ View' = View
           \/ \E s \in Recordings : /\ View[s] = {} /\ \A q \in Recordings : s \notin View[q]
                                    /\ View' = [View EXCEPT ![s] = {s}]
           \/ \E h \in Recordings, S \in SUBSET {r \in Recordings : View[r] # {}} :
                 /\ h \notin S
                 /\ View' = [r \in Recordings |->
                                IF r = h THEN View[h] \cup UNION {View[q] : q \in S}
                                ELSE IF r \in S THEN {} ELSE View[r]]
<1> USE DEF Goto, diskVars
<1>1. CASE \E s \in Segments : CloseSegment(s)
  <2>1. PICK s \in Segments : CloseSegment(s)
    BY <1>1
  <2>2. UNCHANGED row
    BY <2>1 DEF CloseSegment
  <2>3. \A r \in Recordings : row'[r] = row[r] /\ (row[r] # "none" => Content(r)' = Content(r))
    BY <2>1, <2>2, CloseContent
  <2> QED
    BY <2>3 DEF View
<1>2. CASE InsertRecording \/ Crash
  <2>0. ~Gains
    BY <1>2 DEF InsertRecording, Crash, Gains, CloseSegment, GrowMergedRecording, CreateMerged,
                mergeVars
  <2>1. \A r \in Recordings : Content(r)' = Content(r)
    BY <2>0, ContentIsSteady
  <2>2. \A r \in Recordings : row'[r] # row[r] => r = closing /\ row'[r] # "none"
    <3>1. CASE InsertRecording
      BY <3>1, HourAssumption DEF InsertRecording, HourInv, CallersInv, TypeOK, Recordings
    <3>2. CASE Crash
      <4>1. Hours = InitialHours
        BY <3>2 DEF Crash, NoRemuxCrash, TypeOK
      <4>2. \A r \in Recordings : row'[r] # row[r] => row[r] = "none" /\ file[r] = "visible" /\ row'[r] # "none"
        BY <3>2 DEF Crash, With
      <4> QED
        BY <4>1, <4>2 DEF ReadInv, ListedInv
    <3> QED
      BY <1>2, <3>1, <3>2
  <2>3. CASE \A r \in Recordings : row'[r] = row[r]
    BY <2>1, <2>3 DEF View
  <2>4. ASSUME closing \in Recordings, row'[closing] # row[closing]
        PROVE  \E s \in Recordings : /\ View[s] = {} /\ \A q \in Recordings : s \notin View[q]
                                     /\ View' = [View EXCEPT ![s] = {s}]
    <3>1. /\ row[closing] = "none" /\ row'[closing] # "none" /\ footage[closing] = {closing}
          /\ \A q \in Recordings \ {closing} : closing \notin footage[q]
      BY <2>2, <2>4, HourAssumption DEF HourInv, CallersInv, ReadInv, NewInv, Recordings
    <3>2. Content(closing) = {closing} /\ \A q \in Recordings : Content(q) \subseteq footage[q]
      BY <2>4, <3>1 DEF Content, Waits, KeepInv, JournalInv
    <3>3. \A q \in Recordings : View'[q] = IF q = closing THEN {closing} ELSE View[q]
      BY <2>1, <2>2, <3>1, <3>2 DEF View
    <3>4. View' = [View EXCEPT ![closing] = {closing}]
      BY <3>3 DEF View
    <3>5. View[closing] = {} /\ \A q \in Recordings : closing \notin View[q]
      BY <2>4, <3>1, <3>2 DEF View
    <3> QED
      BY <2>4, <3>4, <3>5
  <2> QED
    BY <2>2, <2>3, <2>4
<1>3. CASE GrowMergedRecording
  <2> DEFINE V(r) == IF row[r] = "none" THEN {} ELSE Content(r)
  <2>1. /\ bucket \in Recordings \ adds /\ adds \subseteq Recordings
        /\ row[bucket] # "none" /\ UNCHANGED <<bucket, adds>>
        /\ \A r \in Recordings : row'[r] = IF r \in adds THEN "none" ELSE row[r]
    BY <1>3, GrowContent DEF GrowMergedRecording, TypeOK
  <2>2. \A r \in adds : View[r] = footage[r] /\ View[r] # {}
    BY <1>3, <2>1, GrowContent DEF View, KeepInv, FileInv
  <2>3. FootageIn(adds) = UNION {View[q] : q \in adds}
    BY <2>2 DEF FootageIn
  <2>4. \A r \in Recordings : View'[r] = IF r = bucket THEN View[bucket] \cup UNION {View[q] : q \in adds}
                                          ELSE IF r \in adds THEN {} ELSE View[r]
    BY <1>3, <2>1, <2>3, GrowContent DEF View
  <2>5. View' = [r \in Recordings |-> IF r = bucket THEN View[bucket] \cup UNION {View[q] : q \in adds}
                                       ELSE IF r \in adds THEN {} ELSE View[r]]
    BY <2>4 DEF View
  <2> QED
    BY <2>1, <2>2, <2>5
<1>4. CASE \E h \in Hours : CreateMerged(h)
  <2>1. PICK h \in Hours : CreateMerged(h)
    BY <1>4
  <2>2. UNCHANGED row /\ row[h] = "none"
    BY <2>1, CreateContent DEF CreateMerged, KeepInv, FileInv, Recordings
  <2>3. \A r \in Recordings : row'[r] = row[r] /\ (row[r] # "none" => Content(r)' = Content(r))
    BY <2>1, <2>2, CreateContent
  <2> QED
    BY <2>3 DEF View
<1>5. CASE MergeAndReplace
  <2>0. ~Gains
    BY <1>5 DEF MergeAndReplace, Gains, CloseSegment, GrowMergedRecording, CreateMerged,
                mergeVars
  <2>1. \A r \in Recordings : Content(r)' = Content(r) /\ Content(r) = footage[r]
    <3>1. \A b \in Recordings : journal[b] = None
      BY <1>5 DEF MergeAndReplace, KeepInv, JournalInv, HourInv, TodoInv, Settled, Reconciling, Appending
    <3> QED
      BY <2>0, <3>1, ContentIsSteady DEF Content, Waits
  <2>2. /\ bucket \in Recordings \ adds /\ adds \subseteq Recordings /\ UNCHANGED <<bucket, adds>>
        /\ row[bucket] = "none" /\ footage[bucket] = FootageIn(adds)
        /\ \A r \in adds : row[r] # "none" /\ footage[r] # {}
        /\ \A r \in Recordings : row'[r] = IF r = bucket THEN "merged" ELSE IF r \in adds THEN "none" ELSE row[r]
    BY <1>5 DEF MergeAndReplace, With, TypeOK, KeepInv, AbsorbedInv, ReadInv, NewInv, FileInv
  <2>3. \A r \in adds : View[r] = footage[r] /\ View[r] # {}
    BY <2>1, <2>2 DEF View
  <2>4. FootageIn(adds) = UNION {View[q] : q \in adds}
    BY <2>3 DEF FootageIn
  <2>5. \A r \in Recordings : View'[r] = IF r = bucket THEN View[bucket] \cup UNION {View[q] : q \in adds}
                                          ELSE IF r \in adds THEN {} ELSE View[r]
    BY <2>1, <2>2, <2>4 DEF View
  <2>6. View' = [r \in Recordings |-> IF r = bucket THEN View[bucket] \cup UNION {View[q] : q \in adds}
                                       ELSE IF r \in adds THEN {} ELSE View[r]]
    BY <2>5 DEF View
  <2> QED
    BY <2>2, <2>3, <2>6
<1>6. ASSUME ~Gains, ~(InsertRecording \/ Crash), ~MergeAndReplace PROVE View' = View
  <2>1. \A r \in Recordings : Content(r)' = Content(r)
    BY <1>6, ContentIsSteady
  <2>2. UNCHANGED row
    <3>1. CASE ReconcileStep
      BY <3>1 DEF ReconcileStep, RestoreBegin, RestoreEnd, RestoreMissing, Unhide, RemoveConsumed,
                  DropJournal
    <3>2. CASE AppendStep
      BY <1>6, <3>2
         DEF AppendStep, ReconcileBucket, WriteJournal, NotAppendable, AppendRefused, WriteSamples,
             SamplesRefused, WriteMoov, WriteFails, HideConsumed, AllHidden, GrowFails, CommitAppend,
             RemoveConsumed, Rollback, Unhide, RestoreBegin, RestoreEnd, RestoreMissing, Gains
    <3>3. CASE RemuxStep
      BY <1>6, <3>3 DEF RemuxStep, CreateRefused, ReplaceFails, DeleteSources, Gains
    <3>4. CASE UNCHANGED vars
      BY <3>4 DEF vars
    <3>5. ~ \E r \in ApiTargets \cup CleanupTargets : TRUE
      BY DEF MergeAlone
    <3>6. ~ (ApiDeleteFile \/ CleanupFile \/ CleanupRow)
      BY DEF ApiDeleteFile, CleanupFile, CleanupRow, HourInv, CallersInv
    <3> QED
      BY <1>6, <3>1, <3>2, <3>3, <3>4, <3>5, <3>6
         DEF Next, MergeStep, MergeHour, ScanJournals, PlanAppend, PlanCreate, PlanNothing, Gains,
             ProcessCamera, MarkSingleton, MergeAlone
  <2> QED
    BY <2>1, <2>2 DEF View
<1> QED
  BY <1>1, <1>2, <1>3, <1>4, <1>5, <1>6 DEF Gains

\* The archive a reader finds is the view.
LEMMA ArchiveIsView ==
    ASSUME TypeOK, HourInv, KeepInv
    PROVE  [r \in Recordings |-> IF row[r] = "none" THEN {} ELSE Recovered(r)] = View
<1>1. \A r \in Recordings : Recovered(r) = Content(r)
  BY ContentIsRecovered
<1> QED
  BY <1>1 DEF View

\* Read through the pending journals, rows and files behave like an archive in
\* which a merge is one step: no reader sees half of an append or of a remux.
THEOREM MergesAreAtomic == ASSUME MergeAlone, NoRemuxCrash PROVE Spec => ImplementsArchive
<1> DEFINE Arch == [r \in Recordings |-> IF row[r] = "none" THEN {} ELSE Recovered(r)]
           Inv == HourInv /\ KeepInv /\ ReadInv
<1>1. Init => Inv
  BY HourInit, KeepInit, ReadInit
<1>2. TypeOK /\ Inv /\ [Next]_vars => Inv'
  BY HourStep, KeepStep, ReadStep
<1>3. TypeOK /\ Inv => Arch = View
  BY ArchiveIsView
<1>4. TypeOK => Archive!ArchiveInit
  <2> SUFFICES ASSUME TypeOK, NEW r \in Recordings PROVE Recovered(r) \subseteq Recordings
    BY DEF Archive!ArchiveInit
  <2>1. journal[r] # None => journal[r].old \subseteq Recordings
    BY DEF TypeOK, Journals
  <2> QED
    BY <2>1 DEF Recovered, Undone, TypeOK
<1>5. TypeOK /\ Inv /\ Arch = View /\ (Arch = View)' /\ [Next]_vars => [Archive!ArchiveNext]_Arch
  <2> SUFFICES ASSUME TypeOK, Inv, Arch = View, (Arch = View)', [Next]_vars, Arch' # Arch
               PROVE  Archive!ArchiveNext
    OBVIOUS
  <2>1. ASSUME NEW s \in Recordings, View[s] = {}, \A q \in Recordings : s \notin View[q],
               View' = [View EXCEPT ![s] = {s}]
        PROVE  Archive!Record(s)
    BY <2>1 DEF Archive!Record
  <2>2. ASSUME NEW h \in Recordings, NEW S \in SUBSET {r \in Recordings : View[r] # {}}, h \notin S,
               View' = [r \in Recordings |-> IF r = h THEN View[h] \cup UNION {View[q] : q \in S}
                                             ELSE IF r \in S THEN {} ELSE View[r]]
        PROVE  Archive!Absorb(h, S) /\ S \in SUBSET Archive!Listed
    <3>1. Archive!FootageOf(S) = UNION {View[q] : q \in S}
      BY DEF Archive!FootageOf
    <3>2. Archive!Listed = {r \in Recordings : View[r] # {}}
      BY DEF Archive!Listed
    <3>3. Arch' = [r \in Recordings |-> IF r = h THEN Arch[h] \cup Archive!FootageOf(S)
                                        ELSE IF r \in S THEN {} ELSE Arch[r]]
      BY <2>2, <3>1
    <3> QED
      BY <2>2, <3>2, <3>3 DEF Archive!Absorb
  <2> QED
    BY <2>1, <2>2, ViewStep DEF Archive!ArchiveNext
<1> HIDE DEF Inv
<1> QED
  BY <1>1, <1>2, <1>3, <1>4, <1>5, HourTyping, PTL DEF Spec, ImplementsArchive, Archive!ArchiveSpec

\* No footage is found in two recordings.
Once == \A r, q \in Recordings : r # q => View[r] \cap View[q] = {}

\* A step of the archive lists nothing twice.
LEMMA OnceStep ==
    ASSUME TypeOK, HourInv, KeepInv, ReadInv, MergeAlone, NoRemuxCrash, Once, [Next]_vars
    PROVE  Once'
<1>1. ASSUME View' = View PROVE Once'
  BY <1>1 DEF Once
<1>2. ASSUME NEW s \in Recordings, \A q \in Recordings : s \notin View[q],
             View' = [View EXCEPT ![s] = {s}]
      PROVE  Once'
  <2>1. \A r \in Recordings : View'[r] = IF r = s THEN {s} ELSE View[r]
    BY <1>2 DEF View
  <2> QED
    BY <1>2, <2>1 DEF Once
<1>3. ASSUME NEW h \in Recordings, NEW S \in SUBSET {r \in Recordings : View[r] # {}}, h \notin S,
             View' = [r \in Recordings |-> IF r = h THEN View[h] \cup UNION {View[q] : q \in S}
                                           ELSE IF r \in S THEN {} ELSE View[r]]
      PROVE  Once'
  <2>1. \A r \in Recordings : View'[r] = IF r = h THEN View[h] \cup UNION {View[q] : q \in S}
                                          ELSE IF r \in S THEN {} ELSE View[r]
    BY <1>3
  <2>2. \A r \in Recordings \ {h} : View'[r] \cap View'[h] = {}
    <3> SUFFICES ASSUME NEW r \in Recordings \ {h}, r \notin S,
                        NEW f \in View[r], f \in View[h] \cup UNION {View[q] : q \in S}
                 PROVE  FALSE
      BY <2>1
    <3> QED
      BY DEF Once
  <2> QED
    BY <2>1, <2>2 DEF Once
<1> QED
  BY <1>1, <1>2, <1>3, ViewStep

\* A reader who adds up the recordings of a window counts no second twice.
THEOREM MergesListOnce == ASSUME MergeAlone, NoRemuxCrash PROVE Spec => []FootageListedOnce
<1> DEFINE Inv == HourInv /\ KeepInv /\ ReadInv /\ Once
<1>1. Init => Inv
  <2>1. Init => Once
    BY HourAssumption DEF Init, Once, View, Content, Waits
  <2> QED
    BY <2>1, HourInit, KeepInit, ReadInit
<1>2. TypeOK /\ Inv /\ [Next]_vars => Inv'
  BY HourStep, KeepStep, ReadStep, OnceStep
<1>3. TypeOK /\ Inv => FootageListedOnce
  <2> SUFFICES ASSUME TypeOK, Inv PROVE FootageListedOnce
    OBVIOUS
  <2>1. \A r \in Recordings : Recovered(r) = Content(r)
    BY ContentIsRecovered
  <2> QED
    BY <2>1 DEF FootageListedOnce, Once, View
<1> HIDE DEF Inv
<1> QED
  BY <1>1, <1>2, <1>3, HourTyping, PTL DEF Spec

-----------------------------------------------------------------------------
(* Deletions in the middle of a merge *)

\* Nothing interrupts an append: the process does not crash, and syncs succeed.  A
\* journal that stays on disk is taken for finished once the rows it names are
\* deleted, and the torn file is then lost (README).
NothingInterrupts == MaxCrashes = 0 /\ SyncMayFail = FALSE

\* Where the append onto the bucket has a journal and could still be undone ...
Flight == {"undo", "undoing", "unhide"} \cup Appending

\* ... and where the bucket has its new end.
Written == {"hide", "grow", "rollback", "rewind", "rewinding"}

\* What a reader gets from r once the append at work is undone.
Held(r) == IF bucket = r /\ pc \in Flight THEN journal[r].old ELSE footage[r]

\* No file is empty, and a row has a file, unless the cleanup has just deleted it.  What the
\* recorder has not registered yet is nobody else's.
RowsInv ==
    /\ \A r \in Recordings : row[r] # "none" \/ file[r] # "none" => footage[r] # {}
    /\ \A r \in Recordings : row[r] # "none" => file[r] # "none" \/ (victim = r /\ unlinked)
    /\ \A s \in fresh : /\ row[s] = "none" /\ file[s] = "none" /\ footage[s] = {}
                        /\ s \notin adds /\ journal[s] = None
                        /\ \A q \in Recordings : s \notin footage[q]
    /\ closing # None => /\ row[closing] = "none" /\ file[closing] = "visible"
                         /\ closing \notin fresh \cup adds \cup {apiFile, victim}
                         /\ footage[closing] = {closing} /\ journal[closing] = None
                         /\ \A q \in Recordings \ {closing} : closing \notin footage[q]
    /\ \A r \in {apiFile, victim} \ {None} : footage[r] # {}
    /\ apiFile # None => row[apiFile] = "none"

\* A journal lists what its file does, unless the merge has it in hand, and only that
\* merge's file is torn.
IdleJournalInv ==
    /\ \A b \in Recordings : journal[b] # None =>
          /\ row[b] \in {"merged", "none"}
          /\ journal[b].old # {}
          /\ \/ footage[b] = journal[b].old
             \/ bucket = b /\ pc \in Written \cup {"commit"}
             \/ bucket = b /\ pc = "drop" /\ row[b] = "none" /\ file[b] # "visible"
    /\ torn # {} => torn = {bucket} /\ pc \in {"writing", "undoing", "rewinding"}

\* The sources of the merge at work, and its bucket.
AtWorkInv ==
    /\ pc # "idle" => \A r \in adds : journal[r] = None /\ footage[r] # {}
    /\ pc \in {"scan", "plan", "append", "keep", "drop"} \cup Flight =>
          \A r \in adds : row[r] \in {"pending", "none"}
    /\ pc \in {"append", "create"} => adds # {}
    /\ pc \in {"append", "commit", "consume"} \cup Appending => bucket \notin adds
    /\ pc \in Reconciling /\ after = "append" => bucket \notin adds /\ adds # {}
    /\ pc \notin {"idle", "scan", "plan", "create"} => bucket \notin fresh \cup {closing}
    /\ pc = "append" => row[bucket] \in {"merged", "none"}
    /\ pc \in Appending \cup {"commit"} => /\ journal[bucket] # None /\ journal[bucket].ids = adds
                                           /\ after = "idle"
    /\ pc \in Written \cup {"commit"} => footage[bucket] = journal[bucket].old \cup FootageIn(adds)
    /\ pc = "drop" => journal[bucket] # None

\* Only sources of the append at work are hidden, those it has still to visit or has.
HiddenInv ==
    /\ \A r \in Recordings : file[r] = "hidden" =>
          r \in adds /\ pc \in {"hide", "grow", "rollback", "commit", "consume"}
    /\ pc \in {"hide", "rollback", "consume"} => left \subseteq adds
    /\ pc = "hide" => \A r \in adds : file[r] = "hidden" <=> r \notin left
    /\ pc = "grow" => \A r \in adds : file[r] = "hidden"
    /\ pc \in {"rollback", "consume"} => \A r \in adds : file[r] = "hidden" => r \in left

\* A source goes only when the merged file has what it held, or its deletion was
\* asked for.
SourcesGoInv ==
    /\ pc \in {"commit", "consume", "erase"} =>
          /\ \A r \in adds : row[r] = "none"
          /\ file[bucket] = "visible" \/ footage[bucket] \subseteq deleted
    /\ pc \in {"consume", "replace", "erase"} =>
          /\ journal[bucket] = None /\ bucket \notin adds
          /\ FootageIn(adds) \subseteq footage[bucket]
    /\ pc = "erase" => left \subseteq adds
    /\ pc = "replace" =>
          /\ bucket \in Hours /\ row[bucket] = "none" /\ file[bucket] = "visible"
          /\ bucket \notin {apiFile, victim}
          /\ footage[bucket] = FootageIn(adds)
          /\ \A r \in adds : file[r] = "visible" \/ footage[r] \subseteq deleted

\* The deletion of all that a file in the hands of a user or the cleanup holds was asked for.
AskedInv ==
    \A r \in {apiFile, victim} \ {None} : file[r] # "none" => Held(r) \subseteq deleted

DeletionInv == RowsInv /\ IdleJournalInv /\ AtWorkInv /\ HiddenInv /\ SourcesGoInv /\ AskedInv

\* What nobody asked to delete is held.
HeldFootage ==
    \A f \in (InitialHours \cup Segments) \ (fresh \cup deleted) : \E r \in Recordings :
        \/ file[r] = "visible" /\ f \in Held(r)
        \/ file[r] = "hidden" /\ f \in footage[r] /\ pc \in {"hide", "grow", "rollback"}

\* The recordings that are listed or are sources, or the target, of a merge at work hold
\* different footage.
Counted(r) ==
    \/ row[r] # "none"
    \/ r \in adds /\ pc \notin {"idle", "commit", "consume", "erase"}
    \/ r = bucket /\ (pc = "append" \/ (pc \in Reconciling /\ after = "append"))

CountedOnce ==
    \A r, q \in Recordings : r # q /\ Counted(r) /\ Counted(q) => Held(r) \cap Held(q) = {}

\* What is held is what a reader recovers.
LEMMA HeldIsRecovered ==
    ASSUME TypeOK, DeletionInv, NEW r \in Recordings, row[r] # "none" \/ file[r] = "visible"
    PROVE  Recovered(r) = Held(r)
<1> USE DEF DeletionInv, AtWorkInv, Held, Recovered, Undone, Flight, Appending, TypeOK
<1>1. CASE InFlight(r)
  BY <1>1 DEF InFlight
<1>2. CASE ~InFlight(r) /\ Undone(r)
  BY <1>2 DEF IdleJournalInv, SourcesGoInv, InFlight, UndoNeeded, Written
<1>3. CASE ~Undone(r)
  BY <1>3 DEF IdleJournalInv, InFlight
<1> QED
  BY <1>1, <1>2, <1>3

\* A set with enough elements is not empty.
LEMMA SomeRemain ==
    ASSUME NEW S, NEW n \in Nat, n > 0, Cardinality(S) >= n
    PROVE  S # {}
  BY FS_EmptySet

\* The program starts with merged hour files only.
LEMMA DeletionInit == Init => DeletionInv /\ CountedOnce /\ HeldFootage
  BY HourAssumption
  DEF Init, DeletionInv, RowsInv, IdleJournalInv, AtWorkInv, HiddenInv, SourcesGoInv, AskedInv,
      CountedOnce, Counted, HeldFootage, Held, Flight, Written, Appending, Reconciling, Recordings

\* The recorder closes a segment.
LEMMA RecorderBesideDeletions ==
    ASSUME NothingInterrupts, TypeOK, TypeOK', DeletionInv, CountedOnce, HeldFootage,
           NoVictimGrows, NoVictimGrows',
           \/ \E s \in Segments : CloseSegment(s)
           \/ InsertRecording
    PROVE  DeletionInv' /\ CountedOnce' /\ HeldFootage'
<1> USE HourAssumption, HourBoundAssumption
    DEF NothingInterrupts, NoVictimGrows, Flight, Written, Held, Appending, Reconciling, FootageIn,
        Recordings, TypeOK, Goto, closeVars, eraseVars, mergeVars, diskVars, DeletionInv, RowsInv,
        IdleJournalInv, AtWorkInv, HiddenInv, SourcesGoInv, AskedInv
<1>1. CASE \E s \in Segments : CloseSegment(s)
  <2>1. DeletionInv'
    BY <1>1 DEF CloseSegment
  <2>2. CountedOnce'
    BY <1>1 DEF CloseSegment, CountedOnce, Counted
  <2>3. HeldFootage'
    BY <1>1 DEF CloseSegment, HeldFootage
  <2> QED
    BY <2>1, <2>2, <2>3
<1>2. CASE InsertRecording
  <2>1. DeletionInv'
    BY <1>2 DEF InsertRecording
  <2>2. CountedOnce'
    BY <1>2 DEF InsertRecording, CountedOnce, Counted
  <2>3. HeldFootage'
    BY <1>2 DEF InsertRecording, HeldFootage
  <2> QED
    BY <2>1, <2>2, <2>3
<1> QED
  BY <1>1, <1>2

\* A merge lists what there is and plans.
LEMMA PlanBesideDeletions ==
    ASSUME NothingInterrupts, TypeOK, TypeOK', DeletionInv, CountedOnce, HeldFootage,
           NoVictimGrows, NoVictimGrows',
           \/ MergeHour
           \/ ScanJournals
           \/ \E b \in Recordings, S \in SUBSET Recordings : PlanAppend(b, S)
           \/ \E S \in SUBSET Recordings : PlanCreate(S)
           \/ PlanNothing,
           UNCHANGED <<closeVars, eraseVars, crashes>>
    PROVE  DeletionInv' /\ CountedOnce' /\ HeldFootage'
<1> USE HourAssumption, HourBoundAssumption
    DEF NothingInterrupts, NoVictimGrows, Flight, Written, Held, Appending, Reconciling, FootageIn,
        Recordings, TypeOK, Goto, closeVars, eraseVars, mergeVars, diskVars, DeletionInv, RowsInv,
        IdleJournalInv, AtWorkInv, HiddenInv, SourcesGoInv, AskedInv
<1>1. CASE MergeHour
  <2>1. DeletionInv'
    BY <1>1 DEF MergeHour, Pending
  <2>2. CountedOnce'
    BY <1>1 DEF MergeHour, Pending, CountedOnce, Counted
  <2>3. HeldFootage'
    BY <1>1 DEF MergeHour, Pending, HeldFootage
  <2> QED
    BY <2>1, <2>2, <2>3
<1>2. CASE ScanJournals
  <2>1. DeletionInv'
    BY <1>2 DEF ScanJournals, Reconcile, UndoNeeded, ReconcileFails
  <2>2. CountedOnce'
    BY <1>2 DEF ScanJournals, Reconcile, UndoNeeded, ReconcileFails, CountedOnce, Counted
  <2>3. HeldFootage'
    BY <1>2 DEF ScanJournals, Reconcile, UndoNeeded, ReconcileFails, HeldFootage
  <2> QED
    BY <2>1, <2>2, <2>3
<1>3. CASE \E b \in Recordings, S \in SUBSET Recordings : PlanAppend(b, S)
  <2>1. DeletionInv'
    BY <1>3 DEF PlanAppend, Readable
  <2>2. CountedOnce'
    BY <1>3 DEF PlanAppend, Readable, CountedOnce, Counted
  <2>3. HeldFootage'
    BY <1>3 DEF PlanAppend, Readable, HeldFootage
  <2> QED
    BY <2>1, <2>2, <2>3
<1>4. CASE \E S \in SUBSET Recordings : PlanCreate(S)
  <2>0. adds' # {}
    <3> PICK S \in SUBSET Recordings : PlanCreate(S)
      BY <1>4
    <3> QED
      BY SomeRemain DEF PlanCreate
  <2>1. DeletionInv'
    BY <2>0, <1>4 DEF PlanCreate, Readable
  <2>2. CountedOnce'
    BY <1>4 DEF PlanCreate, Readable, CountedOnce, Counted
  <2>3. HeldFootage'
    BY <1>4 DEF PlanCreate, Readable, HeldFootage
  <2> QED
    BY <2>1, <2>2, <2>3
<1>5. CASE PlanNothing
  <2>1. DeletionInv'
    BY <1>5 DEF PlanNothing
  <2>2. CountedOnce'
    BY <1>5 DEF PlanNothing, CountedOnce, Counted
  <2>3. HeldFootage'
    BY <1>5 DEF PlanNothing, HeldFootage
  <2> QED
    BY <2>1, <2>2, <2>3
<1> QED
  BY <1>1, <1>2, <1>3, <1>4, <1>5

\* An append that an earlier merge gave up is undone, or kept.
LEMMA ReconcileBesideDeletions ==
    ASSUME NothingInterrupts, TypeOK, TypeOK', DeletionInv, CountedOnce, HeldFootage,
           NoVictimGrows, NoVictimGrows',
           \/ RestoreBegin("undo", "undoing")
           \/ RestoreEnd("undoing", "unhide")
           \/ RestoreMissing("undo", IF after = "append" THEN "idle" ELSE after)
           \/ Unhide("unhide", "drop")
           \/ RemoveConsumed("keep", "drop")
           \/ DropJournal,
           UNCHANGED <<closeVars, eraseVars, crashes>>
    PROVE  DeletionInv' /\ CountedOnce' /\ HeldFootage'
<1> USE HourAssumption, HourBoundAssumption
    DEF NothingInterrupts, NoVictimGrows, Flight, Written, Held, Appending, Reconciling, FootageIn,
        Recordings, TypeOK, Goto, closeVars, eraseVars, mergeVars, diskVars, DeletionInv, RowsInv,
        IdleJournalInv, AtWorkInv, HiddenInv, SourcesGoInv, AskedInv
<1>1. CASE RestoreBegin("undo", "undoing")
  <2>1. DeletionInv'
    BY <1>1 DEF RestoreBegin
  <2>2. CountedOnce'
    BY <1>1 DEF RestoreBegin, CountedOnce, Counted
  <2>3. HeldFootage'
    BY <1>1 DEF RestoreBegin, HeldFootage
  <2> QED
    BY <2>1, <2>2, <2>3
<1>2. CASE RestoreEnd("undoing", "unhide")
  <2>1. DeletionInv'
    BY <1>2 DEF RestoreEnd
  <2>2. CountedOnce'
    BY <1>2 DEF RestoreEnd, CountedOnce, Counted
  <2>3. HeldFootage'
    BY <1>2 DEF RestoreEnd, HeldFootage
  <2> QED
    BY <2>1, <2>2, <2>3
<1>3. CASE RestoreMissing("undo", IF after = "append" THEN "idle" ELSE after)
  <2>1. DeletionInv'
    BY <1>3 DEF RestoreMissing
  <2>2. CountedOnce'
    BY <1>3 DEF RestoreMissing, CountedOnce, Counted
  <2>3. HeldFootage'
    BY <1>3 DEF RestoreMissing, HeldFootage
  <2> QED
    BY <2>1, <2>2, <2>3
<1>4. CASE Unhide("unhide", "drop")
  <2>1. DeletionInv'
    BY <1>4 DEF Unhide
  <2>2. CountedOnce'
    BY <1>4 DEF Unhide, CountedOnce, Counted
  <2>3. HeldFootage'
    BY <1>4 DEF Unhide, HeldFootage
  <2> QED
    BY <2>1, <2>2, <2>3
<1>5. CASE RemoveConsumed("keep", "drop")
  <2>1. DeletionInv'
    BY <1>5 DEF RemoveConsumed
  <2>2. CountedOnce'
    BY <1>5 DEF RemoveConsumed, CountedOnce, Counted
  <2>3. HeldFootage'
    BY <1>5 DEF RemoveConsumed, HeldFootage
  <2> QED
    BY <2>1, <2>2, <2>3
<1>6. CASE DropJournal
  <2>1. DeletionInv'
    BY <1>6 DEF DropJournal
  <2>2. CountedOnce'
    BY <1>6 DEF DropJournal, CountedOnce, Counted
  <2>3. HeldFootage'
    BY <1>6 DEF DropJournal, HeldFootage
  <2> QED
    BY <2>1, <2>2, <2>3
<1> QED
  BY <1>1, <1>2, <1>3, <1>4, <1>5, <1>6

\* An append up to its end.
LEMMA AppendBesideDeletions ==
    ASSUME NothingInterrupts, TypeOK, TypeOK', DeletionInv, CountedOnce, HeldFootage,
           NoVictimGrows, NoVictimGrows',
           \/ ReconcileBucket
           \/ WriteJournal
           \/ NotAppendable
           \/ AppendRefused
           \/ WriteSamples
           \/ SamplesRefused
           \/ WriteMoov
           \/ WriteFails
           \/ HideConsumed
           \/ AllHidden
           \/ GrowMergedRecording
           \/ GrowFails
           \/ CommitAppend
           \/ RemoveConsumed("consume", "idle"),
           UNCHANGED <<closeVars, eraseVars, crashes>>
    PROVE  DeletionInv' /\ CountedOnce' /\ HeldFootage'
<1> USE HourAssumption, HourBoundAssumption
    DEF NothingInterrupts, NoVictimGrows, Flight, Written, Held, Appending, Reconciling, FootageIn,
        Recordings, TypeOK, Goto, closeVars, eraseVars, mergeVars, diskVars, DeletionInv, RowsInv,
        IdleJournalInv, AtWorkInv, HiddenInv, SourcesGoInv, AskedInv
<1>1. CASE ReconcileBucket
  <2>1. DeletionInv'
    BY <1>1 DEF ReconcileBucket, Reconcile, UndoNeeded, ReconcileFails
  <2>2. CountedOnce'
    BY <1>1 DEF ReconcileBucket, Reconcile, UndoNeeded, ReconcileFails, CountedOnce, Counted
  <2>3. HeldFootage'
    BY <1>1 DEF ReconcileBucket, Reconcile, UndoNeeded, ReconcileFails, HeldFootage
  <2> QED
    BY <2>1, <2>2, <2>3
<1>2. CASE WriteJournal
  <2>1. DeletionInv'
    BY <1>2 DEF WriteJournal, Readable
  <2>2. CountedOnce'
    BY <1>2 DEF WriteJournal, Readable, CountedOnce, Counted
  <2>3. HeldFootage'
    BY <1>2 DEF WriteJournal, Readable, HeldFootage
  <2> QED
    BY <2>1, <2>2, <2>3
<1>3. CASE NotAppendable
  <2>1. DeletionInv'
    BY <1>3 DEF NotAppendable, Readable
  <2>2. CountedOnce'
    BY <1>3 DEF NotAppendable, Readable, CountedOnce, Counted
  <2>3. HeldFootage'
    BY <1>3 DEF NotAppendable, Readable, HeldFootage
  <2> QED
    BY <2>1, <2>2, <2>3
<1>4. CASE AppendRefused
  <2>1. DeletionInv'
    BY <1>4 DEF AppendRefused
  <2>2. CountedOnce'
    BY <1>4 DEF AppendRefused, CountedOnce, Counted
  <2>3. HeldFootage'
    BY <1>4 DEF AppendRefused, HeldFootage
  <2> QED
    BY <2>1, <2>2, <2>3
<1>5. CASE WriteSamples
  <2>1. DeletionInv'
    BY <1>5 DEF WriteSamples, Readable
  <2>2. CountedOnce'
    BY <1>5 DEF WriteSamples, Readable, CountedOnce, Counted
  <2>3. HeldFootage'
    BY <1>5 DEF WriteSamples, Readable, HeldFootage
  <2> QED
    BY <2>1, <2>2, <2>3
<1>6. CASE SamplesRefused
  <2>1. DeletionInv'
    BY <1>6 DEF SamplesRefused
  <2>2. CountedOnce'
    BY <1>6 DEF SamplesRefused, CountedOnce, Counted
  <2>3. HeldFootage'
    BY <1>6 DEF SamplesRefused, HeldFootage
  <2> QED
    BY <2>1, <2>2, <2>3
<1>7. CASE WriteMoov
  <2>1. DeletionInv'
    BY <1>7 DEF WriteMoov
  <2>2. CountedOnce'
    BY <1>7 DEF WriteMoov, CountedOnce, Counted
  <2>3. HeldFootage'
    BY <1>7 DEF WriteMoov, HeldFootage
  <2> QED
    BY <2>1, <2>2, <2>3
<1>8. CASE WriteFails
  <2>1. DeletionInv'
    BY <1>8 DEF WriteFails
  <2>2. CountedOnce'
    BY <1>8 DEF WriteFails, CountedOnce, Counted
  <2>3. HeldFootage'
    BY <1>8 DEF WriteFails, HeldFootage
  <2> QED
    BY <2>1, <2>2, <2>3
<1>9. CASE HideConsumed
  <2>1. DeletionInv'
    BY <1>9 DEF HideConsumed
  <2>2. CountedOnce'
    BY <1>9 DEF HideConsumed, CountedOnce, Counted
  <2>3. HeldFootage'
    BY <1>9 DEF HideConsumed, HeldFootage
  <2> QED
    BY <2>1, <2>2, <2>3
<1>10. CASE AllHidden
  <2>1. DeletionInv'
    BY <1>10 DEF AllHidden
  <2>2. CountedOnce'
    BY <1>10 DEF AllHidden, CountedOnce, Counted
  <2>3. HeldFootage'
    BY <1>10 DEF AllHidden, HeldFootage
  <2> QED
    BY <2>1, <2>2, <2>3
<1>11. CASE GrowMergedRecording
  <2>1. DeletionInv'
    BY <1>11 DEF GrowMergedRecording, With
  <2>2. CountedOnce'
    BY <1>11 DEF GrowMergedRecording, With, CountedOnce, Counted
  <2>3. HeldFootage'
    BY <1>11 DEF GrowMergedRecording, With, HeldFootage
  <2> QED
    BY <2>1, <2>2, <2>3
<1>12. CASE GrowFails
  <2>1. DeletionInv'
    BY <1>12 DEF GrowFails
  <2>2. CountedOnce'
    BY <1>12 DEF GrowFails, CountedOnce, Counted
  <2>3. HeldFootage'
    BY <1>12 DEF GrowFails, HeldFootage
  <2> QED
    BY <2>1, <2>2, <2>3
<1>13. CASE CommitAppend
  <2>1. DeletionInv'
    BY <1>13 DEF CommitAppend
  <2>2. CountedOnce'
    BY <1>13 DEF CommitAppend, CountedOnce, Counted
  <2>3. HeldFootage'
    BY <1>13 DEF CommitAppend, HeldFootage
  <2> QED
    BY <2>1, <2>2, <2>3
<1>14. CASE RemoveConsumed("consume", "idle")
  <2>1. DeletionInv'
    BY <1>14 DEF RemoveConsumed
  <2>2. CountedOnce'
    BY <1>14 DEF RemoveConsumed, CountedOnce, Counted
  <2>3. HeldFootage'
    BY <1>14 DEF RemoveConsumed, HeldFootage
  <2> QED
    BY <2>1, <2>2, <2>3
<1> QED
  BY <1>1, <1>2, <1>3, <1>4, <1>5, <1>6, <1>7, <1>8, <1>9, <1>10, <1>11, <1>12, <1>13, <1>14

\* An append that failed is rolled back.
LEMMA RollbackBesideDeletions ==
    ASSUME NothingInterrupts, TypeOK, TypeOK', DeletionInv, CountedOnce, HeldFootage,
           NoVictimGrows, NoVictimGrows',
           \/ Unhide("rollback", "rewind")
           \/ RestoreBegin("rewind", "rewinding")
           \/ RestoreEnd("rewinding", "drop")
           \/ RestoreMissing("rewind", "drop"),
           UNCHANGED <<closeVars, eraseVars, crashes>>
    PROVE  DeletionInv' /\ CountedOnce' /\ HeldFootage'
<1> USE HourAssumption, HourBoundAssumption
    DEF NothingInterrupts, NoVictimGrows, Flight, Written, Held, Appending, Reconciling, FootageIn,
        Recordings, TypeOK, Goto, closeVars, eraseVars, mergeVars, diskVars, DeletionInv, RowsInv,
        IdleJournalInv, AtWorkInv, HiddenInv, SourcesGoInv, AskedInv
<1>1. CASE Unhide("rollback", "rewind")
  <2>1. DeletionInv'
    BY <1>1 DEF Unhide
  <2>2. CountedOnce'
    BY <1>1 DEF Unhide, CountedOnce, Counted
  <2>3. HeldFootage'
    BY <1>1 DEF Unhide, HeldFootage
  <2> QED
    BY <2>1, <2>2, <2>3
<1>2. CASE RestoreBegin("rewind", "rewinding")
  <2>1. DeletionInv'
    BY <1>2 DEF RestoreBegin
  <2>2. CountedOnce'
    BY <1>2 DEF RestoreBegin, CountedOnce, Counted
  <2>3. HeldFootage'
    BY <1>2 DEF RestoreBegin, HeldFootage
  <2> QED
    BY <2>1, <2>2, <2>3
<1>3. CASE RestoreEnd("rewinding", "drop")
  <2>1. DeletionInv'
    BY <1>3 DEF RestoreEnd
  <2>2. CountedOnce'
    BY <1>3 DEF RestoreEnd, CountedOnce, Counted
  <2>3. HeldFootage'
    BY <1>3 DEF RestoreEnd, HeldFootage
  <2> QED
    BY <2>1, <2>2, <2>3
<1>4. CASE RestoreMissing("rewind", "drop")
  <2>1. DeletionInv'
    BY <1>4 DEF RestoreMissing
  <2>2. CountedOnce'
    BY <1>4 DEF RestoreMissing, CountedOnce, Counted
  <2>3. HeldFootage'
    BY <1>4 DEF RestoreMissing, HeldFootage
  <2> QED
    BY <2>1, <2>2, <2>3
<1> QED
  BY <1>1, <1>2, <1>3, <1>4

\* A remux, and the periodic pass.
LEMMA RemuxBesideDeletions ==
    ASSUME NothingInterrupts, TypeOK, TypeOK', DeletionInv, CountedOnce, HeldFootage,
           NoVictimGrows, NoVictimGrows',
           \/ \E h \in Hours : CreateMerged(h)
           \/ CreateRefused
           \/ MergeAndReplace
           \/ ReplaceFails
           \/ DeleteSources
           \/ ProcessCamera
           \/ MarkSingleton,
           UNCHANGED <<closeVars, eraseVars, crashes>>
    PROVE  DeletionInv' /\ CountedOnce' /\ HeldFootage'
<1> USE HourAssumption, HourBoundAssumption
    DEF NothingInterrupts, NoVictimGrows, Flight, Written, Held, Appending, Reconciling, FootageIn,
        Recordings, TypeOK, Goto, closeVars, eraseVars, mergeVars, diskVars, DeletionInv, RowsInv,
        IdleJournalInv, AtWorkInv, HiddenInv, SourcesGoInv, AskedInv
<1>1. CASE \E h \in Hours : CreateMerged(h)
  <2> PICK h \in Hours : CreateMerged(h)
    BY <1>1
  <2>1. /\ h \in Recordings \ (fresh \cup {closing, apiFile, victim})
        /\ FootageIn(adds) # {}
        /\ \A s \in fresh \cup {closing} : s \notin FootageIn(adds)
    BY DEF CreateMerged
  <2>2. /\ file' = [file EXCEPT ![h] = "visible"]
        /\ footage' = [footage EXCEPT ![h] = FootageIn(adds)]
        /\ UNCHANGED <<row, journal, fresh, closing, apiFile, victim, unlinked, adds>>
    BY DEF CreateMerged
  <2>3. RowsInv'
    <3> HIDE DEF FootageIn, IdleJournalInv, AtWorkInv, HiddenInv, SourcesGoInv, AskedInv
    <3> QED
      BY <2>1, <2>2
  <2>4. DeletionInv'
    <3>1. h \notin adds /\ journal[h] = None /\ row[h] = "none" /\ file[h] = "none"
      BY DEF CreateMerged, Readable
    <3>2. FootageIn(adds)' = FootageIn(adds)
      BY <3>1, <2>2
    <3>3. IdleJournalInv'
      BY <2>2 DEF CreateMerged
    <3>4. AtWorkInv' /\ HiddenInv'
      BY <3>1 DEF CreateMerged
    <3>5. SourcesGoInv'
      BY <3>1, <3>2, <2>1, <2>2 DEF CreateMerged, Readable
    <3>6. AskedInv'
      BY <2>1, <2>2 DEF CreateMerged
    <3> QED
      BY <2>3, <3>3, <3>4, <3>5, <3>6
  <2>5. CountedOnce'
    BY DEF CreateMerged, Readable, CountedOnce, Counted
  <2>6. HeldFootage'
    BY DEF CreateMerged, Readable, HeldFootage
  <2> QED
    BY <2>4, <2>5, <2>6
<1>2. CASE CreateRefused
  <2>1. DeletionInv'
    BY <1>2 DEF CreateRefused
  <2>2. CountedOnce'
    BY <1>2 DEF CreateRefused, CountedOnce, Counted
  <2>3. HeldFootage'
    BY <1>2 DEF CreateRefused, HeldFootage
  <2> QED
    BY <2>1, <2>2, <2>3
<1>3. CASE MergeAndReplace
  <2>1. DeletionInv'
    BY <1>3 DEF MergeAndReplace, With
  <2>2. CountedOnce'
    BY <1>3 DEF MergeAndReplace, With, CountedOnce, Counted
  <2>3. HeldFootage'
    BY <1>3 DEF MergeAndReplace, With, HeldFootage
  <2> QED
    BY <2>1, <2>2, <2>3
<1>4. CASE ReplaceFails
  <2>1. DeletionInv'
    BY <1>4 DEF ReplaceFails
  <2>2. CountedOnce'
    BY <1>4 DEF ReplaceFails, CountedOnce, Counted
  <2>3. HeldFootage'
    BY <1>4 DEF ReplaceFails, HeldFootage
  <2> QED
    BY <2>1, <2>2, <2>3
<1>5. CASE DeleteSources
  <2>1. DeletionInv'
    BY <1>5 DEF DeleteSources
  <2>2. CountedOnce'
    BY <1>5 DEF DeleteSources, CountedOnce, Counted
  <2>3. HeldFootage'
    BY <1>5 DEF DeleteSources, HeldFootage
  <2> QED
    BY <2>1, <2>2, <2>3
<1>6. CASE ProcessCamera
  <2>0. pc' = "create" => adds' # {}
    BY <1>6, SomeRemain DEF ProcessCamera
  <2>1. DeletionInv'
    BY <2>0, <1>6 DEF ProcessCamera, With, Readable, Pending
  <2>2. CountedOnce'
    BY <1>6 DEF ProcessCamera, With, Readable, Pending, CountedOnce, Counted
  <2>3. HeldFootage'
    BY <1>6 DEF ProcessCamera, With, Readable, Pending, HeldFootage
  <2> QED
    BY <2>1, <2>2, <2>3
<1>7. CASE MarkSingleton
  <2>1. DeletionInv'
    BY <1>7 DEF MarkSingleton, Pending
  <2>2. CountedOnce'
    BY <1>7 DEF MarkSingleton, Pending, CountedOnce, Counted
  <2>3. HeldFootage'
    BY <1>7 DEF MarkSingleton, Pending, HeldFootage
  <2> QED
    BY <2>1, <2>2, <2>3
<1> QED
  BY <1>1, <1>2, <1>3, <1>4, <1>5, <1>6, <1>7

\* Users and the cleanup delete.
LEMMA DeletionsInOrder ==
    ASSUME NothingInterrupts, TypeOK, TypeOK', DeletionInv, CountedOnce, HeldFootage,
           NoVictimGrows, NoVictimGrows',
           \/ \E r \in ApiTargets : ApiDeleteRow(r)
           \/ ApiDeleteFile
           \/ \E r \in CleanupTargets : CleanupList(r)
           \/ CleanupFile
           \/ CleanupRow
    PROVE  DeletionInv' /\ CountedOnce' /\ HeldFootage'
<1> USE HourAssumption, HourBoundAssumption
    DEF NothingInterrupts, NoVictimGrows, Flight, Written, Held, Appending, Reconciling, FootageIn,
        Recordings, TypeOK, Goto, closeVars, eraseVars, mergeVars, diskVars, DeletionInv, RowsInv,
        IdleJournalInv, AtWorkInv, HiddenInv, SourcesGoInv, AskedInv
<1>1. CASE \E r \in ApiTargets : ApiDeleteRow(r)
  <2>1. DeletionInv'
    BY <1>1 DEF ApiDeleteRow, Recovered, Undone, InFlight, UndoNeeded
  <2>2. CountedOnce'
    BY <1>1 DEF ApiDeleteRow, Recovered, Undone, InFlight, UndoNeeded, CountedOnce, Counted
  <2>3. HeldFootage'
    BY <1>1 DEF ApiDeleteRow, Recovered, Undone, InFlight, UndoNeeded, HeldFootage
  <2> QED
    BY <2>1, <2>2, <2>3
<1>2. CASE ApiDeleteFile
  <2>1. DeletionInv'
    BY <1>2 DEF ApiDeleteFile, Unlink
  <2>2. CountedOnce'
    BY <1>2 DEF ApiDeleteFile, Unlink, CountedOnce, Counted
  <2>3. HeldFootage'
    BY <1>2 DEF ApiDeleteFile, Unlink, HeldFootage
  <2> QED
    BY <2>1, <2>2, <2>3
<1>3. CASE \E r \in CleanupTargets : CleanupList(r)
  <2>1. DeletionInv'
    BY <1>3 DEF CleanupList, Recovered, Undone, InFlight, UndoNeeded
  <2>2. CountedOnce'
    BY <1>3 DEF CleanupList, Recovered, Undone, InFlight, UndoNeeded, CountedOnce, Counted
  <2>3. HeldFootage'
    BY <1>3 DEF CleanupList, Recovered, Undone, InFlight, UndoNeeded, HeldFootage
  <2> QED
    BY <2>1, <2>2, <2>3
<1>4. CASE CleanupFile
  <2>1. DeletionInv'
    BY <1>4 DEF CleanupFile, Unlink
  <2>2. CountedOnce'
    BY <1>4 DEF CleanupFile, Unlink, CountedOnce, Counted
  <2>3. HeldFootage'
    BY <1>4 DEF CleanupFile, Unlink, HeldFootage
  <2> QED
    BY <2>1, <2>2, <2>3
<1>5. CASE CleanupRow
  <2>1. DeletionInv'
    BY <1>5 DEF CleanupRow
  <2>2. CountedOnce'
    BY <1>5 DEF CleanupRow, CountedOnce, Counted
  <2>3. HeldFootage'
    BY <1>5 DEF CleanupRow, HeldFootage
  <2> QED
    BY <2>1, <2>2, <2>3
<1> QED
  BY <1>1, <1>2, <1>3, <1>4, <1>5

\* Every step keeps it.
LEMMA DeletionStep ==
    ASSUME NothingInterrupts, TypeOK, TypeOK', DeletionInv, CountedOnce, HeldFootage,
           NoVictimGrows, NoVictimGrows', [Next]_vars
    PROVE  DeletionInv' /\ CountedOnce' /\ HeldFootage'
<1>1. CASE (\E s \in Segments : CloseSegment(s)) \/ InsertRecording
  BY <1>1, RecorderBesideDeletions
<1>2. CASE MergeStep
  BY <1>2, PlanBesideDeletions, ReconcileBesideDeletions, AppendBesideDeletions,
     RollbackBesideDeletions, RemuxBesideDeletions
  DEF MergeStep, ReconcileStep, AppendStep, Rollback, RemuxStep
<1>3. CASE \/ \E r \in ApiTargets : ApiDeleteRow(r)
           \/ ApiDeleteFile
           \/ \E r \in CleanupTargets : CleanupList(r)
           \/ CleanupFile
           \/ CleanupRow
  BY <1>3, DeletionsInOrder
<1>4. ~Crash
  BY DEF Crash, TypeOK, NothingInterrupts
<1>5. CASE UNCHANGED vars
  BY <1>5
  DEF vars, diskVars, closeVars, mergeVars, eraseVars, DeletionInv, RowsInv, IdleJournalInv,
      AtWorkInv, HiddenInv, SourcesGoInv, AskedInv, CountedOnce, Counted, HeldFootage, Held,
      FootageIn
<1> QED
  BY <1>1, <1>2, <1>3, <1>4, <1>5 DEF Next

\* Whatever users and the cleanup delete in the middle of a merge, and whichever queries
\* fail: what nobody asked to delete is in a file that can be read, or in a hidden one that
\* the merge at work brings back.
THEOREM DeletionsTakeWhatIsAsked ==
    ASSUME NothingInterrupts PROVE Spec /\ []NoVictimGrows => []FootageKept
<1> DEFINE Inv == DeletionInv /\ CountedOnce /\ HeldFootage
<1>1. TypeOK /\ TypeOK' /\ Inv /\ NoVictimGrows /\ NoVictimGrows' /\ [Next]_vars => Inv'
  BY DeletionStep
<1>2. TypeOK /\ Inv => FootageKept
  <2> SUFFICES ASSUME TypeOK, Inv,
                      NEW f \in (InitialHours \cup Segments) \ (fresh \cup deleted),
                      NEW r \in Recordings,
                      \/ file[r] = "visible" /\ f \in Held(r)
                      \/ /\ file[r] = "hidden" /\ f \in footage[r]
                         /\ pc \in {"hide", "grow", "rollback"}
               PROVE  \/ file[r] = "visible" /\ f \in Recovered(r)
                      \/ /\ file[r] = "hidden" /\ f \in footage[r]
                         /\ \E b \in Recordings : /\ Undone(b) /\ r \in journal[b].ids
                                                  /\ row[b] # "none" \/ InFlight(b)
    BY DEF FootageKept, HeldFootage
  <2>1. CASE file[r] = "visible" /\ f \in Held(r)
    BY <2>1, HeldIsRecovered
  <2>2. CASE file[r] = "hidden" /\ f \in footage[r] /\ pc \in {"hide", "grow", "rollback"}
    <3>1. InFlight(bucket) /\ bucket \in Recordings
      BY <2>2 DEF InFlight, TypeOK
    <3>2. journal[bucket] # None /\ r \in journal[bucket].ids
      BY <2>2 DEF DeletionInv, HiddenInv, AtWorkInv, Appending
    <3> QED
      BY <2>2, <3>1, <3>2 DEF Undone
  <2> QED
    BY <2>1, <2>2
<1> HIDE DEF Inv
<1> QED
  BY <1>1, <1>2, DeletionInit, HourTyping, PTL DEF Spec, Inv

\* ... and no footage is listed twice.
THEOREM DeletionsListOnce ==
    ASSUME NothingInterrupts PROVE Spec /\ []NoVictimGrows => []FootageListedOnce
<1> DEFINE Inv == DeletionInv /\ CountedOnce /\ HeldFootage
<1>1. TypeOK /\ TypeOK' /\ Inv /\ NoVictimGrows /\ NoVictimGrows' /\ [Next]_vars => Inv'
  BY DeletionStep
<1>2. TypeOK /\ Inv => FootageListedOnce
  BY HeldIsRecovered DEF FootageListedOnce, CountedOnce, Counted
<1> HIDE DEF Inv
<1> QED
  BY <1>1, <1>2, DeletionInit, HourTyping, PTL DEF Spec, Inv
=============================================================================
