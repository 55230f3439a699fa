------------------------- MODULE RecordTaskProofs -------------------------
(***************************************************************************)
(* Proofs about RecordTask, for any set of recorders and any bounds: its   *)
(* types, and that every running recorder has exactly one owner.           *)
(***************************************************************************)
EXTENDS RecordTask, TLAPS

USE DEF taskVars, callVars, planVars, streamVars, checkVars, windowVars, vars
USE DEF Idle, Goto, Call, Return, Hold, Input, Steps, Callers

-----------------------------------------------------------------------------
(* Types *)

LEMMA TypingInit == Init => TypeOK
<1> SUFFICES ASSUME Init PROVE TypeOK
  OBVIOUS
<1>1. paused \in BOOLEAN /\ alive \in BOOLEAN /\ desired \in BOOLEAN /\ timer \in BOOLEAN
  BY Zenon DEF Init
<1>2. QED
  BY <1>1, TaskAssumption DEF Init, TypeOK, HeldInSteps, AllPlans, Forgotten

\* What the task manager's steps change.
LEMMA TaskStepTyping ==
  ASSUME TypeOK, NEW c \in Callers, TaskStep(c)
  PROVE  TypeOK'
<1> USE TaskAssumption DEF TypeOK, HeldInSteps
<1>1. CASE EnsureLookup(c)
  BY <1>1 DEF EnsureLookup, TaskStep
<1>2. CASE StartRecorder(c)
  BY <1>2 DEF StartRecorder, TaskStep
<1>3. CASE StartFails(c)
  BY <1>3 DEF StartFails, TaskStep
<1>4. CASE InsertTask(c)
  BY <1>4 DEF InsertTask, TaskStep
<1>5. CASE RemoveTask(c)
  BY <1>5 DEF RemoveTask, TaskStep
<1>6. CASE StopRecorder(c)
  BY <1>6 DEF StopRecorder, TaskStep
<1>7. QED  BY <1>1, <1>2, <1>3, <1>4, <1>5, <1>6 DEF TaskStep

\* What a refresh and a check change.
LEMMA RefreshTyping ==
  ASSUME TypeOK, NEW c \in Callers, Refresh(c)
  PROVE  TypeOK'
<1> USE TaskAssumption DEF TypeOK, HeldInSteps, AllPlans, Forgotten
<1>1. CASE QueryPlans(c)
  BY <1>1 DEF QueryPlans, Refresh
<1>2. CASE QueryFailed(c)
  BY <1>2 DEF QueryFailed, Refresh
<1>3. CASE PublishPlans(c)
  BY <1>3 DEF PublishPlans, Refresh
<1>4. QED  BY <1>1, <1>2, <1>3 DEF Refresh

LEMMA CheckTyping ==
  ASSUME TypeOK, Check
  PROVE  TypeOK'
<1> USE TaskAssumption DEF TypeOK, HeldInSteps
<1>1. CASE Tick
  BY <1>1 DEF Tick, Check
<1>2. CASE TakeDesired
  <2>1. desired' \in BOOLEAN
    BY <1>2, Zenon DEF TakeDesired, Check, Wants
  <2>2. QED
    BY <1>2, <2>1 DEF TakeDesired, Check, Wants
<1>3. CASE ListStreams
  BY <1>3 DEF ListStreams, Check
<1>4. CASE ListFailed
  BY <1>4 DEF ListFailed, Check
<1>5. CASE EnsureListed
  BY <1>5 DEF EnsureListed, Check
<1>6. CASE Sweep
  BY <1>6 DEF Sweep, ForgetCheck, Check
<1>7. QED  BY <1>1, <1>2, <1>3, <1>4, <1>5, <1>6 DEF Check

LEMMA TypingNext ==
  ASSUME TypeOK, [Next]_vars
  PROVE  TypeOK'
<1> USE TaskAssumption DEF TypeOK, HeldInSteps, AllPlans
<1>1. ASSUME NEW c \in Callers, TaskStep(c) PROVE TypeOK'
  BY <1>1, TaskStepTyping
<1>2. ASSUME NEW c \in Callers, Refresh(c) PROVE TypeOK'
  BY <1>2, RefreshTyping
<1>3. CASE Check
  BY <1>3, CheckTyping
<1>4. CASE StreamChanges
  BY <1>4 DEF StreamChanges
<1>5. CASE HandleStreamEvent
  BY <1>5 DEF HandleStreamEvent
<1>6. CASE Trigger
  BY <1>6 DEF Trigger
<1>7. CASE Expire
  BY <1>7 DEF Expire
<1>8. CASE TimerFires
  <2>1. timer' \in BOOLEAN
    BY <1>8, Zenon DEF TimerFires
  <2>2. QED
    BY <1>8, <2>1 DEF TimerFires
<1>9. CASE EndByTimer
  <2>1. timer' \in BOOLEAN
    BY <1>9, Zenon DEF EndByTimer, End
  <2>2. QED
    BY <1>9, <2>1 DEF EndByTimer, End
<1>10. CASE EndByMessage
  <2>1. timer' \in BOOLEAN
    BY <1>10, Zenon DEF EndByMessage, End
  <2>2. QED
    BY <1>10, <2>1 DEF EndByMessage, End
<1>11. CASE ChangePlan
  BY <1>11 DEF ChangePlan
<1>12. CASE PauseRecording
  BY <1>12 DEF PauseRecording
<1>13. CASE ResumeRecording
  <2>1. paused' \in BOOLEAN
    BY <1>13, Zenon DEF ResumeRecording
  <2>2. QED
    BY <1>13, <2>1 DEF ResumeRecording
<1>14. CASE StopCamera
  BY <1>14 DEF StopCamera
<1>15. CASE StartCamera
  BY <1>15 DEF StartCamera
<1>16. CASE BeginShutdown
  BY <1>16 DEF BeginShutdown
<1>17. CASE StopAll
  BY <1>17 DEF StopAll
<1>18. CASE StopManagers
  <2>1. /\ pc \in [Callers -> Steps] /\ HeldInSteps /\ held["main"] = None
        /\ pc' = [pc EXCEPT !["main"] = "stop"] /\ UNCHANGED held
    BY <1>18 DEF StopManagers
  <2>2. "main" \in Callers /\ "stop" \in Steps /\ "stop" \notin {"insert", "discard", "halt"}
    OBVIOUS
  <2>3. pc' \in [Callers -> Steps] /\ HeldInSteps'
    <3> HIDE DEF TypeOK, Steps, Callers
    <3> QED
      BY <2>1, <2>2
  <2> HIDE DEF HeldInSteps
  <2>4. QED
    BY <1>18, <2>3 DEF StopManagers
<1>19. CASE Exit
  BY <1>19 DEF Exit
<1>20. CASE UNCHANGED vars
  BY <1>20
<1>21. QED
  BY <1>1, <1>2, <1>3, <1>4, <1>5, <1>6, <1>7, <1>8, <1>9, <1>10,
     <1>11, <1>12, <1>13, <1>14, <1>15, <1>16, <1>17, <1>18, <1>19, <1>20
     DEF Next

\* The types, and that a caller holds a recorder in exactly the steps between
\* taking and giving it.
THEOREM TaskTyping == Spec => []TypeOK
  BY TypingInit, TypingNext, PTL DEF Spec

-----------------------------------------------------------------------------
(* Ownership *)

LEMMA OwnedInit == Init => RecordersAreOwned
  BY TaskAssumption DEF Init, RecordersAreOwned

LEMMA TaskStepOwned ==
  ASSUME TypeOK, RecordersAreOwned, NEW c \in Callers, TaskStep(c)
  PROVE  RecordersAreOwned'
<1> USE TaskAssumption DEF TypeOK, HeldInSteps, RecordersAreOwned
<1>1. CASE EnsureLookup(c)
  BY <1>1 DEF EnsureLookup, TaskStep
<1>2. CASE StartRecorder(c)
  BY <1>2 DEF StartRecorder, TaskStep
<1>3. CASE StartFails(c)
  BY <1>3 DEF StartFails, TaskStep
<1>4. CASE InsertTask(c)
  BY <1>4 DEF InsertTask, TaskStep
<1>5. CASE RemoveTask(c)
  BY <1>5 DEF RemoveTask, TaskStep
<1>6. CASE StopRecorder(c)
  BY <1>6 DEF StopRecorder, TaskStep
<1>7. QED  BY <1>1, <1>2, <1>3, <1>4, <1>5, <1>6 DEF TaskStep

\* Nothing else touches a recorder.
LEMMA OthersKeepOwners ==
  ASSUME RecordersAreOwned, [Next]_vars, ~ \E c \in Callers : TaskStep(c)
  PROVE  RecordersAreOwned'
<1>1. UNCHANGED <<task, running, held>>
  BY DEF Next, Refresh, QueryPlans, QueryFailed, PublishPlans, Check, StreamChanges, HandleStreamEvent,
         Trigger, Expire, TimerFires, EndByTimer, EndByMessage, End, ChangePlan, PauseRecording,
         ResumeRecording, StopCamera, StartCamera, BeginShutdown, StopAll, StopManagers, Exit
<1>2. QED
  BY <1>1 DEF RecordersAreOwned

\* Every running recorder is the task of the stream or in the hands of one
\* caller, and every such recorder runs.
THEOREM RecordersHaveOwners == Spec => []RecordersAreOwned
<1>1. TypeOK /\ RecordersAreOwned /\ [Next]_vars => RecordersAreOwned'
  BY TaskStepOwned, OthersKeepOwners
<1>2. QED
  BY <1>1, OwnedInit, TaskTyping, PTL DEF Spec

=============================================================================
