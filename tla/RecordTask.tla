---------------------------- MODULE RecordTask ----------------------------
(***************************************************************************)
(* recorder.TaskManager on one stream, with everything that starts and     *)
(* stops its record task: the RecordingScheduler, the camera manager's     *)
(* stream monitor, the EventManager's windows, the API and the shutdown.   *)
(*                                                                         *)
(* TaskManager guards the map of tasks with a mutex, but starts and stops  *)
(* recorders after it is released.  The scheduler decides on snapshots of  *)
(* the plan and of the live streams.  Streams share nothing but the        *)
(* mutexes, so the module follows one.                                     *)
(*                                                                         *)
(* Every input from outside (a stream that comes or goes, a plan change, a *)
(* motion trigger, a device that is stopped) takes one of the inputs left. *)
(***************************************************************************)
EXTENDS Naturals, Sequences

CONSTANTS
    Recorders,  \* recorder objects; an object that is not used can be reused
    Plans,      \* the states of the stream's recording plan
    MaxInputs,  \* bound on the inputs
    MaxFired,   \* bound on the expired timers that wait for the window's mutex
    QueryFails, \* whether a query of the scheduler may fail
    Shutdown,   \* whether the process may be told to stop
    None

\* A plan that records now, one that does not, one that records on events, and
\* that one disabled.
AllPlans == {"record", "off", "event", "muted"}

\* What stands in a local variable that is not in use.
Forgotten == "off"

ASSUME TaskAssumption ==
    /\ None \notin Recorders
    /\ Plans \subseteq AllPlans
    /\ MaxInputs \in Nat
    /\ MaxFired \in Nat \ {0}
    /\ QueryFails \in BOOLEAN
    /\ Shutdown \in BOOLEAN

\* The scheduler's goroutine, MonitorStreamEvents, a Trigger that resumes, an
\* End that pauses, a request, and App.Stop.
Callers == {"scheduler", "monitor", "trigger", "end", "api", "main"}

VARIABLES
    task,      \* TaskManager.tasks[stream]
    running,   \* recorders that were started and not stopped
    pc,        \* where each caller is
    then,      \* where it goes on after that
    held,      \* the recorder it has started or taken out of the map
    plan,      \* the row of recording_plans
    planner,   \* RecordingPlanner's copy of it
    read,      \* what a caller of Refresh has read and not published yet
    paused,    \* CameraManager.pausedRecorders[camera]
    alive,     \* whether lalmax has the stream
    events,    \* stream events the monitor has not received yet
    desired,   \* the scheduler's snapshot of the desired state
    listed,    \* its snapshot of the live streams, None if that failed
    window,    \* the event session: "none", "open", or "over" its deadline
    timer,     \* whether the session's timer is armed
    fired,     \* expired timers that have not got the mutex yet
    phase,     \* "up", or how far App.Stop has come
    inputs     \* inputs left

taskVars   == <<task, running>>
callVars   == <<pc, then, held>>
planVars   == <<plan, planner, read, paused>>
streamVars == <<alive, events>>
checkVars  == <<desired, listed>>
windowVars == <<window, timer, fired>>
vars == <<taskVars, callVars, planVars, streamVars, checkVars, windowVars, phase, inputs>>

Steps == {"idle", "ensure", "start", "insert", "discard", "stop", "halt", "query", "publish",
          "desired", "list", "switch", "sweep"}

\* A caller holds a recorder between starting or removing it and what comes next.
HeldInSteps ==
    \A c \in Callers : pc[c] \in {"insert", "discard", "halt"} <=> held[c] # None

\* The types, and who holds a recorder.
TypeOK ==
    /\ task \in Recorders \cup {None}
    /\ running \subseteq Recorders
    /\ pc \in [Callers -> Steps]
    /\ then \in [Callers -> {"idle", "ensure", "stop", "desired", "sweep"}]
    /\ held \in [Callers -> Recorders \cup {None}]
    /\ plan \in AllPlans /\ planner \in AllPlans
    /\ read \in [Callers -> AllPlans]
    /\ paused \in BOOLEAN
    /\ alive \in BOOLEAN
    /\ events \in Seq({"up", "down"})
    /\ desired \in BOOLEAN
    /\ listed \in BOOLEAN \cup {None}
    /\ window \in {"none", "open", "over"}
    /\ timer \in BOOLEAN
    /\ fired \in 0..MaxFired
    /\ phase \in {"up", "stopping", "swept", "silent", "exit"}
    /\ inputs \in 0..MaxInputs
    /\ HeldInSteps

Init ==
    /\ task = None
    /\ running = {}
    /\ pc = [c \in Callers |-> "idle"]
    /\ then = [c \in Callers |-> "idle"]
    /\ held = [c \in Callers |-> None]
    /\ plan \in Plans
    /\ planner = plan
    /\ read = [c \in Callers |-> Forgotten]
    /\ paused = FALSE
    /\ alive = FALSE
    /\ events = <<>>
    /\ desired = FALSE
    /\ listed = None
    /\ window = "none"
    /\ timer = FALSE
    /\ fired = 0
    /\ phase = "up"
    /\ inputs = MaxInputs

Idle(c) == pc[c] = "idle"

Goto(c, step) == pc' = [pc EXCEPT ![c] = step] /\ UNCHANGED then

\* c makes a call and goes on with next when it is over.
Call(c, step, next) ==
    /\ pc' = [pc EXCEPT ![c] = step]
    /\ then' = [then EXCEPT ![c] = next]

Return(c) == Call(c, then[c], "idle")

Hold(c, r) == held' = [held EXCEPT ![c] = r]

Input ==
    /\ phase = "up"
    /\ inputs > 0
    /\ inputs' = inputs - 1

\* DesiredRecordingStreams, and the mode that admits an event window: the
\* planner keeps the mode of a disabled plan, too.
Wants(p)     == p = "record"
EventMode(p) == p \in {"event", "muted"}

\* EventManager.IsActive
EventOn == window = "open"

-----------------------------------------------------------------------------
(* TaskManager.Ensure and Stop *)

EnsureLookup(c) ==
    /\ pc[c] = "ensure"
    /\ IF task = None THEN Goto(c, "start") ELSE Return(c)
    /\ UNCHANGED <<taskVars, held>>

\* The recorder starts; two callers may come as far as this.
StartRecorder(c) ==
    /\ pc[c] = "start"
    /\ \E r \in Recorders \ running :
          /\ running' = running \cup {r}
          /\ Hold(c, r)
    /\ Goto(c, "insert")
    /\ UNCHANGED task

\* The stream's codec is not known, or not one that is recorded.
StartFails(c) ==
    /\ pc[c] = "start"
    /\ Return(c)
    /\ UNCHANGED <<taskVars, held>>

\* Mutant: the second of two callers does not look again.
InsertUnchecked(c) ==
    /\ pc[c] = "insert"
    /\ task' = held[c]
    /\ Hold(c, None)
    /\ Return(c)
    /\ UNCHANGED running

InsertTask(c) ==
    /\ pc[c] = "insert"
    /\ IF task = None
       THEN task' = held[c] /\ Hold(c, None) /\ Return(c)
       ELSE Goto(c, "discard") /\ UNCHANGED <<task, held>>
    /\ UNCHANGED running

\* Mutant: a stream without a task is not let off.
RemoveUnchecked(c) ==
    /\ pc[c] = "stop"
    /\ Hold(c, task)
    /\ task' = None
    /\ Goto(c, "halt")
    /\ UNCHANGED running

RemoveTask(c) ==
    /\ pc[c] = "stop"
    /\ IF task = None
       THEN Return(c) /\ UNCHANGED <<task, held>>
       ELSE Hold(c, task) /\ task' = None /\ Goto(c, "halt")
    /\ UNCHANGED running

\* Recorder.Stop, of a task that was removed or was one too many.
StopRecorder(c) ==
    /\ pc[c] \in {"halt", "discard"}
    /\ running' = running \ {held[c]}
    /\ Hold(c, None)
    /\ Return(c)
    /\ UNCHANGED task

TaskStep(c) ==
    /\ phase # "exit"
    /\ \/ EnsureLookup(c) \/ StartRecorder(c) \/ StartFails(c) \/ InsertTask(c)
       \/ RemoveTask(c) \/ StopRecorder(c)
    /\ UNCHANGED <<planVars, streamVars, checkVars, windowVars, phase, inputs>>

-----------------------------------------------------------------------------
(* RecordingPlanner.Refresh and the scheduler *)

\* Its two queries are one here; the copy is replaced after them.
QueryPlans(c) ==
    /\ pc[c] = "query"
    /\ read' = [read EXCEPT ![c] = plan]
    /\ Goto(c, "publish")
    /\ UNCHANGED <<held, plan, planner, paused>>

\* The scheduler's check ends there, a request goes on.
QueryFailed(c) ==
    /\ QueryFails
    /\ pc[c] = "query"
    /\ IF c = "scheduler" THEN Call(c, "idle", "idle") ELSE Return(c)
    /\ UNCHANGED <<held, planVars>>

PublishPlans(c) ==
    /\ pc[c] = "publish"
    /\ planner' = read[c]
    /\ read' = [read EXCEPT ![c] = Forgotten]
    /\ Return(c)
    /\ UNCHANGED <<held, plan, paused>>

Refresh(c) ==
    /\ phase # "exit"
    /\ QueryPlans(c) \/ QueryFailed(c) \/ PublishPlans(c)
    /\ UNCHANGED <<taskVars, streamVars, checkVars, windowVars, phase, inputs>>

\* The ticker or ReconcileNow: a tick may come at any time, so that the kick
\* channel adds nothing.
Tick ==
    /\ phase = "up"
    /\ Idle("scheduler")
    /\ Call("scheduler", "query", "desired")
    /\ UNCHANGED checkVars

TakeDesired ==
    /\ pc["scheduler"] = "desired"
    /\ desired' = Wants(planner)
    /\ Goto("scheduler", "list")
    /\ UNCHANGED listed

ListStreams ==
    /\ pc["scheduler"] = "list"
    /\ listed' = alive
    /\ Goto("scheduler", "switch")
    /\ UNCHANGED desired

ListFailed ==
    /\ QueryFails
    /\ pc["scheduler"] = "list"
    /\ listed' = None
    /\ Goto("scheduler", "switch")
    /\ UNCHANGED desired

EnsureListed ==
    /\ pc["scheduler"] = "switch"
    /\ IF listed = TRUE /\ (desired \/ EventOn)
       THEN Call("scheduler", "ensure", "sweep")
       ELSE Goto("scheduler", "sweep")
    /\ UNCHANGED checkVars

\* The check is over.
ForgetCheck == desired' = FALSE /\ listed' = None

\* Mutant: a check whose list of streams failed takes every stream for gone.
SweepBlindly ==
    /\ pc["scheduler"] = "sweep"
    /\ Goto("scheduler", IF task # None /\ desired /\ listed = TRUE THEN "idle" ELSE "stop")
    /\ ForgetCheck

\* Mutant: a task nobody wants any more is left to the stream monitor.
SweepGoneOnly ==
    /\ pc["scheduler"] = "sweep"
    /\ Goto("scheduler", IF task # None /\ listed = FALSE THEN "stop" ELSE "idle")
    /\ ForgetCheck

\* A task is stopped if its stream is gone or nothing wants it any more.
Sweep ==
    /\ pc["scheduler"] = "sweep"
    /\ Goto("scheduler",
            IF task # None /\ (listed = FALSE \/ ~(desired \/ EventOn)) THEN "stop" ELSE "idle")
    /\ ForgetCheck

Check ==
    /\ phase # "exit"
    /\ Tick \/ TakeDesired \/ ListStreams \/ ListFailed \/ EnsureListed \/ Sweep
    /\ UNCHANGED <<taskVars, held, planVars, streamVars, windowVars, phase, inputs>>

-----------------------------------------------------------------------------
(* The stream and its monitor *)

\* The engine's event channel may be full and the event lost.
StreamChanges ==
    /\ Input
    /\ alive' = ~alive
    /\ events' \in {events, Append(events, IF alive' THEN "up" ELSE "down")}
    /\ UNCHANGED <<taskVars, callVars, planVars, checkVars, windowVars, phase>>

\* OnStreamDown, OnStreamUp
HandleStreamEvent ==
    /\ phase # "exit"
    /\ Idle("monitor")
    /\ events # <<>>
    /\ events' = Tail(events)
    /\ Goto("monitor",
            IF Head(events) = "down" THEN "stop"
            ELSE IF Wants(planner) \/ EventOn THEN "ensure" ELSE "idle")
    /\ UNCHANGED <<taskVars, held, planVars, alive, checkVars, windowVars, phase, inputs>>

-----------------------------------------------------------------------------
(* EventManager *)

\* Trigger opens the window or extends it, unless it has lasted for its maximum
\* already, re-arms the timer, and resumes the recording afterwards.
Trigger ==
    /\ Input
    /\ Idle("trigger")
    /\ EventMode(planner)
    /\ window' \in IF window = "none" THEN {"open"} ELSE {"open", "over"}
    /\ timer' = TRUE
    /\ Goto("trigger", "ensure")
    /\ UNCHANGED <<taskVars, held, planVars, streamVars, checkVars, fired, phase>>

\* The deadline passes ...
Expire ==
    /\ phase # "exit"
    /\ window = "open"
    /\ window' = "over"
    /\ UNCHANGED <<taskVars, callVars, planVars, streamVars, checkVars, timer, fired, phase, inputs>>

\* ... and the timer starts the goroutine of End.
TimerFires ==
    /\ phase # "exit"
    /\ timer
    /\ window = "over"
    /\ fired < MaxFired
    /\ timer' = FALSE
    /\ fired' = fired + 1
    /\ UNCHANGED <<taskVars, callVars, planVars, streamVars, checkVars, window, phase, inputs>>

\* End closes whatever window there is and pauses the recording afterwards.
End ==
    /\ Idle("end")
    /\ IF window = "none"
       THEN UNCHANGED <<window, timer, pc, then>>
       ELSE window' = "none" /\ timer' = FALSE /\ Goto("end", "stop")

EndByTimer ==
    /\ phase # "exit"
    /\ fired > 0
    /\ fired' = fired - 1
    /\ End
    /\ UNCHANGED <<taskVars, held, planVars, streamVars, checkVars, phase, inputs>>

\* An MQTT message ends it.
EndByMessage ==
    /\ Input
    /\ End
    /\ UNCHANGED <<taskVars, held, planVars, streamVars, checkVars, fired, phase>>

-----------------------------------------------------------------------------
(* The API *)

\* The plan is written, or a scheduled window begins or ends.
ChangePlan ==
    /\ Input
    /\ plan' \in Plans
    /\ \/ Idle("api") /\ Call("api", "query", "idle")
       \/ {plan, plan'} \subseteq {"record", "off"} /\ UNCHANGED <<pc, then>>
    /\ UNCHANGED <<taskVars, held, planner, read, paused, streamVars, checkVars, windowVars, phase>>

\* handlePauseRecording disables the plan and stops the task, once.
PauseRecording ==
    /\ Input
    /\ Idle("api")
    /\ plan' = CASE plan = "record" -> "off" [] plan = "event" -> "muted" [] OTHER -> plan
    /\ paused' = TRUE
    /\ Call("api", "query", IF paused THEN "idle" ELSE "stop")
    /\ UNCHANGED <<taskVars, held, planner, read, streamVars, checkVars, windowVars, phase>>

\* handleResumeRecording enables it and starts the task if it was paused.
ResumeRecording ==
    /\ Input
    /\ Idle("api")
    /\ plan' = IF plan = "muted" THEN "event" ELSE plan
    /\ paused' = FALSE
    /\ Call("api", "query", IF paused THEN "ensure" ELSE "idle")
    /\ UNCHANGED <<taskVars, held, planner, read, streamVars, checkVars, windowVars, phase>>

\* StopCamera does not touch the mark of a camera that records by a task, and
\* StartCamera starts the task if the plan says so, its stream or no.
StopCamera ==
    /\ Input
    /\ Idle("api")
    /\ Goto("api", "stop")
    /\ UNCHANGED <<taskVars, held, planVars, streamVars, checkVars, windowVars, phase>>

StartCamera ==
    /\ Input
    /\ Idle("api")
    /\ Wants(planner)
    /\ Goto("api", "ensure")
    /\ UNCHANGED <<taskVars, held, planVars, streamVars, checkVars, windowVars, phase>>

-----------------------------------------------------------------------------
(* App.Stop *)

\* The context is cancelled, the HTTP server drained, the scheduler waited for.
BeginShutdown ==
    /\ Shutdown
    /\ phase = "up"
    /\ phase' = "stopping"
    /\ UNCHANGED <<taskVars, callVars, planVars, streamVars, checkVars, windowVars, inputs>>

StopAll ==
    /\ phase = "stopping"
    /\ Idle("scheduler") /\ Idle("api") /\ Idle("main")
    /\ phase' = "swept"
    /\ Goto("main", "stop")
    /\ UNCHANGED <<taskVars, held, planVars, streamVars, checkVars, windowVars, inputs>>

\* The event manager drops its windows and the camera manager stops all tasks
\* once more ...
StopManagers ==
    /\ phase = "swept"
    /\ Idle("main")
    /\ phase' = "silent"
    /\ window' = "none"
    /\ timer' = FALSE
    /\ Goto("main", "stop")
    /\ UNCHANGED <<taskVars, held, planVars, streamVars, checkVars, fired, inputs>>

\* ... and the process ends.
Exit ==
    /\ phase = "silent"
    /\ Idle("main")
    /\ phase' = "exit"
    /\ UNCHANGED <<taskVars, callVars, planVars, streamVars, checkVars, windowVars, inputs>>

-----------------------------------------------------------------------------
Next ==
    \/ \E c \in Callers : TaskStep(c) \/ Refresh(c)
    \/ Check
    \/ StreamChanges \/ HandleStreamEvent
    \/ Trigger \/ Expire \/ TimerFires \/ EndByTimer \/ EndByMessage
    \/ ChangePlan \/ PauseRecording \/ ResumeRecording \/ StopCamera \/ StartCamera
    \/ BeginShutdown \/ StopAll \/ StopManagers \/ Exit

Spec == Init /\ [][Next]_vars

\* Goroutines run, the ticker ticks, deadlines pass.  A start may fail while the
\* stream's codec is unknown, and a query may, but the scheduler's not for ever.
Fairness ==
    /\ \A c \in Callers : WF_vars(TaskStep(c) \/ Refresh(c))
    /\ WF_vars(Check)
    /\ SF_vars(StartRecorder("scheduler") /\ TaskStep("scheduler"))
    /\ SF_vars(QueryPlans("scheduler") /\ Refresh("scheduler"))
    /\ SF_vars(ListStreams /\ Check)
    /\ WF_vars(HandleStreamEvent)
    /\ WF_vars(Expire) /\ WF_vars(TimerFires) /\ WF_vars(EndByTimer)

FairSpec == Spec /\ Fairness

-----------------------------------------------------------------------------
(* Properties *)

\* Whatever writes to disk is in the map of tasks or in the hands of a caller
\* that is about to put it there or to stop it: no recorder is left running
\* that nobody can stop, and none that was stopped is taken for a task.
RecordersAreOwned ==
    /\ running = ({task} \cup {held[c] : c \in Callers}) \ {None}
    /\ \A c \in Callers : held[c] # None => held[c] # task
    /\ \A c, d \in Callers : c # d /\ held[c] # None => held[c] # held[d]

\* A stream that stays up under a plan that keeps wanting it is recorded in the
\* end, whatever races there were before.
PlanIsFollowed ==
    <>[](phase = "up" /\ alive /\ plan = "record") => <>[](task # None)

\* A stream nobody wants recorded, or that is gone, is not recorded in the end.
TaskIsDropped ==
    <>[](phase = "up" /\ (~alive \/ (plan # "record" /\ window = "none")))
        => <>[](task = None)

=============================================================================
