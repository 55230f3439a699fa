---------------------------- MODULE GroupWriter ----------------------------
(***************************************************************************)
(* recorder.GroupWriter and the lalmax group it subscribes to.             *)
(*                                                                         *)
(* The writer keeps at most one recSession per camera.  A session is put   *)
(* in the map under the writer's mutex, but subscribed to the group after  *)
(* the mutex is released, and every removal takes it out of the map first  *)
(* and unsubscribes and halts it later.  The group, meanwhile, may close   *)
(* and be replaced.  Cameras share nothing but the mutex, so the module    *)
(* follows one camera; an actor is a goroutine inside a call: a caller of  *)
(* the writer (scheduler, camera manager), the goroutine of GroupWriter.Run,*)
(* or a Group.OnStop.                                                      *)
(*                                                                         *)
(* Identities of groups and sessions are reused once nothing refers to     *)
(* them, which is what the garbage collector does; no operation is counted.*)
(***************************************************************************)
EXTENDS Naturals, Sequences, FiniteSets

CONSTANTS
    Groups,       \* Group objects of the stream: one is published at a time
    Sessions,     \* recSession objects of the camera
    Attachers,    \* callers of AttachCamera (scheduler, StartCamera, Resume)
    Detachers,    \* callers of Detach (StopCamera)
    Switchers,    \* callers of SetWriting (scheduler, Pause, Resume)
    Closers,      \* callers of Close (App shutdown)
    Run,          \* the goroutine of GroupWriter.Run
    None,
    MaxEvents,    \* bound on the engine events waiting for Run
    LossyEvents,  \* whether the engine may lose an event
    SerialInput   \* whether lal ends one input before it admits the next

Callers == Attachers \cup Detachers \cup Switchers \cup Closers
Actors  == Callers \cup {Run} \cup Groups

ASSUME IdentityAssumption ==
    /\ None \notin Groups \cup Sessions \cup Callers \cup {Run}
    /\ Run \notin Groups \cup Callers
    /\ Groups \cap Callers = {}
ASSUME BoundAssumption ==
    /\ MaxEvents \in Nat
    /\ LossyEvents \in BOOLEAN
    /\ SerialInput \in BOOLEAN

VARIABLES
    published,  \* the group the manager returns for the stream name
    group,      \* Group.closed: "free" before the first use, "open", "closed"
    consumer,   \* Group.consumers[subID]: every session has the same subID
    session,    \* GroupWriter.sessions[camera]
    desired,    \* GroupWriter.desired[camera]; None while not desiredSet
    closed,     \* GroupWriter.closeOnce has run
    of,         \* recSession.group
    writing,    \* recSession.writing
    state,      \* the session's loop: "free", "running", "halted" (stop closed)
    stopped,    \* subscriberState.stopped of the session's subscriber
    pc,         \* where each actor is
    found,      \* the group an attaching actor has looked up
    held,       \* the session an actor is working on
    events      \* engine events Run has not received yet

groupVars   == <<published, group, consumer>>
writerVars  == <<session, desired, closed>>
sessionVars == <<of, writing, state, stopped>>
actorVars   == <<pc, found, held>>
vars == <<groupVars, writerVars, sessionVars, actorVars, events>>

Steps == {"idle", "insert", "subscribe", "forget", "remove", "halt", "enable", "disable",
          "notify", "unpublish", "hook", "pubstop", "exited"}

\* The types, and that no step dereferences a nil group or session.
TypeOK ==
    /\ published \in Groups \cup {None}
    /\ group \in [Groups -> {"free", "open", "closed"}]
    /\ consumer \in [Groups -> Sessions \cup {None}]
    /\ session \in Sessions \cup {None}
    /\ desired \in BOOLEAN \cup {None}
    /\ closed \in BOOLEAN
    /\ of \in [Sessions -> Groups \cup {None}]
    /\ writing \in [Sessions -> BOOLEAN]
    /\ state \in [Sessions -> {"free", "running", "halted"}]
    /\ stopped \in [Sessions -> BOOLEAN]
    /\ pc \in [Actors -> Steps]
    /\ found \in [Actors -> Groups \cup {None}]
    /\ held \in [Actors -> Sessions \cup {None}]
    /\ events \in Seq({"active", "stopped"})
    /\ \A s \in Sessions : state[s] = "running" => of[s] \in Groups
    /\ \A a \in Actors :
          /\ pc[a] = "insert" => found[a] \in Groups
          /\ pc[a] \in {"subscribe", "remove", "halt", "enable", "disable", "notify"}
                => held[a] \in Sessions

Init ==
    /\ published = None
    /\ group = [g \in Groups |-> "free"]
    /\ consumer = [g \in Groups |-> None]
    /\ session = None
    /\ desired = None
    /\ closed = FALSE
    /\ of = [s \in Sessions |-> None]
    /\ writing = [s \in Sessions |-> FALSE]
    /\ state = [s \in Sessions |-> "free"]
    /\ stopped = [s \in Sessions |-> FALSE]
    /\ pc = [a \in Actors |-> "idle"]
    /\ found = [a \in Actors |-> None]
    /\ held = [a \in Actors |-> None]
    /\ events = <<>>

-----------------------------------------------------------------------------
(* Actors *)

Idle(a) == pc[a] = "idle"

\* Where a returns when the writer call it made is over: a group goes on with
\* its own OnStop, any other actor is done.
Home(a) == IF a \in Groups THEN "unpublish" ELSE "idle"

Goto(a, step) == pc' = [pc EXCEPT ![a] = step]
Hold(a, s)    == held' = [held EXCEPT ![a] = s]

Return(a) ==
    /\ Goto(a, Home(a))
    /\ Hold(a, None)

\* Nothing in the process refers to s any more.
Collected(s) ==
    /\ state[s] # "running"
    /\ session # s
    /\ \A g \in Groups : consumer[g] # s
    /\ \A a \in Actors : held[a] # s

\* Nothing in the process refers to g any more.
Released(g) ==
    /\ group[g] # "open"
    /\ Idle(g)
    /\ published # g
    /\ \A a \in Actors : found[a] # g
    /\ \A s \in Sessions : of[s] = g => Collected(s)

\* The engine's event stream: an event waits for Run, or is lost.
Emit(e) ==
    \/ /\ Len(events) < MaxEvents
       /\ events' = Append(events, e)
    \/ /\ LossyEvents
       /\ UNCHANGED events

-----------------------------------------------------------------------------
(* The lalmax group and its manager *)

\* An input arrives and lal asks for its group: GetOrCreateGroup publishes a
\* new one, in the place of a closed one if need be.
Publish(g) ==
    /\ Released(g)
    /\ published # None => group[published] = "closed"
    /\ SerialInput => \A h \in Groups : Idle(h)
    /\ published' = g
    /\ group' = [group EXCEPT ![g] = "open"]
    /\ Emit("active")
    /\ UNCHANGED <<consumer, writerVars, sessionVars, actorVars>>

\* Group.OnStop under lifecycleMux: closed is set, the consumers are taken out.
CloseGroup(g) ==
    /\ group[g] = "open"
    /\ group' = [group EXCEPT ![g] = "closed"]
    /\ consumer' = [consumer EXCEPT ![g] = None]
    /\ Hold(g, consumer[g])
    /\ Goto(g, IF consumer[g] = None THEN "unpublish" ELSE "notify")
    /\ UNCHANGED <<published, writerVars, sessionVars, found, events>>

\* stopWithNotify: the subscriber's OnStop runs unless it was removed meanwhile.
Notify(g) ==
    /\ pc[g] = "notify"
    /\ stopped' = [stopped EXCEPT ![held[g]] = TRUE]
    /\ Goto(g, IF stopped[held[g]] THEN "unpublish" ELSE "forget")
    /\ Hold(g, None)
    /\ UNCHANGED <<groupVars, writerVars, of, writing, state, found, events>>

\* RemoveGroupIfMatch: a late OnStop must not drop the group that replaced it.
Unpublish(g) ==
    /\ pc[g] = "unpublish"
    /\ published' = IF published = g THEN None ELSE published
    /\ Goto(g, "hook")
    /\ UNCHANGED <<group, consumer, writerVars, sessionVars, found, held, events>>

\* The stop hook announces the end of the group, then lal the end of the input.
StopHook(g) ==
    /\ pc[g] = "hook"
    /\ Emit("stopped")
    /\ Goto(g, "pubstop")
    /\ UNCHANGED <<groupVars, writerVars, sessionVars, found, held>>

PubStop(g) ==
    /\ pc[g] = "pubstop"
    /\ Emit("stopped")
    /\ Goto(g, "idle")
    /\ UNCHANGED <<groupVars, writerVars, sessionVars, found, held>>

-----------------------------------------------------------------------------
(* AttachCamera: lookup, insert in the map, subscribe *)

\* Mutant: the result of Find is used unchecked.
LookupUnchecked(a) ==
    IF session = None
    THEN found' = [found EXCEPT ![a] = published] /\ Goto(a, "insert")
    ELSE UNCHANGED <<found, pc>>

\* The first check of the map and the lookup of the group.
Lookup(a) ==
    IF session = None /\ published # None
    THEN /\ found' = [found EXCEPT ![a] = published]
         /\ Goto(a, "insert")
    ELSE UNCHANGED <<found, pc>>

\* Mutant: the map is not checked again after the lookup (s) or the switch is
\* taken from should() although SetWriting was called (on).
InsertLoosely(a, recheck, obey) ==
    /\ pc[a] = "insert"
    /\ found' = [found EXCEPT ![a] = None]
    /\ \/ /\ recheck /\ session # None
          /\ Goto(a, "idle")
          /\ UNCHANGED <<session, sessionVars, held>>
       \/ /\ recheck => session = None
          /\ \E s \in Sessions, on \in BOOLEAN :
                /\ Collected(s)
                /\ obey /\ desired # None => on = desired
                /\ session' = s
                /\ of' = [of EXCEPT ![s] = found[a]]
                /\ writing' = [writing EXCEPT ![s] = on]
                /\ state' = [state EXCEPT ![s] = "running"]
                /\ stopped' = [stopped EXCEPT ![s] = FALSE]
                /\ Hold(a, s)
          /\ Goto(a, "subscribe")
    /\ UNCHANGED <<groupVars, desired, closed, events>>

InsertUnchecked(a) == InsertLoosely(a, FALSE, TRUE)
InsertDisobeying(a) == InsertLoosely(a, TRUE, FALSE)

\* The second check and the insertion, under the mutex.  The switch is the
\* desired one, or what should() says while nobody has called SetWriting.
Insert(a) ==
    /\ pc[a] = "insert"
    /\ found' = [found EXCEPT ![a] = None]
    /\ \/ /\ session # None
          /\ Goto(a, "idle")
          /\ UNCHANGED <<session, sessionVars, held>>
       \/ /\ session = None
          /\ \E s \in Sessions, on \in BOOLEAN :
                /\ Collected(s)
                /\ desired # None => on = desired
                /\ session' = s
                /\ of' = [of EXCEPT ![s] = found[a]]
                /\ writing' = [writing EXCEPT ![s] = on]
                /\ state' = [state EXCEPT ![s] = "running"]
                /\ stopped' = [stopped EXCEPT ![s] = FALSE]
                /\ Hold(a, s)
          /\ Goto(a, "subscribe")
    /\ UNCHANGED <<groupVars, desired, closed, events>>

\* Mutant: AddSubscriber does not look at closed.
SubscribeToClosed(a) ==
    /\ pc[a] = "subscribe"
    /\ LET g == of[held[a]] IN
       consumer' = IF consumer[g] = None
                   THEN [consumer EXCEPT ![g] = held[a]] ELSE consumer
    /\ Return(a)
    /\ UNCHANGED <<published, group, writerVars, sessionVars, found, events>>

\* Group.AddSubscriber: skipped on a closed group and on a subID already there.
Subscribe(a) ==
    /\ pc[a] = "subscribe"
    /\ LET g == of[held[a]] IN
       consumer' = IF group[g] = "open" /\ consumer[g] = None
                   THEN [consumer EXCEPT ![g] = held[a]]
                   ELSE consumer
    /\ Return(a)
    /\ UNCHANGED <<published, group, writerVars, sessionVars, found, events>>

-----------------------------------------------------------------------------
(* forget: take the session out of the map, unsubscribe it, halt it *)

\* Mutant: OnStop halts the session and leaves it in the map.
ForgetKeepingEntry(a) ==
    /\ pc[a] = "forget"
    /\ IF session = None
       THEN Return(a)
       ELSE Hold(a, session) /\ Goto(a, IF a \in Groups THEN "halt" ELSE "remove")
    /\ session' = IF a \in Groups THEN session ELSE None
    /\ UNCHANGED <<groupVars, desired, closed, sessionVars, found, events>>

\* Mutant: OnStop forgets the session and does not halt it.
ForgetWithoutHalt(a) ==
    /\ pc[a] = "forget"
    /\ IF session = None \/ a \in Groups
       THEN Return(a)
       ELSE Hold(a, session) /\ Goto(a, "remove")
    /\ session' = None
    /\ UNCHANGED <<groupVars, desired, closed, sessionVars, found, events>>

\* Whatever session the map holds by now is the one that is dropped.  OnStop
\* calls with removeSub FALSE, everybody else with TRUE.
Forget(a) ==
    /\ pc[a] = "forget"
    /\ \/ /\ session = None
          /\ Return(a)
       \/ /\ session # None
          /\ Hold(a, session)
          /\ Goto(a, IF a \in Groups THEN "halt" ELSE "remove")
    /\ session' = None
    /\ UNCHANGED <<groupVars, desired, closed, sessionVars, found, events>>

\* Mutant: the subscriber is marked stopped and keeps its slot.
RemoveKeepingSlot(a) ==
    /\ pc[a] = "remove"
    /\ stopped' = [s \in Sessions |-> stopped[s] \/ s = consumer[of[held[a]]]]
    /\ Goto(a, "halt")
    /\ UNCHANGED <<groupVars, writerVars, of, writing, state, found, held, events>>

\* Group.RemoveSubscriber(subID) and stopWithoutNotify.
RemoveSubscriber(a) ==
    /\ pc[a] = "remove"
    /\ LET g == of[held[a]] IN
       /\ consumer' = [consumer EXCEPT ![g] = None]
       /\ stopped' = [s \in Sessions |-> stopped[s] \/ s = consumer[g]]
    /\ Goto(a, "halt")
    /\ UNCHANGED <<published, group, writerVars, of, writing, state, found, held, events>>

Halt(a) ==
    /\ pc[a] = "halt"
    /\ state' = [state EXCEPT ![held[a]] = "halted"]
    /\ Return(a)
    /\ UNCHANGED <<groupVars, writerVars, of, writing, stopped, found, events>>

-----------------------------------------------------------------------------
(* The callers *)

Attach(c) ==
    /\ c \in Attachers /\ Idle(c)
    /\ Lookup(c)
    /\ UNCHANGED <<groupVars, writerVars, sessionVars, held, events>>

Detach(c) ==
    /\ c \in Detachers /\ Idle(c)
    /\ Goto(c, "forget")
    /\ UNCHANGED <<groupVars, writerVars, sessionVars, found, held, events>>

\* desired is set under the mutex, the session's switch after it.
SetWriting(c, on) ==
    /\ c \in Switchers /\ Idle(c)
    /\ desired' = on
    /\ IF session = None
       THEN UNCHANGED <<pc, held>>
       ELSE /\ Hold(c, session)
            /\ Goto(c, IF on THEN "enable" ELSE "disable")
    /\ UNCHANGED <<groupVars, session, closed, sessionVars, found, events>>

Storing(c) == pc[c] \in {"enable", "disable"}

StoreWriting(c) ==
    /\ Storing(c)
    /\ writing' = [writing EXCEPT ![held[c]] = (pc[c] = "enable")]
    /\ Return(c)
    /\ UNCHANGED <<groupVars, writerVars, of, state, stopped, found, events>>

\* Close swaps the map for an empty one and drops what it held.
Close(c) ==
    /\ c \in Closers /\ Idle(c) /\ ~closed
    /\ closed' = TRUE
    /\ Goto(c, "forget")
    /\ UNCHANGED <<groupVars, session, desired, sessionVars, found, held, events>>

-----------------------------------------------------------------------------
(* GroupWriter.Run *)

\* onEvent: a stop event detaches, any other one attaches.
RunEvent ==
    /\ Idle(Run) /\ events # <<>>
    /\ events' = Tail(events)
    /\ IF Head(events) = "stopped"
       THEN Goto(Run, "forget") /\ UNCHANGED found
       ELSE Lookup(Run)
    /\ UNCHANGED <<groupVars, writerVars, sessionVars, held>>

\* Sync on the ticker: the stream names the manager iterates are attached, a
\* session whose name was not among them is detached.
RunSync ==
    /\ Idle(Run)
    /\ IF published # None
       THEN Lookup(Run)
       ELSE /\ session # None
            /\ Goto(Run, "forget")
            /\ UNCHANGED found
    /\ UNCHANGED <<groupVars, writerVars, sessionVars, held, events>>

\* ctx is done: Run returns, and its deferred Close finds closeOnce taken.
RunExit ==
    /\ Idle(Run) /\ closed
    /\ Goto(Run, "exited")
    /\ UNCHANGED <<groupVars, writerVars, sessionVars, found, held, events>>

-----------------------------------------------------------------------------

\* The rest of an operation that an actor has begun.
Proceed(a) ==
    \/ Insert(a) \/ Subscribe(a)
    \/ Forget(a) \/ RemoveSubscriber(a) \/ Halt(a)
    \/ StoreWriting(a)

StopGroup(g) == Notify(g) \/ Unpublish(g) \/ StopHook(g) \/ PubStop(g)

Begin(c) ==
    \/ Attach(c) \/ Detach(c) \/ Close(c)
    \/ \E on \in BOOLEAN : SetWriting(c, on)

Next ==
    \/ \E g \in Groups : Publish(g) \/ CloseGroup(g) \/ StopGroup(g)
    \/ \E c \in Callers : Begin(c)
    \/ RunEvent \/ RunSync \/ RunExit
    \/ \E a \in Actors : Proceed(a)

Spec == Init /\ [][Next]_vars

\* No lock is held across a blocking call and OnMsg never blocks, so an
\* operation that has begun goes on; Run's select is fair to each of its cases,
\* the ticker's one among them.  Nothing says that a stream, a caller or a
\* shutdown ever comes.
Fairness ==
    /\ \A a \in Actors : WF_vars(Proceed(a))
    /\ \A g \in Groups : WF_vars(StopGroup(g))
    /\ WF_vars(RunEvent)
    /\ SF_vars(RunSync)

FairSpec == Spec /\ Fairness

-----------------------------------------------------------------------------
(* Properties *)

\* a has taken its session out of the map and has yet to halt it.
Dropping(a) == pc[a] \in {"remove", "halt"}

\* A session the writer still lists is one whose loop runs: State, StreamInfo
\* and Rotate never see a camera as attached while its loop has been told to
\* stop, whoever detaches and re-attaches it in between (group_writer.go forget).
MapEntryRuns == session # None => state[session] = "running"

\* A loop that nobody lists any more is on its way out: whatever the order of
\* attaches, detaches, group ends and shutdown, exactly one goroutine is about
\* to close its stop channel, so none is left writing where no call can reach it.
NoLeakedLoop ==
    \A s \in Sessions : state[s] = "running" /\ s # session =>
        \E a \in Actors : /\ Dropping(a) /\ held[a] = s
                          /\ \A b \in Actors : Dropping(b) /\ held[b] = s => b = a

\* The write switch of the attached session is the last desired one, or a
\* SetWriting that has seen this session has still to store its value: an
\* attach never misses a switch made while it looks the group up.
SwitchFollows ==
    session # None /\ desired # None =>
        \/ writing[session] = desired
        \/ \E c \in Actors : Storing(c) /\ held[c] = session

\* A closed group holds no subscriber (an attach that found the group before it
\* closed comes too late), an open one only sessions built for it, and none that
\* RemoveSubscriber or OnStop has marked stopped, which would get no message.
SubscriberIsLive ==
    \A g \in Groups : consumer[g] # None =>
        /\ group[g] = "open"
        /\ of[consumer[g]] = g
        /\ ~stopped[consumer[g]]

Slot == INSTANCE RecordingSlot WITH slot <- session

\* The writer implements the one-slot recorder: no attach takes the slot from a
\* session that still has it, and no session is stopped while it is listed.
ImplementsSlot == Slot!SlotSpec

\* A session that has been dropped is halted in the end, which is what
\* finalises its last segment.
DroppedIsHalted ==
    \A s \in Sessions : (state[s] = "running" /\ session # s) ~> (state[s] = "halted")

Subscribed(g) == /\ session # None
                 /\ of[session] = g
                 /\ consumer[g] = session

\* A stream that stays up is recorded in the end: from some time on its group
\* delivers to the session in the map (docs/en/recording-flow.md, "Subscription
\* follows the stream": events, and Sync every 15 seconds to catch a missed one).
SyncCatchesUp ==
    \A g \in Groups :
        <>[](published = g /\ group[g] = "open") => <>[]Subscribed(g)

=============================================================================
