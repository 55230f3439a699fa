------------------------- MODULE GroupWriterProofs -------------------------
(***************************************************************************)
(* Theorems about GroupWriter, for any sets of groups, sessions and        *)
(* callers: the type invariant, the inductive invariant behind the session *)
(* life cycle, and the implementation of RecordingSlot.                    *)
(***************************************************************************)
EXTENDS GroupWriter, TLAPS

Kinds == {"active", "stopped"}

\* An emitted event leaves a sequence of events.
LEMMA EmitType == ASSUME events \in Seq(Kinds), NEW e \in Kinds, Emit(e)
                  PROVE  events' \in Seq(Kinds)
  BY DEF Emit

\* Every pointer a step dereferences is set, and every variable has its type.
THEOREM Typing == Spec => []TypeOK
<1>1. Init => TypeOK
  <2> SUFFICES ASSUME Init PROVE TypeOK
    OBVIOUS
  <2>1. events \in Seq({"active", "stopped"})
    BY DEF Init
  <2>2. \A s \in Sessions : state[s] # "running"
    BY DEF Init
  <2>3. \A a \in Actors : pc[a] = "idle"
    BY DEF Init
  <2> QED
    BY <2>1, <2>2, <2>3 DEF Init, TypeOK, Steps
<1>2. TypeOK /\ [Next]_vars => TypeOK'
  <2> SUFFICES ASSUME TypeOK, [Next]_vars PROVE TypeOK'
    OBVIOUS
  <2> USE IdentityAssumption, BoundAssumption
      DEF TypeOK, Steps, Goto, Hold, Return, Home, Idle,
          groupVars, writerVars, sessionVars, actorVars, Actors, Callers
  <2>1. ASSUME NEW g \in Groups, Publish(g) PROVE TypeOK'
    BY <2>1, EmitType DEF Publish, Released, Kinds
  <2>2. ASSUME NEW g \in Groups, CloseGroup(g) PROVE TypeOK'
    BY <2>2 DEF CloseGroup
  <2>3. ASSUME NEW g \in Groups, Notify(g) PROVE TypeOK'
    BY <2>3 DEF Notify
  <2>4. ASSUME NEW g \in Groups, Unpublish(g) PROVE TypeOK'
    BY <2>4 DEF Unpublish
  <2>5. ASSUME NEW g \in Groups, StopHook(g) PROVE TypeOK'
    BY <2>5, EmitType DEF StopHook, Kinds
  <2>6. ASSUME NEW g \in Groups, PubStop(g) PROVE TypeOK'
    BY <2>6, EmitType DEF PubStop, Kinds
  <2>7. ASSUME NEW a \in Actors, Insert(a) PROVE TypeOK'
    <3>1. CASE session # None
      BY <2>7, <3>1 DEF Insert
    <3>2. CASE session = None
      <4>1. PICK s \in Sessions, on \in BOOLEAN :
               /\ session' = s
               /\ of' = [of EXCEPT ![s] = found[a]]
               /\ writing' = [writing EXCEPT ![s] = on]
               /\ state' = [state EXCEPT ![s] = "running"]
               /\ stopped' = [stopped EXCEPT ![s] = FALSE]
               /\ Hold(a, s)
        BY <2>7, <3>2 DEF Insert
      <4>2. /\ found' = [found EXCEPT ![a] = None]
            /\ pc' = [pc EXCEPT ![a] = "subscribe"]
            /\ held' = [held EXCEPT ![a] = s]
            /\ UNCHANGED <<published, group, consumer, desired, closed, events>>
        BY <2>7, <3>2, <4>1 DEF Insert
      <4>3. found[a] \in Groups
        BY <2>7 DEF Insert
      <4>4. \A t \in Sessions : state'[t] = "running" => of'[t] \in Groups
        BY <4>1, <4>3
      <4>5. \A b \in Actors :
              /\ pc'[b] = "insert" => found'[b] \in Groups
              /\ pc'[b] \in {"subscribe", "remove", "halt", "enable", "disable", "notify"}
                    => held'[b] \in Sessions
        BY <4>2
      <4> QED
        BY <4>1, <4>2, <4>3, <4>4, <4>5
    <3> QED
      BY <3>1, <3>2
  <2>8. ASSUME NEW a \in Actors, Subscribe(a) PROVE TypeOK'
    BY <2>8 DEF Subscribe
  <2>9. ASSUME NEW a \in Actors, Forget(a) PROVE TypeOK'
    <3>1. CASE session = None
      BY <2>9, <3>1 DEF Forget
    <3>2. CASE session # None
      BY <2>9, <3>2 DEF Forget
    <3> QED
      BY <3>1, <3>2
  <2>10. ASSUME NEW a \in Actors, RemoveSubscriber(a) PROVE TypeOK'
    BY <2>10 DEF RemoveSubscriber
  <2>11. ASSUME NEW a \in Actors, Halt(a) PROVE TypeOK'
    BY <2>11 DEF Halt
  <2>12. ASSUME NEW c \in Callers, Attach(c) PROVE TypeOK'
    BY <2>12 DEF Attach, Lookup
  <2>13. ASSUME NEW c \in Callers, Detach(c) PROVE TypeOK'
    BY <2>13 DEF Detach
  <2>14. ASSUME NEW c \in Callers, NEW on \in BOOLEAN, SetWriting(c, on) PROVE TypeOK'
    BY <2>14 DEF SetWriting
  <2>15. ASSUME NEW a \in Actors, StoreWriting(a) PROVE TypeOK'
    BY <2>15 DEF StoreWriting, Storing
  <2>16. ASSUME NEW c \in Callers, Close(c) PROVE TypeOK'
    BY <2>16 DEF Close
  <2>17. CASE RunEvent
    BY <2>17 DEF RunEvent, Lookup
  <2>18. CASE RunSync
    BY <2>18 DEF RunSync, Lookup
  <2>19. CASE RunExit
    BY <2>19 DEF RunExit
  <2>20. CASE UNCHANGED vars
    BY <2>20 DEF vars
  <2> QED
    BY <2>1, <2>2, <2>3, <2>4, <2>5, <2>6, <2>7, <2>8, <2>9, <2>10, <2>11,
       <2>12, <2>13, <2>14, <2>15, <2>16, <2>17, <2>18, <2>19, <2>20
       DEF Next, StopGroup, Proceed, Begin
<1> QED
  BY <1>1, <1>2, PTL DEF Spec

-----------------------------------------------------------------------------
(* The life of a session *)

\* Group.OnStop runs once (stopOnce): a group that is open is not being stopped.
OpenIsIdle == \A g \in Groups : group[g] = "open" => Idle(g)

LEMMA OpenIsIdleStep == ASSUME TypeOK, OpenIsIdle, [Next]_vars PROVE OpenIsIdle'
<1> USE IdentityAssumption
    DEF TypeOK, OpenIsIdle, Goto, Hold, Return, Home, Idle,
        groupVars, writerVars, sessionVars, actorVars, Actors, Callers
<1>1. ASSUME NEW g \in Groups, Publish(g) PROVE OpenIsIdle'
  BY <1>1 DEF Publish, Released
<1>2. ASSUME NEW g \in Groups, CloseGroup(g) PROVE OpenIsIdle'
  BY <1>2 DEF CloseGroup
<1>3. ASSUME NEW g \in Groups, StopGroup(g) PROVE OpenIsIdle'
  BY <1>3 DEF StopGroup, Notify, Unpublish, StopHook, PubStop
<1>4. ASSUME NEW a \in Actors, Proceed(a) PROVE OpenIsIdle'
  BY <1>4 DEF Proceed, Insert, Subscribe, Forget, RemoveSubscriber, Halt,
              StoreWriting, Storing
<1>5. ASSUME NEW c \in Callers, Begin(c) PROVE OpenIsIdle'
  BY <1>5 DEF Begin, Attach, Lookup, Detach, Close, SetWriting
<1>6. CASE RunEvent \/ RunSync \/ RunExit
  BY <1>6 DEF RunEvent, RunSync, RunExit, Lookup
<1>7. CASE UNCHANGED vars
  BY <1>7 DEF vars
<1> QED
  BY <1>1, <1>2, <1>3, <1>4, <1>5, <1>6, <1>7 DEF Next

\* The inductive invariant.  MapEntryRuns alone is not inductive: Halt(a) must
\* know that its session has left the map, and Forget that nobody else has taken
\* the session out before.
LifeInv ==
    /\ MapEntryRuns
    /\ \A a \in Actors : Dropping(a) => state[held[a]] = "running" /\ held[a] # session
    /\ \A a, b \in Actors : Dropping(a) /\ Dropping(b) /\ held[a] = held[b] => a = b
    /\ \A s \in Sessions : state[s] = "running" /\ s # session =>
          \E a \in Actors : Dropping(a) /\ held[a] = s

\* A step that starts, drops and halts nothing.
SlotUnchanged ==
    /\ UNCHANGED <<session, state>>
    /\ \A a \in Actors : /\ pc'[a] \in {"remove", "halt"} <=> Dropping(a)
                         /\ Dropping(a) => held'[a] = held[a]

LEMMA LifeFrame == ASSUME LifeInv, SlotUnchanged PROVE LifeInv'
  BY DEF LifeInv, SlotUnchanged, MapEntryRuns, Dropping

\* The steps other than Insert, Forget and Halt leave the slot alone.
LEMMA QuietSteps ==
    ASSUME TypeOK, OpenIsIdle, [Next]_vars,
           \A a \in Actors : ~Insert(a) /\ ~Forget(a) /\ ~Halt(a)
    PROVE  SlotUnchanged
<1> USE IdentityAssumption
    DEF TypeOK, OpenIsIdle, SlotUnchanged, Dropping, Goto, Hold, Return, Home, Idle,
        groupVars, writerVars, sessionVars, actorVars, Actors, Callers
<1>1. ASSUME NEW g \in Groups, Publish(g) PROVE SlotUnchanged
  BY <1>1 DEF Publish
<1>2. ASSUME NEW g \in Groups, CloseGroup(g) PROVE SlotUnchanged
  BY <1>2 DEF CloseGroup
<1>3. ASSUME NEW g \in Groups, StopGroup(g) PROVE SlotUnchanged
  <2>1. CASE Notify(g)
    BY <2>1 DEF Notify
  <2>2. CASE Unpublish(g)
    BY <2>2 DEF Unpublish
  <2>3. CASE StopHook(g) \/ PubStop(g)
    BY <2>3 DEF StopHook, PubStop
  <2> QED
    BY <1>3, <2>1, <2>2, <2>3 DEF StopGroup
<1>4. ASSUME NEW a \in Actors, Subscribe(a) PROVE SlotUnchanged
  BY <1>4 DEF Subscribe
<1>5. ASSUME NEW a \in Actors, RemoveSubscriber(a) PROVE SlotUnchanged
  BY <1>5 DEF RemoveSubscriber
<1>6. ASSUME NEW a \in Actors, StoreWriting(a) PROVE SlotUnchanged
  BY <1>6 DEF StoreWriting, Storing
<1>7. ASSUME NEW c \in Callers, Attach(c) PROVE SlotUnchanged
  BY <1>7 DEF Attach, Lookup
<1>8. ASSUME NEW c \in Callers, Detach(c) PROVE SlotUnchanged
  BY <1>8 DEF Detach
<1>9. ASSUME NEW c \in Callers, Close(c) PROVE SlotUnchanged
  BY <1>9 DEF Close
<1>10. ASSUME NEW c \in Callers, NEW on \in BOOLEAN, SetWriting(c, on) PROVE SlotUnchanged
  BY <1>10 DEF SetWriting
<1>11. CASE RunEvent
  BY <1>11 DEF RunEvent, Lookup
<1>12. CASE RunSync \/ RunExit
  BY <1>12 DEF RunSync, RunExit, Lookup
<1>13. CASE UNCHANGED vars
  BY <1>13 DEF vars
<1> QED
  BY <1>1, <1>2, <1>3, <1>4, <1>5, <1>6, <1>7, <1>8, <1>9, <1>10, <1>11, <1>12, <1>13
     DEF Next, Proceed, Begin

\* A session enters the slot when the slot is empty, and nobody else refers to it.
LEMMA InsertStarts ==
    ASSUME TypeOK, LifeInv, NEW a \in Actors, Insert(a)
    PROVE  LifeInv' /\ [Slot!SlotNext]_<<session, state>>
<1> USE IdentityAssumption DEF TypeOK, Goto, Hold
<1>1. CASE session # None
  <2>1. SlotUnchanged
    BY <1>1 DEF Insert, SlotUnchanged, Dropping, sessionVars
  <2> QED
    BY <2>1, LifeFrame DEF SlotUnchanged
<1>2. CASE session = None
  <2>1. PICK s \in Sessions : /\ Collected(s)
                              /\ session' = s
                              /\ state' = [state EXCEPT ![s] = "running"]
                              /\ Hold(a, s)
                              /\ Goto(a, "subscribe")
    BY <1>2 DEF Insert
  <2>2. Slot!Start(s)
    BY <1>2, <2>1 DEF Slot!Start, Collected
  <2>3. \A b \in Actors : /\ pc'[b] \in {"remove", "halt"} <=> Dropping(b)
                          /\ Dropping(b) => held'[b] = held[b] /\ held[b] # s
    BY <2>1 DEF Insert, Dropping, Collected
  <2>4. ASSUME NEW t \in Sessions, state'[t] = "running", t # s
        PROVE  \E b \in Actors : pc'[b] \in {"remove", "halt"} /\ held'[b] = t
    <3>1. state[t] = "running" /\ t # session
      BY <1>2, <2>1, <2>4
    <3>2. PICK b \in Actors : Dropping(b) /\ held[b] = t
      BY <3>1, <2>4 DEF LifeInv
    <3> QED
      BY <2>3, <3>2
  <2>5. \A b \in Actors : pc'[b] \in {"remove", "halt"} =>
           /\ state'[held'[b]] = "running"
           /\ held'[b] # s
    BY <2>1, <2>3 DEF LifeInv
  <2>6. \A b, c \in Actors :
           /\ pc'[b] \in {"remove", "halt"}
           /\ pc'[c] \in {"remove", "halt"}
           /\ held'[b] = held'[c]
           => b = c
    BY <2>3 DEF LifeInv
  <2>7. LifeInv'
    BY <2>1, <2>4, <2>5, <2>6 DEF LifeInv, MapEntryRuns, Dropping
  <2> QED
    BY <2>2, <2>7 DEF Slot!SlotNext
<1> QED
  BY <1>1, <1>2

\* Whoever empties the slot is from then on the only one to halt the session.
LEMMA ForgetLeaves ==
    ASSUME TypeOK, LifeInv, NEW a \in Actors, Forget(a)
    PROVE  LifeInv' /\ [Slot!SlotNext]_<<session, state>>
<1> USE IdentityAssumption DEF TypeOK, Goto, Hold
<1>1. CASE session = None
  <2>1. SlotUnchanged
    BY <1>1 DEF Forget, SlotUnchanged, Dropping, sessionVars, Return, Home
  <2> QED
    BY <2>1, LifeFrame DEF SlotUnchanged
<1>2. CASE session # None
  <2>1. Slot!Leave
    BY <1>2 DEF Forget, Slot!Leave, sessionVars
  <2>2. /\ pc'[a] \in {"remove", "halt"}
        /\ held'[a] = session
        /\ \A b \in Actors \ {a} : pc'[b] = pc[b] /\ held'[b] = held[b]
        /\ ~Dropping(a)
    BY <1>2 DEF Forget, Dropping
  <2>3. LifeInv'
    BY <1>2, <2>1, <2>2 DEF LifeInv, MapEntryRuns, Dropping, Slot!Leave
  <2> QED
    BY <2>1, <2>3 DEF Slot!SlotNext
<1> QED
  BY <1>1, <1>2

\* A session is halted outside the slot, by the one actor that has dropped it.
LEMMA HaltStops ==
    ASSUME TypeOK, LifeInv, NEW a \in Actors, Halt(a)
    PROVE  LifeInv' /\ [Slot!SlotNext]_<<session, state>>
<1> USE IdentityAssumption DEF TypeOK, Goto, Hold, Return, Home
<1>1. /\ held[a] \in Sessions
      /\ state[held[a]] = "running"
      /\ held[a] # session
  BY DEF Halt, LifeInv, Dropping
<1>2. Slot!Stop(held[a])
  BY <1>1 DEF Halt, Slot!Stop, writerVars
<1>3. /\ state' = [state EXCEPT ![held[a]] = "halted"]
      /\ session' = session
      /\ pc'[a] \notin {"remove", "halt"}
      /\ \A b \in Actors \ {a} : pc'[b] = pc[b] /\ held'[b] = held[b]
      /\ Dropping(a)
  BY DEF Halt, writerVars, Dropping
<1>4. LifeInv'
  BY <1>1, <1>3 DEF LifeInv, MapEntryRuns, Dropping
<1> QED
  BY <1>1, <1>2, <1>4 DEF Slot!SlotNext

LEMMA LifeStep ==
    ASSUME TypeOK, OpenIsIdle, LifeInv, [Next]_vars
    PROVE  LifeInv' /\ [Slot!SlotNext]_<<session, state>>
<1>1. CASE \A a \in Actors : ~Insert(a) /\ ~Forget(a) /\ ~Halt(a)
  <2>1. SlotUnchanged
    BY <1>1, QuietSteps
  <2> QED
    BY <2>1, LifeFrame DEF SlotUnchanged
<1> QED
  BY <1>1, InsertStarts, ForgetLeaves, HaltStops

LEMMA InitLife == Init => OpenIsIdle /\ LifeInv
  BY IdentityAssumption DEF Init, OpenIsIdle, Idle, LifeInv, MapEntryRuns, Dropping, Actors

THEOREM Life == Spec => [](OpenIsIdle /\ LifeInv)
<1>1. TypeOK /\ OpenIsIdle /\ LifeInv /\ [Next]_vars => (OpenIsIdle /\ LifeInv)'
  BY OpenIsIdleStep, LifeStep
<1> QED
  BY <1>1, InitLife, Typing, PTL DEF Spec

\* The session in the map is never one that has been told to stop.
THEOREM MapEntryIsRunning == Spec => []MapEntryRuns
<1>1. LifeInv => MapEntryRuns
  BY DEF LifeInv
<1> QED
  BY <1>1, Life, PTL

\* Every running session outside the map has exactly one goroutine about to
\* halt it: no order of calls leaks a recording loop.
THEOREM NoLoopLeaks == Spec => []NoLeakedLoop
<1>1. LifeInv => NoLeakedLoop
  BY DEF LifeInv, NoLeakedLoop
<1> QED
  BY <1>1, Life, PTL

\* The writer, whatever its callers and the groups do, implements the one-slot
\* recorder.
THEOREM Implementation == Spec => ImplementsSlot
<1>1. Init => Slot!SlotInit
  BY DEF Init, Slot!SlotInit
<1>2. TypeOK /\ OpenIsIdle /\ LifeInv /\ [Next]_vars => [Slot!SlotNext]_<<session, state>>
  BY LifeStep
<1> QED
  BY <1>1, <1>2, Typing, Life, PTL DEF Spec, ImplementsSlot, Slot!SlotSpec, Slot!slotVars

-----------------------------------------------------------------------------
(* Subscribers *)

\* An attach between its insertion and its AddSubscriber.
Pending(a) == pc[a] = "subscribe"
Notified(a) == pc[a] = "notify"

\* The inductive invariant: a subscriber on its way into a slot, or on its way
\* out through OnStop, is in no slot and belongs to one goroutine.
SubInv ==
    /\ SubscriberIsLive
    /\ \A a \in Actors : Pending(a) =>
          /\ of[held[a]] \in Groups
          /\ ~stopped[held[a]]
    /\ \A a \in Actors : Pending(a) \/ Notified(a) =>
          \A g \in Groups : consumer[g] # held[a]
    /\ \A a, b \in Actors :
          Pending(a) /\ (Pending(b) \/ Notified(b)) /\ held[a] = held[b] => a = b

\* A step that leaves the slots and the marks alone, and begins no subscription.
SubUnchanged ==
    /\ UNCHANGED <<consumer, of, stopped>>
    /\ \A g \in Groups : group[g] = "open" => group'[g] = "open"
    /\ \A a \in Actors : /\ pc'[a] = "subscribe" => Pending(a)
                         /\ pc'[a] = "notify" => Notified(a)
                         /\ Pending(a) \/ Notified(a) =>
                              held'[a] = held[a] \/ pc'[a] \notin {"subscribe", "notify"}

LEMMA SubFrame == ASSUME TypeOK, SubInv, SubUnchanged PROVE SubInv'
<1>1. SubscriberIsLive'
  BY DEF SubInv, SubUnchanged, SubscriberIsLive, TypeOK
<1>2. \A a \in Actors : pc'[a] \in {"subscribe", "notify"} => held'[a] = held[a]
  BY DEF SubUnchanged, Pending, Notified
<1>3. \A a \in Actors : /\ Pending(a)' => Pending(a)
                        /\ Notified(a)' => Notified(a)
  BY DEF SubUnchanged, Pending, Notified
<1> QED
  BY <1>1, <1>2, <1>3 DEF SubInv, SubUnchanged, Pending, Notified

LEMMA SubStep == ASSUME TypeOK, TypeOK', OpenIsIdle, LifeInv, SubInv, [Next]_vars
                 PROVE  SubInv'
<1> USE IdentityAssumption
    DEF TypeOK, Goto, Hold, Return, Home, Idle, Actors, Callers,
        groupVars, writerVars, sessionVars, actorVars
<1>1. ASSUME NEW g \in Groups, Publish(g) PROVE SubInv'
  <2>1. SubUnchanged
    BY <1>1 DEF Publish, SubUnchanged, Pending, Notified
  <2> QED
    BY <2>1, SubFrame
<1>2. ASSUME NEW g \in Groups, CloseGroup(g) PROVE SubInv'
  <2>1. /\ consumer' = [consumer EXCEPT ![g] = None]
        /\ held' = [held EXCEPT ![g] = consumer[g]]
        /\ pc' = [pc EXCEPT ![g] = IF consumer[g] = None THEN "unpublish" ELSE "notify"]
        /\ group' = [group EXCEPT ![g] = "closed"]
        /\ UNCHANGED <<of, stopped>>
    BY <1>2 DEF CloseGroup
  <2>2. SubscriberIsLive'
    BY <2>1 DEF SubInv, SubscriberIsLive
  <2>3. \A h \in Groups : consumer[g] # None => consumer'[h] # consumer[g]
    BY <2>1 DEF SubInv, SubscriberIsLive
  <2>4. \A a \in Actors : /\ pc'[a] = "subscribe" => a # g /\ Pending(a)
                          /\ pc'[a] = "notify" => \/ a # g /\ Notified(a)
                                                  \/ a = g /\ consumer[g] # None
    BY <2>1 DEF Pending, Notified
  <2> QED
    BY <2>1, <2>2, <2>3, <2>4 DEF SubInv, Pending, Notified
<1>3. ASSUME NEW g \in Groups, Notify(g) PROVE SubInv'
  <2>1. /\ stopped' = [stopped EXCEPT ![held[g]] = TRUE]
        /\ held' = [held EXCEPT ![g] = None]
        /\ pc' = [pc EXCEPT ![g] = IF stopped[held[g]] THEN "unpublish" ELSE "forget"]
        /\ UNCHANGED <<group, consumer, of>>
        /\ Notified(g)
    BY <1>3 DEF Notify, Notified
  <2>2. SubscriberIsLive'
    BY <2>1 DEF SubInv, SubscriberIsLive
  <2>3. \A a \in Actors : /\ pc'[a] = "subscribe" => a # g /\ Pending(a)
                          /\ pc'[a] = "notify" => a # g /\ Notified(a)
    BY <2>1 DEF Pending, Notified
  <2> QED
    BY <2>1, <2>2, <2>3 DEF SubInv, Pending, Notified
<1>4. ASSUME NEW g \in Groups, Unpublish(g) \/ StopHook(g) \/ PubStop(g) PROVE SubInv'
  <2>1. SubUnchanged
    BY <1>4 DEF Unpublish, StopHook, PubStop, SubUnchanged, Pending, Notified
  <2> QED
    BY <2>1, SubFrame
<1>5. ASSUME NEW a \in Actors, Insert(a) PROVE SubInv'
  <2>1. CASE session # None
    <3>1. SubUnchanged
      BY <1>5, <2>1 DEF Insert, SubUnchanged, Pending, Notified
    <3> QED
      BY <3>1, SubFrame
  <2>2. CASE session = None
    <3>1. PICK s \in Sessions : /\ Collected(s)
                                /\ of' = [of EXCEPT ![s] = found[a]]
                                /\ stopped' = [stopped EXCEPT ![s] = FALSE]
                                /\ held' = [held EXCEPT ![a] = s]
                                /\ pc' = [pc EXCEPT ![a] = "subscribe"]
                                /\ UNCHANGED <<group, consumer>>
      BY <1>5, <2>2 DEF Insert
    <3>2. found[a] \in Groups
      BY <1>5 DEF Insert
    <3>3. SubscriberIsLive'
      BY <3>1 DEF SubInv, SubscriberIsLive, Collected
    <3>4. \A b \in Actors : held[b] # s
      BY <3>1 DEF Collected
    <3>5. \A g \in Groups : consumer[g] # s
      BY <3>1 DEF Collected
    <3> QED
      BY <3>1, <3>2, <3>3, <3>4, <3>5 DEF SubInv, Pending, Notified
  <2> QED
    BY <2>1, <2>2
<1>6. ASSUME NEW a \in Actors, Subscribe(a) PROVE SubInv'
  <2> DEFINE s == held[a]
             g == of[held[a]]
  <2>1. /\ Pending(a) /\ s \in Sessions /\ g \in Groups
        /\ ~stopped[s]
        /\ \A h \in Groups : consumer[h] # s
    BY <1>6 DEF Subscribe, SubInv, Pending
  <2>2. /\ UNCHANGED <<group, of, stopped>>
        /\ pc' = [pc EXCEPT ![a] = Home(a)]
        /\ held' = [held EXCEPT ![a] = None]
    BY <1>6 DEF Subscribe
  <2>3. \/ UNCHANGED consumer
        \/ /\ consumer' = [consumer EXCEPT ![g] = s]
           /\ group[g] = "open"
    BY <1>6 DEF Subscribe
  <2>4. SubscriberIsLive'
    BY <2>1, <2>2, <2>3 DEF SubInv, SubscriberIsLive
  <2>5. \A b \in Actors : /\ pc'[b] = "subscribe" => b # a /\ Pending(b)
                          /\ pc'[b] = "notify" => b # a /\ Notified(b)
    BY <2>2 DEF Pending, Notified
  <2>6. \A b \in Actors : (Pending(b) \/ Notified(b)) /\ b # a => held[b] # s
    BY <2>1 DEF SubInv
  <2> QED
    BY <2>1, <2>2, <2>3, <2>4, <2>5, <2>6 DEF SubInv, Pending, Notified
<1>7. ASSUME NEW a \in Actors, Forget(a) \/ Halt(a) PROVE SubInv'
  <2>1. SubUnchanged
    BY <1>7 DEF Forget, Halt, SubUnchanged, Pending, Notified
  <2> QED
    BY <2>1, SubFrame
<1>8. ASSUME NEW a \in Actors, RemoveSubscriber(a) PROVE SubInv'
  <2> DEFINE g == of[held[a]]
  <2>1. g \in Groups
    BY <1>8 DEF RemoveSubscriber, LifeInv, Dropping
  <2>2. /\ consumer' = [consumer EXCEPT ![g] = None]
        /\ stopped' = [s \in Sessions |-> stopped[s] \/ s = consumer[g]]
        /\ pc' = [pc EXCEPT ![a] = "halt"]
        /\ UNCHANGED <<group, of, held>>
        /\ pc[a] = "remove"
    BY <1>8 DEF RemoveSubscriber
  <2>3. SubscriberIsLive'
    BY <2>1, <2>2 DEF SubInv, SubscriberIsLive
  <2>4. \A b \in Actors : /\ pc'[b] = "subscribe" => b # a /\ Pending(b)
                          /\ pc'[b] = "notify" => b # a /\ Notified(b)
    BY <2>2 DEF Pending, Notified
  <2> QED
    BY <2>1, <2>2, <2>3, <2>4 DEF SubInv, Pending, Notified
<1>9. ASSUME NEW a \in Actors, StoreWriting(a) PROVE SubInv'
  <2>1. SubUnchanged
    BY <1>9 DEF StoreWriting, Storing, SubUnchanged, Pending, Notified
  <2> QED
    BY <2>1, SubFrame
<1>10. ASSUME NEW c \in Callers, Begin(c) PROVE SubInv'
  <2>1. SubUnchanged
    BY <1>10 DEF Begin, Attach, Lookup, Detach, Close, SetWriting, SubUnchanged,
                 Pending, Notified
  <2> QED
    BY <2>1, SubFrame
<1>11. CASE RunEvent \/ RunSync \/ RunExit \/ UNCHANGED vars
  <2>1. SubUnchanged
    BY <1>11 DEF RunEvent, RunSync, RunExit, Lookup, vars, SubUnchanged, Pending, Notified
  <2> QED
    BY <2>1, SubFrame
<1> QED
  BY <1>1, <1>2, <1>3, <1>4, <1>5, <1>6, <1>7, <1>8, <1>9, <1>10, <1>11
     DEF Next, StopGroup, Proceed

\* A group delivers only to subscribers that were built for it and that nobody
\* has removed, and a closed group keeps none.
THEOREM SubscribersAreLive == Spec => []SubscriberIsLive
<1>1. Init => SubInv
  BY IdentityAssumption DEF Init, SubInv, SubscriberIsLive, Pending, Notified
<1>2. TypeOK /\ TypeOK' /\ OpenIsIdle /\ LifeInv /\ SubInv /\ [Next]_vars => SubInv'
  BY SubStep
<1>3. SubInv => SubscriberIsLive
  BY DEF SubInv
<1> QED
  BY <1>1, <1>2, <1>3, Typing, Life, PTL DEF Spec

-----------------------------------------------------------------------------
(* The write switch *)

OneSwitcher == \A c, d \in Switchers : c = d

\* A SetWriting under way is the latest: its value is the desired one.
SwitchInv ==
    /\ SwitchFollows
    /\ \A a \in Actors : Storing(a) =>
          /\ a \in Switchers
          /\ desired = (pc[a] = "enable")

\* A step that leaves the switch alone and stores nothing.
SwitchUnchanged ==
    /\ UNCHANGED <<desired, writing>>
    /\ session' = None \/ session' = session
    /\ \A a \in Actors : /\ pc'[a] \in {"enable", "disable"} <=> Storing(a)
                         /\ Storing(a) => pc'[a] = pc[a] /\ held'[a] = held[a]

LEMMA SwitchFrame == ASSUME TypeOK, SwitchInv, SwitchUnchanged PROVE SwitchInv'
  BY DEF SwitchInv, SwitchUnchanged, SwitchFollows, Storing, TypeOK

LEMMA SwitchStep == ASSUME TypeOK, OpenIsIdle, SwitchInv, OneSwitcher, [Next]_vars
                    PROVE  SwitchInv'
<1> USE IdentityAssumption
    DEF TypeOK, Goto, Hold, Return, Home, Idle, Actors, Callers,
        groupVars, writerVars, sessionVars, actorVars
<1>1. ASSUME NEW g \in Groups, Publish(g) \/ CloseGroup(g) PROVE SwitchInv'
  <2>1. SwitchUnchanged
    BY <1>1 DEF Publish, CloseGroup, OpenIsIdle, SwitchUnchanged, Storing
  <2> QED
    BY <2>1, SwitchFrame
<1>2. ASSUME NEW g \in Groups, StopGroup(g) PROVE SwitchInv'
  <2>1. SwitchUnchanged
    BY <1>2 DEF StopGroup, Notify, Unpublish, StopHook, PubStop, SwitchUnchanged, Storing
  <2> QED
    BY <2>1, SwitchFrame
<1>3. ASSUME NEW a \in Actors, Insert(a) PROVE SwitchInv'
  <2>1. CASE session # None
    <3>1. SwitchUnchanged
      BY <1>3, <2>1 DEF Insert, SwitchUnchanged, Storing
    <3> QED
      BY <3>1, SwitchFrame
  <2>2. CASE session = None
    <3>1. PICK s \in Sessions, on \in BOOLEAN :
             /\ desired # None => on = desired
             /\ session' = s
             /\ writing' = [writing EXCEPT ![s] = on]
      BY <1>3, <2>2 DEF Insert
    <3>2. UNCHANGED desired /\ pc' = [pc EXCEPT ![a] = "subscribe"] /\ pc[a] = "insert"
      BY <1>3, <2>2 DEF Insert
    <3>3. writing'[session'] = desired' \/ desired' = None
      BY <3>1, <3>2
    <3> QED
      BY <3>2, <3>3 DEF SwitchInv, SwitchFollows, Storing
  <2> QED
    BY <2>1, <2>2
<1>4. ASSUME NEW a \in Actors, Subscribe(a) \/ RemoveSubscriber(a) \/ Halt(a)
      PROVE  SwitchInv'
  <2>1. SwitchUnchanged
    BY <1>4 DEF Subscribe, RemoveSubscriber, Halt, SwitchUnchanged, Storing
  <2> QED
    BY <2>1, SwitchFrame
<1>5. ASSUME NEW a \in Actors, Forget(a) PROVE SwitchInv'
  <2>1. SwitchUnchanged
    BY <1>5 DEF Forget, SwitchUnchanged, Storing
  <2> QED
    BY <2>1, SwitchFrame
<1>6. ASSUME NEW a \in Actors, StoreWriting(a) PROVE SwitchInv'
  <2>1. /\ a \in Switchers
        /\ desired = (pc[a] = "enable")
        /\ held[a] \in Sessions
    BY <1>6 DEF StoreWriting, SwitchInv, Storing
  <2>2. /\ writing' = [writing EXCEPT ![held[a]] = (pc[a] = "enable")]
        /\ pc' = [pc EXCEPT ![a] = Home(a)]
        /\ UNCHANGED <<session, desired>>
    BY <1>6 DEF StoreWriting
  <2>3. \A b \in Actors : Storing(b) => b = a
    BY <2>1 DEF SwitchInv, OneSwitcher
  <2>4. SwitchFollows'
    BY <2>1, <2>2, <2>3 DEF SwitchInv, SwitchFollows
  <2>5. \A b \in Actors : pc'[b] \notin {"enable", "disable"}
    BY <2>2, <2>3 DEF Storing
  <2> QED
    BY <2>4, <2>5 DEF SwitchInv, Storing
<1>7. ASSUME NEW c \in Callers, NEW on \in BOOLEAN, SetWriting(c, on) PROVE SwitchInv'
  <2>1. c \in Switchers /\ desired' = on /\ UNCHANGED session /\ ~Storing(c)
    BY <1>7 DEF SetWriting, Storing
  <2>2. \A b \in Actors : ~Storing(b)
    BY <2>1 DEF SwitchInv, OneSwitcher
  <2>3. CASE session = None
    <3>1. UNCHANGED pc
      BY <1>7, <2>3 DEF SetWriting
    <3> QED
      BY <2>1, <2>2, <2>3, <3>1 DEF SwitchInv, SwitchFollows, Storing
  <2>4. CASE session # None
    <3>1. /\ pc' = [pc EXCEPT ![c] = IF on THEN "enable" ELSE "disable"]
          /\ held' = [held EXCEPT ![c] = session]
      BY <1>7, <2>4 DEF SetWriting
    <3>2. \A b \in Actors : pc'[b] \in {"enable", "disable"} =>
             b = c /\ on = (pc'[b] = "enable")
      BY <2>2, <3>1 DEF Storing
    <3>3. pc'[c] \in {"enable", "disable"} /\ held'[c] = session
      BY <3>1
    <3> QED
      BY <2>1, <3>2, <3>3 DEF SwitchInv, SwitchFollows, Storing
  <2> QED
    BY <2>3, <2>4
<1>8. ASSUME NEW c \in Callers, Attach(c) \/ Detach(c) \/ Close(c) PROVE SwitchInv'
  <2>1. SwitchUnchanged
    BY <1>8 DEF Attach, Lookup, Detach, Close, SwitchUnchanged, Storing
  <2> QED
    BY <2>1, SwitchFrame
<1>9. CASE RunEvent \/ RunSync \/ RunExit \/ UNCHANGED vars
  <2>1. SwitchUnchanged
    BY <1>9 DEF RunEvent, RunSync, RunExit, Lookup, vars, SwitchUnchanged, Storing
  <2> QED
    BY <2>1, SwitchFrame
<1> QED
  BY <1>1, <1>2, <1>3, <1>4, <1>5, <1>6, <1>7, <1>8, <1>9 DEF Next, Proceed, Begin

\* With a single caller of SetWriting the session's switch is the desired one,
\* but for the moment between the two steps of a SetWriting.  (With two callers
\* the one that came first in desired may come last in the session.)
THEOREM SwitchIsFollowed == ASSUME OneSwitcher PROVE Spec => []SwitchFollows
<1>1. Init => SwitchInv
  BY IdentityAssumption DEF Init, SwitchInv, SwitchFollows, Storing
<1>2. TypeOK /\ OpenIsIdle /\ SwitchInv /\ [Next]_vars => SwitchInv'
  BY SwitchStep
<1>3. SwitchInv => SwitchFollows
  BY DEF SwitchInv
<1> QED
  BY <1>1, <1>2, <1>3, Typing, Life, PTL DEF Spec

=============================================================================
