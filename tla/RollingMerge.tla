---------------------------- MODULE RollingMerge ----------------------------
(***************************************************************************)
(* From segment.completed to the merge of the hour: the sessions that      *)
(* publish it on the event bus (internal/event/bus.go), and the rolling    *)
(* coordinator, its only subscriber, that waits for a quiet moment before  *)
(* it merges the camera's hour (internal/merge/rolling.go).                *)
(*                                                                         *)
(* Time is left out: an armed timer may fire at any moment.                *)
(***************************************************************************)
EXTENDS Naturals, Sequences

CONSTANTS
  Cameras,       \* each has one session that publishes
  Capacity,      \* capacity of the coordinator's channel (64)
  LastHour,      \* bounds the hours, 1 .. LastHour
  MaxSegments    \* bounds the segments of a camera

VARIABLES
  session,      \* Publish of each session and the event it has in hand
  segments,     \* segments a camera has closed
  holder,       \* who holds the subscriber's mutex: {} or a singleton
  listed,       \* the bus lists the subscriber
  closed,       \* the subscriber is closed
  channel,      \* the coordinator's channel
  coordinator,  \* its goroutine: "run", "unsubscribe", "close" (holding the bus's mutex), "done"
  pending,      \* c.pending: the hour to merge, 0 when absent
  mapped,       \* the timer in c.timers: "none", "armed", or "fired"
  loose,        \* armed timers that c.timers no longer has
  fired,        \* functions of timers that wait for c.mu
  merging,      \* hours that functions are about to merge
  owed          \* the hour of the newest event delivered and not merged since, 0 for none

timerVars   == <<pending, mapped, loose, fired, merging>>
busVars     == <<session, segments, holder, listed, closed>>
rollingVars == <<busVars, channel, coordinator, timerVars, owed>>

Quiet == [pc |-> "idle", hour |-> 0]
Event(c, h) == [camera |-> c, hour |-> h]

-----------------------------------------------------------------------------
(* EventBus.Publish                                                        *)

\* A segment is closed; its hour is not before that of the previous one.
\* The subscribers are copied under the bus's mutex.
Publish(c) ==
  /\ session[c].pc = "idle" /\ segments[c] < MaxSegments
  /\ coordinator # "close"
  /\ \E h \in 1 .. LastHour :
       /\ h >= session[c].hour
       /\ session' = [session EXCEPT ![c] = [pc |-> IF listed THEN "lock" ELSE "idle", hour |-> h]]
  /\ segments' = [segments EXCEPT ![c] = @ + 1]
  /\ UNCHANGED <<holder, listed, closed, channel, coordinator, timerVars, owed>>

\* Under the subscriber's mutex: closed, full, or neither.
LockSubscriber(c) ==
  /\ session[c].pc = "lock" /\ holder = {}
  /\ IF closed
     THEN session' = [session EXCEPT ![c].pc = "idle"] /\ UNCHANGED holder
     ELSE /\ session' = [session EXCEPT ![c].pc = IF Len(channel) = Capacity THEN "drop" ELSE "send"]
          /\ holder' = {c}
  /\ UNCHANGED <<segments, listed, closed, channel, coordinator, timerVars, owed>>

\* The receive that drops the oldest waits for as long as the channel is empty.
DropOldest(c) ==
  /\ session[c].pc = "drop" /\ channel # <<>>
  /\ channel' = Tail(channel)
  /\ session' = [session EXCEPT ![c].pc = "send"]
  /\ LET camera == Head(channel).camera IN
     owed' = IF \E i \in 2 .. Len(channel) : channel[i].camera = camera
             THEN owed ELSE [owed EXCEPT ![camera] = 0]
  /\ UNCHANGED <<segments, holder, listed, closed, coordinator, timerVars>>

Send(c) ==
  /\ session[c].pc = "send" /\ Len(channel) < Capacity
  /\ channel' = Append(channel, Event(c, session[c].hour))
  /\ owed' = [owed EXCEPT ![c] = session[c].hour]
  /\ session' = [session EXCEPT ![c].pc = "idle"]
  /\ holder' = {}
  /\ UNCHANGED <<segments, listed, closed, coordinator, timerVars>>

-----------------------------------------------------------------------------
(* RollingCoordinator                                                      *)

\* Mutant: the first event of a burst says which hour is merged.
Earliest(c, h) == IF pending[c] = 0 THEN h ELSE pending[c]

Latest(c, h) == h

PendingHour(c, h) == Latest(c, h)

\* schedule: a timer that exists is reset, even when it has just fired.
Receive ==
  /\ coordinator = "run" /\ channel # <<>>
  /\ channel' = Tail(channel)
  /\ LET c == Head(channel).camera
         h == Head(channel).hour IN
     /\ pending' = [pending EXCEPT ![c] = PendingHour(c, h)]
     /\ mapped' = [mapped EXCEPT ![c] = "armed"]
  /\ UNCHANGED <<busVars, coordinator, loose, fired, merging, owed>>

\* Rolling merges are off for the camera, by configuration.
Ignore ==
  /\ coordinator = "run" /\ channel # <<>>
  /\ channel' = Tail(channel)
  /\ owed' = [owed EXCEPT ![Head(channel).camera] = 0]
  /\ UNCHANGED <<busVars, coordinator, timerVars>>

TimerFires(c) ==
  /\ mapped[c] = "armed"
  /\ mapped' = [mapped EXCEPT ![c] = "fired"]
  /\ fired' = [fired EXCEPT ![c] = @ + 1]
  /\ UNCHANGED <<busVars, channel, coordinator, pending, loose, merging, owed>>

LooseTimerFires(c) ==
  /\ loose[c] > 0
  /\ loose' = [loose EXCEPT ![c] = @ - 1]
  /\ fired' = [fired EXCEPT ![c] = @ + 1]
  /\ UNCHANGED <<busVars, channel, coordinator, pending, mapped, merging, owed>>

\* The function takes the hour, which another may have taken before it: then
\* it merges the hour of the zero time, which has no recordings.
TakePending(c) ==
  /\ fired[c] > 0
  /\ fired' = [fired EXCEPT ![c] = @ - 1]
  /\ merging' = [merging EXCEPT ![c] = @ \cup ({pending[c]} \ {0})]
  /\ pending' = [pending EXCEPT ![c] = 0]
  /\ mapped' = [mapped EXCEPT ![c] = "none"]
  /\ loose' = [loose EXCEPT ![c] = IF mapped[c] = "armed" THEN @ + 1 ELSE @]
  /\ UNCHANGED <<busVars, channel, coordinator, owed>>

\* MergeHour lists the hour's segments.
MergeHour(c) ==
  /\ \E h \in merging[c] :
       /\ merging' = [merging EXCEPT ![c] = @ \ {h}]
       /\ owed' = [owed EXCEPT ![c] = IF @ = h THEN 0 ELSE @]
  /\ UNCHANGED <<busVars, channel, coordinator, pending, mapped, loose, fired>>

StopTimers ==
  /\ coordinator = "run"
  /\ coordinator' = "unsubscribe"
  /\ pending' = [c \in Cameras |-> 0]
  /\ mapped' = [c \in Cameras |-> "none"]
  /\ UNCHANGED <<busVars, channel, loose, fired, merging, owed>>

Unsubscribe ==
  /\ coordinator = "unsubscribe"
  /\ coordinator' = "close"
  /\ UNCHANGED <<busVars, channel, timerVars, owed>>

CloseSubscriber ==
  /\ coordinator = "close" /\ holder = {}
  /\ coordinator' = "done"
  /\ closed' = TRUE /\ listed' = FALSE
  /\ UNCHANGED <<session, segments, holder, channel, timerVars, owed>>

RollingInit ==
  /\ session = [c \in Cameras |-> Quiet]
  /\ segments = [c \in Cameras |-> 0]
  /\ holder = {} /\ listed = TRUE /\ closed = FALSE
  /\ channel = <<>> /\ coordinator = "run"
  /\ pending = [c \in Cameras |-> 0]
  /\ mapped = [c \in Cameras |-> "none"]
  /\ loose = [c \in Cameras |-> 0]
  /\ fired = [c \in Cameras |-> 0]
  /\ merging = [c \in Cameras |-> {}]
  /\ owed = [c \in Cameras |-> 0]

TimerStep(c) == TimerFires(c) \/ LooseTimerFires(c) \/ TakePending(c) \/ MergeHour(c)

RollingNext ==
  \/ \E c \in Cameras : Publish(c) \/ LockSubscriber(c) \/ DropOldest(c) \/ Send(c) \/ TimerStep(c)
  \/ Receive \/ Ignore
  \/ StopTimers \/ Unsubscribe \/ CloseSubscriber

\* The goroutines of the coordinator and of the timers are scheduled.
RollingFairness ==
  /\ WF_rollingVars(Receive)
  /\ \A c \in Cameras : WF_rollingVars(TimerStep(c))

RollingSpec == RollingInit /\ [][RollingNext]_rollingVars /\ RollingFairness

-----------------------------------------------------------------------------
\* The hour of the newest event that reached the coordinator's channel is
\* merged after it, however timers fire, are reset and find their hour taken.
LatestHourMerged ==
  \A c \in Cameras : owed[c] # 0 ~> owed[c] = 0 \/ coordinator # "run"

=============================================================================
