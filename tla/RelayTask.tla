----------------------------- MODULE RelayTask -----------------------------
(***************************************************************************)
(* Tasks that push a stream to another server (internal/relay/relay.go):   *)
(* the rows, the table m.tasks under m.mu, the goroutine each StartTask    *)
(* leaves behind, and the requests that start, stop and delete tasks.      *)
(*                                                                         *)
(* What a push sends and the statistics of a task are left out.  A request *)
(* that is refused changes nothing and is no step.  Tasks have been        *)
(* created: identifiers are never used again.                              *)
(***************************************************************************)
EXTENDS FiniteSets

CONSTANTS
  RelayTasks,
  Pushers,      \* goroutines of StartTask
  RelayClients, \* goroutines of requests
  Nobody

ASSUME RelayAssumption ==
  /\ Nobody \notin Pushers \cup RelayTasks
  /\ Pushers # {} /\ IsFiniteSet(Pushers)

VARIABLES
  stored,   \* tasks with a row
  entry,    \* m.tasks: the status of a task, "none" when it has no entry
  pusher,   \* the goroutine of the entry
  push,     \* the goroutines: task, stage, and whether they are cancelled
  client,   \* the requests in progress
  doomed,   \* goroutines Manager.Stop has listed and not cancelled yet
  orphaned  \* tasks whose entry was deleted before its goroutine had ended

relayVars == <<stored, entry, pusher, push, client, doomed, orphaned>>

RelayIdle == [pc |-> "idle", op |-> "none", task |-> Nobody, pusher |-> Nobody]
NoPush    == [task |-> Nobody, pc |-> "none", cancelled |-> FALSE]

HasEnded(p) == push[p].pc \in {"none", "done"}

-----------------------------------------------------------------------------
(* The goroutine of a task                                                 *)

\* updateTaskStatus and the updates of the times: whatever entry the task has
\* by then is changed, and its row written (again, if it was deleted).
UpdateStatus(t, status) ==
  IF entry[t] = "none"
  THEN UNCHANGED <<entry, stored>>
  ELSE /\ entry' = [entry EXCEPT ![t] = status]
       /\ stored' \in {stored, stored \cup {t}}

Advance(p, pc) == push' = [push EXCEPT ![p].pc = pc]

PushFrame == UNCHANGED <<pusher, client, doomed, orphaned>>

PushBegins(p) ==
  /\ push[p].pc = "begin" /\ ~push[p].cancelled
  /\ Advance(p, "connect")
  /\ UNCHANGED <<entry, stored>> /\ PushFrame

\* The test of the context before each stage.
PushIsCancelled(p) ==
  /\ push[p].pc \in {"begin", "connected", "streaming"} /\ push[p].cancelled
  /\ UpdateStatus(push[p].task, "stopped")
  /\ Advance(p, "ending") /\ PushFrame

PushConnects(p) ==
  /\ push[p].pc = "connect"
  /\ Advance(p, "connected")
  /\ UNCHANGED <<entry, stored>> /\ PushFrame

PullBegins(p) ==
  /\ push[p].pc = "connected" /\ ~push[p].cancelled
  /\ Advance(p, "pull")
  /\ UNCHANGED <<entry, stored>> /\ PushFrame

\* Mutant: a session that was disposed of is not reported.
FailedUnlessCancelled(p) ==
  /\ push[p].pc \in {"connect", "pull"}
  /\ IF push[p].cancelled
     THEN UNCHANGED <<entry, stored>>
     ELSE UpdateStatus(push[p].task, "error")
  /\ Advance(p, "ending") /\ PushFrame

\* Push or Pull returns an error.
SessionFails(p) ==
  /\ push[p].pc \in {"connect", "pull"}
  /\ UpdateStatus(push[p].task, IF push[p].cancelled THEN "stopped" ELSE "error")
  /\ Advance(p, "ending") /\ PushFrame

PullStarts(p) ==
  /\ push[p].pc = "pull"
  /\ UpdateStatus(push[p].task, "running")
  /\ Advance(p, "streaming") /\ PushFrame

SessionEnds(p) ==
  /\ push[p].pc = "streaming"
  /\ \E status \in {"error", "stopped"} : UpdateStatus(push[p].task, status)
  /\ Advance(p, "ending") /\ PushFrame

PushEnds(p) ==
  /\ push[p].pc = "ending"
  /\ Advance(p, "done")
  /\ UNCHANGED <<entry, stored>> /\ PushFrame

-----------------------------------------------------------------------------
(* Requests                                                                *)

\* A goroutine that ended long ago, that nothing refers to.
Reusable(p) ==
  /\ HasEnded(p) /\ p \notin doomed
  /\ \A t \in RelayTasks : pusher[t] # p
  /\ \A c \in RelayClients : client[c].pusher # p

\* All of it under m.mu; a goroutine that is still stopping refuses it.
StartTask(t) ==
  /\ t \in stored /\ entry[t] # "running"
  /\ pusher[t] # Nobody => HasEnded(pusher[t])
  /\ \E p \in Pushers :
       /\ Reusable(p)
       /\ push' = [push EXCEPT ![p] = [task |-> t, pc |-> "begin", cancelled |-> FALSE]]
       /\ pusher' = [pusher EXCEPT ![t] = p]
  /\ entry' = [entry EXCEPT ![t] = "running"]
  /\ UNCHANGED <<stored, client, doomed, orphaned>>

Asks(c, pc, op, t, p) == client' = [client EXCEPT ![c] = [pc |-> pc, op |-> op, task |-> t, pusher |-> p]]

\* StopTask reads the entry under m.mu and acts on it without.
StopTask(c, t) ==
  /\ client[c].pc = "idle" /\ entry[t] = "running"
  /\ Asks(c, "cancel", "stop", t, pusher[t])
  /\ UNCHANGED <<stored, entry, pusher, push, doomed, orphaned>>

\* DeleteTask ignores what StopTask returns.
DeleteTask(c, t) ==
  /\ client[c].pc = "idle"
  /\ IF entry[t] = "running"
     THEN Asks(c, "cancel", "delete", t, pusher[t])
     ELSE Asks(c, "drop", "delete", t, Nobody)
  /\ UNCHANGED <<stored, entry, pusher, push, doomed, orphaned>>

CancelPush(c) ==
  /\ client[c].pc = "cancel"
  /\ push' = [push EXCEPT ![client[c].pusher].cancelled = TRUE]
  /\ client' = [client EXCEPT ![c].pc = "await"]
  /\ UNCHANGED <<stored, entry, pusher, doomed, orphaned>>

\* The goroutine has ended, or six seconds have passed.
AwaitPush(c) ==
  /\ client[c].pc = "await"
  /\ client' = [client EXCEPT ![c] =
                  IF @.op = "delete" THEN [@ EXCEPT !.pc = "drop", !.pusher = Nobody] ELSE RelayIdle]
  /\ UNCHANGED <<stored, entry, pusher, push, doomed, orphaned>>

DropEntry(c) ==
  LET t == client[c].task IN
  /\ client[c].pc = "drop"
  /\ entry' = [entry EXCEPT ![t] = "none"]
  /\ pusher' = [pusher EXCEPT ![t] = Nobody]
  /\ orphaned' = IF pusher[t] # Nobody /\ ~HasEnded(pusher[t]) THEN orphaned \cup {t} ELSE orphaned
  /\ client' = [client EXCEPT ![c].pc = "erase"]
  /\ UNCHANGED <<stored, push, doomed>>

EraseRow(c) ==
  /\ client[c].pc = "erase"
  /\ stored' \in {stored, stored \ {client[c].task}}
  /\ client' = [client EXCEPT ![c] = RelayIdle]
  /\ UNCHANGED <<entry, pusher, push, doomed, orphaned>>

\* Manager.Stop; StartTask is not barred by it.
StopRelays ==
  /\ doomed = {}
  /\ doomed' = {pusher[t] : t \in {u \in RelayTasks : entry[u] = "running"}}
  /\ UNCHANGED <<stored, entry, pusher, push, client, orphaned>>

StopRelay(p) ==
  /\ p \in doomed
  /\ push' = [push EXCEPT ![p].cancelled = TRUE]
  /\ doomed' = doomed \ {p}
  /\ UNCHANGED <<stored, entry, pusher, client, orphaned>>

-----------------------------------------------------------------------------
RelayInit ==
  /\ stored = RelayTasks
  /\ entry = [t \in RelayTasks |-> "none"]
  /\ pusher = [t \in RelayTasks |-> Nobody]
  /\ push = [p \in Pushers |-> NoPush]
  /\ client = [c \in RelayClients |-> RelayIdle]
  /\ doomed = {} /\ orphaned = {}

PushStep(p) ==
  \/ PushBegins(p) \/ PushIsCancelled(p) \/ PushConnects(p) \/ PullBegins(p)
  \/ SessionFails(p) \/ PullStarts(p) \/ SessionEnds(p) \/ PushEnds(p)

RelayNext ==
  \/ \E p \in Pushers : PushStep(p) \/ StopRelay(p)
  \/ \E t \in RelayTasks : StartTask(t) \/ (\E c \in RelayClients : StopTask(c, t) \/ DeleteTask(c, t))
  \/ \E c \in RelayClients : CancelPush(c) \/ AwaitPush(c) \/ DropEntry(c) \/ EraseRow(c)
  \/ StopRelays

RelaySpec == RelayInit /\ [][RelayNext]_relayVars

-----------------------------------------------------------------------------
\* A task that is listed as running has a goroutine that has not ended, and a
\* goroutine that streams and was not cancelled is the one its task's entry
\* can stop, however requests, Stop, and failing sessions overlap; unless a
\* deletion did not wait for the goroutine.
RunningIsAlive ==
  \A t \in RelayTasks \ orphaned :
    /\ entry[t] = "running" => ~HasEnded(pusher[t])
    /\ \A p \in Pushers :
         push[p].task = t /\ push[p].pc = "streaming" /\ ~push[p].cancelled
           => pusher[t] = p /\ entry[t] = "running"

=============================================================================
