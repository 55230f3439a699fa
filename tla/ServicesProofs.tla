--------------------------- MODULE ServicesProofs ---------------------------
(***************************************************************************)
(* Theorems about four services that share no state, for any values of     *)
(* their constants:                                                        *)
(*                                                                         *)
(* - A query through the cache of recordings reflects every write that had *)
(*   returned when it began.  A write changes the table before it moves    *)
(*   the generation on, and returns only then; so whatever was read under  *)
(*   the present generation was read after every write that has returned,  *)
(*   and an entry is served only while its generation is the present one.  *)
(* - A relay task that is listed as running has a goroutine that runs.  A  *)
(*   task is started only after its last goroutine has ended, so a task    *)
(*   has one at most, and that one reports before it ends.                 *)
(* - A camera is restarted at most max_restarts_per_hour times an hour.    *)
(*   Only the end of a blacklisting forgets attempts, and a blacklisting   *)
(*   outlives the hour of the restarts before it.                          *)
(* - A session sends to the channel of the rolling coordinator without     *)
(*   waiting: it has the subscriber's mutex and room.  The hour of the     *)
(*   newest event delivered is in the channel, pending with a timer or     *)
(*   being merged, for as long as the coordinator runs.                    *)
(***************************************************************************)
EXTENDS RecordingsCache, RelayTask, Remediator, RollingMerge, FiniteSetTheorems, TLAPS

-----------------------------------------------------------------------------
(* The cache of recordings *)

Queries == [pc : {"idle", "missed", "noted", "queried", "answered"}, filter : Filters,
            since : Nat, gen : Nat, rows : Nat]

CacheTypeOK ==
  /\ table \in Nat /\ generation \in Nat /\ returned \in Nat
  /\ DOMAIN entries \subseteq Filters
  /\ entries \in [DOMAIN entries -> [gen : Nat, rows : Nat]]
  /\ reader \in [CacheReaders -> Queries]
  /\ writer \in [CacheWriters -> Nat]

\* The table holds what writers have in hand, and what they returned.
TableIsAhead == returned <= table /\ \A w \in CacheWriters : writer[w] <= table

\* An entry of the present generation includes every write that returned.
EntriesAreFresh ==
  \A f \in DOMAIN entries :
    /\ entries[f].gen <= generation
    /\ entries[f].gen = generation => entries[f].rows >= returned

\* So do rows that were read under it; what any query has read includes the
\* writes that had returned when it began.
QueriesAreFresh ==
  \A r \in CacheReaders :
    /\ reader[r].since <= returned
    /\ reader[r].pc \in {"noted", "queried"} => reader[r].gen <= generation
    /\ reader[r].pc \in {"queried", "answered"} => reader[r].rows >= reader[r].since
    /\ reader[r].pc = "queried" /\ reader[r].gen = generation => reader[r].rows >= returned

CacheInv == CacheTypeOK /\ TableIsAhead /\ EntriesAreFresh /\ QueriesAreFresh

-----------------------------------------------------------------------------
\* Nothing has been read or written.
LEMMA CacheStarts == CacheInit => CacheInv
<1> SUFFICES ASSUME CacheInit PROVE CacheInv
  OBVIOUS
<1> USE DEF CacheInit
<1>0. (CHOOSE f \in Filters : TRUE) \in Filters
  BY CacheAssumption
<1>1. CacheTypeOK
  BY <1>0 DEF CacheTypeOK, Queries, NewQuery
<1>2. TableIsAhead
  BY DEF TableIsAhead
<1>3. EntriesAreFresh
  BY DEF EntriesAreFresh
<1>4. QueriesAreFresh
  BY <1>0 DEF QueriesAreFresh, NewQuery
<1> QED
  BY <1>1, <1>2, <1>3, <1>4 DEF CacheInv

\* The steps of a query.
LEMMA QueryStep ==
  ASSUME CacheInv, NEW r \in CacheReaders,
         Lookup(r) \/ NoteGeneration(r) \/ Query(r) \/ Store(r) \/ Answer(r)
  PROVE  CacheInv'
<1> USE DEF CacheInv
<1>1. CASE Lookup(r)
  <2> PICK f \in Filters :
        reader' = [reader EXCEPT ![r] =
                     IF IsCached(f)
                     THEN [NewQuery(f) EXCEPT !.pc = "answered", !.since = returned, !.rows = entries[f].rows]
                     ELSE [NewQuery(f) EXCEPT !.pc = "missed", !.since = returned]]
    BY <1>1 DEF Lookup
  <2> USE <1>1 DEF Lookup, NewQuery, IsCached
  <2>1. CacheTypeOK'
    BY DEF CacheTypeOK, Queries
  <2>2. TableIsAhead' /\ EntriesAreFresh'
    BY DEF TableIsAhead, EntriesAreFresh
  <2>3. reader'[r].since = returned /\ reader'[r].pc \in {"missed", "answered"}
    BY DEF CacheTypeOK, Queries
  <2>4. reader'[r].pc = "answered" => reader'[r].rows >= returned
    BY DEF CacheTypeOK, Queries, EntriesAreFresh
  <2>5. \A q \in CacheReaders : q # r => reader'[q] = reader[q]
    BY DEF CacheTypeOK
  <2>6. returned' = returned /\ generation' = generation /\ returned \in Nat
    BY DEF CacheTypeOK
  <2>7. QueriesAreFresh'
    <3> HIDE <1>1 DEF Lookup, NewQuery, IsCached
    <3> SUFFICES ASSUME NEW q \in CacheReaders
                 PROVE  /\ reader'[q].since <= returned
                        /\ reader'[q].pc \in {"noted", "queried"} => reader'[q].gen <= generation
                        /\ reader'[q].pc \in {"queried", "answered"} => reader'[q].rows >= reader'[q].since
                        /\ reader'[q].pc = "queried" /\ reader'[q].gen = generation
                             => reader'[q].rows >= returned
      BY <2>6 DEF QueriesAreFresh
    <3>1. CASE q = r
      BY <3>1, <2>3, <2>4, <2>6
    <3>2. CASE q # r
      BY <3>2, <2>5 DEF QueriesAreFresh
    <3> QED
      BY <3>1, <3>2
  <2> QED
    BY <2>1, <2>2, <2>7
<1>2. CASE NoteGeneration(r)
  <2> USE <1>2 DEF NoteGeneration
  <2>1. CacheTypeOK'
    BY DEF CacheTypeOK, Queries
  <2>2. TableIsAhead' /\ EntriesAreFresh'
    BY DEF TableIsAhead, EntriesAreFresh
  <2>3. QueriesAreFresh'
    BY DEF QueriesAreFresh, CacheTypeOK, Queries
  <2> QED
    BY <2>1, <2>2, <2>3
<1>3. CASE Query(r)
  <2> USE <1>3 DEF Query
  <2>1. CacheTypeOK'
    BY DEF CacheTypeOK, Queries
  <2>2. TableIsAhead' /\ EntriesAreFresh'
    BY DEF TableIsAhead, EntriesAreFresh
  <2>3. QueriesAreFresh'
    BY DEF QueriesAreFresh, CacheTypeOK, Queries, TableIsAhead
  <2> QED
    BY <2>1, <2>2, <2>3
<1>4. CASE Store(r)
  <2> USE <1>4 DEF Store, Room
  <2>1. CacheTypeOK'
    BY DEF CacheTypeOK, Queries
  <2>2. TableIsAhead'
    BY DEF TableIsAhead
  <2>3. EntriesAreFresh'
    BY DEF EntriesAreFresh, QueriesAreFresh, CacheTypeOK, Queries
  <2>4. QueriesAreFresh'
    BY DEF QueriesAreFresh, CacheTypeOK, Queries
  <2> QED
    BY <2>1, <2>2, <2>3, <2>4
<1>5. CASE Answer(r)
  <2> USE <1>5 DEF Answer, NewQuery
  <2>1. CacheTypeOK'
    BY DEF CacheTypeOK, Queries
  <2>2. TableIsAhead' /\ EntriesAreFresh'
    BY DEF TableIsAhead, EntriesAreFresh
  <2>3. QueriesAreFresh'
    BY DEF QueriesAreFresh, CacheTypeOK, Queries
  <2> QED
    BY <2>1, <2>2, <2>3
<1> QED
  BY <1>1, <1>2, <1>3, <1>4, <1>5

\* The steps of a write.
LEMMA WriteStep ==
  ASSUME CacheInv, NEW w \in CacheWriters, Write(w) \/ Invalidate(w)
  PROVE  CacheInv'
<1> USE DEF CacheInv
<1>1. CASE Write(w)
  <2> USE <1>1 DEF Write
  <2>1. CacheTypeOK'
    BY DEF CacheTypeOK
  <2>2. TableIsAhead'
    BY DEF TableIsAhead, CacheTypeOK
  <2>3. EntriesAreFresh' /\ QueriesAreFresh'
    BY DEF EntriesAreFresh, QueriesAreFresh
  <2> QED
    BY <2>1, <2>2, <2>3
<1>2. CASE Invalidate(w)
  <2> USE <1>2 DEF Invalidate
  <2>1. CacheTypeOK'
    BY DEF CacheTypeOK
  <2>2. TableIsAhead'
    BY DEF TableIsAhead, CacheTypeOK
  <2>3. EntriesAreFresh'
    BY DEF EntriesAreFresh, CacheTypeOK
  <2>4. QueriesAreFresh'
    BY DEF QueriesAreFresh, CacheTypeOK, Queries
  <2> QED
    BY <2>1, <2>2, <2>3, <2>4
<1> QED
  BY <1>1, <1>2

\* Every state has it.
LEMMA CacheInvariant == CacheSpec => []CacheInv
<1>1. CacheInv /\ [CacheNext]_cacheVars => CacheInv'
  <2> SUFFICES ASSUME CacheInv, [CacheNext]_cacheVars PROVE CacheInv'
    OBVIOUS
  <2>1. CASE UNCHANGED cacheVars
    BY <2>1 DEF cacheVars, CacheInv, CacheTypeOK, TableIsAhead, EntriesAreFresh, QueriesAreFresh
  <2>2. CASE CacheNext
    BY <2>2, QueryStep, WriteStep DEF CacheNext
  <2> QED
    BY <2>1, <2>2
<1> QED
  BY CacheStarts, <1>1, PTL DEF CacheSpec

-----------------------------------------------------------------------------
\* A query reflects every write that had returned when the query began,
\* whether it is answered from the cache or from the table.
THEOREM QueriesReflectWrites == CacheSpec => []ReadsAreFresh
<1>1. CacheInv => ReadsAreFresh
  BY DEF CacheInv, QueriesAreFresh, ReadsAreFresh
<1> QED
  BY CacheInvariant, <1>1, PTL

-----------------------------------------------------------------------------
(* Relay tasks *)

Stages == {"none", "begin", "connect", "connected", "pull", "streaming", "ending", "done"}

Requests == [pc : {"idle", "cancel", "await", "drop", "erase"}, op : {"none", "stop", "delete"},
             task : RelayTasks \cup {Nobody}, pusher : Pushers \cup {Nobody}]

RelayTypeOK ==
  /\ entry \in [RelayTasks -> {"none", "running", "stopped", "error"}]
  /\ pusher \in [RelayTasks -> Pushers \cup {Nobody}]
  /\ push \in [Pushers -> [task : RelayTasks \cup {Nobody}, pc : Stages, cancelled : BOOLEAN]]
  /\ client \in [RelayClients -> Requests]
  /\ doomed \subseteq Pushers

\* A task with an entry has the goroutine of its last start; a request that is
\* about to cancel has one, too.
EntriesHavePushers ==
  /\ \A t \in RelayTasks : entry[t] = "none" <=> pusher[t] = Nobody
  /\ \A t \in RelayTasks, p \in Pushers : pusher[t] = p => push[p].task = t
  /\ \A c \in RelayClients : client[c].pc \in {"cancel", "await"} => client[c].pusher # Nobody
  /\ \A c \in RelayClients : client[c].pc # "idle" => client[c].task # Nobody

\* A goroutine that has not ended is its task's, which it reports to before it ends.
PushersAreListed ==
  \A p \in Pushers :
    push[p].task \in RelayTasks \ orphaned /\ ~HasEnded(p) =>
      /\ pusher[push[p].task] = p
      /\ push[p].pc = "ending" => entry[push[p].task] # "running"
      /\ push[p].pc = "streaming" /\ ~push[p].cancelled => entry[push[p].task] = "running"

\* Of the tasks that are listed as running none has lost its goroutine.
RunningHasPusher ==
  \A t \in RelayTasks \ orphaned : entry[t] = "running" => ~HasEnded(pusher[t])

RelayInv == RelayTypeOK /\ EntriesHavePushers /\ PushersAreListed /\ RunningHasPusher

-----------------------------------------------------------------------------
\* No task has been started.
LEMMA RelayStarts == RelayInit => RelayInv
<1> SUFFICES ASSUME RelayInit PROVE RelayInv
  OBVIOUS
<1> USE RelayAssumption DEF RelayInit
<1>1. RelayTypeOK
  BY DEF RelayTypeOK, RelayIdle, NoPush, Stages, Requests
<1>2. EntriesHavePushers
  BY DEF EntriesHavePushers, RelayIdle
<1>3. PushersAreListed
  BY DEF PushersAreListed, NoPush
<1>4. RunningHasPusher
  BY DEF RunningHasPusher
<1> QED
  BY <1>1, <1>2, <1>3, <1>4 DEF RelayInv

\* A goroutine goes from one stage to the next, and reports no status.
LEMMA AdvanceStep ==
  ASSUME RelayInv, NEW p \in Pushers,
         PushBegins(p) \/ PushConnects(p) \/ PullBegins(p) \/ PushEnds(p)
  PROVE  RelayInv'
<1> USE RelayAssumption DEF RelayInv, Advance, PushFrame
<1>1. /\ UNCHANGED <<pusher, client, doomed, orphaned, entry>>
      /\ ~HasEnded(p)
      /\ push[p].pc # "ending" => push'[p].pc \in {"connect", "connected", "pull"}
      /\ push[p].pc = "ending" => push'[p].pc = "done"
      /\ \E pc \in Stages : push' = [push EXCEPT ![p].pc = pc]
  BY DEF PushBegins, PushConnects, PullBegins, PushEnds, HasEnded, Stages, RelayTypeOK
<1>2. /\ push'[p].task = push[p].task
      /\ \A q \in Pushers \ {p} : push'[q] = push[q]
  BY <1>1 DEF RelayTypeOK
<1>3. RelayTypeOK'
  BY <1>1 DEF RelayTypeOK
<1>4. EntriesHavePushers'
  BY <1>1, <1>2 DEF EntriesHavePushers
<1>5. PushersAreListed'
  BY <1>1, <1>2 DEF PushersAreListed, HasEnded
<1>6. RunningHasPusher'
  BY <1>1, <1>2 DEF RunningHasPusher, PushersAreListed, EntriesHavePushers, HasEnded, RelayTypeOK
<1> QED
  BY <1>3, <1>4, <1>5, <1>6

\* A goroutine reports the status of its task as it streams or ends.
LEMMA ReportStep ==
  ASSUME RelayInv, NEW p \in Pushers,
         PushIsCancelled(p) \/ SessionFails(p) \/ PullStarts(p) \/ SessionEnds(p)
  PROVE  RelayInv'
<1> USE RelayAssumption DEF RelayInv, Advance, PushFrame
<1>1. /\ UNCHANGED <<pusher, client, doomed, orphaned>>
      /\ ~HasEnded(p) /\ push[p].pc # "ending"
  BY DEF PushIsCancelled, SessionFails, PullStarts, SessionEnds, HasEnded
<1>2. PICK status \in {"running", "stopped", "error"}, pc \in {"streaming", "ending"} :
        /\ push' = [push EXCEPT ![p].pc = pc]
        /\ UpdateStatus(push[p].task, status)
        /\ status = "running" <=> pc = "streaming"
  BY DEF PushIsCancelled, SessionFails, PullStarts, SessionEnds
<1>3. /\ push'[p].task = push[p].task /\ push'[p].pc = pc
      /\ push'[p].cancelled = push[p].cancelled
      /\ \A q \in Pushers \ {p} : push'[q] = push[q]
  BY <1>2 DEF RelayTypeOK
<1> DEFINE t == push[p].task
<1>4. /\ \A u \in RelayTasks \ {t} : entry'[u] = entry[u]
      /\ t \in RelayTasks /\ entry[t] # "none" => entry'[t] = status
      /\ t \in RelayTasks /\ entry[t] = "none" => entry'[t] = "none"
      /\ entry' \in [RelayTasks -> {"none", "running", "stopped", "error"}]
  BY <1>2 DEF UpdateStatus, RelayTypeOK
<1>5. RelayTypeOK'
  BY <1>1, <1>2, <1>4 DEF RelayTypeOK, Stages
<1>6. EntriesHavePushers'
  BY <1>1, <1>3, <1>4 DEF EntriesHavePushers, RelayTypeOK
<1>7. PushersAreListed'
  <2> SUFFICES ASSUME NEW q \in Pushers, push'[q].task \in RelayTasks \ orphaned, ~HasEnded(q)'
               PROVE  /\ pusher[push'[q].task] = q
                      /\ push'[q].pc = "ending" => entry'[push'[q].task] # "running"
                      /\ push'[q].pc = "streaming" /\ ~push'[q].cancelled => entry'[push'[q].task] = "running"
    BY <1>1 DEF PushersAreListed
  <2>1. CASE q = p
    <3>1. pusher[t] = p /\ entry[t] # "none"
      BY <2>1, <1>1, <1>3 DEF PushersAreListed, EntriesHavePushers
    <3> QED
      BY <3>1, <2>1, <1>2, <1>3, <1>4
  <2>2. CASE q # p
    <3>1. push'[q] = push[q] /\ ~HasEnded(q)
      BY <2>2, <1>3 DEF HasEnded
    <3>2. pusher[push[q].task] = q
      BY <3>1 DEF PushersAreListed
    <3>3. push[q].task # t
      BY <3>1, <3>2, <2>2, <1>1 DEF PushersAreListed
    <3> QED
      BY <3>1, <3>3, <1>4 DEF PushersAreListed
  <2> QED
    BY <2>1, <2>2
<1>8. RunningHasPusher'
  <2> SUFFICES ASSUME NEW u \in RelayTasks \ orphaned, entry'[u] = "running"
               PROVE  ~HasEnded(pusher[u])'
    BY <1>1 DEF RunningHasPusher
  <2>1. CASE u = t
    <3>1. pusher[t] = p
      BY <2>1, <1>1 DEF PushersAreListed
    <3> QED
      BY <3>1, <2>1, <1>1, <1>2, <1>3 DEF HasEnded
  <2>2. CASE u # t
    <3>1. entry[u] = "running" /\ ~HasEnded(pusher[u]) /\ pusher[u] \in Pushers
      BY <2>2, <1>4 DEF RunningHasPusher, EntriesHavePushers, RelayTypeOK
    <3>2. pusher[u] # p
      BY <3>1, <2>2 DEF EntriesHavePushers
    <3> QED
      BY <3>1, <3>2, <1>1, <1>3 DEF HasEnded
  <2> QED
    BY <2>1, <2>2
<1> QED
  BY <1>5, <1>6, <1>7, <1>8

\* A task is started only after its last goroutine has ended.
LEMMA StartStep ==
  ASSUME RelayInv, NEW t \in RelayTasks, StartTask(t)
  PROVE  RelayInv'
<1> USE RelayAssumption DEF RelayInv
<1>1. PICK p \in Pushers :
        /\ Reusable(p)
        /\ push' = [push EXCEPT ![p] = [task |-> t, pc |-> "begin", cancelled |-> FALSE]]
        /\ pusher' = [pusher EXCEPT ![t] = p]
  BY DEF StartTask
<1>2. /\ entry' = [entry EXCEPT ![t] = "running"]
      /\ pusher[t] # Nobody => HasEnded(pusher[t])
      /\ UNCHANGED <<stored, client, doomed, orphaned>>
  BY DEF StartTask
<1>3. /\ push'[p] = [task |-> t, pc |-> "begin", cancelled |-> FALSE]
      /\ \A q \in Pushers \ {p} : push'[q] = push[q]
      /\ pusher'[t] = p /\ entry'[t] = "running"
      /\ \A u \in RelayTasks \ {t} : pusher'[u] = pusher[u] /\ entry'[u] = entry[u]
  BY <1>1, <1>2 DEF RelayTypeOK
<1>4. /\ HasEnded(p)
      /\ \A u \in RelayTasks : pusher[u] # p
  BY <1>1 DEF Reusable
<1>5. t \notin orphaned => \A q \in Pushers : push[q].task = t => HasEnded(q)
  BY <1>2 DEF PushersAreListed
<1>6. RelayTypeOK'
  BY <1>1, <1>2 DEF RelayTypeOK, Stages
<1>7. EntriesHavePushers'
  BY <1>2, <1>3, <1>4 DEF EntriesHavePushers
<1>8. PushersAreListed'
  BY <1>2, <1>3, <1>5 DEF PushersAreListed, HasEnded
<1>9. RunningHasPusher'
  BY <1>2, <1>3, <1>4 DEF RunningHasPusher, HasEnded, EntriesHavePushers, RelayTypeOK
<1> QED
  BY <1>6, <1>7, <1>8, <1>9

\* Requests cancel goroutines, and drop entries.
LEMMA RequestStep ==
  ASSUME RelayInv, NEW c \in RelayClients,
         \/ \E t \in RelayTasks : StopTask(c, t) \/ DeleteTask(c, t)
         \/ CancelPush(c) \/ AwaitPush(c) \/ DropEntry(c) \/ EraseRow(c)
  PROVE  RelayInv'
<1> USE RelayAssumption DEF RelayInv
<1>1. CASE \E t \in RelayTasks : StopTask(c, t) \/ DeleteTask(c, t)
  <2> PICK t \in RelayTasks : StopTask(c, t) \/ DeleteTask(c, t)
    BY <1>1
  <2>1. entry[t] = "running" => pusher[t] \in Pushers /\ pusher[t] # Nobody
    BY DEF EntriesHavePushers, RelayTypeOK
  <2>5. PICK r \in Requests :
          /\ client' = [client EXCEPT ![c] = r]
          /\ r.pc \in {"cancel", "await"} => r.pusher # Nobody
          /\ r.task = t
    <3>1. CASE entry[t] = "running"
      <4> DEFINE r == [pc |-> "cancel", op |-> IF StopTask(c, t) THEN "stop" ELSE "delete", task |-> t, pusher |-> pusher[t]]
      <4>1. r \in Requests
        BY <2>1, <3>1 DEF Requests
      <4>2. client' = [client EXCEPT ![c] = r]
        BY <3>1 DEF StopTask, DeleteTask, Asks
      <4> QED
        BY <4>1, <4>2, <2>1, <3>1
    <3>2. CASE entry[t] # "running"
      <4> DEFINE r == [pc |-> "drop", op |-> "delete", task |-> t, pusher |-> Nobody]
      <4>1. r \in Requests
        BY DEF Requests
      <4>2. client' = [client EXCEPT ![c] = r]
        BY <3>2 DEF StopTask, DeleteTask, Asks
      <4> QED
        BY <4>1, <4>2
    <3> QED
      BY <3>1, <3>2
  <2>6. UNCHANGED <<stored, entry, pusher, push, doomed, orphaned>>
    BY DEF StopTask, DeleteTask
  <2> USE <2>5, <2>6
  <2>2. RelayTypeOK'
    BY DEF RelayTypeOK
  <2>3. EntriesHavePushers'
    BY DEF EntriesHavePushers, RelayTypeOK
  <2>4. PushersAreListed' /\ RunningHasPusher'
    BY DEF PushersAreListed, RunningHasPusher, HasEnded
  <2> QED
    BY <2>2, <2>3, <2>4
<1>2. CASE CancelPush(c)
  <2> DEFINE p == client[c].pusher
  <2>1. p \in Pushers
    BY <1>2 DEF CancelPush, EntriesHavePushers, RelayTypeOK, Requests
  <2>2. /\ UNCHANGED <<stored, entry, pusher, doomed, orphaned>>
        /\ push' = [push EXCEPT ![p].cancelled = TRUE]
        /\ client' = [client EXCEPT ![c].pc = "await"]
        /\ client[c].pc = "cancel"
    BY <1>2 DEF CancelPush
  <2>3. /\ push'[p].task = push[p].task /\ push'[p].pc = push[p].pc /\ push'[p].cancelled
        /\ \A q \in Pushers \ {p} : push'[q] = push[q]
    BY <2>1, <2>2 DEF RelayTypeOK
  <2>4. RelayTypeOK'
    <3>1. push' \in [Pushers -> [task : RelayTasks \cup {Nobody}, pc : Stages, cancelled : BOOLEAN]]
      BY <2>2 DEF RelayTypeOK
    <3>2. client' \in [RelayClients -> Requests]
      BY <2>2 DEF RelayTypeOK, Requests
    <3> QED
      BY <2>2, <3>1, <3>2 DEF RelayTypeOK
  <2>5. EntriesHavePushers'
    BY <2>1, <2>2, <2>3 DEF EntriesHavePushers, RelayTypeOK, Requests
  <2>6. PushersAreListed'
    BY <2>2, <2>3 DEF PushersAreListed, HasEnded
  <2>7. RunningHasPusher'
    BY <2>2, <2>3 DEF RunningHasPusher, HasEnded, EntriesHavePushers, RelayTypeOK
  <2> QED
    BY <2>4, <2>5, <2>6, <2>7
<1>3. CASE AwaitPush(c) \/ EraseRow(c)
  <2> USE <1>3 DEF AwaitPush, EraseRow, RelayIdle
  <2>4. PICK r \in Requests :
          /\ client' = [client EXCEPT ![c] = r]
          /\ r.pc \in {"idle", "drop"}
          /\ r.pc = "drop" => r.task # Nobody
    <3>1. CASE AwaitPush(c) /\ client[c].op = "delete"
      <4> DEFINE r == [client[c] EXCEPT !.pc = "drop", !.pusher = Nobody]
      <4>3. client[c] \in Requests /\ client[c].task # Nobody
        BY <3>1 DEF RelayTypeOK, EntriesHavePushers, AwaitPush
      <4>1. r \in Requests /\ r.pc = "drop" /\ r.task # Nobody
        BY <4>3 DEF Requests
      <4>2. client' = [client EXCEPT ![c] = r]
        BY <3>1 DEF RelayTypeOK
      <4> QED
        BY <4>1, <4>2
    <3>2. CASE EraseRow(c) \/ client[c].op # "delete"
      <4> DEFINE r == [pc |-> "idle", op |-> "none", task |-> Nobody, pusher |-> Nobody]
      <4>1. r \in Requests
        BY DEF Requests
      <4>2. client' = [client EXCEPT ![c] = r]
        BY <3>2 DEF RelayTypeOK
      <4> QED
        BY <4>1, <4>2
    <3> QED
      BY <3>1, <3>2
  <2>5. UNCHANGED <<entry, pusher, push, doomed, orphaned>>
    OBVIOUS
  <2> HIDE <1>3 DEF AwaitPush, EraseRow, RelayIdle
  <2> USE <2>4, <2>5
  <2>1. RelayTypeOK'
    BY DEF RelayTypeOK
  <2>2. EntriesHavePushers'
    BY DEF EntriesHavePushers, RelayTypeOK
  <2>3. PushersAreListed' /\ RunningHasPusher'
    BY DEF PushersAreListed, RunningHasPusher, HasEnded
  <2> QED
    BY <2>1, <2>2, <2>3
<1>4. CASE DropEntry(c)
  <2> DEFINE t == client[c].task
  <2>1. t \in RelayTasks
    BY <1>4 DEF DropEntry, EntriesHavePushers, RelayTypeOK, Requests
  <2>2. /\ entry' = [entry EXCEPT ![t] = "none"]
        /\ pusher' = [pusher EXCEPT ![t] = Nobody]
        /\ orphaned \subseteq orphaned'
        /\ pusher[t] # Nobody /\ ~HasEnded(pusher[t]) => t \in orphaned'
        /\ client' = [client EXCEPT ![c].pc = "erase"]
        /\ client[c].pc = "drop"
        /\ UNCHANGED <<stored, push, doomed>>
    BY <1>4 DEF DropEntry
  <2>3. RelayTypeOK'
    <3>1. client' \in [RelayClients -> Requests]
      BY <2>2 DEF RelayTypeOK, Requests
    <3>2. /\ entry' \in [RelayTasks -> {"none", "running", "stopped", "error"}]
          /\ pusher' \in [RelayTasks -> Pushers \cup {Nobody}]
      BY <2>2 DEF RelayTypeOK
    <3> QED
      BY <2>2, <3>1, <3>2 DEF RelayTypeOK
  <2>4. EntriesHavePushers'
    BY <2>1, <2>2 DEF EntriesHavePushers, RelayTypeOK, Requests
  <2>5. PushersAreListed'
    BY <2>1, <2>2 DEF PushersAreListed, HasEnded, RelayTypeOK
  <2>6. RunningHasPusher'
    BY <2>1, <2>2 DEF RunningHasPusher, HasEnded, RelayTypeOK
  <2> QED
    BY <2>3, <2>4, <2>5, <2>6
<1> QED
  BY <1>1, <1>2, <1>3, <1>4

\* Manager.Stop cancels goroutines.
LEMMA StopRelaysStep ==
  ASSUME RelayInv, StopRelays \/ \E p \in Pushers : StopRelay(p)
  PROVE  RelayInv'
<1> USE RelayAssumption DEF RelayInv
<1>1. CASE StopRelays
  <2>1. \A t \in RelayTasks : entry[t] = "running" => pusher[t] \in Pushers
    BY DEF EntriesHavePushers, RelayTypeOK
  <2> USE <1>1 DEF StopRelays
  <2>2. RelayTypeOK'
    BY <2>1 DEF RelayTypeOK
  <2>3. EntriesHavePushers' /\ PushersAreListed' /\ RunningHasPusher'
    BY DEF EntriesHavePushers, PushersAreListed, RunningHasPusher, HasEnded
  <2> QED
    BY <2>2, <2>3
<1>2. CASE \E p \in Pushers : StopRelay(p)
  <2> PICK p \in Pushers : StopRelay(p)
    BY <1>2
  <2>1. /\ UNCHANGED <<stored, entry, pusher, client, orphaned>>
        /\ push' = [push EXCEPT ![p].cancelled = TRUE]
        /\ doomed' \subseteq doomed
    BY DEF StopRelay
  <2>2. /\ push'[p].task = push[p].task /\ push'[p].pc = push[p].pc /\ push'[p].cancelled
        /\ \A q \in Pushers \ {p} : push'[q] = push[q]
    BY <2>1 DEF RelayTypeOK
  <2>3. RelayTypeOK'
    BY <2>1 DEF RelayTypeOK
  <2>4. EntriesHavePushers'
    BY <2>1, <2>2 DEF EntriesHavePushers
  <2>5. PushersAreListed'
    BY <2>1, <2>2 DEF PushersAreListed, HasEnded
  <2>6. RunningHasPusher'
    BY <2>1, <2>2 DEF RunningHasPusher, HasEnded, EntriesHavePushers, RelayTypeOK
  <2> QED
    BY <2>3, <2>4, <2>5, <2>6
<1> QED
  BY <1>1, <1>2

\* What is listed as running can be stopped and will report, and what streams
\* is listed, for any tasks, goroutines and requests.
THEOREM ListedRelaysRun == RelaySpec => []RunningIsAlive
<1>1. RelayInv /\ [RelayNext]_relayVars => RelayInv'
  <2> SUFFICES ASSUME RelayInv, [RelayNext]_relayVars PROVE RelayInv'
    OBVIOUS
  <2>1. CASE UNCHANGED relayVars
    BY <2>1 DEF relayVars, RelayInv, RelayTypeOK, EntriesHavePushers, PushersAreListed,
                RunningHasPusher, HasEnded
  <2>2. CASE RelayNext
    BY <2>2, AdvanceStep, ReportStep, StartStep, RequestStep, StopRelaysStep DEF RelayNext, PushStep
  <2> QED
    BY <2>1, <2>2
<1>2. RelayInv => RunningIsAlive
  BY DEF RelayInv, RunningIsAlive, RunningHasPusher, PushersAreListed, HasEnded
<1> QED
  BY RelayStarts, <1>1, <1>2, PTL DEF RelaySpec

-----------------------------------------------------------------------------
(* The remediator *)

\* The ages a camera's attempts, restarts and blacklisting have.
AgesOK ==
  /\ attempts \in [Watched -> SUBSET (0 .. Hour)]
  /\ restarts \in [Watched -> SUBSET (0 .. Hour - 1)]
  /\ barred \in [Watched -> 0 .. Never]
  /\ \A c \in Watched : barred[c] <= Blacklist \/ barred[c] = Never
  /\ outside.cam \subseteq Watched

\* Each restart of the last hour is an attempt that counts, unless a
\* blacklisting has outlived it.
RestartsCount ==
  \A c \in Watched :
    /\ restarts[c] \subseteq attempts[c]
    /\ barred[c] # Never => \A a \in restarts[c] : a >= barred[c]

AttemptsAreFew == \A c \in Watched : Cardinality(attempts[c]) <= MaxRestarts

RemedyInv == AgesOK /\ RestartsCount /\ AttemptsAreFew

-----------------------------------------------------------------------------
\* Sets of ages are finite.
LEMMA AgesAreFinite ==
  ASSUME NEW n \in Nat, NEW S \in SUBSET (0 .. n)
  PROVE  IsFiniteSet(S) /\ Cardinality(S) \in Nat
<1>1. IsFiniteSet(0 .. n)
  BY FS_Interval
<1> QED
  BY <1>1, FS_Subset, FS_CardinalityType

\* As time passes none is added.
LEMMA OlderIsFewer ==
  ASSUME NEW n \in Nat, NEW S \in SUBSET (0 .. n), NEW limit \in Nat
  PROVE  Cardinality(Older(S, limit)) <= Cardinality(S)
<1> DEFINE Young == {b \in S : b < limit}
           f == [a \in Young |-> a + 1]
<1>1. IsFiniteSet(S)
  BY AgesAreFinite
<1>2. IsFiniteSet(Young) /\ Cardinality(Young) <= Cardinality(S)
  BY <1>1, FS_Subset
<1>3. f \in Surjection(Young, Older(S, limit))
  BY DEF Surjection, Older
<1>4. Cardinality(Older(S, limit)) <= Cardinality(Young)
  BY <1>2, <1>3, FS_Surjection
<1>5. IsFiniteSet(Older(S, limit))
  BY <1>2, <1>3, FS_Surjection
<1> QED
  BY <1>1, <1>2, <1>4, <1>5, FS_CardinalityType

\* No camera has been restarted.
LEMMA RemedyStarts == RemedyInit => RemedyInv
<1> SUFFICES ASSUME RemedyInit PROVE RemedyInv
  OBVIOUS
<1>1. AgesOK
  BY RemediatorAssumption DEF RemedyInit, AgesOK, Never, Nowhere
<1>2. RestartsCount
  BY DEF RemedyInit, RestartsCount
<1>3. AttemptsAreFew
  BY FS_EmptySet, RemediatorAssumption DEF RemedyInit, AttemptsAreFew
<1> QED
  BY <1>1, <1>2, <1>3 DEF RemedyInv

\* Restarts, attempts and blacklistings age alike.
LEMMA TickStep == ASSUME RemedyInv, Tick PROVE RemedyInv'
<1> USE RemediatorAssumption
<1>1. /\ attempts' = [c \in Watched |-> Older(attempts[c], Hour)]
      /\ restarts' = [c \in Watched |-> Older(restarts[c], Hour - 1)]
      /\ barred' = [c \in Watched |-> Ripens(barred[c], Blacklist)]
      /\ UNCHANGED outside
  BY DEF Tick
<1>2. AgesOK
  BY DEF RemedyInv
<1>3. AgesOK'
  <2>1. \A S \in SUBSET (0 .. Hour) : Older(S, Hour) \in SUBSET (0 .. Hour)
    BY DEF Older
  <2>2. \A S \in SUBSET (0 .. Hour - 1) : Older(S, Hour - 1) \in SUBSET (0 .. Hour - 1)
    BY DEF Older
  <2>3. \A age \in 0 .. Never : age <= Blacklist \/ age = Never =>
          /\ Ripens(age, Blacklist) \in 0 .. Never
          /\ Ripens(age, Blacklist) <= Blacklist \/ Ripens(age, Blacklist) = Never
    BY DEF Ripens, Never
  <2> QED
    BY <1>1, <1>2, <2>1, <2>2, <2>3 DEF AgesOK
<1>4. RestartsCount'
  <2> SUFFICES ASSUME NEW c \in Watched
               PROVE  /\ restarts'[c] \subseteq attempts'[c]
                      /\ barred'[c] # Never => \A a \in restarts'[c] : a >= barred'[c]
    BY DEF RestartsCount, Never
  <2>1. /\ restarts[c] \subseteq attempts[c] /\ restarts[c] \subseteq 0 .. Hour - 1
        /\ barred[c] # Never => \A a \in restarts[c] : a >= barred[c]
        /\ barred[c] \in 0 .. Never
    BY <1>2 DEF RemedyInv, RestartsCount, AgesOK
  <2>2. restarts'[c] \subseteq attempts'[c]
    BY <1>1, <2>1 DEF Older
  <2>3. ASSUME barred'[c] # Never, NEW a \in restarts'[c] PROVE a >= barred'[c]
    <3>1. PICK b \in restarts[c] : a = b + 1
      BY <1>1 DEF Older
    <3>2. barred'[c] = Ripens(barred[c], Blacklist)
      BY <1>1
    <3>3. barred[c] # Never
      BY <3>2, <2>3 DEF Ripens
    <3>4. b >= barred[c] /\ b \in Nat
      BY <3>3, <2>1
    <3>5. barred'[c] \in Nat /\ barred[c] \in Nat /\ barred'[c] <= barred[c] + 1
      BY <3>2, <2>1 DEF Ripens, Never
    <3> QED
      BY <3>1, <3>4, <3>5
  <2> QED
    BY <2>2, <2>3
<1>5. AttemptsAreFew'
  <2> SUFFICES ASSUME NEW c \in Watched PROVE Cardinality(attempts'[c]) <= MaxRestarts
    BY DEF AttemptsAreFew
  <2>1. attempts[c] \in SUBSET (0 .. Hour) /\ Cardinality(attempts[c]) <= MaxRestarts
    BY <1>2 DEF AgesOK, RemedyInv, AttemptsAreFew
  <2>2. attempts'[c] = Older(attempts[c], Hour)
    BY <1>1
  <2>3. Cardinality(Older(attempts[c], Hour)) <= Cardinality(attempts[c])
    BY <2>1, OlderIsFewer
  <2>4. Older(attempts[c], Hour) \in SUBSET (0 .. Hour)
    BY <2>1 DEF Older
  <2>5. Cardinality(attempts[c]) \in Nat /\ Cardinality(Older(attempts[c], Hour)) \in Nat
    BY <2>1, <2>4, AgesAreFinite
  <2> QED
    BY <2>1, <2>2, <2>3, <2>5
<1> QED
  BY <1>3, <1>4, <1>5 DEF RemedyInv

\* A blacklisting that expires has outlived the restarts before it.
LEMMA ExpiredHasNoRestarts ==
  ASSUME RemedyInv, NEW c \in Watched, Expired(c)
  PROVE  restarts[c] = {}
<1>1. barred[c] # Never /\ ~(barred[c] < Blacklist) /\ barred[c] \in 0 .. Never
  BY DEF Expired, Barred, RemedyInv, AgesOK
<1>2. \A a \in restarts[c] : a >= barred[c] /\ a \in 0 .. Hour - 1
  BY <1>1 DEF RemedyInv, RestartsCount, AgesOK
<1> QED
  BY <1>1, <1>2, RemediatorAssumption DEF Never

\* What counts against a camera.
LEMMA CountedAttempts ==
  ASSUME RemedyInv, NEW c \in Watched
  PROVE  /\ Counted(c) \in SUBSET (0 .. Hour)
         /\ IsFiniteSet(Counted(c)) /\ Cardinality(Counted(c)) <= MaxRestarts
         /\ restarts[c] \subseteq Counted(c)
<1>1. /\ attempts[c] \in SUBSET (0 .. Hour) /\ restarts[c] \subseteq attempts[c]
      /\ Cardinality(attempts[c]) <= MaxRestarts
  BY DEF RemedyInv, AgesOK, RestartsCount, AttemptsAreFew
<1>2. Expired(c) => restarts[c] = {}
  BY ExpiredHasNoRestarts
<1>3. Cardinality({}) = 0
  BY FS_EmptySet
<1>4. /\ Counted(c) \in SUBSET (0 .. Hour)
      /\ restarts[c] \subseteq Counted(c)
  BY <1>1, <1>2 DEF Counted
<1>5. Cardinality(Counted(c)) <= MaxRestarts
  BY <1>1, <1>3, RemediatorAssumption DEF Counted
<1> QED
  BY <1>4, <1>5, AgesAreFinite, RemediatorAssumption

\* A restart is one attempt more, of those that count.
LEMMA RestartStep ==
  ASSUME RemedyInv, NEW c \in Watched, Restart(c)
  PROVE  RemedyInv'
<1> USE RemediatorAssumption
<1> DEFINE age == IF UsedUp(c) THEN 0 ELSE IF Expired(c) THEN Never ELSE barred[c]
<1>1. /\ attempts' = [attempts EXCEPT ![c] = Counted(c) \cup {0}]
      /\ restarts' = [restarts EXCEPT ![c] = restarts[c] \cup {0}]
      /\ barred' = [barred EXCEPT ![c] = age]
      /\ outside'.cam \subseteq Watched
      /\ ~Barred(c) /\ Cardinality(Counted(c)) < MaxRestarts
  BY DEF Restart, Allowed, RemedyInv, AgesOK
<1>2. /\ Counted(c) \in SUBSET (0 .. Hour)
      /\ IsFiniteSet(Counted(c)) /\ Cardinality(Counted(c)) <= MaxRestarts
      /\ restarts[c] \subseteq Counted(c)
  BY CountedAttempts
<1>3. /\ attempts'[c] = Counted(c) \cup {0} /\ restarts'[c] = restarts[c] \cup {0}
      /\ barred'[c] = age
      /\ \A d \in Watched \ {c} : /\ attempts'[d] = attempts[d] /\ restarts'[d] = restarts[d]
                                  /\ barred'[d] = barred[d]
  BY <1>1 DEF RemedyInv, AgesOK
<1>4. age = 0 \/ age = Never
  BY <1>1 DEF Expired
<1>5. AgesOK'
  <2>1. Counted(c) \cup {0} \in SUBSET (0 .. Hour) /\ restarts[c] \cup {0} \in SUBSET (0 .. Hour - 1)
    BY <1>2 DEF RemedyInv, AgesOK
  <2>2. age \in 0 .. Never /\ (age <= Blacklist \/ age = Never)
    BY <1>4 DEF Never
  <2> HIDE DEF age
  <2>3. AgesOK
    BY DEF RemedyInv
  <2>4. /\ attempts' \in [Watched -> SUBSET (0 .. Hour)]
        /\ restarts' \in [Watched -> SUBSET (0 .. Hour - 1)]
    BY <1>1, <2>1, <2>3 DEF AgesOK
  <2>5. barred' \in [Watched -> 0 .. Never]
    BY <1>1, <2>2, <2>3 DEF AgesOK
  <2>6. \A d \in Watched : barred'[d] <= Blacklist \/ barred'[d] = Never
    BY <1>3, <2>2, <2>3 DEF AgesOK
  <2> QED
    BY <1>1, <2>4, <2>5, <2>6 DEF AgesOK, Never
<1>6. RestartsCount'
  <2>1. \A a \in restarts'[c] : a >= 0
    BY <1>3 DEF RemedyInv, AgesOK
  <2> QED
    BY <1>2, <1>3, <1>4, <2>1 DEF RemedyInv, RestartsCount, Never
<1>7. AttemptsAreFew'
  <2>2. Cardinality(Counted(c)) \in Nat
    BY <1>2, FS_CardinalityType
  <2>3. Cardinality(Counted(c) \cup {0}) = Cardinality(Counted(c))
        \/ Cardinality(Counted(c) \cup {0}) = Cardinality(Counted(c)) + 1
    BY <1>2, FS_AddElement
  <2>1. Cardinality(Counted(c) \cup {0}) <= MaxRestarts
    BY <1>1, <2>2, <2>3
  <2> QED
    BY <1>3, <2>1 DEF RemedyInv, AttemptsAreFew
<1> QED
  BY <1>5, <1>6, <1>7 DEF RemedyInv

\* A refusal forgets what a blacklisting has outlived.
LEMMA RefuseStep ==
  ASSUME RemedyInv, NEW c \in Watched, Refuse(c)
  PROVE  RemedyInv'
<1> USE RemediatorAssumption
<1>1. /\ attempts' = [attempts EXCEPT ![c] = Counted(c)]
      /\ barred' = [barred EXCEPT ![c] = IF Expired(c) THEN Never ELSE barred[c]]
      /\ UNCHANGED <<restarts, outside>>
  BY DEF Refuse, Forgive, CheckFrame
<1>2. /\ Counted(c) \in SUBSET (0 .. Hour)
      /\ Cardinality(Counted(c)) <= MaxRestarts
      /\ restarts[c] \subseteq Counted(c)
  BY CountedAttempts
<1>3. AgesOK'
  BY <1>1, <1>2 DEF RemedyInv, AgesOK, Never
<1>4. RestartsCount'
  BY <1>1, <1>2 DEF RemedyInv, RestartsCount, AgesOK, Never
<1>5. AttemptsAreFew'
  BY <1>1, <1>2 DEF RemedyInv, AttemptsAreFew, AgesOK
<1> QED
  BY <1>3, <1>4, <1>5 DEF RemedyInv

\* A camera that is cleared starts over.
LEMMA ClearStep ==
  ASSUME RemedyInv, NEW cams, Clear(cams), outside'.cam \subseteq Watched
  PROVE  RemedyInv'
<1>1. AgesOK'
  BY RemediatorAssumption DEF Clear, RemedyInv, AgesOK, Never
<1>2. RestartsCount'
  BY DEF Clear, RemedyInv, RestartsCount, AgesOK, Never
<1>3. AttemptsAreFew'
  BY FS_EmptySet, RemediatorAssumption DEF Clear, RemedyInv, AttemptsAreFew
<1> QED
  BY <1>1, <1>2, <1>3 DEF RemedyInv

\* Steps that touch no attempts.
LEMMA QuietStep ==
  ASSUME RemedyInv, UNCHANGED <<attempts, barred, restarts>>, outside'.cam \subseteq Watched
  PROVE  RemedyInv'
  BY DEF RemedyInv, AgesOK, RestartsCount, AttemptsAreFew, Never

\* At most max_restarts_per_hour restarts of a camera in an hour, for any
\* cameras, windows and limits.
THEOREM HourlyLimit == RemedySpec => []RestartsAreRare
<1>1. RemedyInv /\ [RemedyNext]_remedyVars => RemedyInv'
  <2> SUFFICES ASSUME RemedyInv, [RemedyNext]_remedyVars PROVE RemedyInv'
    OBVIOUS
  <2>0. outside.cam \subseteq Watched
    BY DEF RemedyInv, AgesOK
  <2>1. CASE UNCHANGED remedyVars
    BY <2>0, <2>1, QuietStep DEF remedyVars
  <2>2. CASE Tick
    BY <2>2, TickStep
  <2>3. CASE Poll \/ RestartEnds \/ SearchFails
    BY <2>0, <2>3, QuietStep DEF Poll, RestartEnds, SearchFails, checkVars, Nowhere
  <2>4. CASE SearchFinds
    BY <2>4, ClearStep DEF SearchFinds, Nowhere
  <2>5. CASE \E c \in Watched : ClearBlacklist(c)
    BY <2>0, <2>5, ClearStep DEF ClearBlacklist
  <2>6. ASSUME NEW c \in Watched, CheckStep(c) PROVE RemedyInv'
    <3>1. CASE PassOver(c) \/ SeeHealthy(c) \/ FirstUnhealthy(c) \/ StayBarred(c)
      BY <2>0, <3>1, QuietStep DEF PassOver, SeeHealthy, FirstUnhealthy, StayBarred, CheckFrame, checkVars
    <3>2. CASE Rediscover(c)
      BY <3>2, QuietStep DEF Rediscover
    <3>3. CASE Refuse(c) \/ Restart(c)
      BY <3>3, RefuseStep, RestartStep
    <3> QED
      BY <2>6, <3>1, <3>2, <3>3 DEF CheckStep
  <2> QED
    BY <2>1, <2>2, <2>3, <2>4, <2>5, <2>6 DEF RemedyNext
<1>2. RemedyInv => RestartsAreRare
  <2> SUFFICES ASSUME RemedyInv, NEW c \in Watched PROVE Cardinality(restarts[c]) <= MaxRestarts
    BY DEF RestartsAreRare
  <2>1. /\ attempts[c] \in SUBSET (0 .. Hour) /\ restarts[c] \subseteq attempts[c]
        /\ Cardinality(attempts[c]) <= MaxRestarts
    BY DEF RemedyInv, AgesOK, RestartsCount, AttemptsAreFew
  <2>2. /\ IsFiniteSet(attempts[c]) /\ Cardinality(attempts[c]) \in Nat
        /\ Cardinality(restarts[c]) \in Nat
    BY <2>1, AgesAreFinite, RemediatorAssumption
  <2>3. Cardinality(restarts[c]) <= Cardinality(attempts[c])
    BY <2>1, <2>2, FS_Subset
  <2> QED
    BY <2>1, <2>2, <2>3, RemediatorAssumption
<1> QED
  BY RemedyStarts, <1>1, <1>2, PTL DEF RemedySpec

-----------------------------------------------------------------------------
(* The bus and the rolling coordinator                                    *)

Events == [camera : Cameras, hour : Nat]

\* What sessions, channel and timers are.
SessionsOK == session \in [Cameras -> [pc : {"idle", "lock", "drop", "send"}, hour : Nat]]
ChannelOK  == channel \in Seq(Events) /\ Len(channel) <= Capacity
TimersOK   == /\ pending \in [Cameras -> Nat] /\ mapped \in [Cameras -> {"none", "armed", "fired"}]
              /\ fired \in [Cameras -> Nat] /\ loose \in [Cameras -> Nat]
              /\ merging \in [Cameras -> SUBSET Nat] /\ owed \in [Cameras -> Nat]

\* A session has the subscriber's mutex while it drops the oldest event and sends, and
\* then it finds room in the channel.
MutexInv == \A c \in Cameras : session[c].pc \in {"drop", "send"} => holder = {c}
RoomInv  == \A c \in Cameras : session[c].pc = "send" => Len(channel) < Capacity

RollingInv == SessionsOK /\ ChannelOK /\ TimersOK /\ MutexInv /\ RoomInv

LEMMA RollingStarts == ASSUME Capacity \in Nat, RollingInit PROVE RollingInv
  BY DEF RollingInit, RollingInv, SessionsOK, ChannelOK, TimersOK, MutexInv, RoomInv, Quiet

\* The first event of the channel leaves, and the others move up.
LEMMA Shift ==
  ASSUME NEW S, NEW s \in Seq(S), s # <<>>
  PROVE  /\ Tail(s) \in Seq(S) /\ Len(Tail(s)) = Len(s) - 1 /\ Len(s) \in Nat /\ Len(s) > 0
         /\ Head(s) = s[1] /\ s[1] \in S
         /\ \A i \in 1 .. Len(s) - 1 : Tail(s)[i] = s[i + 1]
  OBVIOUS

\* The sessions publish.
LEMMA PublishersInOrder ==
  ASSUME Capacity \in Nat, LastHour \in Nat, RollingInv, NEW c \in Cameras,
         Publish(c) \/ LockSubscriber(c) \/ DropOldest(c) \/ Send(c)
  PROVE  RollingInv'
<1> USE DEF RollingInv
<1>0. Len(channel) \in Nat
  BY DEF ChannelOK
<1>1. CASE Publish(c)
  <2>1. SessionsOK'
    BY <1>1 DEF Publish, SessionsOK
  <2>2. UNCHANGED <<holder, channel, pending, mapped, fired, loose, merging, owed>>
    BY <1>1 DEF Publish, timerVars
  <2>3. \A d \in Cameras : session'[d].pc \in {"drop", "send"} => session[d].pc = session'[d].pc
    BY <1>1 DEF Publish, SessionsOK
  <2> QED
    BY <2>1, <2>2, <2>3 DEF ChannelOK, TimersOK, MutexInv, RoomInv
<1>2. CASE LockSubscriber(c)
  <2>1. SessionsOK'
    BY <1>2 DEF LockSubscriber, SessionsOK
  <2>2. UNCHANGED <<channel, pending, mapped, fired, loose, merging, owed>>
    BY <1>2 DEF LockSubscriber, timerVars
  <2>3. \A d \in Cameras : session'[d].pc \in {"drop", "send"} =>
           d = c /\ holder' = {c} /\ (session'[d].pc = "send" => Len(channel) # Capacity)
    BY <1>2 DEF LockSubscriber, SessionsOK, MutexInv
  <2> QED
    BY <2>1, <2>2, <2>3, <1>0 DEF ChannelOK, TimersOK, MutexInv, RoomInv
<1>3. CASE DropOldest(c)
  <2>1. /\ session[c].pc = "drop" /\ channel # <<>> /\ channel' = Tail(channel)
        /\ UNCHANGED <<holder, pending, mapped, fired, loose, merging>>
    BY <1>3 DEF DropOldest, timerVars
  <2>2. SessionsOK' /\ \A d \in Cameras : d # c => session'[d] = session[d]
    BY <1>3 DEF DropOldest, SessionsOK
  <2>3. TimersOK'
    BY <1>3, <2>1 DEF DropOldest, TimersOK
  <2>4. ChannelOK' /\ Len(channel') = Len(channel) - 1
    BY <2>1, <1>0, Shift DEF ChannelOK
  <2>5. MutexInv'
    BY <2>1, <2>2 DEF MutexInv
  <2>6. RoomInv'
    BY <2>2, <2>4, <1>0 DEF RoomInv, ChannelOK
  <2> QED
    BY <2>2, <2>3, <2>4, <2>5, <2>6
<1>4. CASE Send(c)
  <2>1. /\ Len(channel) < Capacity /\ channel' = Append(channel, Event(c, session[c].hour))
        /\ session[c].pc = "send"
        /\ UNCHANGED <<pending, mapped, fired, loose, merging>>
    BY <1>4 DEF Send, timerVars
  <2>2. SessionsOK' /\ session'[c].pc = "idle" /\ \A d \in Cameras : d # c => session'[d] = session[d]
    BY <1>4 DEF Send, SessionsOK
  <2>3. session[c].hour \in Nat
    BY DEF SessionsOK
  <2>4. TimersOK'
    BY <1>4, <2>1, <2>3 DEF Send, TimersOK
  <2>5. ChannelOK' 
    BY <2>1, <2>3, <1>0 DEF ChannelOK, Event, Events
  <2>6. \A d \in Cameras : session'[d].pc \notin {"drop", "send"}
    BY <2>1, <2>2 DEF MutexInv
  <2> QED
    BY <2>2, <2>4, <2>5, <2>6 DEF MutexInv, RoomInv
<1> QED
  BY <1>1, <1>2, <1>3, <1>4

\* The coordinator receives, and timers fire and run.
LEMMA CoordinatorInOrder ==
  ASSUME Capacity \in Nat, RollingInv,
         \/ \E c \in Cameras : TimerStep(c)
         \/ Receive \/ Ignore \/ StopTimers \/ Unsubscribe \/ CloseSubscriber
  PROVE  RollingInv'
<1> USE DEF RollingInv
<1>0. Len(channel) \in Nat
  BY DEF ChannelOK
<1>1. UNCHANGED session
  BY DEF TimerStep, TimerFires, LooseTimerFires, TakePending, MergeHour, Receive, Ignore, StopTimers,
         Unsubscribe, CloseSubscriber, busVars
<1>2. MutexInv'
  BY <1>1 DEF TimerStep, TimerFires, LooseTimerFires, TakePending, MergeHour, Receive, Ignore, StopTimers,
         Unsubscribe, CloseSubscriber, busVars, MutexInv
<1>3. channel' = channel \/ (channel # <<>> /\ channel' = Tail(channel) /\ Len(channel') = Len(channel) - 1)
  BY Shift DEF TimerStep, TimerFires, LooseTimerFires, TakePending, MergeHour, Receive, Ignore, StopTimers,
         Unsubscribe, CloseSubscriber, ChannelOK
<1>4. ChannelOK' /\ Len(channel') \in Nat /\ Len(channel') <= Len(channel)
  BY <1>0, <1>3, Shift DEF ChannelOK
<1>5. RoomInv'
  BY <1>0, <1>1, <1>4 DEF RoomInv
<1>6. TimersOK'
  <2> USE DEF TimersOK
  <2>1. ASSUME NEW c \in Cameras, TimerStep(c) PROVE TimersOK'
    BY <2>1 DEF TimerStep, TimerFires, LooseTimerFires, TakePending, MergeHour
  <2>2. CASE Receive
    <3>1. Head(channel) \in Events
      BY <2>2, Shift DEF Receive, ChannelOK
    <3> QED
      BY <2>2, <3>1 DEF Receive, PendingHour, Latest, Events
  <2>3. CASE Ignore
    <3>1. UNCHANGED <<pending, mapped, loose, fired, merging>> /\ owed' = [owed EXCEPT ![Head(channel).camera] = 0]
      BY <2>3 DEF Ignore, timerVars
    <3> QED
      BY <3>1
  <2>4. CASE StopTimers
    BY <2>4 DEF StopTimers
  <2>5. CASE Unsubscribe \/ CloseSubscriber
    BY <2>5 DEF Unsubscribe, CloseSubscriber, timerVars
  <2> QED
    BY <2>1, <2>2, <2>3, <2>4, <2>5
<1> QED
  BY <1>1, <1>2, <1>4, <1>5, <1>6 DEF SessionsOK

\* A step of the bus or of the coordinator keeps the sessions, the channel and the timers in order.
LEMMA RollingStep ==
  ASSUME Capacity \in Nat, LastHour \in Nat, RollingInv, [RollingNext]_rollingVars
  PROVE  RollingInv'
<1>1. CASE RollingNext
  BY <1>1, PublishersInOrder, CoordinatorInOrder DEF RollingNext
<1>2. CASE UNCHANGED rollingVars
  <2>1. UNCHANGED <<session, holder, channel, pending, mapped, loose, fired, merging, owed>>
    BY <1>2 DEF rollingVars, busVars, timerVars
  <2> QED
    BY <2>1 DEF RollingInv, SessionsOK, ChannelOK, TimersOK, MutexInv, RoomInv
<1> QED
  BY <1>1, <1>2

\* bus.go:115-123: a session that comes to the send finds room in the channel, whatever the
\* other sessions and the coordinator do meanwhile: it kept the subscriber's mutex since it found
\* the channel short of full, or dropped the oldest event.  The send never blocks (the
\* receive that drops the oldest event may), and the channel never overflows.
THEOREM SendsDoNotBlock ==
  ASSUME Capacity \in Nat, LastHour \in Nat
  PROVE  RollingSpec => [](RoomInv /\ Len(channel) <= Capacity)
<1>1. RollingInit => RollingInv
  BY RollingStarts
<1>2. RollingInv /\ [RollingNext]_rollingVars => RollingInv'
  BY RollingStep
<1>3. RollingInv => RoomInv /\ Len(channel) <= Capacity
  BY DEF RollingInv, ChannelOK
<1> QED
  BY <1>1, <1>2, <1>3, PTL DEF RollingSpec

-----------------------------------------------------------------------------
(* No hour is forgotten                                                    *)

\* The newest event of camera c in the channel.
IsNewest(c, i) == channel[i].camera = c /\ \A j \in i + 1 .. Len(channel) : channel[j].camera # c
NoneOf(c)      == \A i \in 1 .. Len(channel) : channel[i].camera # c

\* The hour owed to c is on its way: in its newest event, or, when the channel has none of its
\* events, in c.pending with a timer that will take it or in the hands of a timer's function.
InNewest(c) == \E i \in 1 .. Len(channel) : IsNewest(c, i) /\ channel[i].hour = owed[c]
WithTimer(c) == \/ pending[c] = owed[c] /\ (mapped[c] = "armed" \/ fired[c] > 0)
                \/ owed[c] \in merging[c]
Coming(c)    == InNewest(c) \/ (NoneOf(c) /\ WithTimer(c))

OwedIsComing == coordinator = "run" => \A c \in Cameras : owed[c] # 0 => Coming(c)

\* The first event is of one of the cameras.
LEMMA FirstEvent ==
  ASSUME ChannelOK, channel # <<>>
  PROVE  Head(channel) = channel[1] /\ channel[1].camera \in Cameras
<1>1. Head(channel) = channel[1] /\ channel[1] \in Events
  BY Shift DEF ChannelOK
<1> QED
  BY <1>1 DEF Events

\* The first event leaves the channel, and it is not the newest of camera c.
LEMMA StillComing ==
  ASSUME ChannelOK, channel # <<>>, channel' = Tail(channel), NEW c \in Cameras, owed'[c] = owed[c]
  PROVE  /\ (\A i \in 2 .. Len(channel) : channel[i].camera # c) => NoneOf(c)'
         /\ InNewest(c) /\ (channel[1].camera = c => \E i \in 2 .. Len(channel) : channel[i].camera = c)
              => InNewest(c)'
<1>1. /\ Len(channel') = Len(channel) - 1 /\ Len(channel) \in Nat /\ Len(channel) > 0
      /\ \A i \in 1 .. Len(channel) - 1 : channel'[i] = channel[i + 1]
  BY Shift DEF ChannelOK
<1>2. ASSUME \A i \in 2 .. Len(channel) : channel[i].camera # c PROVE NoneOf(c)'
  BY <1>1, <1>2 DEF NoneOf
<1>3. ASSUME InNewest(c), channel[1].camera = c => \E i \in 2 .. Len(channel) : channel[i].camera = c
      PROVE  InNewest(c)'
  <2>1. PICK i \in 1 .. Len(channel) : IsNewest(c, i) /\ channel[i].hour = owed[c]
    BY <1>3 DEF InNewest
  <2>2. i > 1
    BY <1>3, <2>1 DEF IsNewest
  <2>3. i - 1 \in 1 .. Len(channel') /\ channel'[i - 1] = channel[i]
    BY <1>1, <2>2
  <2>4. ASSUME NEW j \in i .. Len(channel') PROVE channel'[j].camera # c
    <3>1. j + 1 \in i + 1 .. Len(channel) /\ channel'[j] = channel[j + 1]
      BY <1>1, <2>2
    <3> QED
      BY <2>1, <3>1 DEF IsNewest
  <2>5. (i - 1) + 1 = i
    OBVIOUS
  <2> QED
    BY <2>1, <2>3, <2>4, <2>5 DEF InNewest, IsNewest
<1> QED
  BY <1>2, <1>3

\* The sessions and the coordinator keep an owed hour coming.
LEMMA StepsKeepComing ==
  ASSUME Capacity \in Nat, LastHour \in Nat, RollingInv, OwedIsComing, [RollingNext]_rollingVars
  PROVE  OwedIsComing'
<1> USE DEF RollingInv
<1>0. Len(channel) \in Nat
  BY DEF ChannelOK
<1>1. ASSUME UNCHANGED <<channel, coordinator, pending, mapped, fired, merging, owed>> PROVE OwedIsComing'
  BY <1>1 DEF OwedIsComing, Coming, InNewest, IsNewest, NoneOf, WithTimer
<1>2. ASSUME NEW c \in Cameras, DropOldest(c) PROVE OwedIsComing'
  <2>1. /\ channel # <<>> /\ channel' = Tail(channel)
        /\ UNCHANGED <<coordinator, pending, mapped, fired, merging>>
    BY <1>2 DEF DropOldest, timerVars
  <2>2. Head(channel) = channel[1] /\ channel[1].camera \in Cameras
    BY <2>1, FirstEvent
  <2>3. ASSUME NEW d \in Cameras, owed'[d] # 0
        PROVE  owed'[d] = owed[d] /\ (channel[1].camera = d => \E i \in 2 .. Len(channel) : channel[i].camera = d)
    BY <1>2, <2>2, <2>3 DEF DropOldest, TimersOK
  <2>4. ASSUME coordinator = "run", NEW d \in Cameras, owed'[d] # 0 PROVE Coming(d)'
    <3>1. Coming(d) /\ owed'[d] = owed[d]
      BY <2>3, <2>4 DEF OwedIsComing
    <3>2. CASE InNewest(d)
      BY <2>1, <2>3, <2>4, <3>1, <3>2, StillComing DEF Coming
    <3>3. CASE NoneOf(d) /\ WithTimer(d)
      <4>1. NoneOf(d)'
        BY <1>0, <2>1, <3>1, <3>3, StillComing DEF NoneOf
      <4>2. WithTimer(d)'
        BY <2>1, <3>1, <3>3 DEF WithTimer
      <4> QED
        BY <4>1, <4>2 DEF Coming
    <3> QED
      BY <3>1, <3>2, <3>3 DEF Coming
  <2> QED
    BY <2>1, <2>4 DEF OwedIsComing
<1>3. ASSUME NEW c \in Cameras, Send(c) PROVE OwedIsComing'
  <2>1. /\ channel' = Append(channel, Event(c, session[c].hour))
        /\ owed' = [owed EXCEPT ![c] = session[c].hour]
        /\ UNCHANGED <<coordinator, pending, mapped, fired, merging>>
    BY <1>3 DEF Send, timerVars
  <2>2. /\ Len(channel') = Len(channel) + 1 /\ channel'[Len(channel) + 1] = Event(c, session[c].hour)
        /\ \A i \in 1 .. Len(channel) : channel'[i] = channel[i]
    BY <2>1 DEF ChannelOK
  <2>3. Event(c, session[c].hour).camera = c /\ Event(c, session[c].hour).hour = session[c].hour
    BY DEF Event
  <2>4. owed'[c] = session[c].hour /\ \A d \in Cameras : d # c => owed'[d] = owed[d]
    BY <2>1 DEF TimersOK
  <2>5. InNewest(c)'
    BY <1>0, <2>2, <2>3, <2>4 DEF InNewest, IsNewest
  <2>6. ASSUME NEW d \in Cameras, d # c, Coming(d) PROVE Coming(d)'
    <3>1. CASE InNewest(d)
      <4>1. PICK i \in 1 .. Len(channel) : IsNewest(d, i) /\ channel[i].hour = owed[d]
        BY <3>1 DEF InNewest
      <4>2. i \in 1 .. Len(channel') /\ channel'[i] = channel[i] /\ channel'[i].camera = d
        BY <1>0, <2>2, <4>1 DEF IsNewest
      <4>3. ASSUME NEW j \in i + 1 .. Len(channel') PROVE channel'[j].camera # d
        <5>1. j \in i + 1 .. Len(channel) \/ j = Len(channel) + 1
          BY <1>0, <2>2
        <5> QED
          BY <1>0, <2>2, <2>3, <2>6, <4>1, <5>1 DEF IsNewest
      <4> QED
        BY <2>4, <2>6, <4>1, <4>2, <4>3 DEF Coming, InNewest, IsNewest
    <3>2. CASE NoneOf(d) /\ WithTimer(d)
      <4>1. NoneOf(d)'
        BY <1>0, <2>2, <2>3, <2>6, <3>2 DEF NoneOf
      <4>2. WithTimer(d)'
        BY <2>1, <2>4, <2>6, <3>2 DEF WithTimer
      <4> QED
        BY <4>1, <4>2 DEF Coming
    <3> QED
      BY <2>6, <3>1, <3>2 DEF Coming
  <2> QED
    BY <2>1, <2>4, <2>5, <2>6 DEF OwedIsComing, Coming
<1>4. ASSUME NEW c \in Cameras, TimerStep(c) PROVE OwedIsComing'
  <2>1. UNCHANGED <<channel, coordinator>> /\ \A d \in Cameras : owed'[d] # 0 => owed'[d] = owed[d]
    BY <1>4 DEF TimerStep, TimerFires, LooseTimerFires, TakePending, MergeHour, busVars, TimersOK
  <2>2. ASSUME NEW d \in Cameras, owed'[d] # 0, WithTimer(d) PROVE WithTimer(d)'
    <3>1. CASE TimerFires(c)
      BY <2>2, <3>1 DEF TimerFires, WithTimer, TimersOK
    <3>2. CASE LooseTimerFires(c)
      BY <2>2, <3>2 DEF LooseTimerFires, WithTimer, TimersOK
    <3>3. CASE TakePending(c)
      BY <2>1, <2>2, <3>3 DEF TakePending, WithTimer, TimersOK
    <3>4. CASE MergeHour(c)
      BY <2>1, <2>2, <3>4 DEF MergeHour, WithTimer, TimersOK
    <3> QED
      BY <1>4, <3>1, <3>2, <3>3, <3>4 DEF TimerStep
  <2>3. ASSUME NEW d \in Cameras, owed'[d] # 0, Coming(d) PROVE Coming(d)'
    BY <2>1, <2>2, <2>3 DEF Coming, InNewest, IsNewest, NoneOf
  <2> QED
    BY <2>1, <2>3 DEF OwedIsComing
<1>5. CASE Receive
  <2>1. /\ coordinator = "run" /\ coordinator' = "run" /\ channel # <<>> /\ channel' = Tail(channel)
        /\ UNCHANGED <<fired, merging, owed>>
    BY <1>5 DEF Receive
  <2>2. Head(channel) = channel[1] /\ channel[1].camera \in Cameras
    BY <2>1, FirstEvent
  <2>3. /\ pending'[channel[1].camera] = channel[1].hour /\ mapped'[channel[1].camera] = "armed"
        /\ \A d \in Cameras : d # channel[1].camera => pending'[d] = pending[d] /\ mapped'[d] = mapped[d]
    BY <1>5, <2>2 DEF Receive, PendingHour, Latest, TimersOK
  <2>4. ASSUME NEW d \in Cameras, owed'[d] # 0 PROVE Coming(d)'
    <3>1. Coming(d) /\ owed'[d] = owed[d]
      BY <2>1, <2>4 DEF OwedIsComing
    <3>2. CASE \E i \in 2 .. Len(channel) : channel[i].camera = d
      <4>1. InNewest(d)
        BY <1>0, <3>1, <3>2 DEF Coming, NoneOf
      <4> QED
        BY <2>1, <3>1, <3>2, <4>1, StillComing DEF Coming
    <3>3. CASE \A i \in 2 .. Len(channel) : channel[i].camera # d
      <4>1. NoneOf(d)'
        BY <2>1, <3>1, <3>3, StillComing
      <4>2. CASE channel[1].camera = d
        <5>1. InNewest(d)
          BY <1>0, <2>1, <3>1, <4>2, Shift DEF Coming, NoneOf, ChannelOK
        <5>2. channel[1].hour = owed[d]
          BY <1>0, <3>3, <5>1 DEF InNewest, IsNewest
        <5> QED
          BY <2>3, <3>1, <4>1, <4>2, <5>2 DEF Coming, WithTimer
      <4>3. CASE channel[1].camera # d
        <5>1. NoneOf(d)
          BY <1>0, <3>3, <4>3 DEF NoneOf
        <5>2. WithTimer(d)
          BY <3>1, <5>1 DEF Coming, InNewest, IsNewest, NoneOf
        <5> QED
          BY <2>1, <2>3, <3>1, <4>1, <4>3, <5>2 DEF Coming, WithTimer
      <4> QED
        BY <4>2, <4>3
    <3> QED
      BY <3>2, <3>3
  <2> QED
    BY <2>4 DEF OwedIsComing
<1>6. CASE Ignore
  <2>1. /\ channel # <<>> /\ channel' = Tail(channel)
        /\ UNCHANGED <<coordinator, pending, mapped, fired, merging>>
        /\ owed' = [owed EXCEPT ![Head(channel).camera] = 0]
    BY <1>6 DEF Ignore, timerVars
  <2>2. Head(channel) = channel[1] /\ channel[1].camera \in Cameras
    BY <2>1, FirstEvent
  <2>3. ASSUME coordinator = "run", NEW d \in Cameras, owed'[d] # 0 PROVE Coming(d)'
    <3>1. owed'[d] = owed[d] /\ channel[1].camera # d
      BY <2>1, <2>2, <2>3 DEF TimersOK
    <3>2. Coming(d)
      BY <2>3, <3>1 DEF OwedIsComing
    <3>3. CASE InNewest(d)
      BY <2>1, <3>1, <3>3, StillComing DEF Coming
    <3>4. CASE NoneOf(d) /\ WithTimer(d)
      <4>1. NoneOf(d)'
        BY <1>0, <2>1, <3>1, <3>4, StillComing DEF NoneOf
      <4>2. WithTimer(d)'
        BY <2>1, <3>1, <3>4 DEF WithTimer
      <4> QED
        BY <4>1, <4>2 DEF Coming
    <3> QED
      BY <3>2, <3>3, <3>4 DEF Coming
  <2> QED
    BY <2>1, <2>3 DEF OwedIsComing
<1>7. ASSUME NEW c \in Cameras, Publish(c) \/ LockSubscriber(c) PROVE OwedIsComing'
  BY <1>1, <1>7 DEF Publish, LockSubscriber, timerVars
<1>8. CASE StopTimers \/ Unsubscribe \/ CloseSubscriber
  BY <1>8 DEF StopTimers, Unsubscribe, CloseSubscriber, OwedIsComing
<1>9. CASE UNCHANGED rollingVars
  BY <1>1, <1>9 DEF rollingVars, timerVars
<1> QED
  BY <1>2, <1>3, <1>4, <1>5, <1>6, <1>7, <1>8, <1>9 DEF RollingNext

\* rolling.go:72-127: however events, timers and timers' functions interleave, the hour of the
\* newest event that reached a camera's channel and has not been merged is never lost: it is
\* still in the channel, pending with a timer that will take it, or being merged.
THEOREM OwedHoursAreComing ==
  ASSUME Capacity \in Nat, LastHour \in Nat
  PROVE  RollingSpec => []OwedIsComing
<1>1. RollingInit => RollingInv /\ OwedIsComing
  BY RollingStarts DEF RollingInit, OwedIsComing
<1>2. RollingInv /\ OwedIsComing /\ [RollingNext]_rollingVars => (RollingInv /\ OwedIsComing)'
  BY RollingStep, StepsKeepComing
<1> QED
  BY <1>1, <1>2, PTL DEF RollingSpec

=============================================================================
