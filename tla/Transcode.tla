----------------------------- MODULE Transcode -----------------------------
(***************************************************************************)
(* Transcoding jobs (internal/transcode): the rows that say what the user  *)
(* wants (storage/db_transcoding.go), the Service that serialises requests *)
(* and the periodic pass under one mutex (service.go), and the Manager     *)
(* that runs one backend process for all the jobs of an equal source and   *)
(* profile (manager.go).                                                   *)
(*                                                                         *)
(* A key stands for what WorkKey hashes.  Whether a capability check       *)
(* allows a profile and whether a backoff has elapsed are free choices;    *)
(* a request that is refused changes nothing and is no step.               *)
(***************************************************************************)
EXTENDS Naturals, FiniteSets

CONSTANTS
  Jobs,     \* identifiers of jobs
  Keys,     \* sources with a profile
  Limit,    \* max_concurrent
  Runs,     \* goroutines of run, one per backend process
  Absent,
  Wishes,   \* what a job may be saved with: its key, whether it is enabled and always runs
  MaxGen    \* bounds the generations of a job

ASSUME TranscodeAssumption ==
  /\ Absent \notin Keys \cup Jobs
  /\ 0 \notin Runs
  /\ IsFiniteSet(Runs) /\ IsFiniteSet(Keys)
  /\ Limit \in Nat \ {0}
  /\ Wishes \in [Jobs -> SUBSET [key : Keys, enabled : BOOLEAN, always : BOOLEAN]]
  /\ MaxGen \in Nat

VARIABLES
  row,        \* the rows of the jobs; generation 0 when there is none
  versions,   \* the generation a deleted job had (JobVersions)
  lease,      \* m.jobs: the key a job holds
  watermark,  \* m.generations: the generation that holds it, 0 for none
  work,       \* m.work: the run a key has, 0 for none
  run,        \* the works, m.work's and those only a goroutine still knows
  closing,    \* Close: "no", "waiting" or "done"
  request,    \* the request that holds the service's mutex
  round       \* ReconcileAlways

rowVars == <<row, versions>>
mgrVars == <<lease, watermark, work, run>>
tcVars  == <<rowVars, mgrVars, closing, request, round>>

NoRow   == [gen |-> 0, key |-> Absent, enabled |-> FALSE, always |-> FALSE, stopped |-> FALSE]
Blank   == [key |-> Absent, phase |-> "none", state |-> "none", owners |-> {},
            cancelled |-> FALSE, late |-> FALSE, ready |-> FALSE, reap |-> FALSE]
Free    == [pc |-> "free", op |-> "none", job |-> Absent, gen |-> 0, fresh |-> FALSE, run |-> 0]
Resting == [phase |-> "idle", left |-> {}, snap |-> [j \in Jobs |-> NoRow], at |-> Absent]

\* Neither a request nor the pass is inside the service's critical section.
Unlocked == request = Free /\ round.phase # "holding"

\* The select on w.done.
IsDone(r)  == run[r].phase = "done"
\* A backend process may exist.
IsAlive(r) == run[r].phase \in {"starting", "up", "killing"}

Unused == {r \in Runs : run[r] = Blank}

\* What nothing refers to any more is forgotten.
Swept(rs, ws, req) ==
  [r \in Runs |-> IF /\ rs[r].phase = "done" /\ ~rs[r].reap
                     /\ req.run # r /\ \A k \in Keys : ws[k] # r
                  THEN Blank ELSE rs[r]]

-----------------------------------------------------------------------------
(* Manager.Acquire                                                         *)

Admits(j, want) ==
  /\ want.enabled
  /\ closing = "no"
  /\ want.gen # 0 /\ want.gen >= watermark[j]
  /\ lease[j] # Absent => want.gen = watermark[j] /\ lease[j] = want.key

\* The key has a run that has not ended and is not about to.
Joins(want) ==
  LET r == work[want.key] IN
  r # 0 /\ ~IsDone(r) /\ run[r].state \in {"starting", "running"}

\* Mutant: a run that is being stopped does not count.
ActiveUnlessStopping ==
  {k \in Keys : work[k] # 0 /\ ~IsDone(work[k]) /\ run[work[k]].state # "stopping"}

\* Runs that have not ended; the limit counts them.
Active == {k \in Keys : work[k] # 0 /\ ~IsDone(work[k])}

Starts(want) ==
  LET r == work[want.key] IN
  /\ r # 0 => IsDone(r)
  /\ Cardinality(Active) < Limit

\* The owners of completed work keep their demand.
OwnersOf(j, want) ==
  {j} \cup (IF work[want.key] = 0 THEN {} ELSE run[work[want.key]].owners)

\* Mutant: the work restarts for the job that asks.
OwnersOfOne(j, want) == {j}

Owners(j, want) == OwnersOf(j, want)

Acquire(j, want, req) ==
  /\ Admits(j, want)
  /\ \/ /\ Joins(want)
        /\ run' = [run EXCEPT ![work[want.key]].owners = @ \cup {j}]
        /\ UNCHANGED work
     \/ /\ Starts(want)
        /\ \E r \in Unused :
             /\ work' = [work EXCEPT ![want.key] = r]
             /\ run' = Swept([run EXCEPT ![r] =
                                [Blank EXCEPT !.key = want.key, !.phase = "starting",
                                              !.state = "starting", !.owners = Owners(j, want)]],
                             work', req)
  /\ lease' = [lease EXCEPT ![j] = want.key]
  /\ watermark' = [watermark EXCEPT ![j] = want.gen]

-----------------------------------------------------------------------------
(* Manager.run                                                             *)

\* A run that is being stopped only becomes stopped.
SetState(w, s) == IF w.state = "stopping" /\ s # "stopped" THEN w ELSE [w EXCEPT !.state = s]

\* What only the loop reads is forgotten when it ends.
Ended(w, s) == [SetState(w, s) EXCEPT !.phase = "ending", !.cancelled = FALSE,
                                      !.late = FALSE, !.ready = FALSE]

RunVars == <<rowVars, lease, watermark, work, closing, request, round>>

StartTimesOut(r) ==
  /\ run[r].phase = "starting" /\ ~run[r].cancelled
  /\ run' = [run EXCEPT ![r].cancelled = TRUE]
  /\ UNCHANGED RunVars

StartFails(r) ==
  /\ run[r].phase = "starting"
  /\ run' = [run EXCEPT ![r] = Ended(@, "failed")]
  /\ UNCHANGED RunVars

StartSucceeds(r) ==
  /\ run[r].phase = "starting"
  /\ run' = [run EXCEPT ![r].phase = "up"]
  /\ UNCHANGED RunVars

OutputAppears(r) ==
  /\ run[r].phase = "up" /\ ~run[r].ready
  /\ run' = [run EXCEPT ![r] = [SetState(@, "running") EXCEPT !.ready = TRUE]]
  /\ UNCHANGED RunVars

\* No output within startupTimeout, or none for healthTimeout afterwards.
OutputTimesOut(r) ==
  /\ run[r].phase = "up" /\ ~run[r].late
  /\ run' = [run EXCEPT ![r] = [SetState(@, "failed") EXCEPT !.late = TRUE, !.cancelled = TRUE]]
  /\ UNCHANGED RunVars

\* The loop sees the process exit, of itself or at a Stop of its own.
ProcessExits(r) ==
  /\ run[r].phase = "up"
  /\ \E s \in {"failed", "stopped"} :
       /\ run[r].late => s = "failed"
       /\ run' = [run EXCEPT ![r] = Ended(@, s)]
  /\ UNCHANGED RunVars

ContextDone(r) ==
  /\ run[r].phase = "up" /\ run[r].cancelled
  /\ run' = [run EXCEPT ![r].phase = "killing"]
  /\ UNCHANGED RunVars

ProcessKilled(r) ==
  /\ run[r].phase = "killing"
  /\ run' = [run EXCEPT ![r] = Ended(@, IF @.late THEN "failed" ELSE "stopped")]
  /\ UNCHANGED RunVars

CloseDone(r) ==
  /\ run[r].phase = "ending"
  /\ run' = Swept([run EXCEPT ![r].phase = "done"], work, request)
  /\ UNCHANGED RunVars

\* The goroutine a Release leaves behind.
ReapsAt(r) == {k \in Keys : work[k] = r /\ run[r].owners = {}}

\* Mutant: whatever run the key has by now is dropped.
ReapsAny(r) == {run[r].key}

Reaps(r) == ReapsAt(r)

Reap(r) ==
  /\ IsDone(r) /\ run[r].reap
  /\ work' = [k \in Keys |-> IF k \in Reaps(r) THEN 0 ELSE work[k]]
  /\ run' = Swept([run EXCEPT ![r].reap = FALSE], work', request)
  /\ UNCHANGED <<rowVars, lease, watermark, closing, request, round>>

-----------------------------------------------------------------------------
(* Manager.Close                                                           *)

CloseManager ==
  /\ closing = "no"
  /\ closing' = "waiting"
  /\ run' = [r \in Runs |-> IF \E k \in Keys : work[k] = r
                            THEN [run[r] EXCEPT !.state = "stopping", !.cancelled = TRUE]
                            ELSE run[r]]
  /\ UNCHANGED <<rowVars, lease, watermark, work, request, round>>

\* Every run has ended (Close gives up when the shutdown's deadline passes).
CloseEnds ==
  /\ closing = "waiting"
  /\ \A k \in Keys : work[k] # 0 => IsDone(work[k])
  /\ closing' = "done"
  /\ work' = [k \in Keys |-> 0]
  /\ lease' = [j \in Jobs |-> Absent]
  /\ run' = Swept(run, work', request)
  /\ UNCHANGED <<rowVars, watermark, request, round>>

-----------------------------------------------------------------------------
(* The requests of the Service                                             *)

\* Save: a new job follows its deleted namesake, an edit needs a job without
\* a lease and keeps what the user last said about running.
Save(j) ==
  /\ Unlocked
  /\ lease[j] = Absent
  /\ \E gen \in 1 .. MaxGen, wish \in Wishes[j] :
       /\ gen = 1 + (IF row[j] = NoRow THEN versions[j] ELSE row[j].gen)
       /\ row' = [row EXCEPT ![j] = [gen |-> gen, key |-> wish.key, enabled |-> wish.enabled,
                                      always |-> wish.always, stopped |-> row[j].stopped]]
  /\ UNCHANGED <<versions, mgrVars, closing, request, round>>

Asked(pc, op, j) == [Free EXCEPT !.pc = pc, !.op = op, !.job = j, !.gen = row[j].gen,
                                 !.fresh = lease[j] = Absent]

Start(j) ==
  /\ Unlocked
  /\ row[j] # NoRow
  /\ request' = IF row[j].stopped THEN Asked("unstop", "start", j) ELSE Free
  /\ Acquire(j, row[j], request')
  /\ UNCHANGED <<rowVars, closing, round>>

\* SetTranscodeJobStopped of a Start, which lets go of a lease it took when
\* the write fails.
Unstop ==
  /\ request.pc = "unstop"
  /\ \/ /\ row' = [row EXCEPT ![request.job].stopped = FALSE]
        /\ request' = Free
     \/ /\ request' = IF request.fresh THEN [request EXCEPT !.pc = "release"] ELSE Free
        /\ UNCHANGED row
  /\ UNCHANGED <<versions, mgrVars, closing, round>>

Stop(j) ==
  /\ Unlocked
  /\ row[j] # NoRow
  /\ row' = [row EXCEPT ![j].stopped = TRUE]
  /\ request' = Asked("release", "stop", j)
  /\ UNCHANGED <<versions, mgrVars, closing, round>>

Delete(j) ==
  /\ Unlocked
  /\ row[j] # NoRow
  /\ request' = Asked("release", "delete", j)
  /\ UNCHANGED <<rowVars, mgrVars, closing, round>>

\* What a request does once Release has returned nil.
Released == IF request.op = "delete" THEN [request EXCEPT !.pc = "erase", !.run = 0] ELSE Free

ReleaseUnleased ==
  LET j == request.job IN
  /\ request.pc = "release" /\ lease[j] = Absent
  /\ IF request.gen < watermark[j]
     THEN request' = Free /\ UNCHANGED watermark
     ELSE request' = Released /\ watermark' = [watermark EXCEPT ![j] = 0]
  /\ UNCHANGED <<rowVars, lease, work, run, closing, round>>

ReleaseLeased ==
  LET j == request.job
      r == work[lease[j]] IN
  /\ request.pc = "release" /\ lease[j] # Absent
  /\ IF watermark[j] \notin {0, request.gen}
     THEN request' = Free /\ UNCHANGED mgrVars
     ELSE /\ lease' = [lease EXCEPT ![j] = Absent]
          /\ UNCHANGED work
          /\ \/ /\ run[r].owners # {j}
                /\ run' = [run EXCEPT ![r].owners = @ \ {j}]
                /\ watermark' = [watermark EXCEPT ![j] = 0]
                /\ request' = Released
             \/ /\ run[r].owners = {j}
                /\ run' = [run EXCEPT ![r].owners = {}, ![r].state = "stopping",
                                      ![r].cancelled = TRUE, ![r].reap = TRUE]
                /\ request' = [request EXCEPT !.pc = "await", !.run = r]
                /\ UNCHANGED watermark
  /\ UNCHANGED <<rowVars, closing, round>>

AwaitDone ==
  /\ request.pc = "await" /\ IsDone(request.run)
  /\ work' = [k \in Keys |-> IF work[k] = request.run THEN 0 ELSE work[k]]
  /\ watermark' = [watermark EXCEPT ![request.job] = IF @ = request.gen THEN 0 ELSE @]
  /\ request' = Released
  /\ run' = Swept(run, work', request')
  /\ UNCHANGED <<rowVars, lease, closing, round>>

\* The request's context ends first: the lease is gone all the same.
AwaitGivesUp ==
  /\ request.pc = "await"
  /\ request' = Free
  /\ run' = Swept(run, work, request')
  /\ UNCHANGED <<rowVars, lease, watermark, work, closing, round>>

Erase ==
  /\ request.pc = "erase"
  /\ request' = Free
  /\ \/ /\ row' = [row EXCEPT ![request.job] = NoRow]
        /\ versions' = [versions EXCEPT ![request.job] = request.gen]
     \/ UNCHANGED rowVars
  /\ UNCHANGED <<mgrVars, closing, round>>

-----------------------------------------------------------------------------
(* ReconcileAlways                                                         *)

Wanted(want) == want.enabled /\ want.always /\ ~want.stopped

\* Status finds the job's work starting or running.
IsServed(j) ==
  /\ lease[j] # Absent
  /\ work[lease[j]] # 0 /\ run[work[lease[j]]].state \in {"starting", "running"}

WithoutJob(j) == [round EXCEPT !.left = @ \ {j}, !.snap[j] = NoRow, !.phase = "holding", !.at = Absent]

RoundVars == <<rowVars, closing, request>>

RoundBegins ==
  /\ Unlocked /\ round = Resting
  /\ \E j \in Jobs : Wanted(row[j])
  /\ LET those == {j \in Jobs : Wanted(row[j])} IN
     round' = [Resting EXCEPT !.phase = "holding", !.left = those,
                              !.snap = [j \in Jobs |-> IF j \in those THEN row[j] ELSE NoRow]]
  /\ UNCHANGED <<RoundVars, mgrVars>>

\* The job is served, backs off, or is refused.
RoundSkips(j) ==
  /\ round.phase = "holding" /\ j \in round.left
  /\ round' = WithoutJob(j)
  /\ UNCHANGED <<RoundVars, mgrVars>>

\* The row that was read when the round began decides.
RoundAcquires(j) ==
  /\ round.phase = "holding" /\ j \in round.left
  /\ ~IsServed(j)
  /\ Acquire(j, round.snap[j], request)
  /\ round' = WithoutJob(j)
  /\ UNCHANGED RoundVars

\* The capability check of the job has expired: a new one runs without the
\* mutex.
RoundProbes(j) ==
  /\ round.phase = "holding" /\ j \in round.left
  /\ ~IsServed(j)
  /\ round' = [round EXCEPT !.phase = "probing", !.at = j]
  /\ UNCHANGED <<RoundVars, mgrVars>>

\* The probe failed, or the job's row has changed: the next job.
ProbeFails ==
  /\ round.phase = "probing" /\ request = Free
  /\ round' = WithoutJob(round.at)
  /\ UNCHANGED <<RoundVars, mgrVars>>

ProbeSucceeds ==
  LET j == round.at IN
  /\ round.phase = "probing" /\ request = Free
  /\ row[j].gen = round.snap[j].gen /\ Wanted(row[j])
  /\ Acquire(j, row[j], request)
  /\ round' = WithoutJob(j)
  /\ UNCHANGED RoundVars

\* All jobs are done, or the round's context has ended.
RoundEnds ==
  /\ round.phase = "holding"
  /\ round' = Resting
  /\ UNCHANGED <<RoundVars, mgrVars>>

-----------------------------------------------------------------------------
TranscodeInit ==
  /\ row = [j \in Jobs |-> NoRow]
  /\ versions = [j \in Jobs |-> 0]
  /\ lease = [j \in Jobs |-> Absent]
  /\ watermark = [j \in Jobs |-> 0]
  /\ work = [k \in Keys |-> 0]
  /\ run = [r \in Runs |-> Blank]
  /\ closing = "no"
  /\ request = Free
  /\ round = Resting

RunStep(r) ==
  \/ StartTimesOut(r) \/ StartFails(r) \/ StartSucceeds(r)
  \/ OutputAppears(r) \/ OutputTimesOut(r)
  \/ ProcessExits(r) \/ ContextDone(r) \/ ProcessKilled(r) \/ CloseDone(r)
  \/ Reap(r)

RequestStep ==
  \/ \E j \in Jobs : Save(j) \/ Start(j) \/ Stop(j) \/ Delete(j)
  \/ Unstop \/ ReleaseUnleased \/ ReleaseLeased \/ AwaitDone \/ AwaitGivesUp \/ Erase

RoundStep ==
  \/ RoundBegins \/ ProbeFails \/ ProbeSucceeds \/ RoundEnds
  \/ \E j \in Jobs : RoundSkips(j) \/ RoundAcquires(j) \/ RoundProbes(j)

TranscodeNext ==
  \/ \E r \in Runs : RunStep(r)
  \/ RequestStep
  \/ RoundStep
  \/ CloseManager \/ CloseEnds

TranscodeSpec == TranscodeInit /\ [][TranscodeNext]_tcVars

-----------------------------------------------------------------------------
\* A lease and its work name each other: a job that holds a key is an owner
\* of the run the key has, and every owner of that run holds the key; so
\* Release finds the work it lets go of, and nobody else's run is stopped.
LeasesAgree ==
  \A k \in Keys, j \in Jobs :
     lease[j] = k <=> work[k] # 0 /\ j \in run[work[k]].owners

\* A backend process that nobody has told to stop is the one its key has and
\* has an owner: none outlives its last job.
NoLeakedProcess ==
  \A r \in Runs :
     IsAlive(r) /\ ~run[r].cancelled => work[run[r].key] = r /\ run[r].owners # {}

\* No more backend processes exist than the configuration allows, those that
\* are being stopped included.
CapacityKept == Cardinality({r \in Runs : IsAlive(r)}) <= Limit

\* Between requests, a job whose row is gone or says stopped holds no key:
\* the periodic pass does not start it again.
StoppedStaysStopped ==
  Unlocked => \A j \in Jobs : lease[j] # Absent => row[j] # NoRow /\ ~row[j].stopped

=============================================================================
