-------------------------- MODULE TranscodeProofs --------------------------
(***************************************************************************)
(* For any number of jobs, keys and goroutines, and any limit: leases and  *)
(* the owners of runs agree, no backend process outlives its last job, and *)
(* no more of them exist than allowed.                                     *)
(*                                                                         *)
(* The invariant ties the three tables together: a key's work is a run of  *)
(* that key, a run that has not ended is the work of its key, the jobs     *)
(* that hold a key are the owners of its work, and a run without owners    *)
(* has been told to stop.  A request that waits for a run waits for one    *)
(* that nobody owns, which is what lets it drop the key's work.            *)
(***************************************************************************)
EXTENDS Transcode, FiniteSetTheorems, TLAPS

Wants == {w \in [gen : Nat, key : Keys \cup {Absent}, enabled : BOOLEAN, always : BOOLEAN,
                 stopped : BOOLEAN] : w.gen # 0 => w.key \in Keys}

Works == [key : Keys \cup {Absent}, phase : {"none", "starting", "up", "killing", "ending", "done"},
          state : {"none", "starting", "running", "stopping", "stopped", "failed"},
          owners : SUBSET Jobs, cancelled : BOOLEAN, late : BOOLEAN, ready : BOOLEAN, reap : BOOLEAN]

Askings == [pc : {"free", "unstop", "release", "await", "erase"}, op : {"none", "start", "stop", "delete"},
            job : Jobs \cup {Absent}, gen : Nat, fresh : BOOLEAN, run : Runs \cup {0}]

Rounds == [phase : {"idle", "holding", "probing"}, left : SUBSET Jobs, snap : [Jobs -> Wants],
           at : Jobs \cup {Absent}]

\* The tables of the manager, on any leases ls, work ws, runs rs and request.
Tables(ls, ws, rs, req) ==
  /\ ls \in [Jobs -> Keys \cup {Absent}]
  /\ ws \in [Keys -> Runs \cup {0}]
  /\ rs \in [Runs -> Works]
  /\ \A k \in Keys : ws[k] # 0 => rs[ws[k]].key = k /\ rs[ws[k]].phase # "none"
  /\ \A r \in Runs : rs[r].phase \notin {"none", "done"} => rs[r].key \in Keys /\ ws[rs[r].key] = r
  /\ \A k \in Keys, j \in Jobs : ls[j] = k <=> ws[k] # 0 /\ j \in rs[ws[k]].owners
  /\ \A r \in Runs : rs[r].phase \in {"starting", "up", "killing"} /\ ~rs[r].cancelled => rs[r].owners # {}
  /\ req.pc = "await" => req.run \in Runs /\ rs[req.run].owners = {} /\ rs[req.run].phase # "none"

ActiveIn(ws, rs) == {k \in Keys : ws[k] # 0 /\ rs[ws[k]].phase # "done"}

\* What the requests and the periodic pass have in hand.
Requests ==
  /\ row \in [Jobs -> Wants]
  /\ round \in Rounds
  /\ round.phase = "holding" => request = Free
  /\ round.phase = "probing" => round.at \in Jobs
  /\ request \in Askings
  /\ request.pc \in {"release", "await", "unstop", "erase"} => request.job \in Jobs

TcInv ==
  /\ Requests
  /\ Tables(lease, work, run, request)
  /\ Cardinality(ActiveIn(work, run)) <= Limit

-----------------------------------------------------------------------------
\* What a sweep forgets, nothing refers to.
LEMMA SweepKeeps ==
  ASSUME NEW ls, NEW ws, NEW rs, NEW req, Tables(ls, ws, rs, req)
  PROVE  /\ Tables(ls, ws, Swept(rs, ws, req), req)
         /\ ActiveIn(ws, Swept(rs, ws, req)) = ActiveIn(ws, rs)
<1> DEFINE st == Swept(rs, ws, req)
<1>1. st \in [Runs -> Works]
  BY DEF Swept, Tables, Works, Blank
<1>2. \A r \in Runs : (req.run = r \/ \E k \in Keys : ws[k] = r) => st[r] = rs[r]
  BY DEF Swept
<1>3. \A r \in Runs : st[r].phase \notin {"none", "done"} => st[r] = rs[r]
  BY DEF Swept, Blank
<1>4. \A k \in Keys : ws[k] # 0 => ws[k] \in Runs /\ st[ws[k]] = rs[ws[k]]
  BY <1>2 DEF Tables
<1> HIDE DEF st
<1>5. Tables(ls, ws, st, req)
  <2>1. \A k \in Keys : ws[k] # 0 => st[ws[k]].key = k /\ st[ws[k]].phase # "none"
    BY <1>4 DEF Tables
  <2>2. \A r \in Runs : st[r].phase \notin {"none", "done"} => st[r].key \in Keys /\ ws[st[r].key] = r
    BY <1>3 DEF Tables
  <2>3. \A k \in Keys, j \in Jobs : ls[j] = k <=> ws[k] # 0 /\ j \in st[ws[k]].owners
    BY <1>4 DEF Tables
  <2>4. \A r \in Runs : st[r].phase \in {"starting", "up", "killing"} /\ ~st[r].cancelled => st[r].owners # {}
    BY <1>3 DEF Tables
  <2>5. req.pc = "await" => req.run \in Runs /\ st[req.run].owners = {} /\ st[req.run].phase # "none"
    BY <1>2 DEF Tables
  <2> QED
    BY <1>1, <2>1, <2>2, <2>3, <2>4, <2>5 DEF Tables
<1>6. ActiveIn(ws, st) = ActiveIn(ws, rs)
  BY <1>4 DEF ActiveIn
<1> QED
  BY <1>5, <1>6 DEF st

\* Fewer active keys are no more of them.
LEMMA FewerActive ==
  ASSUME NEW S \in SUBSET Keys, NEW T \in SUBSET S, Cardinality(S) <= Limit
  PROVE  Cardinality(T) <= Limit
<1>1. IsFiniteSet(S)
  BY FS_Subset, TranscodeAssumption
<1>2. Cardinality(T) <= Cardinality(S) /\ Cardinality(T) \in Nat /\ Cardinality(S) \in Nat
  BY <1>1, FS_Subset, FS_CardinalityType
<1> QED
  BY <1>2, TranscodeAssumption

LEMMA TranscodeStarts == TranscodeInit => TcInv
<1> SUFFICES ASSUME TranscodeInit PROVE TcInv
  OBVIOUS
<1> USE DEF TranscodeInit
<1>1. Requests
  BY DEF Requests, Wants, NoRow, Resting, Free, Askings, Rounds
<1>2. Tables(lease, work, run, request)
  <2>1. lease \in [Jobs -> Keys \cup {Absent}] /\ work \in [Keys -> Runs \cup {0}]
    OBVIOUS
  <2>2. run \in [Runs -> Works]
    BY DEF Works, Blank
  <2>3. \A j \in Jobs : lease[j] \notin Keys
    BY TranscodeAssumption
  <2>4. \A r \in Runs : run[r].phase = "none"
    BY DEF Blank
  <2> QED
    BY <2>1, <2>2, <2>3, <2>4 DEF Tables, Free
<1>3. ActiveIn(work, run) = {}
  BY DEF ActiveIn
<1>4. Cardinality({}) = 0
  BY FS_EmptySet
<1>5. Limit \in Nat
  BY TranscodeAssumption
<1>6. Cardinality(ActiveIn(work, run)) <= Limit
  <2> HIDE DEF TranscodeInit
  <2> QED
    BY <1>3, <1>4, <1>5
<1> QED
  BY <1>1, <1>2, <1>6 DEF TcInv

\* Steps that leave the keys and the owners of runs alone, revive no run, and
\* take back no order to stop one.
LEMMA RunsKeep ==
  ASSUME TcInv, NEW rs \in [Runs -> Works],
         \A r \in Runs :
           /\ rs[r].key = run[r].key /\ rs[r].owners = run[r].owners
           /\ rs[r].phase = "none" <=> run[r].phase = "none"
           /\ rs[r].phase \notin {"none", "done"} => run[r].phase \notin {"none", "done"}
           /\ rs[r].phase \in {"starting", "up", "killing"} /\ ~rs[r].cancelled
                => run[r].phase \in {"starting", "up", "killing"} /\ ~run[r].cancelled
  PROVE  Tables(lease, work, rs, request) /\ Cardinality(ActiveIn(work, rs)) <= Limit
<1>1. Tables(lease, work, run, request)
  BY DEF TcInv
<1>2. \A k \in Keys : work[k] # 0 => work[k] \in Runs
  BY <1>1 DEF Tables
<1>3. Tables(lease, work, rs, request)
  <2>1. \A k \in Keys : work[k] # 0 => rs[work[k]].key = k /\ rs[work[k]].phase # "none"
    BY <1>1, <1>2 DEF Tables
  <2>2. \A r \in Runs : rs[r].phase \notin {"none", "done"} => rs[r].key \in Keys /\ work[rs[r].key] = r
    BY <1>1 DEF Tables
  <2>3. \A k \in Keys, j \in Jobs : lease[j] = k <=> work[k] # 0 /\ j \in rs[work[k]].owners
    BY <1>1, <1>2 DEF Tables
  <2>4. \A r \in Runs : rs[r].phase \in {"starting", "up", "killing"} /\ ~rs[r].cancelled => rs[r].owners # {}
    BY <1>1 DEF Tables
  <2>5. request.pc = "await" => /\ request.run \in Runs
                                /\ rs[request.run].owners = {} /\ rs[request.run].phase # "none"
    BY <1>1 DEF Tables
  <2> QED
    BY <1>1, <2>1, <2>2, <2>3, <2>4, <2>5 DEF Tables
<1>4. ActiveIn(work, rs) \subseteq ActiveIn(work, run)
  <2>1. \A k \in Keys : work[k] # 0 /\ rs[work[k]].phase # "done" => run[work[k]].phase # "done"
    BY <1>1, <1>2 DEF Tables
  <2> QED
    BY <2>1 DEF ActiveIn
<1>5. Cardinality(ActiveIn(work, rs)) <= Limit
  BY <1>4, FewerActive DEF TcInv, ActiveIn
<1> QED
  BY <1>3, <1>5

\* Such a step of one run.
LEMMA RunKeeps ==
  ASSUME TcInv, NEW r \in Runs, NEW w \in Works, NEW rs, rs = [run EXCEPT ![r] = w],
         w.key = run[r].key, w.owners = run[r].owners,
         w.phase = "none" <=> run[r].phase = "none",
         w.phase \notin {"none", "done"} => run[r].phase \notin {"none", "done"},
         w.phase \in {"starting", "up", "killing"} /\ ~w.cancelled
           => run[r].phase \in {"starting", "up", "killing"} /\ ~run[r].cancelled
  PROVE  Tables(lease, work, rs, request) /\ Cardinality(ActiveIn(work, rs)) <= Limit
<1>1. run \in [Runs -> Works]
  BY DEF TcInv, Tables
<1>2. rs \in [Runs -> Works]
  BY <1>1
<1>3. rs[r] = w /\ \A q \in Runs : q # r => rs[q] = run[q]
  BY <1>1
<1>4. \A q \in Runs :
        /\ rs[q].key = run[q].key /\ rs[q].owners = run[q].owners
        /\ rs[q].phase = "none" <=> run[q].phase = "none"
        /\ rs[q].phase \notin {"none", "done"} => run[q].phase \notin {"none", "done"}
        /\ rs[q].phase \in {"starting", "up", "killing"} /\ ~rs[q].cancelled
             => run[q].phase \in {"starting", "up", "killing"} /\ ~run[q].cancelled
  BY <1>3
<1> QED
  BY <1>2, <1>4, RunsKeep

\* Work without owners that has ended may be dropped.
LEMMA DropKeeps ==
  ASSUME NEW ls, NEW ws, NEW rs, NEW req, Tables(ls, ws, rs, req),
         Cardinality(ActiveIn(ws, rs)) <= Limit,
         NEW K \in SUBSET Keys, \A k \in K : rs[ws[k]].owners = {} /\ rs[ws[k]].phase = "done",
         NEW wt, wt = [k \in Keys |-> IF k \in K THEN 0 ELSE ws[k]]
  PROVE  Tables(ls, wt, rs, req) /\ Cardinality(ActiveIn(wt, rs)) <= Limit
<1>1. Tables(ls, wt, rs, req)
  <2>1. wt \in [Keys -> Runs \cup {0}]
    BY DEF Tables
  <2>2. \A k \in Keys : wt[k] # 0 => wt[k] = ws[k]
    OBVIOUS
  <2>3. \A r \in Runs : rs[r].phase \notin {"none", "done"} => rs[r].key \in Keys /\ wt[rs[r].key] = r
    BY DEF Tables
  <2>4. \A k \in Keys, j \in Jobs : ls[j] = k <=> wt[k] # 0 /\ j \in rs[wt[k]].owners
    BY DEF Tables
  <2> QED
    BY <2>1, <2>2, <2>3, <2>4 DEF Tables
<1>2. ActiveIn(wt, rs) \subseteq ActiveIn(ws, rs)
  BY DEF ActiveIn
<1>3. Cardinality(ActiveIn(wt, rs)) <= Limit
  BY <1>2, FewerActive DEF ActiveIn
<1> QED
  BY <1>1, <1>3

LEMMA RunStepKeeps == ASSUME TcInv, NEW r \in Runs, RunStep(r) PROVE TcInv'
<1>0. Requests /\ Tables(lease, work, run, request) /\ Cardinality(ActiveIn(work, run)) <= Limit
  BY DEF TcInv
<1>a. run[r] \in Works
  BY <1>0 DEF Tables
<1>b. Requests'
  BY <1>0 DEF Requests, RunStep, RunVars, rowVars, StartTimesOut, StartFails, StartSucceeds, OutputAppears,
     OutputTimesOut, ProcessExits, ContextDone, ProcessKilled, CloseDone, Reap
<1>1. CASE StartTimesOut(r)
  <2> DEFINE w == [run[r] EXCEPT !.cancelled = TRUE]
  <2>1. w \in Works /\ run' = [run EXCEPT ![r] = w]
    BY <1>1, <1>a DEF StartTimesOut, Works
  <2> QED
    BY <1>1, <1>a, <1>b, <2>1, RunKeeps DEF StartTimesOut, RunVars, Works, TcInv
<1>2. CASE StartFails(r)
  <2> DEFINE w == Ended(run[r], "failed")
  <2>1. w \in Works /\ run' = [run EXCEPT ![r] = w]
    BY <1>2, <1>a DEF StartFails, Works, Ended, SetState
  <2>2. w.key = run[r].key /\ w.owners = run[r].owners /\ w.phase = "ending"
    BY <1>a DEF Ended, SetState, Works
  <2> HIDE DEF w
  <2> QED
    BY <1>2, <1>b, <2>1, <2>2, RunKeeps DEF StartFails, RunVars, TcInv
<1>3. CASE StartSucceeds(r)
  <2> DEFINE w == [run[r] EXCEPT !.phase = "up"]
  <2>1. w \in Works /\ run' = [run EXCEPT ![r] = w]
    BY <1>3, <1>a DEF StartSucceeds, Works
  <2> QED
    BY <1>3, <1>a, <1>b, <2>1, RunKeeps DEF StartSucceeds, RunVars, Works, TcInv
<1>4. CASE OutputAppears(r)
  <2> DEFINE w == [SetState(run[r], "running") EXCEPT !.ready = TRUE]
  <2>1. w \in Works /\ run' = [run EXCEPT ![r] = w]
    BY <1>4, <1>a DEF OutputAppears, Works, SetState
  <2>2. /\ w.key = run[r].key /\ w.owners = run[r].owners
        /\ w.phase = run[r].phase /\ w.cancelled = run[r].cancelled
    BY <1>a DEF SetState, Works
  <2> HIDE DEF w
  <2> QED
    BY <1>4, <1>b, <2>1, <2>2, RunKeeps DEF OutputAppears, RunVars, TcInv
<1>5. CASE OutputTimesOut(r)
  <2> DEFINE w == [SetState(run[r], "failed") EXCEPT !.late = TRUE, !.cancelled = TRUE]
  <2>1. w \in Works /\ run' = [run EXCEPT ![r] = w]
    BY <1>5, <1>a DEF OutputTimesOut, Works, SetState
  <2>2. /\ w.key = run[r].key /\ w.owners = run[r].owners
        /\ w.phase = run[r].phase /\ w.cancelled
    BY <1>a DEF SetState, Works
  <2> HIDE DEF w
  <2> QED
    BY <1>5, <1>b, <2>1, <2>2, RunKeeps DEF OutputTimesOut, RunVars, TcInv
<1>6. CASE ProcessExits(r)
  <2> PICK s \in {"failed", "stopped"} : run' = [run EXCEPT ![r] = Ended(@, s)]
    BY <1>6 DEF ProcessExits
  <2> DEFINE w == Ended(run[r], s)
  <2>1. w \in Works /\ run' = [run EXCEPT ![r] = w]
    BY <1>a DEF Works, Ended, SetState
  <2>2. w.key = run[r].key /\ w.owners = run[r].owners /\ w.phase = "ending"
    BY <1>a DEF Ended, SetState, Works
  <2> HIDE DEF w
  <2> QED
    BY <1>6, <1>b, <2>1, <2>2, RunKeeps DEF ProcessExits, RunVars, TcInv
<1>7. CASE ContextDone(r)
  <2> DEFINE w == [run[r] EXCEPT !.phase = "killing"]
  <2>1. w \in Works /\ run' = [run EXCEPT ![r] = w]
    BY <1>7, <1>a DEF ContextDone, Works
  <2> QED
    BY <1>7, <1>a, <1>b, <2>1, RunKeeps DEF ContextDone, RunVars, Works, TcInv
<1>8. CASE ProcessKilled(r)
  <2> DEFINE w == Ended(run[r], IF run[r].late THEN "failed" ELSE "stopped")
  <2>1. w \in Works /\ run' = [run EXCEPT ![r] = w]
    BY <1>8, <1>a DEF ProcessKilled, Works, Ended, SetState
  <2>2. w.key = run[r].key /\ w.owners = run[r].owners /\ w.phase = "ending"
    BY <1>a DEF Ended, SetState, Works
  <2> HIDE DEF w
  <2> QED
    BY <1>8, <1>b, <2>1, <2>2, RunKeeps DEF ProcessKilled, RunVars, TcInv
<1>9. CASE CloseDone(r)
  <2> DEFINE w == [run[r] EXCEPT !.phase = "done"]
             rs == [run EXCEPT ![r] = w]
  <2>1. w \in Works
    BY <1>a DEF Works
  <2>2. run[r].phase = "ending" /\ run' = Swept(rs, work, request)
    BY <1>9 DEF CloseDone
  <2>3. w.key = run[r].key /\ w.owners = run[r].owners /\ w.phase = "done"
    BY <1>a DEF Works
  <2> HIDE DEF w
  <2>4. Tables(lease, work, rs, request) /\ Cardinality(ActiveIn(work, rs)) <= Limit
    BY <2>1, <2>2, <2>3, RunKeeps
  <2> HIDE DEF rs
  <2>5. /\ Tables(lease, work, run', request)
        /\ Cardinality(ActiveIn(work, run')) <= Limit
    BY <2>2, <2>4, SweepKeeps
  <2> QED
    BY <1>9, <1>b, <2>5 DEF CloseDone, RunVars, TcInv
<1>10. CASE Reap(r)
  <2> DEFINE w == [run[r] EXCEPT !.reap = FALSE]
             rs == [run EXCEPT ![r] = w]
  <2>1. w \in Works
    BY <1>a DEF Works
  <2>2. /\ run[r].phase = "done" /\ run' = Swept(rs, work', request)
        /\ work' = [k \in Keys |-> IF k \in Reaps(r) THEN 0 ELSE work[k]]
    BY <1>10 DEF Reap, IsDone
  <2>3. w.key = run[r].key /\ w.owners = run[r].owners /\ w.phase = run[r].phase
    BY <1>a DEF Works
  <2>4. \A k \in Reaps(r) : k \in Keys /\ work[k] = r /\ run[r].owners = {}
    BY DEF Reaps, ReapsAt
  <2> HIDE DEF w
  <2>5. Tables(lease, work, rs, request) /\ Cardinality(ActiveIn(work, rs)) <= Limit
    BY <2>1, <2>2, <2>3, RunKeeps
  <2>6. \A k \in Reaps(r) : rs[work[k]].owners = {} /\ rs[work[k]].phase = "done"
    BY <2>2, <2>3, <2>4, <1>0 DEF Tables
  <2> HIDE DEF rs
  <2>7. Tables(lease, work', rs, request) /\ Cardinality(ActiveIn(work', rs)) <= Limit
    BY <2>2, <2>4, <2>5, <2>6, DropKeeps
  <2>8. Tables(lease, work', run', request) /\ Cardinality(ActiveIn(work', run')) <= Limit
    BY <2>2, <2>7, SweepKeeps
  <2> QED
    BY <1>10, <1>b, <2>8 DEF Reap, TcInv
<1> QED
  BY <1>1, <1>2, <1>3, <1>4, <1>5, <1>6, <1>7, <1>8, <1>9, <1>10 DEF RunStep

\* A job joins the run of its key or becomes an owner of a new one.
LEMMA AcquireKeeps ==
  ASSUME TcInv, NEW j \in Jobs, NEW want \in Wants, NEW req, req.pc # "await", Acquire(j, want, req)
  PROVE  Tables(lease', work', run', req) /\ Cardinality(ActiveIn(work', run')) <= Limit
<1> DEFINE k == want.key
<1>0. Tables(lease, work, run, request) /\ Cardinality(ActiveIn(work, run)) <= Limit
  BY DEF TcInv
<1>1. k \in Keys /\ lease[j] \in {Absent, k} /\ k # Absent
  BY <1>0, TranscodeAssumption DEF Acquire, Admits, Wants, Tables
<1>2. lease' = [lease EXCEPT ![j] = k]
  BY DEF Acquire
<1>3. lease' \in [Jobs -> Keys \cup {Absent}]
  BY <1>0, <1>1, <1>2 DEF Tables
<1>4. lease'[j] = k /\ \A i \in Jobs : i # j => lease'[i] = lease[i]
  BY <1>0, <1>2 DEF Tables
<1>5. CASE Joins(want) /\ run' = [run EXCEPT ![work[k]].owners = @ \cup {j}] /\ UNCHANGED work
  <2> DEFINE r == work[k]
  <2>1. r # 0 /\ r \in Runs /\ run[r].key = k /\ run[r].phase # "none" /\ run[r] \in Works
    BY <1>0, <1>1, <1>5 DEF Joins, Tables
  <2>2. run' \in [Runs -> Works]
    BY <1>0, <1>5, <2>1 DEF Tables, Works
  <2>3. /\ run'[r].key = k /\ run'[r].phase = run[r].phase /\ run'[r].cancelled = run[r].cancelled
        /\ run'[r].owners = run[r].owners \cup {j}
    BY <1>0, <1>5, <2>1 DEF Tables, Works
  <2>4. \A q \in Runs : q # r => run'[q] = run[q]
    BY <1>0, <1>5 DEF Tables
  <2>5. work' = work
    BY <1>5
  <2> HIDE DEF r
  <2>6. \A i \in Keys : work[i] # 0 => run'[work[i]].key = i /\ run'[work[i]].phase # "none"
    BY <1>0, <2>1, <2>3, <2>4 DEF Tables
  <2>7. \A q \in Runs : run'[q].phase \notin {"none", "done"} => run'[q].key \in Keys /\ work[run'[q].key] = q
    BY <1>0, <2>1, <2>3, <2>4 DEF Tables
  <2>8. \A i \in Keys, o \in Jobs : lease'[o] = i <=> work[i] # 0 /\ o \in run'[work[i]].owners
    <3> TAKE i \in Keys, o \in Jobs
    <3>1. CASE i = k
      BY <3>1, <1>0, <1>1, <1>4, <2>1, <2>3 DEF Tables, r
    <3>2. CASE i # k
      <4>1. work[i] # 0 => work[i] \in Runs /\ work[i] # r /\ run'[work[i]] = run[work[i]]
        BY <3>2, <1>0, <2>1, <2>4 DEF Tables
      <4>2. lease[o] = i <=> work[i] # 0 /\ o \in run[work[i]].owners
        BY <1>0 DEF Tables
      <4>3. lease'[o] = i <=> lease[o] = i
        BY <3>2, <1>1, <1>4, TranscodeAssumption
      <4> QED
        BY <4>1, <4>2, <4>3
    <3> QED
      BY <3>1, <3>2
  <2>9. \A q \in Runs : run'[q].phase \in {"starting", "up", "killing"} /\ ~run'[q].cancelled
                         => run'[q].owners # {}
    BY <1>0, <2>1, <2>3, <2>4 DEF Tables
  <2>10. Tables(lease', work, run', req)
    BY <1>0, <1>3, <2>2, <2>6, <2>7, <2>8, <2>9 DEF Tables
  <2>11. ActiveIn(work, run') = ActiveIn(work, run)
    BY <1>0, <2>1, <2>3, <2>4 DEF Tables, ActiveIn
  <2> QED
    BY <1>0, <2>5, <2>10, <2>11
<1>6. CASE /\ Starts(want)
           /\ \E r \in Unused :
                /\ work' = [work EXCEPT ![k] = r]
                /\ run' = Swept([run EXCEPT ![r] =
                                   [Blank EXCEPT !.key = k, !.phase = "starting",
                                                 !.state = "starting", !.owners = Owners(j, want)]],
                                work', req)
  <2> PICK r \in Unused :
        /\ work' = [work EXCEPT ![k] = r]
        /\ run' = Swept([run EXCEPT ![r] =
                           [Blank EXCEPT !.key = k, !.phase = "starting",
                                         !.state = "starting", !.owners = Owners(j, want)]],
                        work', req)
    BY <1>6
  <2> DEFINE w == [Blank EXCEPT !.key = k, !.phase = "starting",
                                !.state = "starting", !.owners = Owners(j, want)]
             rs == [run EXCEPT ![r] = w]
  <2>1. r \in Runs /\ run[r].phase = "none" /\ r # 0
    BY TranscodeAssumption DEF Unused, Blank
  <2>2. Owners(j, want) \in SUBSET Jobs /\ j \in Owners(j, want)
    BY <1>0, <1>1 DEF Owners, OwnersOf, Tables, Works
  <2>3. w \in Works /\ w.key = k /\ w.phase = "starting" /\ w.owners = Owners(j, want)
    BY <1>1, <2>2 DEF Works, Blank
  <2> HIDE DEF w
  <2>4. rs \in [Runs -> Works] /\ rs[r] = w /\ \A q \in Runs : q # r => rs[q] = run[q]
    BY <1>0, <2>1, <2>3 DEF Tables
  <2>5. /\ work' \in [Keys -> Runs \cup {0}] /\ work'[k] = r
        /\ \A i \in Keys : i # k => work'[i] = work[i]
    BY <1>0, <1>1, <2>1 DEF Tables
  <2>6. run' = Swept(rs, work', req)
    BY DEF w
  <2> HIDE DEF rs
  <2>7. work[k] # 0 => run[work[k]].phase = "done"
    BY <1>6 DEF Starts, IsDone
  <2>8. \A i \in Keys : work[i] # 0 => work[i] \in Runs /\ work[i] # r
    BY <1>0, <2>1 DEF Tables
  <2>9. \A i \in Keys : work'[i] # 0 => rs[work'[i]].key = i /\ rs[work'[i]].phase # "none"
    BY <1>0, <1>1, <2>3, <2>4, <2>5, <2>8 DEF Tables
  <2>10. \A q \in Runs : rs[q].phase \notin {"none", "done"} => rs[q].key \in Keys /\ work'[rs[q].key] = q
    <3> TAKE q \in Runs
    <3>1. CASE q = r
      BY <3>1, <1>1, <2>3, <2>4, <2>5
    <3>2. CASE q # r
      <4> SUFFICES ASSUME run[q].phase \notin {"none", "done"}
                   PROVE  run[q].key \in Keys /\ work'[run[q].key] = q
        BY <3>2, <2>4
      <4>1. run[q].key \in Keys /\ work[run[q].key] = q /\ q # 0
        BY <1>0, TranscodeAssumption DEF Tables
      <4>2. run[q].key # k
        BY <4>1, <2>7
      <4> QED
        BY <4>1, <4>2, <2>5
    <3> QED
      BY <3>1, <3>2
  <2>11. \A i \in Keys, o \in Jobs : lease'[o] = i <=> work'[i] # 0 /\ o \in rs[work'[i]].owners
    <3> TAKE i \in Keys, o \in Jobs
    <3>0. lease[o] = i <=> work[i] # 0 /\ o \in run[work[i]].owners
      BY <1>0 DEF Tables
    <3>1. CASE i = k
      <4>1. o \in Owners(j, want) <=> o = j \/ lease[o] = k
        BY <3>0, <3>1 DEF Owners, OwnersOf
      <4>2. work'[i] = r /\ rs[r].owners = Owners(j, want)
        BY <3>1, <2>3, <2>4, <2>5
      <4> QED
        BY <3>1, <4>1, <4>2, <1>4, <2>1
    <3>2. CASE i # k
      <4>1. work'[i] = work[i] /\ (work[i] # 0 => rs[work[i]] = run[work[i]])
        BY <3>2, <2>4, <2>5, <2>8
      <4>2. lease'[o] = i <=> lease[o] = i
        BY <3>2, <1>1, <1>4, TranscodeAssumption
      <4> QED
        BY <3>0, <4>1, <4>2
    <3> QED
      BY <3>1, <3>2
  <2>12. \A q \in Runs : rs[q].phase \in {"starting", "up", "killing"} /\ ~rs[q].cancelled => rs[q].owners # {}
    BY <1>0, <2>2, <2>3, <2>4 DEF Tables
  <2>13. Tables(lease', work', rs, req)
    BY <1>3, <2>4, <2>5, <2>9, <2>10, <2>11, <2>12 DEF Tables
  <2>14. Cardinality(ActiveIn(work', rs)) <= Limit
    <3>1. ActiveIn(work', rs) \subseteq ActiveIn(work, run) \cup {k}
      BY <2>4, <2>5, <2>8 DEF ActiveIn
    <3>2. Cardinality(ActiveIn(work, run)) < Limit
      BY <1>6 DEF Starts, Active, IsDone, ActiveIn
    <3>3. IsFiniteSet(ActiveIn(work, run))
      BY FS_Subset, TranscodeAssumption DEF ActiveIn
    <3>4. /\ Cardinality(ActiveIn(work, run)) \in Nat
          /\ Cardinality(ActiveIn(work, run) \cup {k})
               \in {Cardinality(ActiveIn(work, run)), Cardinality(ActiveIn(work, run)) + 1}
      <4> HIDE DEF k
      <4> QED
        BY <3>3, FS_AddElement, FS_CardinalityType
    <3>5. Limit \in Nat
      BY TranscodeAssumption
    <3>6. Cardinality(ActiveIn(work, run) \cup {k}) <= Limit
      BY <3>2, <3>4, <3>5
    <3>7. ActiveIn(work, run) \cup {k} \in SUBSET Keys
      BY <1>1 DEF ActiveIn
    <3> QED
      BY <3>1, <3>6, <3>7, FewerActive
  <2> QED
    BY <2>6, <2>13, <2>14, SweepKeeps
<1> QED
  BY <1>5, <1>6 DEF Acquire

LEMMA CloseKeeps == ASSUME TcInv, CloseManager \/ CloseEnds PROVE TcInv'
<1>0. Requests /\ Tables(lease, work, run, request) /\ Cardinality(ActiveIn(work, run)) <= Limit
  BY DEF TcInv
<1>1. CASE CloseManager
  <2>1. Requests'
    BY <1>0, <1>1 DEF CloseManager, Requests, rowVars
  <2> DEFINE Told(r) == [run[r] EXCEPT !.state = "stopping", !.cancelled = TRUE]
  <2>2. run \in [Runs -> Works]
    BY <1>0 DEF Tables
  <2>3. \A r \in Runs : Told(r) \in Works /\ Told(r).cancelled
                         /\ Told(r).key = run[r].key /\ Told(r).owners = run[r].owners
                         /\ Told(r).phase = run[r].phase
    BY <2>2 DEF Works
  <2>4. run' = [r \in Runs |-> IF \E k \in Keys : work[k] = r THEN Told(r) ELSE run[r]]
    BY <1>1 DEF CloseManager
  <2> HIDE DEF Told
  <2>5. \A r \in Runs : run'[r] \in {Told(r), run[r]}
    BY <2>4
  <2>6. run' \in [Runs -> Works]
    BY <2>2, <2>3, <2>4
  <2>7. Tables(lease, work, run', request) /\ Cardinality(ActiveIn(work, run')) <= Limit
    BY <2>3, <2>5, <2>6, RunsKeep
  <2> QED
    BY <1>1, <2>1, <2>7 DEF TcInv, CloseManager
<1>2. CASE CloseEnds
  <2>1. Requests'
    BY <1>0, <1>2 DEF CloseEnds, Requests, rowVars
  <2>2. work' = [k \in Keys |-> 0] /\ lease' = [j \in Jobs |-> Absent] /\ request' = request
    BY <1>2 DEF CloseEnds
  <2>3. \A r \in Runs : run[r].phase \in {"none", "done"}
    <3> SUFFICES ASSUME NEW r \in Runs, run[r].phase \notin {"none", "done"} PROVE FALSE
      OBVIOUS
    <3>1. run[r].key \in Keys /\ work[run[r].key] = r /\ r # 0
      BY <1>0, TranscodeAssumption DEF Tables
    <3> QED
      BY <3>1, <1>2 DEF CloseEnds, IsDone
  <2>4. Tables(lease', work', run, request)
    BY <1>0, <2>2, <2>3, TranscodeAssumption DEF Tables
  <2>5. ActiveIn(work', run) \subseteq ActiveIn(work, run)
    BY <2>2 DEF ActiveIn
  <2>6. Cardinality(ActiveIn(work', run)) <= Limit
    BY <1>0, <2>5, FewerActive DEF ActiveIn
  <2>7. run' = Swept(run, work', request)
    BY <1>2 DEF CloseEnds
  <2> QED
    BY <2>1, <2>2, <2>4, <2>6, <2>7, SweepKeeps DEF TcInv
<1> QED
  BY <1>1, <1>2

LEMMA AnotherRequest ==
  ASSUME NEW ls, NEW ws, NEW rs, NEW req, Tables(ls, ws, rs, req), NEW next, next.pc # "await"
  PROVE  Tables(ls, ws, rs, next)
BY DEF Tables

LEMMA Asks ==
  ASSUME NEW pc \in {"unstop", "release"}, NEW op \in {"start", "stop", "delete"}, NEW j \in Jobs, Requests
  PROVE  /\ Asked(pc, op, j) \in Askings
         /\ Asked(pc, op, j).pc = pc /\ Asked(pc, op, j).job = j
         /\ Free \in Askings
BY DEF Asked, Askings, Free, Requests, Wants

\* What the requests of the service do, before they release a lease.
LEMMA RequestKeeps ==
  ASSUME TcInv, NEW j \in Jobs, Save(j) \/ Start(j) \/ Stop(j) \/ Delete(j) \/ Unstop \/ Erase
  PROVE  TcInv'
<1>0. Requests /\ Tables(lease, work, run, request) /\ Cardinality(ActiveIn(work, run)) <= Limit
  BY DEF TcInv
<1>1. CASE Save(j)
  <2>1. row' \in [Jobs -> Wants]
    <3> PICK gen \in 1 .. MaxGen, wish \in Wishes[j] :
          row' = [row EXCEPT ![j] = [gen |-> gen, key |-> wish.key, enabled |-> wish.enabled,
                                      always |-> wish.always, stopped |-> row[j].stopped]]
      BY <1>1 DEF Save
    <3>1. wish \in [key : Keys, enabled : BOOLEAN, always : BOOLEAN] /\ gen \in Nat
      BY TranscodeAssumption
    <3>2. row \in [Jobs -> Wants] /\ row[j].stopped \in BOOLEAN
      BY <1>0 DEF Requests, Wants
    <3>3. [gen |-> gen, key |-> wish.key, enabled |-> wish.enabled,
           always |-> wish.always, stopped |-> row[j].stopped] \in Wants
      BY <3>1, <3>2 DEF Wants
    <3> QED
      BY <3>2, <3>3
  <2>2. UNCHANGED <<mgrVars, request, round>>
    BY <1>1 DEF Save
  <2>3. Requests'
    BY <1>0, <2>1, <2>2 DEF Requests
  <2> QED
    BY <1>0, <2>2, <2>3 DEF TcInv, mgrVars
<1>2. CASE Start(j)
  <2>1. row[j] \in Wants /\ request'.pc # "await" /\ Acquire(j, row[j], request')
    BY <1>0, <1>2, Asks DEF Start, Requests, Free
  <2>2. Tables(lease', work', run', request') /\ Cardinality(ActiveIn(work', run')) <= Limit
    BY <2>1, AcquireKeeps
  <2>3. Requests'
    BY <1>0, <1>2, Asks DEF Requests, Start, Unlocked, Free, rowVars
  <2> QED
    BY <2>2, <2>3 DEF TcInv
<1>3. CASE Stop(j)
  <2>1. row' \in [Jobs -> Wants]
    <3>1. row \in [Jobs -> Wants]
      BY <1>0 DEF Requests
    <3>2. [row[j] EXCEPT !.stopped = TRUE] \in Wants
      BY <3>1 DEF Wants
    <3>3. row' = [row EXCEPT ![j] = [row[j] EXCEPT !.stopped = TRUE]]
      BY <1>3, <3>1 DEF Stop
    <3> QED
      BY <3>1, <3>2, <3>3
  <2>a. request' \in Askings /\ request'.pc = "release" /\ request'.job = j
    BY <1>0, <1>3, Asks DEF Stop
  <2>b. round' = round /\ round.phase # "holding" /\ UNCHANGED mgrVars
    BY <1>3 DEF Stop, Unlocked
  <2>2. Requests' /\ request'.pc # "await" /\ UNCHANGED mgrVars
    BY <1>0, <2>a, <2>b, <2>1 DEF Requests
  <2> QED
    BY <1>0, <2>2, AnotherRequest DEF TcInv, mgrVars
<1>4. CASE Delete(j)
  <2>a. request' \in Askings /\ request'.pc = "release" /\ request'.job = j
    BY <1>0, <1>4, Asks DEF Delete
  <2>b. row' = row /\ round' = round /\ round.phase # "holding" /\ UNCHANGED mgrVars
    BY <1>4 DEF Delete, Unlocked, rowVars
  <2>1. Requests' /\ request'.pc # "await" /\ UNCHANGED mgrVars
    BY <1>0, <2>a, <2>b DEF Requests
  <2> QED
    BY <1>0, <2>1, AnotherRequest DEF TcInv, mgrVars
<1>5. CASE Unstop
  <2>1. row' \in [Jobs -> Wants]
    <3>1. row \in [Jobs -> Wants] /\ request.job \in Jobs
      BY <1>0, <1>5 DEF Requests, Unstop
    <3>2. [row[request.job] EXCEPT !.stopped = FALSE] \in Wants
      BY <3>1 DEF Wants
    <3>3. row' = row \/ row' = [row EXCEPT ![request.job] = [row[request.job] EXCEPT !.stopped = FALSE]]
      BY <1>5, <3>1 DEF Unstop
    <3> QED
      BY <3>1, <3>2, <3>3
  <2>2. request' \in Askings /\ (request' = Free \/ (request'.pc = "release" /\ request'.job = request.job))
    <3>1. request \in Askings /\ request.pc = "unstop" /\ Free \in Askings
      BY <1>0, <1>5 DEF Requests, Unstop, Askings, Free
    <3>2. request' = Free \/ request' = [request EXCEPT !.pc = "release"]
      BY <1>5 DEF Unstop
    <3>3. [request EXCEPT !.pc = "release"] \in Askings
      BY <3>1 DEF Askings
    <3>4. [request EXCEPT !.pc = "release"].pc = "release" /\ [request EXCEPT !.pc = "release"].job = request.job
      BY <3>1 DEF Askings
    <3> QED
      BY <3>1, <3>2, <3>3, <3>4
  <2>3. round.phase # "holding"
    BY <1>0, <1>5 DEF Requests, Unstop, Free
  <2>4. Requests' /\ request'.pc # "await" /\ UNCHANGED mgrVars
    <3>1. round' = round /\ UNCHANGED mgrVars /\ request.job \in Jobs
      BY <1>0, <1>5 DEF Requests, Unstop
    <3>2. Free.pc = "free"
      BY DEF Free
    <3> QED
      BY <1>0, <2>1, <2>2, <2>3, <3>1, <3>2 DEF Requests
  <2> QED
    BY <1>0, <2>4, AnotherRequest DEF TcInv, mgrVars
<1>6. CASE Erase
  <2>1. row' \in [Jobs -> Wants]
    <3>1. NoRow \in Wants
      BY DEF NoRow, Wants
    <3>2. row' = row \/ row' = [row EXCEPT ![request.job] = NoRow]
      BY <1>6 DEF Erase, rowVars
    <3> QED
      BY <1>0, <3>1, <3>2 DEF Requests
  <2>2. Requests' /\ request'.pc # "await" /\ UNCHANGED mgrVars
    BY <1>0, <1>6, <2>1 DEF Requests, Erase, Free, Askings
  <2> QED
    BY <1>0, <2>2, AnotherRequest DEF TcInv, mgrVars
<1> QED
  BY <1>1, <1>2, <1>3, <1>4, <1>5, <1>6

\* Release: the lease goes at once, the run when it has ended.
LEMMA ReleaseKeeps ==
  ASSUME TcInv, ReleaseUnleased \/ ReleaseLeased \/ AwaitDone \/ AwaitGivesUp
  PROVE  TcInv'
<1>0. Requests /\ Tables(lease, work, run, request) /\ Cardinality(ActiveIn(work, run)) <= Limit
  BY DEF TcInv
<1> DEFINE j == request.job
<1>a. request.pc \in {"release", "await"} /\ j \in Jobs /\ request \in Askings
  BY <1>0 DEF Requests, ReleaseUnleased, ReleaseLeased, AwaitDone, AwaitGivesUp
<1>b. round.phase # "holding"
  BY <1>0, <1>a DEF Requests, Free
<1>c. UNCHANGED <<row, round>>
  BY DEF ReleaseUnleased, ReleaseLeased, AwaitDone, AwaitGivesUp, rowVars
<1>d. /\ Free \in Askings /\ Free.pc = "free"
      /\ Released \in Askings /\ Released.pc \in {"free", "erase"}
      /\ Released.pc = "erase" => Released.job = j
  BY <1>a DEF Released, Free, Askings
<1>e. ASSUME request' \in {Free, Released} PROVE Requests'
  BY <1>0, <1>a, <1>b, <1>c, <1>d, <1>e DEF Requests
<1>1. CASE ReleaseUnleased
  <2>1. request' \in {Free, Released} /\ UNCHANGED <<lease, work, run>>
    BY <1>1 DEF ReleaseUnleased
  <2> QED
    BY <1>0, <1>d, <1>e, <2>1, AnotherRequest DEF TcInv
<1>2. CASE ReleaseLeased /\ request' = Free /\ UNCHANGED mgrVars
  BY <1>0, <1>2, <1>d, <1>e, AnotherRequest DEF TcInv, mgrVars
<1> DEFINE k == lease[j]
           r == work[k]
<1>3. ASSUME lease[j] # Absent
      PROVE  k \in Keys /\ r \in Runs /\ r # 0 /\ run[r] \in Works /\ j \in run[r].owners /\ run[r].key = k
  BY <1>0, <1>3, <1>a DEF Tables
<1>4. ASSUME NEW rs, lease[j] # Absent, lease' = [lease EXCEPT ![j] = Absent],
             rs \in [Runs -> Works], \A q \in Runs : q # r => rs[q] = run[q],
             rs[r].key = run[r].key, rs[r].phase = run[r].phase, rs[r].owners = run[r].owners \ {j},
             rs[r].owners # {} => rs[r].cancelled = run[r].cancelled,
             rs[r].owners = {} => rs[r].cancelled
      PROVE  Tables(lease', work, rs, Free) /\ Cardinality(ActiveIn(work, rs)) <= Limit
  <2>1. k \in Keys /\ r \in Runs /\ r # 0 /\ run[r] \in Works /\ j \in run[r].owners /\ run[r].key = k
    BY <1>3, <1>4
  <2>2. lease' \in [Jobs -> Keys \cup {Absent}] /\ lease'[j] = Absent /\ \A i \in Jobs : i # j => lease'[i] = lease[i]
    <3>1. lease \in [Jobs -> Keys \cup {Absent}]
      BY <1>0 DEF Tables
    <3> QED
      BY <1>4, <1>a, <3>1
  <2>3. \A i \in Keys : work[i] # 0 => work[i] \in Runs /\ (work[i] = r => i = k)
    BY <1>0, <2>1 DEF Tables
  <2>4. work[k] = r /\ lease[j] = k /\ Absent \notin Keys
    BY TranscodeAssumption
  <2> HIDE DEF j, k, r
  <2>5. \A i \in Keys : work[i] # 0 => rs[work[i]].key = i /\ rs[work[i]].phase # "none"
    BY <1>0, <1>4, <2>1, <2>3 DEF Tables
  <2>6. \A q \in Runs : rs[q].phase \notin {"none", "done"} => rs[q].key \in Keys /\ work[rs[q].key] = q
    BY <1>0, <1>4, <2>1 DEF Tables
  <2>7. \A i \in Keys, o \in Jobs : lease'[o] = i <=> work[i] # 0 /\ o \in rs[work[i]].owners
    <3> TAKE i \in Keys, o \in Jobs
    <3>1. lease[o] = i <=> work[i] # 0 /\ o \in run[work[i]].owners
      BY <1>0 DEF Tables
    <3>2. CASE i = k
      BY <3>1, <3>2, <1>4, <2>1, <2>2, <2>4
    <3>3. CASE i # k
      BY <3>1, <3>3, <1>4, <2>2, <2>3, <2>4
    <3> QED
      BY <3>2, <3>3
  <2>8. \A q \in Runs : rs[q].phase \in {"starting", "up", "killing"} /\ ~rs[q].cancelled => rs[q].owners # {}
    BY <1>0, <1>4, <2>1 DEF Tables
  <2>9. Tables(lease', work, rs, Free)
    BY <1>0, <1>4, <2>2, <2>5, <2>6, <2>7, <2>8 DEF Tables, Free
  <2>10. ActiveIn(work, rs) = ActiveIn(work, run)
    BY <1>4, <2>1, <2>3 DEF ActiveIn
  <2> QED
    BY <1>0, <2>9, <2>10
<1>5. CASE /\ ReleaseLeased /\ lease[j] # Absent /\ lease' = [lease EXCEPT ![j] = Absent] /\ UNCHANGED work
           /\ run[r].owners # {j} /\ run' = [run EXCEPT ![r].owners = @ \ {j}] /\ request' = Released
  <2>1. k \in Keys /\ r \in Runs /\ run[r] \in Works /\ j \in run[r].owners /\ run \in [Runs -> Works]
    BY <1>0, <1>3, <1>5 DEF Tables
  <2>2. /\ run' \in [Runs -> Works] /\ \A q \in Runs : q # r => run'[q] = run[q]
        /\ run'[r] = [run[r] EXCEPT !.owners = @ \ {j}]
    <3>1. [run[r] EXCEPT !.owners = @ \ {j}] \in Works
      BY <2>1 DEF Works
    <3> QED
      BY <1>5, <2>1, <3>1
  <2>3. /\ run'[r].key = run[r].key /\ run'[r].phase = run[r].phase
        /\ run'[r].cancelled = run[r].cancelled /\ run'[r].owners = run[r].owners \ {j}
    BY <2>1, <2>2 DEF Works
  <2>4. run'[r].owners # {}
    BY <2>1, <2>3, <1>5
  <2> HIDE DEF j, k, r
  <2>5. Tables(lease', work, run', Free) /\ Cardinality(ActiveIn(work, run')) <= Limit
    BY <1>4, <1>5, <2>2, <2>3, <2>4
  <2> QED
    BY <1>5, <1>d, <1>e, <2>5, AnotherRequest DEF TcInv
<1>6. CASE /\ ReleaseLeased /\ lease[j] # Absent /\ lease' = [lease EXCEPT ![j] = Absent] /\ UNCHANGED work
           /\ run[r].owners = {j}
           /\ run' = [run EXCEPT ![r].owners = {}, ![r].state = "stopping",
                                 ![r].cancelled = TRUE, ![r].reap = TRUE]
           /\ request' = [request EXCEPT !.pc = "await", !.run = r]
  <2>1. k \in Keys /\ r \in Runs /\ run[r] \in Works /\ j \in run[r].owners /\ run \in [Runs -> Works]
    BY <1>0, <1>3, <1>6 DEF Tables
  <2> DEFINE w == [run[r] EXCEPT !.owners = {}, !.state = "stopping", !.cancelled = TRUE, !.reap = TRUE]
  <2>2. w \in Works
    BY <2>1 DEF Works
  <2>3. /\ w.key = run[r].key /\ w.phase = run[r].phase /\ w.cancelled /\ w.owners = {}
    BY <2>1 DEF Works
  <2>4. run' = [run EXCEPT ![r] = w]
    BY <1>6, <2>1 DEF Works
  <2>5. work[k] = r /\ r # 0 /\ run[r].phase # "none"
    BY <1>0, <1>3, <1>6 DEF Tables
  <2> HIDE DEF w, j, k, r
  <2>6. run' \in [Runs -> Works] /\ run'[r] = w /\ \A q \in Runs : q # r => run'[q] = run[q]
    BY <2>1, <2>2, <2>4
  <2>7. Tables(lease', work, run', Free) /\ Cardinality(ActiveIn(work, run')) <= Limit
    BY <1>4, <1>6, <2>3, <2>6
  <2>8. /\ request' \in Askings /\ request'.pc = "await"
        /\ request'.run = r /\ request'.job = j
    BY <1>6, <1>a, <2>1 DEF Askings, j
  <2>9. Tables(lease', work, run', request')
    BY <2>1, <2>3, <2>5, <2>6, <2>7, <2>8 DEF Tables
  <2>10. Requests'
    BY <1>0, <1>a, <1>b, <1>c, <2>8 DEF Requests, j
  <2> QED
    BY <1>6, <2>7, <2>9, <2>10 DEF TcInv
<1>7. CASE AwaitDone
  <2> DEFINE K == {i \in Keys : work[i] = request.run}
  <2>1. /\ request.run \in Runs /\ run[request.run].owners = {} /\ run[request.run].phase = "done"
    BY <1>0, <1>7 DEF AwaitDone, IsDone, Tables
  <2>2. /\ work' = [i \in Keys |-> IF i \in K THEN 0 ELSE work[i]]
        /\ request' = Released /\ lease' = lease /\ run' = Swept(run, work', request')
    BY <1>7 DEF AwaitDone
  <2>3. \A i \in K : run[work[i]].owners = {} /\ run[work[i]].phase = "done"
    BY <2>1
  <2>4. K \in SUBSET Keys
    OBVIOUS
  <2> HIDE DEF K
  <2>5. Tables(lease, work', run, request) /\ Cardinality(ActiveIn(work', run)) <= Limit
    BY <1>0, <2>2, <2>3, <2>4, DropKeeps
  <2>6. Tables(lease', work', run, request')
    BY <1>d, <2>2, <2>5, AnotherRequest
  <2> QED
    BY <1>e, <2>2, <2>5, <2>6, SweepKeeps DEF TcInv
<1>8. CASE AwaitGivesUp
  <2>1. request' = Free /\ lease' = lease /\ work' = work /\ run' = Swept(run, work', request')
    BY <1>8 DEF AwaitGivesUp
  <2>2. Tables(lease', work', run, request')
    BY <1>0, <1>d, <2>1, AnotherRequest
  <2> QED
    BY <1>0, <1>e, <2>1, <2>2, SweepKeeps DEF TcInv
<1>9. ASSUME ReleaseLeased
      PROVE  \/ request' = Free /\ UNCHANGED mgrVars
             \/ /\ lease[j] # Absent /\ lease' = [lease EXCEPT ![j] = Absent] /\ UNCHANGED work
                /\ \/ /\ run[r].owners # {j} /\ run' = [run EXCEPT ![r].owners = @ \ {j}]
                      /\ request' = Released
                   \/ /\ run[r].owners = {j}
                      /\ run' = [run EXCEPT ![r].owners = {}, ![r].state = "stopping",
                                            ![r].cancelled = TRUE, ![r].reap = TRUE]
                      /\ request' = [request EXCEPT !.pc = "await", !.run = r]
  BY <1>9 DEF ReleaseLeased
<1> QED
  BY <1>1, <1>2, <1>5, <1>6, <1>7, <1>8, <1>9

\* The periodic pass, which acquires with the mutex held.
LEMMA RoundKeeps == ASSUME TcInv, RoundStep PROVE TcInv'
<1>0. Requests /\ Tables(lease, work, run, request) /\ Cardinality(ActiveIn(work, run)) <= Limit
  BY DEF TcInv
<1>1. NoRow \in Wants
  BY DEF NoRow, Wants
<1>2. ASSUME NEW j, round' = WithoutJob(j), request = Free, UNCHANGED <<row, request>>
      PROVE  Requests'
  <2>1. round \in Rounds
    BY <1>0 DEF Requests
  <2>2. [round.snap EXCEPT ![j] = NoRow] \in [Jobs -> Wants]
    BY <1>1, <2>1 DEF Rounds
  <2>3. WithoutJob(j) \in Rounds /\ WithoutJob(j).phase = "holding"
    BY <2>1, <2>2 DEF Rounds, WithoutJob
  <2> QED
    BY <1>0, <1>2, <2>3 DEF Requests
<1>a. ASSUME UNCHANGED <<mgrVars, request>>, Requests' PROVE TcInv'
  BY <1>0, <1>a DEF TcInv, mgrVars
<1>b. Free.pc # "await"
  BY DEF Free
<1>3. CASE RoundBegins
  <2> DEFINE those == {i \in Jobs : Wanted(row[i])}
             snap == [j \in Jobs |-> IF j \in those THEN row[j] ELSE NoRow]
  <2>1. round' \in Rounds /\ round'.phase = "holding"
    <3>1. snap \in [Jobs -> Wants]
      BY <1>0, <1>1 DEF Requests
    <3>2. round' = [phase |-> "holding", left |-> those, snap |-> snap, at |-> Absent]
      BY <1>3 DEF RoundBegins, Resting
    <3>3. those \in SUBSET Jobs
      OBVIOUS
    <3> HIDE DEF those, snap
    <3> QED
      BY <3>1, <3>2, <3>3 DEF Rounds
  <2>2. UNCHANGED <<row, request, mgrVars>> /\ request = Free
    BY <1>3 DEF RoundBegins, Unlocked, RoundVars, rowVars
  <2>3. Requests'
    BY <1>0, <2>1, <2>2 DEF Requests
  <2> QED
    BY <1>a, <2>2, <2>3
<1>4. ASSUME NEW j \in Jobs, RoundSkips(j) PROVE TcInv'
  <2>1. round' = WithoutJob(j) /\ request = Free /\ UNCHANGED <<row, request, mgrVars>>
    BY <1>0, <1>4 DEF RoundSkips, Requests, RoundVars, rowVars
  <2> QED
    BY <1>a, <1>2, <2>1
<1>5. ASSUME NEW j \in Jobs, RoundAcquires(j) PROVE TcInv'
  <2>1. /\ round' = WithoutJob(j) /\ request = Free /\ UNCHANGED <<row, request>>
        /\ round.snap[j] \in Wants /\ Acquire(j, round.snap[j], request)
    BY <1>0, <1>5 DEF RoundAcquires, Requests, Rounds, RoundVars, rowVars
  <2>2. Tables(lease', work', run', request) /\ Cardinality(ActiveIn(work', run')) <= Limit
    BY <1>b, <2>1, AcquireKeeps
  <2>3. Requests'
    BY <1>2, <2>1
  <2> QED
    BY <2>1, <2>2, <2>3 DEF TcInv
<1>6. ASSUME NEW j \in Jobs, RoundProbes(j) PROVE TcInv'
  <2>1. UNCHANGED <<row, request, mgrVars>>
    BY <1>6 DEF RoundProbes, RoundVars, rowVars
  <2>2. round' = [round EXCEPT !.phase = "probing", !.at = j] /\ round.phase = "holding" /\ request = Free
    BY <1>0, <1>6 DEF RoundProbes, Requests
  <2>3. round' \in Rounds /\ round'.at = j
    BY <1>0, <2>2 DEF Requests, Rounds
  <2>4. Requests'
    BY <1>0, <2>1, <2>2, <2>3 DEF Requests
  <2> QED
    BY <1>a, <2>1, <2>4
<1>7. CASE ProbeFails
  <2>1. round' = WithoutJob(round.at) /\ request = Free /\ UNCHANGED <<row, request, mgrVars>>
    BY <1>7 DEF ProbeFails, RoundVars, rowVars
  <2> QED
    BY <1>a, <1>2, <2>1
<1>8. CASE ProbeSucceeds
  <2> DEFINE j == round.at
  <2>1. /\ round' = WithoutJob(j) /\ request = Free /\ UNCHANGED <<row, request>>
        /\ Acquire(j, row[j], request)
    BY <1>8 DEF ProbeSucceeds, RoundVars, rowVars
  <2>2. j \in Jobs
    BY <1>0, <1>8 DEF Requests, ProbeSucceeds
  <2>3. row[j] \in Wants
    BY <1>0, <2>2 DEF Requests
  <2>4. Requests'
    BY <1>2, <2>1
  <2> HIDE DEF j
  <2>5. Tables(lease', work', run', request) /\ Cardinality(ActiveIn(work', run')) <= Limit
    BY <1>b, <2>1, <2>2, <2>3, AcquireKeeps
  <2> QED
    BY <2>1, <2>4, <2>5 DEF TcInv
<1>9. CASE RoundEnds
  <2>1. round' = Resting /\ request = Free /\ UNCHANGED <<row, request, mgrVars>>
    BY <1>0, <1>9 DEF RoundEnds, Requests, RoundVars, rowVars
  <2>2. Requests'
    BY <1>0, <1>1, <2>1 DEF Requests, Resting, Rounds
  <2> QED
    BY <1>a, <2>1, <2>2
<1> QED
  BY <1>3, <1>4, <1>5, <1>6, <1>7, <1>8, <1>9 DEF RoundStep

LEMMA TranscodeInvariant == TranscodeSpec => []TcInv
<1>1. TcInv /\ [TranscodeNext]_tcVars => TcInv'
  <2> SUFFICES ASSUME TcInv, [TranscodeNext]_tcVars PROVE TcInv'
    OBVIOUS
  <2>1. CASE UNCHANGED tcVars
    BY <2>1 DEF tcVars, rowVars, mgrVars, TcInv, Requests
  <2>2. ASSUME NEW r \in Runs, RunStep(r) PROVE TcInv'
    BY <2>2, RunStepKeeps
  <2>3. CASE RequestStep
    <3>1. ASSUME NEW j \in Jobs, Save(j) \/ Start(j) \/ Stop(j) \/ Delete(j) PROVE TcInv'
      BY <3>1, RequestKeeps
    <3>2. CASE Unstop \/ Erase
      <4>1. request.job \in Jobs
        BY <3>2 DEF TcInv, Requests, Unstop, Erase
      <4> QED
        BY <3>2, <4>1, RequestKeeps
    <3>3. CASE ReleaseUnleased \/ ReleaseLeased \/ AwaitDone \/ AwaitGivesUp
      BY <3>3, ReleaseKeeps
    <3> QED
      BY <2>3, <3>1, <3>2, <3>3 DEF RequestStep
  <2>4. CASE RoundStep
    BY <2>4, RoundKeeps
  <2>5. CASE CloseManager \/ CloseEnds
    BY <2>5, CloseKeeps
  <2> QED
    BY <2>1, <2>2, <2>3, <2>4, <2>5 DEF TranscodeNext
<1> QED
  BY TranscodeStarts, <1>1, PTL DEF TranscodeSpec

-----------------------------------------------------------------------------
\* A lease and its work name each other, whatever requests, passes, failing
\* processes and Close do.
THEOREM LeasesAlwaysAgree == TranscodeSpec => []LeasesAgree
<1>1. TcInv => LeasesAgree
  BY DEF TcInv, Tables, LeasesAgree
<1> QED
  BY TranscodeInvariant, <1>1, PTL

\* A backend process that nobody has told to stop is its key's and has an
\* owner.
THEOREM NoProcessIsLeaked == TranscodeSpec => []NoLeakedProcess
<1>1. TcInv => NoLeakedProcess
  BY DEF TcInv, Tables, NoLeakedProcess, IsAlive
<1> QED
  BY TranscodeInvariant, <1>1, PTL

\* No more backend processes exist than the configuration allows: those that
\* exist are the work of different active keys.
THEOREM CapacityIsKept == TranscodeSpec => []CapacityKept
<1>1. TcInv => CapacityKept
  <2> SUFFICES ASSUME TcInv PROVE CapacityKept
    OBVIOUS
  <2> DEFINE A == ActiveIn(work, run)
             P == {r \in Runs : IsAlive(r)}
             f == [r \in P |-> run[r].key]
  <2>1. \A r \in P : run[r].key \in A /\ work[run[r].key] = r
    <3> TAKE r \in P
    <3>1. run[r].key \in Keys /\ work[run[r].key] = r /\ r # 0 /\ run[r].phase # "done"
      BY TranscodeAssumption DEF TcInv, Tables, IsAlive
    <3> QED
      BY <3>1 DEF ActiveIn
  <2>2. IsFiniteSet(A)
    BY FS_Subset, TranscodeAssumption DEF ActiveIn
  <2>3. Cardinality(A) \in Nat /\ Cardinality(A) <= Limit /\ Limit \in Nat
    BY <2>2, FS_CardinalityType, TranscodeAssumption DEF TcInv
  <2>4. f \in Injection(P, A)
    <3> HIDE DEF A, P
    <3> QED
      BY <2>1 DEF Injection, IsInjective
  <2>5. IsFiniteSet(P) /\ Cardinality(P) <= Cardinality(A) /\ Cardinality(P) \in Nat
    <3> HIDE DEF A, P, f
    <3> QED
      BY <2>2, <2>4, FS_Injection, FS_CardinalityType
  <2> HIDE DEF A, P, f
  <2>6. Cardinality(P) <= Limit
    BY <2>3, <2>5
  <2> QED
    BY <2>6 DEF P, CapacityKept
<1> QED
  BY TranscodeInvariant, <1>1, PTL

=============================================================================
