---------------------------- MODULE Remediator -----------------------------
(***************************************************************************)
(* The health manager's pass over the statuses of the cameras              *)
(* (internal/health/manager.go) and the AutoRemediator that restarts       *)
(* recorders (internal/health/auto_remediate.go), which restarts a camera  *)
(* that fails, or stays offline, but not too often, and blacklists one     *)
(* that used up its restarts.                                              *)
(*                                                                         *)
(* Times are kept as ages in ticks, and those past every bound of the code *)
(* are not told apart.  Time passes at any point, also while a restart or  *)
(* a rediscovery, called without the mutex, is under way.                  *)
(***************************************************************************)
EXTENDS Naturals, FiniteSets, Sequences

CONSTANTS
  Watched,       \* cameras
  MaxRestarts,   \* max_restarts_per_hour
  Cooldown,      \* cooldown_minutes
  Hour,          \* ticks of an hour
  Blacklist,     \* blacklist_hours
  Minute,        \* ticks of a minute
  GlobalMax,     \* global_max_per_min
  Patience       \* offline_restart_seconds

\* The configuration fills in and refuses values below these
\* (config.go; a negative blacklist_hours is not refused).
ASSUME RemediatorAssumption ==
  /\ MaxRestarts \in Nat \ {0} /\ Cooldown \in Nat \ {0}
  /\ Hour \in Nat \ {0} /\ Minute \in Nat \ {0}
  /\ Blacklist \in Nat /\ Blacklist >= Hour
  /\ GlobalMax \in Nat /\ Patience \in Nat

VARIABLES
  attempts,    \* per camera: ages of the attempts of the last hour
  barred,      \* per camera: age of the blacklisting, or Never
  searched,    \* cameras whose rediscovery was attempted (rediscoverAttempted)
  unhealthy,   \* per camera: age of its first unhealthy status, or Never
  global,      \* ages of the restarts of the last minute (globalRestarts)
  polled,      \* knownStatuses of the cameras a pass has not checked yet
  outside,     \* the camera whose restart or rediscovery runs without the mutex
  restarts     \* per camera: ages of its restarts of the last hour since it was last cleared

remedyVars == <<attempts, barred, searched, unhealthy, global, polled, outside, restarts>>
checkVars  == <<attempts, barred, searched, unhealthy, global, restarts>>

Never   == Blacklist + Patience + 1
Nowhere == [op |-> "none", cam |-> {}]

Older(ages, limit) == {a + 1 : a \in {b \in ages : b < limit}}

Ripens(age, limit) == IF age = Never \/ age >= limit THEN age ELSE age + 1

\* filterRecent keeps what is exactly as old as the window.
Tick ==
  /\ attempts' = [c \in Watched |-> Older(attempts[c], Hour)]
  /\ restarts' = [c \in Watched |-> Older(restarts[c], Hour - 1)]
  /\ barred' = [c \in Watched |-> Ripens(barred[c], Blacklist)]
  /\ unhealthy' = [c \in Watched |-> Ripens(unhealthy[c], Patience)]
  /\ LET Young(a) == a < Minute IN
     global' = [i \in 1 .. Len(SelectSeq(global, Young)) |-> SelectSeq(global, Young)[i] + 1]
  /\ UNCHANGED <<searched, polled, outside>>

\* pollStatuses; the pass works on the statuses it read.
Poll ==
  /\ polled = <<>> /\ outside = Nowhere
  /\ polled' \in [Watched -> {"recording", "error", "offline"}]
  /\ UNCHANGED <<checkVars, outside>>

Checked(c) == polled' = [d \in DOMAIN polled \ {c} |-> polled[d]]

CheckFrame(c) == Checked(c) /\ UNCHANGED outside

\* The loop that ranges over the map, in any order, one camera at a time.
IsNext(c) == c \in DOMAIN polled /\ outside = Nowhere

\* The camera's remediation is off.
PassOver(c) ==
  /\ IsNext(c)
  /\ CheckFrame(c) /\ UNCHANGED checkVars

SeeHealthy(c) ==
  /\ IsNext(c) /\ polled[c] = "recording"
  /\ unhealthy' = [unhealthy EXCEPT ![c] = Never]
  /\ CheckFrame(c) /\ UNCHANGED <<attempts, barred, searched, global, restarts>>

FirstUnhealthy(c) ==
  /\ IsNext(c) /\ polled[c] = "offline" /\ unhealthy[c] = Never
  /\ unhealthy' = [unhealthy EXCEPT ![c] = 0]
  /\ CheckFrame(c) /\ UNCHANGED <<attempts, barred, searched, global, restarts>>

\* Too soon for an offline camera is PassOver.
IsActionable(c) ==
  \/ polled[c] = "error"
  \/ polled[c] = "offline" /\ unhealthy[c] # Never /\ unhealthy[c] >= Patience

\* An error ends the wait of the status before it.
Waits(c) == IF polled[c] = "error" THEN Never ELSE unhealthy[c]

\* Mutant: the hours of a blacklisting are taken for minutes.
BarredForMinutes(c) == barred[c] < (Blacklist \div Hour) * Minute

Barred(c) == barred[c] < Blacklist

Expired(c) == barred[c] # Never /\ ~Barred(c)

\* The rediscovery runs once per blacklisting, without the mutex.
Rediscover(c) ==
  /\ IsNext(c) /\ IsActionable(c) /\ Barred(c) /\ c \notin searched
  /\ searched' = searched \cup {c}
  /\ unhealthy' = [unhealthy EXCEPT ![c] = Waits(c)]
  /\ outside' = [op |-> "search", cam |-> {c}]
  /\ Checked(c) /\ UNCHANGED <<attempts, barred, global, restarts>>

StayBarred(c) ==
  /\ IsNext(c) /\ IsActionable(c) /\ Barred(c) /\ c \in searched
  /\ unhealthy' = [unhealthy EXCEPT ![c] = Waits(c)]
  /\ CheckFrame(c) /\ UNCHANGED <<attempts, barred, searched, global, restarts>>

\* The attempts that count: all are forgotten when the blacklisting expires.
Counted(c) == IF Expired(c) THEN {} ELSE attempts[c]

Allowed(c) ==
  /\ Cardinality(Counted(c)) < MaxRestarts
  /\ \A a \in Counted(c) : a >= Cooldown
  /\ Len(global) < GlobalMax

Forgive(c) ==
  /\ barred' = [barred EXCEPT ![c] = IF Expired(c) THEN Never ELSE @]
  /\ searched' = IF Expired(c) THEN searched \ {c} ELSE searched

Refuse(c) ==
  /\ IsNext(c) /\ IsActionable(c) /\ ~Barred(c) /\ ~Allowed(c)
  /\ Forgive(c)
  /\ attempts' = [attempts EXCEPT ![c] = Counted(c)]
  /\ unhealthy' = [unhealthy EXCEPT ![c] = Waits(c)]
  /\ CheckFrame(c) /\ UNCHANGED <<global, restarts>>

UsedUp(c) == Cardinality(attempts'[c]) >= MaxRestarts

\* The attempt is noted, then the restart runs without the mutex.
Restart(c) ==
  /\ IsNext(c) /\ IsActionable(c) /\ ~Barred(c) /\ Allowed(c)
  /\ attempts' = [attempts EXCEPT ![c] = Counted(c) \cup {0}]
  /\ restarts' = [restarts EXCEPT ![c] = @ \cup {0}]
  /\ global' = Append(global, 0)
  /\ unhealthy' = [unhealthy EXCEPT ![c] = Never]
  /\ barred' = [barred EXCEPT ![c] = IF UsedUp(c) THEN 0 ELSE IF Expired(c) THEN Never ELSE @]
  /\ searched' = IF Expired(c) THEN searched \ {c} ELSE searched
  /\ outside' = [op |-> "restart", cam |-> {c}]
  /\ Checked(c)

RestartEnds ==
  /\ outside.op = "restart"
  /\ outside' = Nowhere
  /\ UNCHANGED <<checkVars, polled>>

Clear(cams) ==
  /\ barred' = [c \in Watched |-> IF c \in cams THEN Never ELSE barred[c]]
  /\ attempts' = [c \in Watched |-> IF c \in cams THEN {} ELSE attempts[c]]
  /\ searched' = searched \ cams
  /\ unhealthy' = [c \in Watched |-> IF c \in cams THEN Never ELSE unhealthy[c]]
  /\ restarts' = [c \in Watched |-> IF c \in cams THEN {} ELSE restarts[c]]
  /\ UNCHANGED <<global, polled>>

SearchFinds ==
  /\ outside.op = "search"
  /\ Clear(outside.cam)
  /\ outside' = Nowhere

SearchFails ==
  /\ outside.op = "search"
  /\ outside' = Nowhere
  /\ UNCHANGED <<checkVars, polled>>

\* ClearBlacklist, from a rediscovery that changed the camera's address; a
\* Check of that camera may be under way.
ClearBlacklist(c) ==
  /\ Clear({c})
  /\ UNCHANGED outside

-----------------------------------------------------------------------------
RemedyInit ==
  /\ attempts = [c \in Watched |-> {}] /\ restarts = [c \in Watched |-> {}]
  /\ barred = [c \in Watched |-> Never] /\ unhealthy = [c \in Watched |-> Never]
  /\ searched = {} /\ global = <<>> /\ polled = <<>> /\ outside = Nowhere

CheckStep(c) ==
  \/ PassOver(c) \/ SeeHealthy(c) \/ FirstUnhealthy(c) \/ Rediscover(c) \/ StayBarred(c)
  \/ Refuse(c) \/ Restart(c)

RemedyNext ==
  \/ Tick \/ Poll \/ RestartEnds \/ SearchFinds \/ SearchFails
  \/ \E c \in Watched : CheckStep(c) \/ ClearBlacklist(c)

RemedySpec == RemedyInit /\ [][RemedyNext]_remedyVars

-----------------------------------------------------------------------------
\* Within an hour a camera is restarted at most max_restarts_per_hour times,
\* though the end of a blacklisting forgets its attempts; only a rediscovery
\* lets it start over.
RestartsAreRare == \A c \in Watched : Cardinality(restarts[c]) <= MaxRestarts

=============================================================================
