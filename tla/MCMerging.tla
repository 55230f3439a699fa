----------------------------- MODULE MCMerging -----------------------------
(***************************************************************************)
(* What starts a rolling merge and what a merge does: the coordinator of   *)
(* RollingMerge and the passes of HourMerge.  A function of the            *)
(* coordinator calls MergeHour and keeps nothing of its outcome, and       *)
(* HourMerge may start a merge at any moment, so that the two are run side *)
(* by side, the part that moves chosen in the first state.                 *)
(***************************************************************************)
EXTENDS HourMerge

CONSTANTS Cameras, Capacity, LastHour, MaxSegments

ASSUME RollingAssumption ==
  /\ Capacity \in Nat \ {0} /\ LastHour \in Nat \ {0} /\ MaxSegments \in Nat

VARIABLES
  part,
  session, segments, holder, listed, closed, channel, coordinator,
  pending, mapped, loose, fired, merging, owed

Rolling == INSTANCE RollingMerge

RollingVars == <<session, segments, holder, listed, closed, channel, coordinator,
                 pending, mapped, loose, fired, merging, owed>>
mergingVars == <<part, vars, RollingVars>>

InitBoth == part \in {"rolling", "hour"} /\ Init /\ Rolling!RollingInit

RollingStep(A) == part = "rolling" /\ A /\ UNCHANGED <<part, vars>>

NextBoth ==
  \/ RollingStep(Rolling!RollingNext)
  \/ part = "hour" /\ Next /\ UNCHANGED <<part, RollingVars>>

Fairness ==
  /\ WF_mergingVars(RollingStep(Rolling!Receive))
  /\ \A c \in Cameras : WF_mergingVars(RollingStep(Rolling!TimerStep(c)))

SpecBoth == InitBoth /\ [][NextBoth]_mergingVars /\ Fairness

\* The hour of the newest event that reached the coordinator's channel is merged
\* after it, for every camera and unless the coordinator stops: by the debounce's
\* pending hour, or by a segment of a later hour.  (RollingMergeCoordinator)
LatestHourMerged == Rolling!LatestHourMerged

=============================================================================
