--------------------------- MODULE MCGroupWriter ---------------------------
(***************************************************************************)
(* Instances of GroupWriter for TLC.  Sessions and groups are              *)
(* interchangeable: the safety runs use that, the liveness runs do not.    *)
(***************************************************************************)
EXTENDS GroupWriter, TLC

Identities == Permutations(Sessions) \cup Permutations(Groups)

\* What no action and no property reads any more: all of a session nothing
\* refers to, the switch of one that is not listed, and the stopped mark of one
\* that is neither subscribed nor about to be subscribed or notified.
SubscriberMatters(s) ==
    \/ \E g \in Groups : consumer[g] = s
    \/ \E a \in Actors : held[a] = s /\ pc[a] \in {"subscribe", "notify"}

LiveState ==
    <<groupVars, writerVars, actorVars, events,
      [s \in Sessions |->
          IF Collected(s) THEN None
          ELSE <<of[s], state[s],
                 IF session = s THEN writing[s] ELSE None,
                 IF SubscriberMatters(s) THEN stopped[s] ELSE None>>]>>

=============================================================================
