---------------------------- MODULE MCServices ----------------------------
(***************************************************************************)
(* Instances of four services that share no state.  In a behaviour one     *)
(* of them runs, chosen in the first state; the others keep their initial  *)
(* states.                                                                 *)
(***************************************************************************)
EXTENDS Transcode, RecordingsCache, RelayTask, Remediator, TLC

CONSTANTS a, b, k1, k2

VARIABLE part

servicesVars == <<part, tcVars, cacheVars, relayVars, remedyVars>>

Wish(k, enabled, always) == [key |-> k, enabled |-> enabled, always |-> always]

\* Two jobs that may share their work, one of which always runs.
OneAlways == (a :> {Wish(k1, TRUE, TRUE)}) @@
             (b :> {Wish(k1, TRUE, FALSE), Wish(k2, TRUE, FALSE)})

\* Two jobs with work of their own that always run.
BothAlways == (a :> {Wish(k1, TRUE, TRUE)}) @@ (b :> {Wish(k2, TRUE, TRUE)})

Init ==
  /\ part \in {"transcode", "cache", "relay", "remediator"}
  /\ TranscodeInit /\ CacheInit /\ RelayInit /\ RemedyInit

Next ==
  /\ UNCHANGED part
  /\ \/ /\ part = "transcode" /\ TranscodeNext
        /\ UNCHANGED <<cacheVars, relayVars, remedyVars>>
     \/ /\ part = "cache" /\ CacheNext
        /\ UNCHANGED <<tcVars, relayVars, remedyVars>>
     \/ /\ part = "relay" /\ RelayNext
        /\ UNCHANGED <<tcVars, cacheVars, remedyVars>>
     \/ /\ part = "remediator" /\ RemedyNext
        /\ UNCHANGED <<tcVars, cacheVars, relayVars>>

Spec == Init /\ [][Next]_servicesVars

=============================================================================
