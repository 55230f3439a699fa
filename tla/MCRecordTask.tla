-------------------------- MODULE MCRecordTask --------------------------
(***************************************************************************)
(* Instances of RecordTask for TLC.                                        *)
(***************************************************************************)
EXTENDS RecordTask, TLC

\* A stream that is recorded, and one that is recorded on events.
MixedPlans == {"record", "event"}
=============================================================================
