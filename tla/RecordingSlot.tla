--------------------------- MODULE RecordingSlot ---------------------------
(***************************************************************************)
(* What GroupWriter promises about the recording sessions of one camera:   *)
(* there is one slot; a session is started into the empty slot, leaves it  *)
(* while it still runs, and only then is told to stop.  A stopped session's*)
(* identity may be taken again by a new one.                               *)
(***************************************************************************)
CONSTANTS Sessions, None

VARIABLES slot, state

slotVars == <<slot, state>>

SlotInit ==
    /\ slot = None
    /\ state = [s \in Sessions |-> "free"]

Start(s) ==
    /\ slot = None
    /\ state[s] # "running"
    /\ slot' = s
    /\ state' = [state EXCEPT ![s] = "running"]

Leave ==
    /\ slot # None
    /\ slot' = None
    /\ UNCHANGED state

Stop(s) ==
    /\ slot # s
    /\ state[s] = "running"
    /\ state' = [state EXCEPT ![s] = "halted"]
    /\ UNCHANGED slot

SlotNext ==
    \/ Leave
    \/ \E s \in Sessions : Start(s) \/ Stop(s)

SlotSpec == SlotInit /\ [][SlotNext]_slotVars

=============================================================================
