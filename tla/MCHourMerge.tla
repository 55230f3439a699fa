---------------------------- MODULE MCHourMerge ----------------------------
(***************************************************************************)
(* Instances of HourMerge for TLC: segments are interchangeable.           *)
(***************************************************************************)
EXTENDS HourMerge, TLC

SegmentSymmetry == Permutations(Segments)

=============================================================================
