----------------------------- MODULE MCMp4File -----------------------------
(* A small instance of Mp4File: keyframes of two units and other frames of *)
(* one, the second of two with the same timestamp among them.              *)
EXTENDS Mp4File

SomeShapes == {[key |-> TRUE, size |-> 2, gap |-> 3], [key |-> FALSE, size |-> 1, gap |-> 0]}
OneShape   == [key |-> FALSE, size |-> 1, gap |-> 2]
SomeSounds == {"none", "aac", "g711"}

=============================================================================
