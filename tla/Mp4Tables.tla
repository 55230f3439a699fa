----------------------------- MODULE Mp4Tables -----------------------------
(***************************************************************************)
(* The sample tables of an MP4 track: how internal/muxer writes them for a *)
(* segment, how internal/merge writes them for an hour file, and how       *)
(* internal/merge/parser.go turns them back into samples.                  *)
(*                                                                         *)
(* A sample is where it lies in the file, how long it is (in bytes and in  *)
(* time), and whether it is marked as a sync sample.  A chunk is a run of  *)
(* samples that follow each other in the file.  One unit stands for so     *)
(* many bytes that 32 bits count Limit of them.  Composition offsets are   *)
(* left out.                                                               *)
(***************************************************************************)
EXTENDS Naturals, Sequences, SequencesExt, FiniteSetsExt

CONSTANTS
    Limit,  \* the first size or offset that 32 bits do not hold
    None

Samples == [offset : Nat, size : Nat, delta : Nat, sync : BOOLEAN]

ASSUME LimitAssumption == Limit \in Nat
ASSUME NoneAssumption == None \notin Seq(Samples)

Total(nums) ==
    LET total[n \in 0..Len(nums)] == IF n = 0 THEN 0 ELSE total[n - 1] + nums[n]
    IN total[Len(nums)]

Sizes(samples)  == [i \in DOMAIN samples |-> samples[i].size]
SizeOf(samples) == Total(Sizes(samples))

-----------------------------------------------------------------------------
(* Writing *)

\* Mutant: the numbers begin with 0.
SyncNumbersFromZero(samples) ==
    LET nums == {i \in DOMAIN samples : samples[i].sync}
    IN IF nums = DOMAIN samples THEN {} ELSE {i - 1 : i \in nums}

\* stss: no numbers stand for a file without the box, in which every sample
\* counts as a sync sample.
SyncNumbers(samples) ==
    LET nums == {i \in DOMAIN samples : samples[i].sync}
    IN IF nums = DOMAIN samples THEN {} ELSE nums

\* What the tables of both writers have in common.
Tables(samples, stsc, stco) ==
    [stts |-> [i \in DOMAIN samples |-> [count |-> 1, delta |-> samples[i].delta]],
     stss |-> SyncNumbers(samples),
     stsz |-> Sizes(samples),
     stsc |-> stsc,
     stco |-> stco]

\* writeStbl: sound and video are interleaved, so that every sample is a chunk.
SegmentTables(samples) ==
    Tables(samples,
           IF samples = <<>> THEN <<>> ELSE <<[first |-> 1, per |-> 1]>>,
           [i \in DOMAIN samples |-> samples[i].offset])

\* Mutant: a chunk goes on whatever lies between its samples.
ChunksOverGaps(samples) == IF samples = <<>> THEN <<>> ELSE <<samples>>

\* A sample goes on with the chunk it lies behind, or begins one.
Continues(chunk, s) == s.offset = Last(chunk).offset + Last(chunk).size
AddSample(chunks, s) ==
    IF chunks # <<>> /\ Continues(Last(chunks), s)
    THEN Append(Front(chunks), Append(Last(chunks), s))
    ELSE Append(chunks, <<s>>)

\* chunksFromSamples
Chunks(samples) ==
    LET chunks[n \in 0..Len(samples)] ==
            IF n = 0 THEN <<>> ELSE AddSample(chunks[n - 1], samples[n])
    IN chunks[Len(samples)]

\* writeMergeStbl writes an entry for every chunk, and fails on an offset that
\* does not fit.
ChunksFit(chunks) == \A c \in DOMAIN chunks : chunks[c][1].offset < Limit

MergedTables(chunks) ==
    Tables(FlattenSeq(chunks),
           [c \in DOMAIN chunks |-> [first |-> c, per |-> Len(chunks[c])]],
           [c \in DOMAIN chunks |-> chunks[c][1].offset])

-----------------------------------------------------------------------------
(* Reading *)

\* The samples a player may seek to.
SeekPoints(t) == IF t.stss = {} THEN DOMAIN t.stsz ELSE t.stss

\* stts is run-length encoded.
Deltas(t) ==
    FlattenSeq([i \in DOMAIN t.stts |-> [j \in 1..t.stts[i].count |-> t.stts[i].delta]])

\* The last entry of stsc that does not begin behind the chunk says how many
\* samples it has.
PerChunk(t, c) ==
    LET begun == {e \in DOMAIN t.stsc : t.stsc[e].first <= c}
    IN IF begun = {} THEN 0 ELSE t.stsc[Max(begun)].per

\* Where chunk c's samples lie, after the samples placed before it.
Place(t, placed, c) ==
    LET Offset(k) == t.stco[c] + Total(SubSeq(t.stsz, Len(placed) + 1, Len(placed) + k - 1))
        n         == Min({PerChunk(t, c), Len(t.stsz) - Len(placed)})
    IN placed \o [k \in 1..n |-> [offset |-> Offset(k), size |-> t.stsz[Len(placed) + k]]]

Timed(placed, deltas) ==
    [i \in DOMAIN placed |->
        [offset |-> placed[i].offset, size |-> placed[i].size, sync |-> FALSE,
         delta |-> IF i \in DOMAIN deltas THEN deltas[i] ELSE 0]]

Placed(t) ==
    LET placed[c \in 0..Len(t.stco)] == IF c = 0 THEN <<>> ELSE Place(t, placed[c - 1], c)
    IN placed[Len(t.stco)]

\* buildSampleEntries: None if the tables contradict each other.
SampleEntries(t) ==
    LET Entries(placed) == IF Len(placed) # Len(t.stsz) THEN None
                           ELSE Timed(placed, Deltas(t))
    IN Entries(Placed(t))

=============================================================================
