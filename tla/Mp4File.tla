------------------------------ MODULE Mp4File ------------------------------
(***************************************************************************)
(* The files of a recording byte by byte: a muxer writes a segment, merges *)
(* copy segments into an hour file, and later segments are appended to it  *)
(* in place.                                                               *)
(*                                                                         *)
(* All these files are ftyp, mdat, moov.  In units, ftyp and the header of *)
(* mdat are one each (offsets 0 and 1); cells[i] is what lies at offset    *)
(* i + 1, a unit of a frame or the moov, which is one unit, too.  The size *)
(* field of mdat counts its header, so that a reader finds the moov at     *)
(* cells[size].                                                            *)
(*                                                                         *)
(* Files are taken to hold what was written to them before the process     *)
(* crashed.  Which rows and journals go with the files is HourMerge's.     *)
(***************************************************************************)
EXTENDS Mp4Tables, FiniteSets

CONSTANTS
    Configs,     \* codec and parameter sets of the video
    Sounds,      \* the sound of a segment: of "none", "aac" and "g711"
    Shapes,      \* frames of video: keyframes or not, their sizes and their distances
                 \* in decoding time, in ms
    SoundShape,  \* a frame of sound
    MaxFrames,   \* bound on the frames written
    MaxPending,  \* bound on the segments that wait for a merge
    MaxTorn,     \* bound on the frames of which only a part is written
    MaxCrashes   \* bound on the crashes in an append

ASSUME Mp4Assumption ==
    /\ Sounds \subseteq {"none", "aac", "g711"}
    /\ Shapes \cup {SoundShape} \subseteq [key : BOOLEAN, size : Nat \ {0}, gap : Nat]
    /\ {MaxFrames, MaxPending, MaxTorn, MaxCrashes} \subseteq Nat
    /\ None \notin [config : Configs, video : Seq(Samples), audio : Seq(Samples)]

VARIABLES
    muxer,    \* the open MP4Muxer, or None
    pending,  \* closed segments nobody has merged yet, in their order, with what the
              \* parser finds in them
    hour,     \* the hour file of each group of compatible segments that has one
    job,      \* the append in progress with its journal, or NoJob
    nextId,   \* the number of the next frame
    torn,     \* frames of which only a part was written
    crashes

vars == <<muxer, pending, hour, job, nextId, torn, crashes>>

NoJob == [step |-> "idle"]
Idle  == job.step = "idle"

\* mergeGroupKey: the parameter sets, and whether the parser finds sound.
Keys == [config : Configs, audio : BOOLEAN]

Data(frame) == [k \in 1..frame.size |-> [id |-> frame.id, part |-> k, key |-> frame.key]]
IsMoov(cell) == "video" \in DOMAIN cell

\* Both tracks of a list of segments, one after the other.
Concat(parts) == [video |-> FlattenSeq([i \in DOMAIN parts |-> parts[i].video]),
                  audio |-> FlattenSeq([i \in DOMAIN parts |-> parts[i].audio])]

Init ==
    /\ muxer = None
    /\ pending = <<>>
    /\ hour = <<>>
    /\ job = NoJob
    /\ nextId = 1
    /\ torn = 0
    /\ crashes = 0

-----------------------------------------------------------------------------
(* ParseSegment and ParseSegmentTables *)

\* Boxes that end where the file ends, the last of them a moov.
Structured(file) ==
    /\ file.size \in Nat \ {0}
    /\ DOMAIN file.cells = 1..file.size
    /\ IsMoov(file.cells[file.size])

Bytes(file, offset, size) == SubSeq(file.cells, offset - 1, offset + size - 2)

\* What the parser takes from the moov.
Info(moov, video, audio) ==
    IF None \in {video, audio} \/ video = <<>> THEN None
    ELSE [config |-> moov.config,
          video  |-> video,
          audio  |-> IF moov.sound = "aac" THEN audio ELSE <<>>]

\* SegmentInfo, or None for a file that cannot be parsed.
Parse(file) ==
    IF ~Structured(file) THEN None
    ELSE Info(file.cells[file.size], SampleEntries(file.cells[file.size].video),
              SampleEntries(file.cells[file.size].audio))

\* detectKeyframes looks at the NAL unit each sample begins with.
DetectKeyframes(segment) ==
    LET First(sample) == segment.file.cells[sample.offset - 1]
    IN [segment EXCEPT !.info.video =
           [i \in DOMAIN @ |-> [segment.info.video[i] EXCEPT !.sync =
                                   First(segment.info.video[i]).key]]]

Key(info) == [config |-> info.config, audio |-> info.audio # <<>>]

\* The elements of s whose numbers are in ids, in their order.
Only(s, ids) == FlattenSeq([i \in DOMAIN s |-> IF i \in ids THEN <<s[i]>> ELSE <<>>])

OfKey(key)   == {i \in DOMAIN pending : Key(pending[i].info) = key}
Sources(key) == Only(pending, OfKey(key))
Others(key)  == Only(pending, DOMAIN pending \ OfKey(key))

-----------------------------------------------------------------------------
(* MP4Muxer *)

\* The file is created with the first sample; its mdat has no size yet.
OpenSegment(c, s) ==
    /\ Idle
    /\ muxer = None
    /\ Len(pending) < MaxPending
    /\ nextId <= MaxFrames
    /\ muxer' = [config |-> c, sound |-> s, cells |-> <<>>, video |-> <<>>, audio |-> <<>>,
                 frames |-> [video |-> <<>>, audio |-> <<>>]]
    /\ UNCHANGED <<pending, hour, job, nextId, torn, crashes>>

\* What is added to the tables, and to the list of frames the parser is to find:
\* it understands the configuration of AAC only.
Recorded(m, track, frame, offset) ==
    LET sample == [offset |-> offset, size |-> frame.size, delta |-> frame.delta,
                   sync |-> frame.key]
    IN IF track = "video"
       THEN [m EXCEPT !.video = Append(@, sample), !.frames.video = Append(@, frame)]
       ELSE [m EXCEPT !.audio = Append(@, sample),
                      !.frames.audio = IF m.sound = "aac" THEN Append(@, frame) ELSE @]

\* appendSampleLocked at the end of the file.
Written(track, frame) ==
    LET m == [muxer EXCEPT !.cells = @ \o Data(frame)]
    IN Recorded(m, track, frame, Len(muxer.cells) + 2)

\* Mutant: frames of equal timestamps last for no time.
FrameAsTimed(shape) ==
    [id |-> nextId, key |-> shape.key, size |-> shape.size, delta |-> shape.gap]

\* A sample lasts for at least 1 ms.
Frame(shape) ==
    [id |-> nextId, key |-> shape.key, size |-> shape.size,
     delta |-> IF shape.gap = 0 THEN 1 ELSE shape.gap]

\* A segment begins with a keyframe (RecSession).
WriteTimedSample ==
    /\ Idle
    /\ muxer # None
    /\ nextId <= MaxFrames
    /\ \E shape \in Shapes :
          /\ muxer.video = <<>> => shape.key
          /\ muxer' = Written("video", Frame(shape))
    /\ nextId' = nextId + 1
    /\ UNCHANGED <<pending, hour, job, torn, crashes>>

WriteAudioSample ==
    /\ Idle
    /\ muxer # None
    /\ muxer.sound # "none"
    /\ muxer.video # <<>>
    /\ nextId <= MaxFrames
    /\ muxer' = Written("audio", Frame(SoundShape))
    /\ nextId' = nextId + 1
    /\ UNCHANGED <<pending, hour, job, torn, crashes>>

\* A write that fails leaves a part of the sample and no entry.
WriteFails ==
    /\ Idle
    /\ muxer # None
    /\ torn < MaxTorn
    /\ muxer' = [muxer EXCEPT !.cells = Append(@, [id |-> 0, part |-> 1, key |-> FALSE])]
    /\ torn' = torn + 1
    /\ UNCHANGED <<pending, hour, job, nextId, crashes>>

\* A track is there with or without samples.
SegmentMoov(m) ==
    [video |-> SegmentTables(m.video), audio |-> SegmentTables(m.audio),
     config |-> m.config, sound |-> m.sound]

\* The muxer writes mdat's size and the moov.
Closed(m) == [size |-> Len(m.cells) + 1, cells |-> Append(m.cells, SegmentMoov(m))]

Close ==
    /\ Idle
    /\ muxer # None
    /\ muxer.video # <<>>
    /\ Len(muxer.cells) + 1 < Limit
    /\ \E file \in {Closed(muxer)} :
          pending' = Append(pending, [file |-> file, info |-> Parse(file),
                                      frames |-> muxer.frames])
    /\ muxer' = None
    /\ UNCHANGED <<hour, job, nextId, torn, crashes>>

\* An mdat of 4 GiB cannot be closed, and the session removes the file.
CloseRefused ==
    /\ Idle
    /\ muxer # None
    /\ Len(muxer.cells) + 1 >= Limit
    /\ muxer' = None
    /\ UNCHANGED <<pending, hour, job, nextId, torn, crashes>>

-----------------------------------------------------------------------------
(* MergeMP4Segments *)

\* The samples of one track of a list of segments, with the data copied.
Copied(sources, track) ==
    LET Copy(file, sample) ==
            [size |-> sample.size, delta |-> sample.delta, sync |-> sample.sync,
             bytes |-> Bytes(file, sample.offset, sample.size)]
        Track(p) == [i \in DOMAIN p.info[track] |-> Copy(p.file, p.info[track][i])]
    IN FlattenSeq([i \in DOMAIN sources |-> Track(sources[i])])

Payload(copied) == FlattenSeq([i \in DOMAIN copied |-> copied[i].bytes])

\* The copies follow each other from an offset on.
LaidOut(copied, offset) ==
    [i \in DOMAIN copied |->
        [offset |-> offset + SizeOf(SubSeq(copied, 1, i - 1)),
         size |-> copied[i].size, delta |-> copied[i].delta, sync |-> copied[i].sync]]

MergedMoov(config, video, audio) ==
    [video |-> MergedTables(video), audio |-> MergedTables(audio), config |-> config,
     sound |-> IF audio = <<>> THEN "none" ELSE "aac"]

\* The size of mdat is cut to 32 bits without a check: only an offset that does
\* not fit makes the merge fail.
Assembled(bytes, moov) == [size |-> (1 + Len(bytes)) % Limit, cells |-> Append(bytes, moov)]

Merged(key, video, audio) ==
    LET Chunked(chunks, sound) ==
            IF ~ChunksFit(chunks \o sound) THEN None
            ELSE Assembled(Payload(video) \o Payload(audio),
                           MergedMoov(key.config, chunks, sound))
    IN Chunked(<<LaidOut(video, 2)>>,
               IF audio = <<>> THEN <<>> ELSE <<LaidOut(audio, 2 + Len(Payload(video)))>>)

MergeMP4Segments(key, sources) ==
    Merged(key, Copied(sources, "video"), Copied(sources, "audio"))

\* A group of two or more segments becomes an hour file.  One there was before
\* is not the bucket any more and leaves the model.
MergeGroup(key, sources) ==
    /\ Idle
    /\ Len(sources) >= 2
    /\ \E file \in {MergeMP4Segments(key, sources)} :
          /\ file # None
          /\ hour' = [k \in DOMAIN hour \cup {key} |->
                IF k # key THEN hour[k]
                ELSE [file   |-> file,
                      frames |-> Concat([i \in DOMAIN sources |-> sources[i].frames])]]
    /\ pending' = Others(key)
    /\ UNCHANGED <<muxer, job, nextId, torn, crashes>>

\* MergeHour, when no hour file of the group can be parsed.
MergeHour(key) ==
    /\ key \in DOMAIN hour => Parse(hour[key].file) = None
    /\ MergeGroup(key, Sources(key))

\* The periodic pass looks for keyframes.
MergePeriodically(key) ==
    MergeGroup(key, [i \in DOMAIN Sources(key) |-> DetectKeyframes(Sources(key)[i])])

-----------------------------------------------------------------------------
(* AppendMP4Samples and its journal *)

\* The bytes and the moov that go to where the old moov was.
ExtensionOf(key, info, video, audio, at) ==
    [bytes |-> Payload(video) \o Payload(audio),
     moov  |-> MergedMoov(key.config,
                   Chunks(info.video \o LaidOut(video, at)),
                   Chunks(info.audio \o LaidOut(audio, at + Len(Payload(video)))))]

Extension(key, base) ==
    ExtensionOf(key, Parse(base), Copied(Sources(key), "video"),
                Copied(Sources(key), "audio"), base.size + 1)

\* What lies at a position of the file.
WriteAt(cells, i, cell) ==
    [k \in DOMAIN cells \cup {i} |-> IF k = i THEN cell ELSE cells[k]]

Truncate(cells, n) == [k \in 1..n |-> cells[k]]

\* The hour file while it is worked on.
Grown     == hour[job.key].file
Put(size, cells) ==
    hour' = [hour EXCEPT ![job.key].file = [size |-> size, cells |-> cells]]
At(step)  == job.step = step

\* The journal is written unless the result would not fit.
BeginAppend(key) ==
    /\ Idle
    /\ key \in DOMAIN hour
    /\ Sources(key) # <<>>
    /\ Structured(hour[key].file)
    /\ \E extension \in {Extension(key, hour[key].file)} :
          /\ hour[key].file.size + Len(extension.bytes) < Limit
          /\ job' = [key |-> key, base |-> hour[key].file, extension |-> extension,
                     copied |-> 0, step |-> "copy"]
    /\ UNCHANGED <<muxer, pending, hour, nextId, torn, crashes>>

\* Mutant: the samples are written in front of the old moov.
CopySampleBefore ==
    /\ At("copy")
    /\ job.copied < Len(job.extension.bytes)
    /\ Put(Grown.size, WriteAt(Grown.cells, job.base.size + job.copied - 1,
                               job.extension.bytes[job.copied + 1]))
    /\ job' = [job EXCEPT !.copied = @ + 1]
    /\ UNCHANGED <<muxer, pending, nextId, torn, crashes>>

\* The new samples go over the old moov ...
CopySample ==
    /\ At("copy")
    /\ job.copied < Len(job.extension.bytes)
    /\ Put(Grown.size, WriteAt(Grown.cells, job.base.size + job.copied,
                               job.extension.bytes[job.copied + 1]))
    /\ job' = [job EXCEPT !.copied = @ + 1]
    /\ UNCHANGED <<muxer, pending, nextId, torn, crashes>>

\* ... the new moov behind them ...
WriteMoov ==
    /\ At("copy")
    /\ job.copied = Len(job.extension.bytes)
    /\ Put(Grown.size, WriteAt(Grown.cells, job.base.size + job.copied, job.extension.moov))
    /\ job' = [job EXCEPT !.step = "patch"]
    /\ UNCHANGED <<muxer, pending, nextId, torn, crashes>>

\* ... and mdat's size last, with the file cut to its new end.
PatchSize ==
    /\ At("patch")
    /\ Put(job.base.size + job.copied, Truncate(Grown.cells, job.base.size + job.copied))
    /\ job' = [job EXCEPT !.step = "commit"]
    /\ UNCHANGED <<muxer, pending, nextId, torn, crashes>>

\* The rows of the absorbed segments are gone.
Commit ==
    /\ At("commit")
    /\ hour' = [hour EXCEPT ![job.key].frames =
          Concat(<<@>> \o [i \in DOMAIN Sources(job.key) |-> Sources(job.key)[i].frames])]
    /\ pending' = Others(job.key)
    /\ job' = NoJob
    /\ UNCHANGED <<muxer, nextId, torn, crashes>>

\* A write or the transaction fails, or the process crashes; also while the file
\* is being restored.
Interrupt ==
    /\ ~Idle
    /\ crashes < MaxCrashes
    /\ crashes' = crashes + 1
    /\ job' = [job EXCEPT !.step = "undo"]
    /\ UNCHANGED <<muxer, pending, hour, nextId, torn>>

\* Mutant: the old moov is written to where the file ends.
RestoreMoovAtEnd ==
    /\ At("undo")
    /\ Put(Grown.size, WriteAt(Grown.cells, Len(Grown.cells) + 1,
                               job.base.cells[job.base.size]))
    /\ job' = [job EXCEPT !.step = "resize"]
    /\ UNCHANGED <<muxer, pending, nextId, torn, crashes>>

\* restore and restoreJournalFile: the file is cut where the moov was, and gets
\* its old moov ...
RestoreMoov ==
    /\ At("undo")
    /\ Put(Grown.size, WriteAt(Truncate(Grown.cells, job.base.size - 1), job.base.size,
                               job.base.cells[job.base.size]))
    /\ job' = [job EXCEPT !.step = "resize"]
    /\ UNCHANGED <<muxer, pending, nextId, torn, crashes>>

\* ... and its old size.
RestoreSize ==
    /\ At("resize")
    /\ Put(job.base.size, Grown.cells)
    /\ job' = NoJob
    /\ UNCHANGED <<muxer, pending, nextId, torn, crashes>>

-----------------------------------------------------------------------------
Next ==
    \/ \E c \in Configs, s \in Sounds : OpenSegment(c, s)
    \/ WriteTimedSample \/ WriteAudioSample \/ WriteFails
    \/ Close \/ CloseRefused
    \/ \E key \in Keys : MergeHour(key) \/ MergePeriodically(key) \/ BeginAppend(key)
    \/ CopySample \/ WriteMoov \/ PatchSize \/ Commit
    \/ Interrupt \/ RestoreMoov \/ RestoreSize

Spec == Init /\ [][Next]_vars

-----------------------------------------------------------------------------
(* Properties *)

Frames == [id : 1..MaxFrames, key : BOOLEAN, size : Nat \ {0}, delta : Nat \ {0}]
Footage == [video : Seq(Frames), audio : Seq(Frames)]
Moov(file) == file.cells[file.size]

\* The types, and that the file an append works on is there.
TypeOK ==
    /\ muxer # None => muxer.frames \in Footage
    /\ \A i \in DOMAIN pending : pending[i].frames \in Footage /\ Structured(pending[i].file)
    /\ DOMAIN hour \subseteq Keys
    /\ \A k \in DOMAIN hour : hour[k].frames \in Footage
    /\ ~Idle =>
          /\ job.key \in DOMAIN hour
          /\ job.step \in {"copy", "patch", "commit", "undo", "resize"}
          /\ job.copied \in 0..Len(job.extension.bytes)
    /\ nextId \in 1..MaxFrames + 1
    /\ torn \in 0..MaxTorn
    /\ crashes \in 0..MaxCrashes

\* A track's samples are the frames that were written, in their order: the same
\* data is found for each, and it lasts as long.
Shows(file, samples, frames) ==
    /\ Len(samples) = Len(frames)
    /\ \A i \in DOMAIN frames :
          /\ Bytes(file, samples[i].offset, samples[i].size) = Data(frames[i])
          /\ samples[i].delta = frames[i].delta

Holds(file, info, frames) ==
    info # None /\ Shows(file, info.video, frames.video) /\ Shows(file, info.audio, frames.audio)

\* What the muxer has written, and what any number of merges and appends, undone
\* ones among them, have made of it, reads back frame by frame.  A merge of
\* 4 GiB or more is the exception.
ReadsBack ==
    /\ \A i \in DOMAIN pending : Holds(pending[i].file, pending[i].info, pending[i].frames)
    /\ \A k \in DOMAIN hour :
          LET frames == hour[k].frames IN
          /\ Idle \/ job.key # k
          /\ 1 + SizeOf(frames.video) + SizeOf(frames.audio) < Limit
          => Holds(hour[k].file, Parse(hour[k].file), frames)

\* An append never touches what lies in front of the old moov, nor does its
\* restoration: whenever it is interrupted, the journal's moov and size give
\* back the file there was.
BaseIntact ==
    ~Idle =>
        /\ Structured(job.base)
        /\ \A i \in 1..job.base.size - 1 :
              /\ i \in DOMAIN hour[job.key].file.cells
              /\ hour[job.key].file.cells[i] = job.base.cells[i]

SameBytes(f, g) ==
    /\ f.size = g.size
    /\ DOMAIN f.cells = DOMAIN g.cells
    /\ \A i \in DOMAIN g.cells : f.cells[i] = g.cells[i]

\* An append leaves a file that a further append can extend; one that was
\* undone, after any number of interruptions, leaves the file there was.
AppendsGoOn ==
    [][/\ Commit \/ RestoreSize => Structured(hour'[job.key].file)
       /\ RestoreSize => SameBytes(hour'[job.key].file, job.base)]_vars

\* A player that opens a segment seeks to its keyframes and nowhere else.
SegmentsSeek ==
    \A i \in DOMAIN pending :
        SeekPoints(Moov(pending[i].file).video)
            = {n \in DOMAIN pending[i].frames.video : pending[i].frames.video[n].key}

=============================================================================
