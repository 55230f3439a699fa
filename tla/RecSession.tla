---------------------------- MODULE RecSession ----------------------------
(***************************************************************************)
(* The media path of one recorder.recSession: the group's goroutine puts   *)
(* each message of the stream on a bounded queue (recSubscriber.OnMsg), and*)
(* the session's loop turns them into segments.  The write switch, Rotate  *)
(* and the loss of messages reach the loop through atomics that it reads at*)
(* different moments of handling a message.                                *)
(*                                                                         *)
(* A message is named by its position in the stream.  Audio is left out, a *)
(* frame is one NAL unit, and the parameter sets are one value, cfg.       *)
(***************************************************************************)
EXTENDS Naturals, Sequences, SequencesExt

CONSTANTS
    QueueSize,    \* groupQueueSize
    GOPLimit,     \* groupGOPLimit
    Configs,      \* parameter sets the encoder may use
    Faults,       \* what may fail when a segment is written
    MaxMessages,  \* bound on the length of the stream
    MaxFlips,     \* bound on the uses of the write switch and of Rotate
    MaxFaults,    \* bound on the failures
    None

\* CreateSegment, WriteTimedSample, MP4Muxer.Close, the storage's
\* CloseSegment and InsertRecordingWithRetry.
AllFaults == {"create", "write", "close", "rename", "insert"}

ASSUME SessionAssumption ==
    /\ QueueSize \in Nat \ {0}
    /\ GOPLimit \in Nat \ {0}
    /\ None \notin Configs
    /\ Faults \subseteq AllFaults
    /\ MaxMessages \in Nat
    /\ MaxFlips \in Nat
    /\ MaxFaults \in Nat

VARIABLES
    stream,       \* the messages the group has sent so far
    queue,        \* recSession.queue
    overflowing,  \* OnMsg has dropped a message and not yet set mediaGap
    mediaGap, writing, rotate,  \* the atomics
    stop,         \* recSession.stop is closed
    pc,           \* where the loop is
    draining,     \* the loop has seen stop
    msg,          \* the message it handles, 0 for none
    awaitKeyframe, flushed, videoSeq, gop,  \* fields of recSession
    sps,          \* codec, sps, pps and vps
    todo,         \* the messages apply is still to be called with
    seg,          \* mux, frames and pendingCut of the open segment
    recordings,   \* the segments whose file has been published
    dropped,      \* messages lost at the full queue
    ignored,      \* messages that came after the stop and were let go
    unwritten,    \* frames lost by WriteTimedSample
    wanted,       \* frames that were handled with the switch on
    haltedAt,     \* length of the stream when stop was closed
    flips,        \* uses of the switch and of Rotate
    interrupted,  \* whether the switch was turned off, or Rotate used
    faults        \* failures so far

sharedVars  == <<queue, overflowing, mediaGap, writing, rotate, stop>>
loopVars    == <<pc, draining, msg, todo>>
cacheVars   == <<awaitKeyframe, flushed, videoSeq, gop>>
segmentVars == <<sps, seg, recordings>>
lossVars    == <<dropped, ignored, unwritten>>
historyVars == <<stream, lossVars, wanted, haltedAt, flips, interrupted, faults>>
vars == <<sharedVars, loopVars, cacheVars, segmentVars, historyVars>>

Messages == [type : {"header", "key", "inter"}, cfg : Configs]
Segments == [cfg : Configs, frames : Seq(Nat), cut : BOOLEAN]

ASSUME NoneAssumption == None \notin Segments

IsHeader(n) == stream[n].type = "header"
IsKey(n)    == stream[n].type = "key"
IsFrame(n)  == ~IsHeader(n)

----------------------------------------------------------------------------
(* The stream.  lalmax replays the sequence header and the GOP it holds to *)
(* a new subscriber, so the header comes first; the GOP may lack its       *)
(* beginning.  A header is followed by a keyframe.                         *)

Follows(m) ==
    IF stream = <<>> THEN m.type = "header"
    ELSE LET last == Last(stream) IN
         /\ m.type # "header" => m.cfg = last.cfg
         /\ m.type = "inter" => last.type # "header" \/ Len(stream) = 1
         /\ m.type = "header" => last.type # "header"

Init ==
    /\ stream = <<>> /\ queue = <<>> /\ overflowing = FALSE
    /\ mediaGap = FALSE /\ rotate = FALSE /\ stop = FALSE
    /\ writing \in BOOLEAN
    /\ pc = "wait" /\ draining = FALSE /\ msg = 0 /\ todo = <<>>
    /\ awaitKeyframe = FALSE /\ flushed = FALSE /\ videoSeq = 0 /\ gop = <<>>
    /\ sps = None /\ seg = None /\ recordings = <<>>
    /\ dropped = {} /\ ignored = {} /\ unwritten = {} /\ wanted = {} /\ haltedAt = 0
    /\ flips = 0 /\ interrupted = FALSE /\ faults = 0

----------------------------------------------------------------------------
(* The group's goroutine: recSubscriber.OnMsg.  Of the cases of its select *)
(* that are ready Go takes any, so it may still fill a stopped session.    *)

Arrive(m) ==
    /\ ~overflowing /\ Len(stream) < MaxMessages /\ Follows(m)
    /\ stream' = Append(stream, m)

Enqueue ==
    \E m \in Messages :
        /\ Arrive(m)
        /\ Len(queue) < QueueSize
        /\ queue' = Append(queue, Len(stream'))
        /\ UNCHANGED <<overflowing, mediaGap, writing, rotate, stop, loopVars, cacheVars,
                       segmentVars, lossVars, wanted, haltedAt, flips, interrupted, faults>>

IgnoreWhenStopped ==
    \E m \in Messages :
        /\ stop
        /\ Arrive(m)
        /\ ignored' = ignored \cup {Len(stream')}
        /\ UNCHANGED <<sharedVars, loopVars, cacheVars, segmentVars, dropped, unwritten,
                       wanted, haltedAt, flips, interrupted, faults>>

\* The message is lost; mediaGap is set a step later.
Overflow ==
    \E m \in Messages :
        /\ ~stop /\ Len(queue) = QueueSize
        /\ Arrive(m)
        /\ dropped' = dropped \cup {Len(stream')}
        /\ overflowing' = TRUE
        /\ UNCHANGED <<queue, mediaGap, writing, rotate, stop, loopVars, cacheVars,
                       segmentVars, ignored, unwritten, wanted, haltedAt, flips,
                       interrupted, faults>>

MarkGap ==
    /\ overflowing
    /\ overflowing' = FALSE
    /\ mediaGap' = TRUE
    /\ UNCHANGED <<queue, writing, rotate, stop, loopVars, cacheVars, segmentVars,
                   historyVars>>

----------------------------------------------------------------------------
(* The callers of the GroupWriter.                                         *)

SetWriting ==
    /\ flips < MaxFlips
    /\ flips' = flips + 1
    /\ interrupted' = (interrupted \/ writing)
    /\ writing' = ~writing
    /\ UNCHANGED <<queue, overflowing, mediaGap, rotate, stop, loopVars, cacheVars,
                   segmentVars, stream, lossVars, wanted, haltedAt, faults>>

Rotate ==
    /\ flips < MaxFlips
    /\ flips' = flips + 1
    /\ interrupted' = TRUE
    /\ rotate' = TRUE
    /\ UNCHANGED <<queue, overflowing, mediaGap, writing, stop, loopVars, cacheVars,
                   segmentVars, stream, lossVars, wanted, haltedAt, faults>>

Halt ==
    /\ ~stop
    /\ stop' = TRUE
    /\ haltedAt' = Len(stream)
    /\ UNCHANGED <<queue, overflowing, mediaGap, writing, rotate, loopVars, cacheVars,
                   segmentVars, stream, lossVars, wanted, flips, interrupted, faults>>

----------------------------------------------------------------------------
(* The segment.  What fails is chosen with each of the loop's steps.       *)

Outcome(disk) ==
    \/ disk = "ok" /\ UNCHANGED faults
    \/ /\ disk \in Faults /\ faults < MaxFaults
       /\ faults' = faults + 1

\* closeSegment: what has been published once it returns.  A file that cannot
\* be finalised, or holds no frame, is removed; one that cannot be renamed
\* stays behind; a row that cannot be inserted is given up.
Published(disk) ==
    IF seg = None \/ disk \in {"close", "rename"} THEN recordings
    ELSE IF seg.frames = <<>> THEN recordings
    ELSE Append(recordings, [cfg |-> seg.cfg, frames |-> seg.frames, listed |-> disk # "insert"])

CloseSegment(disk) ==
    /\ disk # "ok" => seg # None /\ disk \in {"close", "rename", "insert"}
    /\ Outcome(disk)
    /\ recordings' = Published(disk)
    /\ seg' = None

\* openSegment
Opened(disk) ==
    IF disk = "create" THEN None ELSE [cfg |-> sps, frames |-> <<>>, cut |-> FALSE]

\* Mutant: the segment goes on under other parameter sets.
ApplyHeaderGoingOn(n) ==
    \E disk \in Faults \cup {"ok"} :
        /\ disk = "ok" /\ UNCHANGED <<seg, recordings, faults>>
        /\ sps' = stream[n].cfg
        /\ UNCHANGED unwritten

\* apply on a sequence header: other parameter sets need another file.
ApplyHeader(n) ==
    \E disk \in Faults \cup {"ok"} :
        /\ IF sps \in {None, stream[n].cfg}
           THEN disk = "ok" /\ UNCHANGED <<seg, recordings, faults>>
           ELSE CloseSegment(disk)
        /\ sps' = stream[n].cfg
        /\ UNCHANGED unwritten

\* Mutant: any frame opens a segment.
ApplyFrameAnywhere(n) ==
    \E disk \in Faults \cup {"ok"}, due \in BOOLEAN :
        LET cutting == seg # None /\ IsKey(n) /\ seg.cut
            opening == sps # None /\ (seg = None \/ cutting)
            file == IF opening THEN Opened(disk) ELSE IF cutting THEN None ELSE seg
        IN  /\ disk = "create" => opening
            /\ disk = "write" => file # None
            /\ disk \in {"close", "rename", "insert"} => cutting
            /\ Outcome(disk)
            /\ recordings' = IF cutting THEN Published(disk) ELSE recordings
            /\ seg' = IF file = None THEN None
                      ELSE [file EXCEPT !.frames = IF disk = "write" THEN @ ELSE Append(@, n),
                                        !.cut = @ \/ due]
            /\ unwritten' = IF file # None /\ disk = "write" THEN unwritten \cup {n}
                            ELSE unwritten
            /\ UNCHANGED sps

\* apply on a frame: a due cut is made at a keyframe, and only a keyframe opens
\* a segment.  segDur may have passed after any frame.
ApplyFrame(n) ==
    \E disk \in Faults \cup {"ok"}, due \in BOOLEAN :
        LET cutting == seg # None /\ IsKey(n) /\ seg.cut
            opening == IsKey(n) /\ sps # None /\ (seg = None \/ cutting)
            file == IF opening THEN Opened(disk) ELSE IF cutting THEN None ELSE seg
        IN  /\ disk = "create" => opening
            /\ disk = "write" => file # None
            /\ disk \in {"close", "rename", "insert"} => cutting
            /\ Outcome(disk)
            /\ recordings' = IF cutting THEN Published(disk) ELSE recordings
            /\ seg' = IF file = None THEN None
                      ELSE [file EXCEPT !.frames = IF disk = "write" THEN @ ELSE Append(@, n),
                                        !.cut = @ \/ due]
            /\ unwritten' = IF file # None /\ disk = "write" THEN unwritten \cup {n}
                            ELSE unwritten
            /\ UNCHANGED sps

----------------------------------------------------------------------------
(* The session's loop.                                                     *)

Take ==
    /\ pc = "wait" /\ queue # <<>>
    /\ msg' = Head(queue)
    /\ queue' = Tail(queue)
    /\ pc' = "resync"
    /\ UNCHANGED <<overflowing, mediaGap, writing, rotate, stop, draining, todo, cacheVars,
                   segmentVars, historyVars>>

SeeStop ==
    /\ pc = "wait" /\ stop /\ ~draining
    /\ draining' = TRUE
    /\ UNCHANGED <<sharedVars, pc, msg, todo, cacheVars, segmentVars, historyVars>>

\* Mutant: the loop ends without draining the queue.
FinishAtOnce ==
    /\ pc = "wait" /\ draining
    /\ \E disk \in Faults \cup {"ok"} : CloseSegment(disk)
    /\ pc' = "done"
    /\ UNCHANGED <<sharedVars, draining, msg, todo, cacheVars, sps, stream, lossVars,
                   wanted, haltedAt, flips, interrupted>>

\* The end of drain, and the closeSegment after it.
Finish ==
    /\ pc = "wait" /\ draining /\ queue = <<>>
    /\ \E disk \in Faults \cup {"ok"} : CloseSegment(disk)
    /\ pc' = "done"
    /\ UNCHANGED <<sharedVars, draining, msg, todo, cacheVars, sps, stream, lossVars,
                   wanted, haltedAt, flips, interrupted>>

\* Mutant: after a gap the held GOP is kept and replayed.
ResyncReplaying ==
    /\ pc = "resync"
    /\ mediaGap' = FALSE
    /\ IF mediaGap
       THEN /\ \E disk \in Faults \cup {"ok"} : CloseSegment(disk)
            /\ gop' = gop
            /\ flushed' = FALSE
       ELSE UNCHANGED <<faults, recordings, seg, gop, flushed>>
    /\ LET awaiting == (mediaGap \/ awaitKeyframe) /\ ~IsKey(msg) IN
       /\ awaitKeyframe' = awaiting
       /\ pc' = IF ~awaiting THEN "rotate" ELSE IF IsHeader(msg) THEN "apply" ELSE "wait"
       /\ todo' = IF awaiting /\ IsHeader(msg) THEN <<msg>> ELSE <<>>
       /\ msg' = IF awaiting /\ IsFrame(msg) THEN 0 ELSE msg
    /\ UNCHANGED <<queue, overflowing, writing, rotate, stop, draining, videoSeq, sps,
                   stream, lossVars, wanted, haltedAt, flips, interrupted>>

\* handle, up to the test of awaitKeyframe: after a gap the segment ends, and
\* the session waits for a keyframe.  The headers that come first are applied.
Resync ==
    /\ pc = "resync"
    /\ mediaGap' = FALSE
    /\ IF mediaGap
       THEN /\ \E disk \in Faults \cup {"ok"} : CloseSegment(disk)
            /\ gop' = <<>>
            /\ flushed' = TRUE
       ELSE UNCHANGED <<faults, recordings, seg, gop, flushed>>
    /\ LET awaiting == (mediaGap \/ awaitKeyframe) /\ ~IsKey(msg) IN
       /\ awaitKeyframe' = awaiting
       /\ pc' = IF ~awaiting THEN "rotate" ELSE IF IsHeader(msg) THEN "apply" ELSE "wait"
       /\ todo' = IF awaiting /\ IsHeader(msg) THEN <<msg>> ELSE <<>>
       /\ msg' = IF awaiting /\ IsFrame(msg) THEN 0 ELSE msg
    /\ UNCHANGED <<queue, overflowing, writing, rotate, stop, draining, videoSeq, sps,
                   stream, lossVars, wanted, haltedAt, flips, interrupted>>

ObeyRotate ==
    /\ pc = "rotate"
    /\ rotate' = FALSE
    /\ IF rotate
       THEN (\E disk \in Faults \cup {"ok"} : CloseSegment(disk)) /\ flushed' = FALSE
       ELSE UNCHANGED <<faults, recordings, seg, flushed>>
    /\ pc' = "switch"
    /\ UNCHANGED <<queue, overflowing, mediaGap, writing, stop, draining, msg, todo,
                   awaitKeyframe, videoSeq, gop, sps, stream, lossVars, wanted, haltedAt,
                   flips, interrupted>>

\* Mutant: the held GOP grows without limit.
RememberAll(n) ==
    IF IsHeader(n) THEN videoSeq' = n /\ UNCHANGED gop
    ELSE LET longer == Append(gop, n) IN
         /\ gop' = IF IsKey(n) THEN <<n>>
                   ELSE longer
         /\ UNCHANGED videoSeq

\* remember
Remember(n) ==
    IF IsHeader(n) THEN videoSeq' = n /\ UNCHANGED gop
    ELSE LET longer == Append(gop, n) IN
         /\ gop' = IF IsKey(n) THEN <<n>>
                   ELSE IF Len(longer) > GOPLimit THEN Tail(longer) ELSE longer
         /\ UNCHANGED videoSeq

\* Mutant: what comes while recording is off is not remembered.
SkipForgetting ==
    /\ pc = "switch" /\ ~writing
    /\ flushed' = FALSE
    /\ UNCHANGED <<videoSeq, gop>>
    /\ \E disk \in Faults \cup {"ok"} : CloseSegment(disk)
    /\ pc' = "wait" /\ msg' = 0
    /\ UNCHANGED <<sharedVars, draining, todo, awaitKeyframe, sps, stream, lossVars,
                   wanted, haltedAt, flips, interrupted>>

SkipWhenOff ==
    /\ pc = "switch" /\ ~writing
    /\ flushed' = FALSE
    /\ Remember(msg)
    /\ \E disk \in Faults \cup {"ok"} : CloseSegment(disk)
    /\ pc' = "wait" /\ msg' = 0
    /\ UNCHANGED <<sharedVars, draining, todo, awaitKeyframe, sps, stream, lossVars,
                   wanted, haltedAt, flips, interrupted>>

\* flushHeld comes before the message itself.
Held == (IF videoSeq = 0 THEN <<>> ELSE <<videoSeq>>) \o gop

PrepareWhenOn ==
    /\ pc = "switch" /\ writing
    /\ todo' = IF flushed THEN <<msg>> ELSE Append(Held, msg)
    /\ flushed' = TRUE
    /\ wanted' = IF IsFrame(msg) THEN wanted \cup {msg} ELSE wanted
    /\ pc' = "apply"
    /\ UNCHANGED <<sharedVars, draining, msg, awaitKeyframe, videoSeq, gop, segmentVars,
                   stream, lossVars, haltedAt, flips, interrupted, faults>>

\* apply, and remember after the last one.
Apply ==
    /\ pc = "apply"
    /\ IF IsHeader(Head(todo)) THEN ApplyHeader(Head(todo)) ELSE ApplyFrame(Head(todo))
    /\ todo' = Tail(todo)
    /\ IF Len(todo) = 1
       THEN Remember(msg) /\ pc' = "wait" /\ msg' = 0
       ELSE UNCHANGED <<videoSeq, gop, pc, msg>>
    /\ UNCHANGED <<sharedVars, draining, awaitKeyframe, flushed, stream, dropped,
                   ignored, wanted, haltedAt, flips, interrupted>>

Loop ==
    \/ Take
    \/ SeeStop
    \/ Finish
    \/ Resync
    \/ ObeyRotate
    \/ SkipWhenOff
    \/ PrepareWhenOn
    \/ Apply

Next ==
    \/ Enqueue
    \/ IgnoreWhenStopped
    \/ Overflow
    \/ MarkGap
    \/ SetWriting
    \/ Rotate
    \/ Halt
    \/ Loop

Spec == Init /\ [][Next]_vars

----------------------------------------------------------------------------
(* Properties.                                                             *)

Positions == 1..Len(stream)

NotQueued == dropped \cup ignored
Lost      == NotQueued \cup unwritten

\* The types; the queue, the held GOP and the messages to apply are parts of
\* the stream in its order, and the bounds of the code are kept.
TypeOK ==
    /\ stream \in Seq(Messages) /\ Len(stream) <= MaxMessages
    /\ queue \in Seq(Positions) /\ Len(queue) <= QueueSize
    /\ gop \in Seq(Positions) /\ Len(gop) <= GOPLimit
    /\ todo \in Seq(Positions) /\ (pc = "apply" <=> todo # <<>>)
    /\ msg \in Positions \cup {0} /\ videoSeq \in Positions \cup {0}
    /\ pc \in {"wait", "resync", "rotate", "switch", "apply", "done"}
    /\ pc \notin {"wait", "done"} => msg # 0
    /\ {overflowing, mediaGap, writing, rotate, stop, draining, awaitKeyframe, flushed,
        interrupted} \subseteq BOOLEAN
    /\ draining => stop
    /\ sps \in Configs \cup {None}
    /\ seg # None => seg \in Segments
    /\ recordings \in Seq([cfg : Configs, frames : Seq(Positions), listed : BOOLEAN])
    /\ {dropped, ignored, unwritten, wanted} \subseteq SUBSET Positions
    /\ haltedAt \in 0..Len(stream) /\ flips \in 0..MaxFlips /\ faults \in 0..MaxFaults

\* The footage on disk: the published segments and the open one.
Footage ==
    {[cfg |-> r.cfg, frames |-> r.frames] : r \in ToSet(recordings)}
    \cup (IF seg = None THEN {} ELSE {[cfg |-> seg.cfg, frames |-> seg.frames]})

\* A frame of a segment that is not a keyframe comes right after the frame it
\* refers to, unless that one was lost; a segment starts at a keyframe, unless
\* writing that one failed.  (apply opens a segment at a keyframe only, cuts at
\* keyframes, and flushHeld puts the held GOP before the message at hand.)
SegmentsPlay ==
    \A s \in Footage : \A i \in DOMAIN s.frames :
        LET n == s.frames[i] IN
        \/ IsKey(n)
        \/ i > 1 /\ s.frames[i - 1] = n - 1
        \/ n - 1 \in Lost /\ (i = 1 => unwritten # {})

\* A segment holds only frames coded with the parameter sets of its track, as
\* long as no message is lost and neither the switch nor Rotate is used.
\* (apply closes the segment when a header brings other parameter sets.)
FramesMatchTrack ==
    flips = 0 /\ NotQueued = {} =>
        \A s \in Footage : \A i \in DOMAIN s.frames : stream[s.frames[i]].cfg = s.cfg

\* As long as nothing is lost at the queue or fails, every frame handled with the
\* switch on is recorded, with cuts, rotations, headers and the switch in any
\* order, unless more than GOPLimit messages have come since its keyframe.
KeepsFootage ==
    NotQueued = {} /\ faults = 0 =>
        \A n \in wanted :
            (\E k \in 1..n : IsKey(k) /\ n - k <= GOPLimit) =>
                \/ n \in ToSet(todo)
                \/ \E s \in Footage : n \in ToSet(s.frames)

\* No frame is recorded twice as long as recording is not interrupted: neither a
\* cut, nor a lost message, nor a header makes the session replay its held GOP.
FootageOnce ==
    ~interrupted =>
        /\ \A s \in Footage : IsInjective(s.frames)
        /\ \A i, j \in DOMAIN recordings :
              i # j => ToSet(recordings[i].frames) \cap ToSet(recordings[j].frames) = {}
        /\ seg # None => \A i \in DOMAIN recordings :
              ToSet(recordings[i].frames) \cap ToSet(seg.frames) = {}

\* What had been queued when the session was stopped is handled before its loop
\* ends, and the last segment is closed.  (drain, loop)
StopDrains == pc = "done" => seg = None /\ \A i \in DOMAIN queue : queue[i] > haltedAt

=============================================================================
