------------------------- MODULE RecSessionProofs -------------------------
(***************************************************************************)
(* Proofs about RecSession, for every stream and any bounds: the segments  *)
(* play and match their track, no frame is recorded twice or left out      *)
(* without a reason, and a session that is stopped handles what it had been*)
(* sent.                                                                   *)
(***************************************************************************)
EXTENDS RecSession, TLAPS

USE DEF sharedVars, loopVars, cacheVars, segmentVars, lossVars, historyVars, vars

----------------------------------------------------------------------------
(* The types, and what the helpers of the segment do.                     *)

\* The rows and files that are published.
Recordings == [cfg : Configs, frames : Seq(Positions), listed : BOOLEAN]

\* The frames of the open segment are messages of the stream too, and the loop
\* holds no message while it waits.
TypeInv ==
    /\ TypeOK
    /\ seg # None => seg.frames \in Seq(Positions)
    /\ seg # None => sps # None
    /\ pc \in {"wait", "done"} => msg = 0

\* A sequence over a set is one over any larger set.
LEMMA Wider ==
  ASSUME NEW S, NEW T, S \subseteq T, NEW s \in Seq(S)
  PROVE  s \in Seq(T)
  OBVIOUS

\* Only the empty sequence has no element.
LEMMA Empty ==
  ASSUME NEW S, NEW s \in Seq(S)
  PROVE  s = <<>> <=> Len(s) = 0
  OBVIOUS

\* What an EXCEPT of two fields of a segment is.
LEMMA TwoFields ==
  ASSUME NEW g \in Segments, NEW x, NEW c \in BOOLEAN
  PROVE  [g EXCEPT !.frames = x, !.cut = c] = [cfg |-> g.cfg, frames |-> x, cut |-> c]
<1> DEFINE h == [g EXCEPT !.frames = x]
<1>1. h = [cfg |-> g.cfg, frames |-> x, cut |-> g.cut]
  BY DEF Segments
<1>2. h \in [cfg : Configs, frames : {x}, cut : BOOLEAN] /\ h.cfg = g.cfg /\ h.frames = x
  BY <1>1 DEF Segments
<1>3. [g EXCEPT !.frames = x, !.cut = c] = [h EXCEPT !.cut = c]
  OBVIOUS
<1> HIDE DEF h
<1>4. [h EXCEPT !.cut = c] = [cfg |-> g.cfg, frames |-> x, cut |-> c]
  BY <1>2
<1> QED
  BY <1>3, <1>4

\* The footage of the published segments rs, and the row of the open one.
Files(rs)    == {[cfg |-> r.cfg, frames |-> r.frames] : r \in ToSet(rs)}
Row(disk)    == [cfg |-> seg.cfg, frames |-> seg.frames, listed |-> disk # "insert"]

\* Closing a segment publishes no more than the segment, and nothing less unless
\* its file cannot be finalised or renamed.
LEMMA Publishing ==
  ASSUME TypeInv, NEW disk
  PROVE  /\ Published(disk) \in Seq(Recordings)
         /\ Files(recordings) \subseteq Files(Published(disk))
         /\ Files(Published(disk)) \subseteq Footage
         /\ disk \notin {"close", "rename"} =>
              \A s \in Footage : s.frames = <<>> \/ s \in Files(Published(disk))
         /\ \/ Published(disk) = recordings
            \/ /\ seg # None /\ seg.frames # <<>>
               /\ Published(disk) = Append(recordings, Row(disk))
<1>1. recordings \in Seq(Recordings)
  BY DEF TypeInv, TypeOK, Recordings
<1> DEFINE old == [cfg |-> seg.cfg, frames |-> seg.frames]
<1>2. Footage = Files(recordings) \cup (IF seg = None THEN {} ELSE {old})
  BY DEF Footage, Files
<1>3. CASE Published(disk) = recordings /\ (seg = None \/ disk \in {"close", "rename"} \/ seg.frames = <<>>)
  BY <1>1, <1>2, <1>3
<1>4. CASE seg # None /\ seg.frames # <<>> /\ Published(disk) = Append(recordings, Row(disk))
  <2>1. Row(disk) \in Recordings
    BY <1>4 DEF TypeInv, TypeOK, Segments, Recordings, Row
  <2>2. Published(disk) \in Seq(Recordings)
    BY <1>1, <1>4, <2>1
  <2>3. ToSet(Published(disk)) = ToSet(recordings) \cup {Row(disk)}
    <3>1. DOMAIN recordings = 1..Len(recordings) /\ Len(recordings) \in Nat
      BY <1>1
    <3>2. DOMAIN Published(disk) = 1..(Len(recordings) + 1)
      BY <1>1, <1>4
    <3>3. \A i \in 1..Len(recordings) : Published(disk)[i] = recordings[i]
      BY <1>1, <1>4
    <3>4. Published(disk)[Len(recordings) + 1] = Row(disk)
      BY <1>1, <1>4
    <3> QED
      BY <3>1, <3>2, <3>3, <3>4 DEF ToSet
  <2>4. [cfg |-> Row(disk).cfg, frames |-> Row(disk).frames] = old
    BY DEF Row
  <2> HIDE DEF old
  <2>5. Files(Published(disk)) = Files(recordings) \cup {old}
    BY <2>3, <2>4 DEF Files
  <2> QED
    BY <1>2, <1>4, <2>2, <2>5
<1> QED
  BY <1>3, <1>4 DEF Published, Row

\* What closing a segment does, whatever fails.
LEMMA Closing ==
  ASSUME TypeInv, UNCHANGED stream, \E disk \in Faults \cup {"ok"} : CloseSegment(disk)
  PROVE  /\ seg' = None
         /\ recordings' \in Seq(Recordings)
         /\ faults' \in 0..MaxFaults /\ faults <= faults'
         /\ Footage' \subseteq Footage
         /\ faults' = 0 => \A s \in Footage : s.frames = <<>> \/ s \in Footage'
         /\ \/ recordings' = recordings
            \/ \E b : /\ seg # None
                      /\ recordings' = Append(recordings,
                            [cfg |-> seg.cfg, frames |-> seg.frames, listed |-> b])
<1>1. PICK disk \in Faults \cup {"ok"} : CloseSegment(disk)
  OBVIOUS
<1>2. seg' = None /\ recordings' = Published(disk)
  BY <1>1 DEF CloseSegment
<1>3. faults' \in 0..MaxFaults /\ faults <= faults' /\ (faults' = 0 => disk = "ok")
  BY <1>1, SessionAssumption DEF CloseSegment, Outcome, TypeInv, TypeOK
<1>4. Footage' = Files(Published(disk))
  BY <1>2 DEF Footage, Files
<1> QED
  BY <1>2, <1>3, <1>4, Publishing DEF Row

\* What a frame may do to the open segment and to what is published.
FrameStep(n) ==
    \/ /\ UNCHANGED <<seg, unwritten>>
       /\ seg = None /\ recordings' = recordings
       /\ faults' = 0 => ~IsKey(n) \/ sps = None
    \/ /\ IsKey(n) /\ seg' = None /\ UNCHANGED unwritten
       /\ faults' # 0
    \/ /\ seg # None /\ seg' # None /\ seg'.cfg = seg.cfg /\ recordings' = recordings
       /\ \/ seg'.frames = Append(seg.frames, n) /\ UNCHANGED unwritten
          \/ /\ seg'.frames = seg.frames /\ unwritten' = unwritten \cup {n}
             /\ faults' # 0
    \/ /\ IsKey(n) /\ sps # None /\ seg' # None /\ seg'.cfg = sps
       /\ seg = None \/ seg.cut
       /\ \/ seg'.frames = <<n>> /\ UNCHANGED unwritten
          \/ /\ seg'.frames = <<>> /\ unwritten' = unwritten \cup {n}
             /\ faults' # 0

\* What applying a frame does, whatever fails.
LEMMA Framing ==
  ASSUME TypeInv, UNCHANGED stream, NEW n \in Positions, ApplyFrame(n)
  PROVE  /\ FrameStep(n)
         /\ sps' = sps
         /\ seg' # None => seg' \in Segments /\ seg'.frames \in Seq(Positions) /\ sps # None
         /\ recordings' \in Seq(Recordings)
         /\ faults' \in 0..MaxFaults /\ faults <= faults'
         /\ Files(recordings) \subseteq Files(recordings')
         /\ Files(recordings') \subseteq Footage
         /\ faults' = 0 /\ (seg' = None \/ (IsKey(n) /\ seg # None /\ seg.cut)) =>
              \A s \in Footage : s.frames = <<>> \/ s \in Files(recordings')
         /\ \/ recordings' = recordings
            \/ \E b : /\ seg # None /\ IsKey(n) /\ seg.cut
                      /\ recordings' = Append(recordings,
                            [cfg |-> seg.cfg, frames |-> seg.frames, listed |-> b])
<1> DEFINE cutting == seg # None /\ IsKey(n) /\ seg.cut
           opening == IsKey(n) /\ sps # None /\ (seg = None \/ cutting)
<1> DEFINE file(disk) == IF opening THEN Opened(disk) ELSE IF cutting THEN None ELSE seg
           next(f, disk, due) ==
             [f EXCEPT !.frames = IF disk = "write" THEN @ ELSE Append(@, n), !.cut = @ \/ due]
<1>1. PICK disk \in Faults \cup {"ok"}, due \in BOOLEAN :
        /\ disk = "create" => opening
        /\ disk = "write" => file(disk) # None
        /\ disk \in {"close", "rename", "insert"} => cutting
        /\ Outcome(disk)
        /\ recordings' = IF cutting THEN Published(disk) ELSE recordings
        /\ seg' = IF file(disk) = None THEN None ELSE next(file(disk), disk, due)
        /\ unwritten' = IF file(disk) # None /\ disk = "write" THEN unwritten \cup {n}
                        ELSE unwritten
        /\ UNCHANGED sps
  BY Zenon DEF ApplyFrame
<1> HIDE DEF next
<1>2. faults' \in 0..MaxFaults /\ faults <= faults' /\ (faults' = 0 => disk = "ok")
  BY <1>1, SessionAssumption DEF Outcome, TypeInv, TypeOK
<1>3. /\ seg # None => seg \in Segments /\ seg.frames \in Seq(Positions)
      /\ sps \in Configs \cup {None} /\ None \notin Configs
  BY SessionAssumption DEF TypeInv, TypeOK
<1>4. file(disk) # None => file(disk) \in Segments /\ file(disk).frames \in Seq(Positions)
  BY <1>3 DEF Opened, Segments
<1> DEFINE f == file(disk)
           fr == IF disk = "write" THEN f.frames ELSE Append(f.frames, n)
<1> HIDE DEF file
<1>5. f # None => next(f, disk, due) = [cfg |-> f.cfg, frames |-> fr, cut |-> f.cut \/ due]
  <2>1. ASSUME NEW g \in Segments
        PROVE  next(g, disk, due) =
                 [cfg |-> g.cfg,
                  frames |-> IF disk = "write" THEN g.frames ELSE Append(g.frames, n),
                  cut |-> g.cut \/ due]
    <3>1. g.cut \/ due \in BOOLEAN
      OBVIOUS
    <3> QED
      BY <3>1, TwoFields DEF next
  <2> QED
    BY <1>4, <2>1
<1>6. f # None =>
        /\ next(f, disk, due) \in Segments /\ fr \in Seq(Positions)
        /\ next(f, disk, due).cfg = f.cfg /\ next(f, disk, due).frames = fr
  <2>1. f # None => fr \in Seq(Positions)
    BY <1>4
  <2>2. f # None => fr \in Seq(Nat)
    <3>1. Positions \subseteq Nat
      BY DEF Positions
    <3> QED
      BY <2>1, <3>1, Wider
  <2>3. f # None => f.cfg \in Configs /\ f.cut \in BOOLEAN
    BY <1>4 DEF Segments
  <2> HIDE DEF fr, f
  <2> QED
    BY <1>5, <2>1, <2>2, <2>3 DEF Segments
<1>7. seg' # None => seg' \in Segments /\ seg'.frames \in Seq(Positions) /\ sps # None
  BY <1>1, <1>6 DEF file, TypeInv
<1>8. f # None => seg'.cfg = f.cfg /\ seg'.frames = fr /\ seg' # None
  BY <1>1, <1>6, NoneAssumption
<1>9. recordings' = recordings \/ (cutting /\ recordings' = Published(disk))
  BY <1>1
<1>10. recordings \in Seq(Recordings) /\ Files(recordings) \subseteq Footage
  BY DEF TypeInv, TypeOK, Recordings, Files, Footage
<1>11. FrameStep(n)
  <2>1. CASE f = None /\ ~opening
    BY <1>1, <1>2, <2>1 DEF FrameStep, file, TypeInv
  <2>2. CASE f = None /\ opening
    <3>1. [cfg |-> sps, frames |-> <<>>, cut |-> FALSE] \in Segments
      BY <1>3, <2>2 DEF Segments
    <3>2. disk = "create"
      BY <2>2, <3>1, NoneAssumption DEF Opened, file
    <3> QED
      BY <1>1, <1>2, <2>2, <3>2 DEF FrameStep
  <2>3. CASE f # None /\ ~opening
    BY <1>1, <1>2, <1>8, <2>3 DEF FrameStep, file
  <2>4. CASE f # None /\ opening
    <3>1. f = [cfg |-> sps, frames |-> <<>>, cut |-> FALSE]
      BY <2>4 DEF Opened, file
    <3>2. f.cfg = sps /\ fr = IF disk = "write" THEN <<>> ELSE <<n>>
      BY <3>1
    <3> HIDE DEF f, fr
    <3> QED
      BY <1>1, <1>2, <1>8, <2>4, <3>2 DEF FrameStep
  <2> QED
    BY <2>1, <2>2, <2>3, <2>4
<1>12. /\ recordings' \in Seq(Recordings)
       /\ Files(recordings) \subseteq Files(recordings')
       /\ Files(recordings') \subseteq Footage
  <2>1. CASE recordings' = recordings
    BY <1>10, <2>1
  <2>2. CASE recordings' = Published(disk)
    BY <2>2, Publishing
  <2> QED
    BY <1>9, <2>1, <2>2
<1>13. ASSUME faults' = 0, cutting
       PROVE  \A s \in Footage : s.frames = <<>> \/ s \in Files(recordings')
  BY <1>1, <1>2, <1>13, Publishing
<1>14. ASSUME faults' = 0, seg' = None, NEW s \in Footage
       PROVE  s.frames = <<>> \/ s \in Files(recordings')
  <2>1. CASE cutting
    BY <1>13, <1>14, <2>1
  <2>2. CASE ~cutting
    <3>1. f = None /\ disk = "ok"
      BY <1>2, <1>8, <1>14
    <3>2. seg = None
      BY <2>2, <3>1 DEF Opened, file
    <3> QED
      BY <1>1, <2>2, <3>2 DEF Footage, Files
  <2> QED
    BY <2>1, <2>2
<1>15. \/ recordings' = recordings
       \/ \E b : /\ seg # None /\ IsKey(n) /\ seg.cut
                 /\ recordings' = Append(recordings,
                       [cfg |-> seg.cfg, frames |-> seg.frames, listed |-> b])
  BY <1>9, Publishing DEF Row
<1> QED
  BY <1>1, <1>2, <1>7, <1>11, <1>12, <1>13, <1>14, <1>15

\* remember keeps the held GOP within its limit.
LEMMA Remembering ==
  ASSUME TypeInv, NEW n \in Positions, Remember(n)
  PROVE  /\ gop' \in Seq(Positions) /\ Len(gop') <= GOPLimit
         /\ videoSeq' \in Positions \cup {0}
<1>1. gop \in Seq(Positions) /\ Len(gop) <= GOPLimit /\ videoSeq \in Positions \cup {0}
  BY DEF TypeInv, TypeOK
<1>2. GOPLimit \in Nat /\ GOPLimit >= 1
  BY SessionAssumption
<1> DEFINE longer == Append(gop, n)
<1>3. longer \in Seq(Positions) /\ Len(longer) = Len(gop) + 1 /\ longer # <<>>
  BY <1>1
<1>4. Tail(longer) \in Seq(Positions) /\ Len(Tail(longer)) = Len(gop)
  BY <1>3
<1>5. <<n>> \in Seq(Positions) /\ Len(<<n>>) = 1
  OBVIOUS
<1> HIDE DEF longer
<1>6. \/ videoSeq' = n /\ gop' = gop
      \/ videoSeq' = videoSeq /\ (gop' = <<n>> \/ gop' = Tail(longer)
                                  \/ (gop' = longer /\ Len(longer) <= GOPLimit))
  BY <1>1, <1>2, <1>3 DEF Remember, longer
<1> QED
  BY <1>1, <1>2, <1>3, <1>4, <1>5, <1>6

\* The types that a step of the subscriber can touch, and the others.
LEMMA TypeInit == Init => TypeInv
<1> SUFFICES ASSUME Init PROVE TypeInv
  OBVIOUS
<1>1. \A S : <<>> \in Seq(S)
  OBVIOUS
<1>2. Len(<<>>) = 0 /\ 0 \in 0..MaxFlips /\ 0 \in 0..MaxFaults /\ 0 \in 0..0
      /\ 0 <= MaxMessages /\ 0 <= QueueSize /\ 0 <= GOPLimit
  BY SessionAssumption
<1>3. {overflowing, mediaGap, writing, rotate, stop, draining, awaitKeyframe, flushed,
        interrupted} \subseteq BOOLEAN
  BY DEF Init
<1> QED
  BY <1>1, <1>2, <1>3 DEF Init, TypeInv, TypeOK

\* A message that arrives keeps the types.
LEMMA TypeArrive ==
  ASSUME TypeInv, Enqueue \/ IgnoreWhenStopped \/ Overflow
  PROVE  TypeInv'
<1>1. PICK m \in Messages : Arrive(m)
  BY DEF Enqueue, IgnoreWhenStopped, Overflow
<1>2. stream' = Append(stream, m) /\ stream \in Seq(Messages) /\ Len(stream) < MaxMessages
      /\ MaxMessages \in Nat
  BY <1>1, SessionAssumption DEF Arrive, TypeInv, TypeOK
<1>3. stream' \in Seq(Messages) /\ Len(stream') = Len(stream) + 1 /\ Len(stream) \in Nat
  BY <1>2
<1>4. Positions \subseteq Positions' /\ Len(stream') \in Positions'
  BY <1>3 DEF Positions
<1>5. \A s \in Seq(Positions) : s \in Seq(Positions')
  BY <1>4, Wider
<1>6. UNCHANGED <<gop, todo, msg, videoSeq, pc, mediaGap, writing, rotate, stop, draining,
                  awaitKeyframe, flushed, interrupted, sps, seg, recordings, unwritten,
                  wanted, haltedAt, flips, faults>>
  BY DEF Enqueue, IgnoreWhenStopped, Overflow
<1>7. queue' \in Seq(Positions') /\ Len(queue') <= QueueSize
  <2>1. queue \in Seq(Positions) /\ Len(queue) <= QueueSize
    BY DEF TypeInv, TypeOK
  <2>2. queue' = queue \/ (queue' = Append(queue, Len(stream')) /\ Len(queue) < QueueSize)
    BY DEF Enqueue, IgnoreWhenStopped, Overflow
  <2>3. queue \in Seq(Positions')
    BY <1>5, <2>1
  <2>4. Len(queue) \in Nat /\ QueueSize \in Nat
    BY <2>1, SessionAssumption
  <2>5. CASE queue' = queue
    BY <2>1, <2>3, <2>5
  <2>6. CASE queue' = Append(queue, Len(stream')) /\ Len(queue) < QueueSize
    <3>1. queue' \in Seq(Positions') /\ Len(queue') = Len(queue) + 1
      BY <1>4, <2>3, <2>6
    <3> QED
      BY <2>4, <2>6, <3>1
  <2> QED
    BY <2>2, <2>5, <2>6
<1>8. recordings' \in Seq(Recordings')
  <2>1. Recordings \subseteq Recordings'
    BY <1>5 DEF Recordings
  <2>2. recordings \in Seq(Recordings)
    BY DEF TypeInv, TypeOK, Recordings
  <2>3. recordings \in Seq(Recordings')
    BY <2>1, <2>2, Wider
  <2> QED
    BY <1>6, <2>3
<1>9. {dropped', ignored', unwritten', wanted'} \subseteq SUBSET Positions'
  BY <1>4, <1>6 DEF Enqueue, IgnoreWhenStopped, Overflow, TypeInv, TypeOK
<1>10. overflowing' \in BOOLEAN
  BY DEF Enqueue, IgnoreWhenStopped, Overflow, TypeInv, TypeOK
<1>11. gop' \in Seq(Positions') /\ todo' \in Seq(Positions')
  BY <1>5, <1>6 DEF TypeInv, TypeOK
<1>12. seg' # None => seg' \in Segments /\ seg'.frames \in Seq(Positions') /\ sps' # None
  BY <1>5, <1>6 DEF TypeInv, TypeOK
<1>13. {msg', videoSeq'} \subseteq Positions' \cup {0}
  BY <1>4, <1>6 DEF TypeInv, TypeOK
<1>14. haltedAt' \in 0..Len(stream') /\ Len(stream') <= MaxMessages
  BY <1>2, <1>3, <1>6 DEF TypeInv, TypeOK
<1> QED
  BY <1>3, <1>6, <1>7, <1>8, <1>9, <1>10, <1>11, <1>12, <1>13, <1>14
  DEF TypeInv, TypeOK, Recordings

\* The steps of the callers keep the types.
LEMMA TypeCallers ==
  ASSUME TypeInv, MarkGap \/ SetWriting \/ Rotate \/ Halt \/ UNCHANGED vars
  PROVE  TypeInv'
<1>1. Positions' = Positions
  BY DEF MarkGap, SetWriting, Rotate, Halt, Positions
<1>2. CASE MarkGap \/ UNCHANGED vars
  <2>1. {overflowing', mediaGap'} \subseteq BOOLEAN
    BY <1>2 DEF MarkGap, TypeInv, TypeOK
  <2> QED
    BY <1>1, <1>2, <2>1 DEF MarkGap, TypeInv, TypeOK
<1>3. CASE SetWriting \/ Rotate
  <2>1. flips' \in 0..MaxFlips
    BY <1>3, SessionAssumption DEF SetWriting, Rotate, TypeInv, TypeOK
  <2>2. {writing', rotate', interrupted'} \subseteq BOOLEAN
    BY <1>3 DEF SetWriting, Rotate, TypeInv, TypeOK
  <2> QED
    BY <1>1, <1>3, <2>1, <2>2 DEF SetWriting, Rotate, TypeInv, TypeOK
<1>4. CASE Halt
  <2>1. haltedAt' \in 0..Len(stream')
    BY <1>4 DEF Halt, TypeInv, TypeOK
  <2> QED
    BY <1>1, <1>4, <2>1 DEF Halt, TypeInv, TypeOK
<1> QED
  BY <1>2, <1>3, <1>4

\* The steps of the loop keep the types.
LEMMA TypeLoop ==
  ASSUME TypeInv, Loop
  PROVE  TypeInv'
<1>1. Positions' = Positions
  BY DEF Loop, Take, SeeStop, Finish, Resync, ObeyRotate, SkipWhenOff, PrepareWhenOn, Apply,
         Positions
<1>2. CASE Take
  <2>1. queue \in Seq(Positions) /\ Len(queue) <= QueueSize /\ queue # <<>>
    BY <1>2 DEF Take, TypeInv, TypeOK
  <2>2. Head(queue) \in Positions /\ Tail(queue) \in Seq(Positions)
        /\ Len(Tail(queue)) <= Len(queue) /\ Head(queue) # 0
    BY <2>1 DEF Positions
  <2>3. Len(Tail(queue)) <= QueueSize
    BY <2>1, <2>2, SessionAssumption
  <2> QED
    BY <1>1, <1>2, <2>2, <2>3 DEF Take, TypeInv, TypeOK
<1>3. CASE SeeStop
  BY <1>1, <1>3 DEF SeeStop, TypeInv, TypeOK
<1>4. CASE Finish
  <2>1. \E disk \in Faults \cup {"ok"} : CloseSegment(disk)
    BY <1>4 DEF Finish
  <2>2. seg' = None /\ recordings' \in Seq(Recordings) /\ faults' \in 0..MaxFaults
    BY <1>4, <2>1, Closing DEF Finish
  <2> QED
    BY <1>1, <1>4, <2>2 DEF Finish, TypeInv, TypeOK, Recordings
<1>5. CASE Resync
  <2>1. /\ seg' = None \/ seg' = seg
        /\ recordings' \in Seq(Recordings) /\ faults' \in 0..MaxFaults
    <3>1. CASE mediaGap
      BY <1>5, <3>1, Closing DEF Resync
    <3>2. CASE ~mediaGap
      BY <1>5, <3>2 DEF Resync, TypeInv, TypeOK, Recordings
    <3> QED
      BY <3>1, <3>2
  <2>2. gop' \in Seq(Positions) /\ Len(gop') <= GOPLimit
    <3>1. gop' = gop \/ gop' = <<>>
      BY <1>5 DEF Resync
    <3>2. <<>> \in Seq(Positions) /\ Len(<<>>) <= GOPLimit
      BY SessionAssumption
    <3> QED
      BY <3>1, <3>2 DEF TypeInv, TypeOK
  <2>3. {mediaGap', flushed', awaitKeyframe'} \subseteq BOOLEAN
    BY <1>5 DEF Resync, TypeInv, TypeOK
  <2>4. msg \in Positions /\ msg # 0 /\ todo = <<>>
    BY <1>5 DEF Resync, TypeInv, TypeOK
  <2>5. /\ todo' \in Seq(Positions) /\ (pc' = "apply" <=> todo' # <<>>)
        /\ pc' \in {"wait", "rotate", "apply"}
        /\ msg' \in Positions \cup {0} /\ (pc' = "wait" <=> msg' = 0)
    BY <1>5, <2>4 DEF Resync, IsFrame
  <2> QED
    BY <1>1, <1>5, <2>1, <2>2, <2>3, <2>5 DEF Resync, TypeInv, TypeOK, Recordings
<1>6. CASE ObeyRotate
  <2>1. /\ seg' = None \/ seg' = seg
        /\ recordings' \in Seq(Recordings) /\ faults' \in 0..MaxFaults
    <3>1. CASE rotate
      BY <1>6, <3>1, Closing DEF ObeyRotate
    <3>2. CASE ~rotate
      BY <1>6, <3>2 DEF ObeyRotate, TypeInv, TypeOK, Recordings
    <3> QED
      BY <3>1, <3>2
  <2>2. {rotate', flushed'} \subseteq BOOLEAN
    BY <1>6 DEF ObeyRotate, TypeInv, TypeOK
  <2> QED
    BY <1>1, <1>6, <2>1, <2>2 DEF ObeyRotate, TypeInv, TypeOK, Recordings
<1>7. CASE SkipWhenOff
  <2>1. /\ seg' = None
        /\ recordings' \in Seq(Recordings) /\ faults' \in 0..MaxFaults
    BY <1>7, Closing DEF SkipWhenOff
  <2>2. msg \in Positions
    BY <1>7 DEF SkipWhenOff, TypeInv, TypeOK
  <2>3. /\ gop' \in Seq(Positions) /\ Len(gop') <= GOPLimit
        /\ videoSeq' \in Positions \cup {0}
    BY <1>7, <2>2, Remembering DEF SkipWhenOff
  <2> QED
    BY <1>1, <1>7, <2>1, <2>3 DEF SkipWhenOff, TypeInv, TypeOK, Recordings
<1>8. CASE PrepareWhenOn
  <2>1. msg \in Positions /\ gop \in Seq(Positions)
    BY <1>8 DEF PrepareWhenOn, TypeInv, TypeOK
  <2>2. Held \in Seq(Positions)
    BY <2>1 DEF Held, TypeInv, TypeOK
  <2>3. todo' \in Seq(Positions) /\ todo' # <<>>
    <3>1. Append(Held, msg) \in Seq(Positions) /\ Append(Held, msg) # <<>>
      BY <2>1, <2>2
    <3>2. <<msg>> \in Seq(Positions) /\ <<msg>> # <<>>
      BY <2>1
    <3> QED
      BY <1>8, <3>1, <3>2 DEF PrepareWhenOn
  <2>4. wanted' \subseteq Positions
    BY <1>8, <2>1 DEF PrepareWhenOn, TypeInv, TypeOK
  <2> QED
    BY <1>1, <1>8, <2>3, <2>4 DEF PrepareWhenOn, TypeInv, TypeOK
<1>9. CASE Apply
  <2>1. todo \in Seq(Positions) /\ todo # <<>> /\ msg \in Positions
    BY <1>9 DEF Apply, TypeInv, TypeOK
  <2>2. Head(todo) \in Positions /\ Tail(todo) \in Seq(Positions)
        /\ (Tail(todo) = <<>> <=> Len(todo) = 1)
    <3>1. Len(todo) \in Nat /\ Len(todo) >= 1 /\ Head(todo) = todo[1] /\ todo[1] \in Positions
      BY <2>1
    <3>2. Tail(todo) \in Seq(Positions) /\ Len(Tail(todo)) = Len(todo) - 1
      BY <2>1
    <3>3. Tail(todo) = <<>> <=> Len(Tail(todo)) = 0
      BY <3>2, Empty
    <3> QED
      BY <3>1, <3>2, <3>3
  <2>3. /\ gop' \in Seq(Positions) /\ Len(gop') <= GOPLimit
        /\ videoSeq' \in Positions \cup {0}
        /\ \/ Len(todo) = 1 /\ pc' = "wait" /\ msg' = 0
           \/ Len(todo) # 1 /\ pc' = pc /\ msg' = msg
    <3>1. CASE Len(todo) = 1
      BY <1>9, <2>1, <3>1, Remembering DEF Apply
    <3>2. CASE Len(todo) # 1
      BY <1>9, <3>2 DEF Apply, TypeInv, TypeOK
    <3> QED
      BY <3>1, <3>2
  <2>4. /\ seg' # None => seg' \in Segments /\ seg'.frames \in Seq(Positions) /\ sps' # None
        /\ recordings' \in Seq(Recordings) /\ faults' \in 0..MaxFaults
        /\ unwritten' \subseteq Positions
        /\ sps' \in Configs \cup {None}
    <3>1. CASE IsHeader(Head(todo))
      <4>1. ApplyHeader(Head(todo))
        BY <1>9, <3>1 DEF Apply
      <4>2. stream[Head(todo)].cfg \in Configs
        <5>1. stream \in Seq(Messages) /\ Head(todo) \in 1..Len(stream)
          BY <2>2 DEF TypeInv, TypeOK, Positions
        <5>2. stream[Head(todo)] \in Messages
          BY <5>1
        <5> QED
          BY <5>2 DEF Messages
      <4>3. /\ seg' = None \/ seg' = seg
            /\ recordings' \in Seq(Recordings) /\ faults' \in 0..MaxFaults
        <5>1. CASE sps \in {None, stream[Head(todo)].cfg}
          BY <4>1, <5>1 DEF ApplyHeader, TypeInv, TypeOK, Recordings
        <5>2. CASE sps \notin {None, stream[Head(todo)].cfg}
          <6>1. \E disk \in Faults \cup {"ok"} : CloseSegment(disk)
            BY <4>1, <5>2 DEF ApplyHeader
          <6> QED
            BY <1>9, <6>1, Closing DEF Apply
        <5> QED
          BY <5>1, <5>2
      <4> QED
        BY <4>1, <4>2, <4>3, SessionAssumption DEF ApplyHeader, TypeInv, TypeOK
    <3>2. CASE ~IsHeader(Head(todo))
      <4>1. ApplyFrame(Head(todo))
        BY <1>9, <3>2 DEF Apply
      <4>2. UNCHANGED stream
        BY <1>9 DEF Apply
      <4>3. unwritten' \subseteq unwritten \cup {Head(todo)}
        BY <4>1, Zenon DEF ApplyFrame
      <4> HIDE DEF Positions
      <4> QED
        BY <2>2, <4>1, <4>2, <4>3, Framing DEF TypeInv, TypeOK
    <3> QED
      BY <3>1, <3>2
  <2>5. UNCHANGED <<sharedVars, draining, awaitKeyframe, flushed, stream, dropped,
                    ignored, wanted, haltedAt, flips, interrupted>>
        /\ todo' = Tail(todo) /\ pc = "apply"
    BY <1>9 DEF Apply
  <2> QED
    BY <1>1, <2>1, <2>2, <2>3, <2>4, <2>5 DEF TypeInv, TypeOK, Recordings
<1> QED
  BY <1>2, <1>3, <1>4, <1>5, <1>6, <1>7, <1>8, <1>9 DEF Loop

\* Every step keeps the types.
LEMMA TypeStep == TypeInv /\ [Next]_vars => TypeInv'
  BY TypeArrive, TypeCallers, TypeLoop DEF Next

----------------------------------------------------------------------------
(* The way of a message from the stream to the loop.                      *)

\* The next message the loop is to be done with: the one it handles, or the first
\* that is queued, or the next of the stream.
Upcoming ==
    IF msg # 0 THEN msg ELSE IF queue # <<>> THEN Head(queue) ELSE Len(stream) + 1

\* The elements of a sequence.
Elems(s) == {s[i] : i \in 1..Len(s)}

\* The queue is a part of the stream in its order, and what comes after the message
\* at hand is queued, or was never put on the queue.
QueueInv ==
    /\ \A i, j \in 1..Len(queue) : i < j => queue[i] < queue[j]
    /\ msg # 0 => \A i \in 1..Len(queue) : msg < queue[i]
    /\ \A p \in Positions : p > Upcoming => p \in Elems(queue) \cup NotQueued

\* The stream begins with a header, and a frame is preceded by the frame it refers
\* to, or by the header the group began with.
StreamInv ==
    /\ \A n \in Positions : n = 1 => IsHeader(n)
    /\ \A n \in Positions : n > 1 =>
         /\ IsFrame(n) => stream[n].cfg = stream[n - 1].cfg
         /\ stream[n].type = "inter" => IsFrame(n - 1) \/ n = 2

\* A message moves on from the stream to the queue, to the loop, and away.
Arrives     == \E m \in Messages : stream' = Append(stream, m) /\ Follows(m)
Stays       == UNCHANGED <<stream, queue, msg, dropped, ignored>>
Queues      == /\ Arrives /\ queue' = Append(queue, Len(stream'))
               /\ UNCHANGED <<msg, dropped, ignored>>
PassesBy    == Arrives /\ UNCHANGED <<queue, msg>> /\ NotQueued' = NotQueued \cup {Len(stream')}
IsTaken     == /\ msg = 0 /\ queue # <<>> /\ msg' = Head(queue) /\ queue' = Tail(queue)
               /\ UNCHANGED <<stream, dropped, ignored>>
IsDone      == msg # 0 /\ msg' = 0 /\ UNCHANGED <<stream, queue, dropped, ignored>>

\* In every step at most one message moves.
LEMMA Moves ==
  ASSUME TypeInv, [Next]_vars
  PROVE  Stays \/ Queues \/ PassesBy \/ IsTaken \/ IsDone
<1>1. CASE Enqueue
  BY <1>1 DEF Enqueue, Arrive, Arrives, Queues
<1>2. CASE IgnoreWhenStopped
  BY <1>2 DEF IgnoreWhenStopped, Arrive, Arrives, PassesBy, NotQueued
<1>3. CASE Overflow
  BY <1>3 DEF Overflow, Arrive, Arrives, PassesBy, NotQueued
<1>4. CASE Take
  <2>1. msg = 0
    BY <1>4 DEF Take, TypeInv
  <2> QED
    BY <1>4, <2>1 DEF Take, IsTaken
<1>5. CASE MarkGap \/ SetWriting \/ Rotate \/ Halt \/ UNCHANGED vars
  BY <1>5 DEF MarkGap, SetWriting, Rotate, Halt, Stays
<1>6. CASE SeeStop \/ Finish \/ ObeyRotate \/ PrepareWhenOn
  BY <1>6 DEF SeeStop, Finish, ObeyRotate, PrepareWhenOn, Stays
<1>7. CASE Resync
  <2>1. msg # 0
    BY <1>7 DEF Resync, TypeInv, TypeOK
  <2>2. msg' = msg \/ msg' = 0
    BY <1>7 DEF Resync
  <2> QED
    BY <1>7, <2>1, <2>2 DEF Resync, Stays, IsDone
<1>8. CASE SkipWhenOff \/ Apply
  <2>1. msg # 0
    BY <1>8 DEF SkipWhenOff, Apply, TypeInv, TypeOK
  <2>2. msg' = msg \/ msg' = 0
    BY <1>8 DEF SkipWhenOff, Apply
  <2> QED
    BY <1>8, <2>1, <2>2 DEF SkipWhenOff, Apply, Stays, IsDone
<1> QED
  BY <1>1, <1>2, <1>3, <1>4, <1>5, <1>6, <1>7, <1>8 DEF Next, Loop

\* The stream keeps its messages when one is added.
LEMMA StreamGrows ==
  ASSUME TypeInv, Arrives
  PROVE  /\ stream' \in Seq(Messages) /\ Len(stream') = Len(stream) + 1 /\ Len(stream) \in Nat
         /\ Positions' = Positions \cup {Len(stream')} /\ Len(stream') \notin Positions
         /\ \A p \in Positions : stream'[p] = stream[p]
<1>1. PICK m \in Messages : stream' = Append(stream, m)
  BY DEF Arrives
<1>2. stream \in Seq(Messages)
  BY DEF TypeInv, TypeOK
<1>3. stream' \in Seq(Messages) /\ Len(stream') = Len(stream) + 1 /\ Len(stream) \in Nat
      /\ \A p \in 1..Len(stream) : stream'[p] = stream[p]
  BY <1>1, <1>2
<1> QED
  BY <1>3 DEF Positions

\* What holds of every step: the stream keeps what it has, nothing lost is found,
\* and the loop gets past its own message and past those never queued.
Onward ==
    /\ Positions \subseteq Positions'
    /\ \A p \in Positions : stream'[p] = stream[p]
    /\ NotQueued \subseteq NotQueued'
    /\ Upcoming \in Nat /\ Upcoming' \in Nat
    /\ 1 <= Upcoming /\ Upcoming <= Upcoming' /\ Upcoming <= Len(stream) + 1
    /\ \A p \in Positions' : Upcoming <= p /\ p < Upcoming' =>
          \/ p = msg /\ p # 0 /\ msg' = 0
          \/ p \in NotQueued'
    /\ msg # 0 => Upcoming = msg /\ (msg' = 0 => Upcoming < Upcoming')

\* The next message is at most one past the stream.
LEMMA UpcomingType ==
  TypeInv => Upcoming \in Nat /\ 1 <= Upcoming /\ Upcoming <= Len(stream) + 1
<1> SUFFICES ASSUME TypeInv
             PROVE  Upcoming \in Nat /\ 1 <= Upcoming /\ Upcoming <= Len(stream) + 1
  OBVIOUS
<1>1. queue \in Seq(Positions) /\ Len(stream) \in Nat /\ msg \in Positions \cup {0}
  BY DEF TypeInv, TypeOK
<1>2. queue # <<>> => Head(queue) \in Positions
  BY <1>1
<1> QED
  BY <1>1, <1>2 DEF Upcoming, Positions

\* The queue stays in order, and the loop goes on through the stream.
LEMMA QueueStep ==
  ASSUME TypeInv, TypeInv', QueueInv, [Next]_vars
  PROVE  QueueInv' /\ Onward
<1>1. /\ queue \in Seq(Positions) /\ Len(queue) \in Nat /\ Len(stream) \in Nat
      /\ msg \in Positions \cup {0}
  <2>1. queue \in Seq(Positions) /\ stream \in Seq(Messages) /\ msg \in Positions \cup {0}
    BY DEF TypeInv, TypeOK
  <2> QED
    BY <2>1
<1>2. \A i \in 1..Len(queue) : queue[i] \in Positions
  BY <1>1
<1>3. /\ Upcoming \in Nat /\ 1 <= Upcoming /\ Upcoming <= Len(stream) + 1
      /\ Upcoming' \in Nat
  <2>1. (TypeInv => Upcoming \in Nat /\ 1 <= Upcoming /\ Upcoming <= Len(stream) + 1)'
    BY UpcomingType, PTL
  <2> QED
    BY <2>1, UpcomingType
<1>4. CASE Stays
  BY <1>3, <1>4 DEF Stays, QueueInv, Onward, Upcoming, Positions, NotQueued, Elems
<1>5. CASE Queues
  <2>1. /\ queue' = Append(queue, Len(stream')) /\ msg' = msg /\ NotQueued' = NotQueued
        /\ Arrives
    BY <1>5 DEF Queues, NotQueued
  <2>2. /\ Len(queue') = Len(queue) + 1 /\ queue'[Len(queue) + 1] = Len(stream')
        /\ \A i \in 1..Len(queue) : queue'[i] = queue[i]
        /\ queue' # <<>>
    BY <1>1, <2>1
  <2>3. queue # <<>> => Head(queue') = Head(queue)
    BY <1>1, <2>1
  <2>4. queue = <<>> => Head(queue') = Len(stream')
    BY <2>1
  <2>5. Upcoming' = Upcoming
    BY <2>1, <2>2, <2>3, <2>4, StreamGrows DEF Upcoming
  <2>6. Elems(queue') = Elems(queue) \cup {Len(stream')}
    BY <1>1, <2>2 DEF Elems
  <2>7. \A i, j \in 1..Len(queue') : i < j => queue'[i] < queue'[j]
    <3> SUFFICES ASSUME NEW i \in 1..Len(queue'), NEW j \in 1..Len(queue'), i < j
                 PROVE  queue'[i] < queue'[j]
      OBVIOUS
    <3>1. i \in 1..Len(queue) /\ queue[i] < Len(stream')
      BY <1>1, <1>2, <2>1, <2>2, StreamGrows DEF Positions
    <3>2. CASE j \in 1..Len(queue)
      BY <2>2, <3>1, <3>2 DEF QueueInv
    <3>3. CASE j = Len(queue) + 1
      BY <2>2, <3>1, <3>3
    <3> QED
      BY <1>1, <2>2, <3>2, <3>3
  <2>8. msg' # 0 => \A i \in 1..Len(queue') : msg' < queue'[i]
    BY <1>1, <2>1, <2>2, StreamGrows DEF QueueInv, Positions
  <2>9. \A p \in Positions' : p > Upcoming' => p \in Elems(queue') \cup NotQueued'
    BY <2>1, <2>5, <2>6, StreamGrows DEF QueueInv
  <2>10. Onward
    <3>1. \A p \in Positions' : ~(Upcoming <= p /\ p < Upcoming')
      BY <1>1, <1>3, <2>1, <2>5, StreamGrows DEF Positions
    <3>2. msg # 0 => Upcoming = msg /\ msg' # 0
      BY <2>1 DEF Upcoming
    <3> QED
      BY <1>3, <2>1, <2>5, <3>1, <3>2, StreamGrows DEF Onward
  <2> QED
    BY <2>7, <2>8, <2>9, <2>10 DEF QueueInv
<1>6. CASE PassesBy
  <2>1. /\ queue' = queue /\ msg' = msg /\ NotQueued' = NotQueued \cup {Len(stream')}
        /\ Arrives
    BY <1>6 DEF PassesBy
  <2>2. Upcoming' = Upcoming \/ (Upcoming' = Upcoming + 1 /\ Upcoming = Len(stream'))
    BY <2>1, StreamGrows DEF Upcoming
  <2>3. \A p \in Positions' : p > Upcoming' => p \in Elems(queue') \cup NotQueued'
    <3> SUFFICES ASSUME NEW p \in Positions', p > Upcoming'
                 PROVE  p \in Elems(queue') \cup NotQueued'
      OBVIOUS
    <3>1. CASE p = Len(stream')
      BY <2>1, <3>1
    <3>2. CASE p \in Positions
      BY <1>3, <2>1, <2>2, <3>2 DEF QueueInv, Positions, Elems
    <3> QED
      BY <2>1, <3>1, <3>2, StreamGrows
  <2>4. Onward
    <3>1. msg # 0 => Upcoming = msg /\ msg' # 0
      BY <2>1 DEF Upcoming
    <3> QED
      BY <1>3, <2>1, <2>2, <3>1, StreamGrows DEF Onward, Positions
  <2> QED
    BY <2>1, <2>3, <2>4 DEF QueueInv
<1>7. CASE IsTaken
  <2>1. /\ msg = 0 /\ queue # <<>> /\ msg' = Head(queue) /\ queue' = Tail(queue)
        /\ Positions' = Positions /\ NotQueued' = NotQueued /\ stream' = stream
    BY <1>7 DEF IsTaken, Positions, NotQueued
  <2>2. /\ Len(queue) >= 1 /\ Len(queue') = Len(queue) - 1
        /\ \A i \in 1..Len(queue') : queue'[i] = queue[i + 1]
        /\ Head(queue) = queue[1] /\ queue[1] # 0
    BY <1>1, <1>2, <2>1 DEF Positions
  <2>3. Upcoming' = Upcoming /\ Upcoming = queue[1]
    BY <2>1, <2>2 DEF Upcoming
  <2>4. \A i, j \in 1..Len(queue') : i < j => queue'[i] < queue'[j]
    <3> SUFFICES ASSUME NEW i \in 1..Len(queue'), NEW j \in 1..Len(queue'), i < j
                 PROVE  queue'[i] < queue'[j]
      OBVIOUS
    <3>1. i + 1 \in 1..Len(queue) /\ j + 1 \in 1..Len(queue) /\ i + 1 < j + 1
      BY <1>1, <2>2
    <3> QED
      BY <2>2, <3>1 DEF QueueInv
  <2>5. \A i \in 1..Len(queue') : msg' < queue'[i]
    <3> SUFFICES ASSUME NEW i \in 1..Len(queue') PROVE queue[1] < queue'[i]
      BY <2>1, <2>2
    <3>1. 1 \in 1..Len(queue) /\ i + 1 \in 1..Len(queue) /\ 1 < i + 1
      BY <1>1, <2>2
    <3> QED
      BY <2>2, <3>1 DEF QueueInv
  <2>6. ASSUME NEW p \in Elems(queue), p > queue[1]
        PROVE  p \in Elems(queue')
    <3>1. PICK i \in 1..Len(queue) : p = queue[i]
      BY DEF Elems
    <3>2. i # 1
      BY <1>2, <2>2, <2>6, <3>1 DEF Positions
    <3>3. i - 1 \in 1..Len(queue') /\ queue'[i - 1] = p
      BY <1>1, <2>2, <3>1, <3>2
    <3> QED
      BY <3>3 DEF Elems
  <2>7. \A p \in Positions' : p > Upcoming' => p \in Elems(queue') \cup NotQueued'
    BY <2>1, <2>3, <2>6 DEF QueueInv
  <2>8. Onward
    <3>1. \A p \in Positions' : ~(Upcoming <= p /\ p < Upcoming')
      BY <1>1, <1>2, <2>1, <2>3 DEF Positions
    <3> QED
      BY <1>3, <2>1, <2>3, <3>1 DEF Onward
  <2> QED
    BY <2>4, <2>5, <2>7, <2>8 DEF QueueInv
<1>8. CASE IsDone
  <2>1. /\ msg # 0 /\ msg' = 0 /\ queue' = queue /\ stream' = stream
        /\ Positions' = Positions /\ NotQueued' = NotQueued
    BY <1>8 DEF IsDone, Positions, NotQueued
  <2>2. Upcoming = msg
    BY <2>1 DEF Upcoming
  <2>3. \/ queue # <<>> /\ Upcoming' = queue[1] /\ 1 \in 1..Len(queue)
        \/ queue = <<>> /\ Upcoming' = Len(stream) + 1 /\ Len(queue) = 0
    BY <1>1, <2>1 DEF Upcoming
  <2>4. Upcoming < Upcoming'
    BY <1>1, <2>1, <2>2, <2>3 DEF QueueInv, Positions
  <2>5. \A p \in Positions : p > Upcoming' => p \in Elems(queue) \cup NotQueued
    BY <1>3, <2>4 DEF QueueInv, Positions
  <2>6. \A p \in Positions : Upcoming < p /\ p < Upcoming' => p \notin Elems(queue)
    <3> SUFFICES ASSUME NEW p \in Positions, p < Upcoming', NEW i \in 1..Len(queue), p = queue[i]
                 PROVE  FALSE
      BY DEF Elems
    <3>1. Upcoming' = queue[1] /\ 1 \in 1..Len(queue) /\ i >= 1
      BY <1>1, <2>3
    <3>2. queue[1] <= queue[i]
      BY <1>1, <1>2, <3>1 DEF QueueInv, Positions
    <3> QED
      BY <1>2, <3>1, <3>2 DEF Positions
  <2>7. \A p \in Positions : Upcoming < p /\ p < Upcoming' => p \in NotQueued
    BY <2>6 DEF QueueInv
  <2>8. Onward
    BY <1>3, <2>1, <2>2, <2>4, <2>7 DEF Onward, Positions
  <2> QED
    BY <2>1, <2>5, <2>8 DEF QueueInv, Elems
<1> QED
  BY <1>4, <1>5, <1>6, <1>7, <1>8, Moves

\* Every message of the group keeps the stream well formed.
LEMMA StreamStep ==
  ASSUME TypeInv, StreamInv, [Next]_vars
  PROVE  StreamInv'
<1>1. CASE UNCHANGED stream
  BY <1>1 DEF StreamInv, Positions, IsHeader, IsFrame
<1>2. CASE Arrives
  <2>1. PICK m \in Messages : stream' = Append(stream, m) /\ Follows(m)
    BY <1>2 DEF Arrives
  <2>2. stream \in Seq(Messages) /\ Len(stream) \in Nat
    BY DEF TypeInv, TypeOK
  <2>3. stream'[Len(stream')] = m /\ Len(stream') = Len(stream) + 1
    BY <2>1, <2>2
  <2>4. stream # <<>> => Last(stream) = stream[Len(stream)] /\ Len(stream) >= 1
    BY <2>2 DEF Last
  <2>5. stream = <<>> => Len(stream) = 0
    OBVIOUS
  <2> SUFFICES ASSUME NEW n \in Positions'
               PROVE  /\ n = 1 => IsHeader(n)'
                      /\ n > 1 => /\ IsFrame(n)' => stream'[n].cfg = stream'[n - 1].cfg
                                  /\ stream'[n].type = "inter" => IsFrame(n - 1)' \/ n = 2
    BY DEF StreamInv
  <2>6. CASE n \in Positions
    <3>1. n > 1 => n - 1 \in Positions
      BY <2>2, <2>6 DEF Positions
    <3> QED
      BY <1>2, <2>6, <3>1, StreamGrows DEF StreamInv, IsHeader, IsFrame
  <2>7. CASE n = Len(stream')
    <3>1. n > 1 => n - 1 = Len(stream) /\ n - 1 \in Positions
      BY <2>2, <2>3, <2>7 DEF Positions
    <3>2. n = 1 => stream = <<>>
      BY <2>2, <2>3, <2>7, Empty
    <3>3. n > 1 => stream # <<>>
      BY <2>2, <2>3, <2>5, <2>7
    <3>4. n > 1 => stream'[n - 1] = Last(stream)
      BY <1>2, <2>4, <3>1, <3>3, StreamGrows
    <3> QED
      BY <2>1, <2>2, <2>3, <2>7, <3>1, <3>2, <3>3, <3>4 DEF Follows, IsHeader, IsFrame
  <2> QED
    BY <1>2, <2>6, <2>7, StreamGrows
<1> QED
  BY <1>1, <1>2, Moves DEF Stays, Queues, PassesBy, IsTaken, IsDone

----------------------------------------------------------------------------
(* The held GOP, and the state that goes with it.                         *)

\* Between position k and the message the loop is at, all but headers is in S.
Covers(k, S) == \A p \in Positions : k < p /\ p < Upcoming => p \in S \/ IsHeader(p)

\* The held GOP is in the order of the stream, and lacks no message since its first
\* but headers and what never was queued.
GopInv ==
    /\ \A i, j \in 1..Len(gop) : i <= j => gop[j] - gop[i] >= j - i
    /\ \A i \in 1..Len(gop) : IsFrame(gop[i]) /\ gop[i] < Upcoming
    /\ gop # <<>> => Covers(gop[1], Elems(gop) \cup NotQueued)
    /\ videoSeq # 0 => IsHeader(videoSeq) /\ videoSeq < Upcoming

\* No segment is open while a keyframe is awaited, or before the GOP is flushed; only
\* headers are applied until the keyframe.
CacheInv ==
    /\ awaitKeyframe => gop = <<>> /\ seg = None
    /\ awaitKeyframe /\ pc = "apply" => todo = <<msg>> /\ IsHeader(msg)
    /\ awaitKeyframe => pc \notin {"rotate", "switch"}
    /\ pc = "apply" => flushed \/ awaitKeyframe
    /\ ~flushed => seg = None

\* What is to be applied is in the order of the stream after the header it may
\* start with, ends with the message at hand, and lacks nothing after its first frame.
TodoInv ==
    /\ \A i, j \in 1..Len(todo) : i < j /\ IsFrame(todo[i]) => todo[i] < todo[j]
    /\ todo # <<>> => todo[Len(todo)] = msg
    /\ \A i \in 1..Len(todo) : i < Len(todo) /\ IsHeader(todo[i]) => i = 1 /\ seg = None
    /\ \A i \in 1..Len(todo) :
         IsFrame(todo[i]) => Covers(todo[i], Elems(todo) \cup NotQueued)

\* The frame k is before all that is to be applied, and nothing after it is missing
\* that is not lost.
Anchored(k) ==
    /\ k \in Positions /\ k < Upcoming
    /\ \A i \in 1..Len(todo) : IsFrame(todo[i]) => k < todo[i]
    /\ Covers(k, Elems(todo) \cup Lost)

\* The open segment ends at such a frame, or begins with one that was not written.
SegInv ==
    seg # None =>
      /\ seg.frames # <<>> => Anchored(seg.frames[Len(seg.frames)])
      /\ seg.frames = <<>> => \E k \in unwritten : Anchored(k)

\* A step that leaves alone what is held and what is to be applied: one of the
\* subscriber's or of a caller's, or one of the loop that handles no message.
Elsewhere ==
    /\ UNCHANGED <<todo, gop, videoSeq, flushed, awaitKeyframe, unwritten, sps, wanted>>
    /\ msg' = msg \/ msg = 0
    /\ pc' = pc \/ pc' \in {"resync", "done"}
    /\ pc = "done" => pc' = "done"
    /\ Footage' \subseteq Footage
    /\ \/ seg' = seg /\ recordings' = recordings
       \/ /\ pc' = "done" /\ seg' = None
          /\ \/ recordings' = recordings
             \/ \E b : /\ seg # None
                       /\ recordings' = Append(recordings,
                             [cfg |-> seg.cfg, frames |-> seg.frames, listed |-> b])
    /\ faults <= faults'
    /\ faults' = 0 => \A s \in Footage : s.frames = <<>> \/ s \in Footage'
    /\ overflowing' => overflowing \/ NotQueued' # {}
    /\ mediaGap' => mediaGap \/ overflowing
    /\ flips' = 0 => flips = 0 /\ UNCHANGED <<writing, rotate>>
    /\ ~interrupted' => ~interrupted /\ UNCHANGED rotate /\ (writing => writing')

\* Every step handles no message, or is one of five of the loop.
LEMMA Steps ==
  ASSUME TypeInv, [Next]_vars
  PROVE  Elsewhere \/ Resync \/ ObeyRotate \/ SkipWhenOff \/ PrepareWhenOn \/ Apply
<1>1. flips \in Nat /\ faults \in Nat
  BY DEF TypeInv, TypeOK
<1>2. ASSUME UNCHANGED <<todo, gop, videoSeq, flushed, awaitKeyframe, unwritten, sps, wanted, seg,
                         recordings, faults>>,
             msg' = msg \/ msg = 0,
             pc' = pc \/ (pc = "wait" /\ pc' = "resync"),
             overflowing' => overflowing \/ NotQueued' # {},
             mediaGap' => mediaGap \/ overflowing,
             flips' = 0 => flips = 0 /\ UNCHANGED <<writing, rotate>>,
             ~interrupted' => ~interrupted /\ UNCHANGED rotate /\ (writing => writing')
      PROVE  Elsewhere
  <2>1. Footage' = Footage /\ faults <= faults'
    BY <1>1, <1>2 DEF Footage
  <2> QED
    BY <1>2, <2>1 DEF Elsewhere
<1>3. CASE Enqueue \/ IgnoreWhenStopped
  BY <1>2, <1>3 DEF Enqueue, IgnoreWhenStopped
<1>4. CASE Overflow
  <2>1. NotQueued' # {}
    BY <1>4 DEF Overflow, NotQueued
  <2> QED
    BY <1>2, <1>4, <2>1 DEF Overflow
<1>5. CASE MarkGap \/ Halt \/ UNCHANGED vars
  BY <1>2, <1>5 DEF MarkGap, Halt
<1>6. CASE SetWriting
  <2>1. flips' # 0
    BY <1>1, <1>6 DEF SetWriting
  <2>2. interrupted' <=> interrupted \/ writing
    BY <1>6, Zenon DEF SetWriting
  <2> QED
    BY <1>2, <1>6, <2>1, <2>2 DEF SetWriting
<1>7. CASE Rotate
  <2>1. flips' # 0 /\ interrupted'
    BY <1>1, <1>7 DEF Rotate
  <2> QED
    BY <1>2, <1>7, <2>1 DEF Rotate
<1>8. CASE Take
  <2>1. msg = 0
    BY <1>8 DEF Take, TypeInv
  <2> QED
    BY <1>2, <1>8, <2>1 DEF Take
<1>9. CASE SeeStop
  BY <1>2, <1>9 DEF SeeStop
<1>10. CASE Finish
  <2>1. /\ UNCHANGED <<todo, gop, videoSeq, flushed, awaitKeyframe, unwritten, sps, wanted, msg,
                       overflowing, mediaGap, flips, writing, rotate, interrupted>>
        /\ pc' = "done"
    BY <1>10 DEF Finish
  <2>2. /\ seg' = None /\ faults <= faults' /\ Footage' \subseteq Footage
        /\ faults' = 0 => \A s \in Footage : s.frames = <<>> \/ s \in Footage'
        /\ \/ recordings' = recordings
           \/ \E b : /\ seg # None
                     /\ recordings' = Append(recordings,
                           [cfg |-> seg.cfg, frames |-> seg.frames, listed |-> b])
    BY <1>10, Closing DEF Finish
  <2> QED
    BY <2>1, <2>2 DEF Elsewhere
<1> QED
  BY <1>3, <1>4, <1>5, <1>6, <1>7, <1>8, <1>9, <1>10 DEF Next, Loop

\* A message stays what it is.
LEMMA HeadersStay ==
  ASSUME Onward
  PROVE  \A p \in Positions : (IsHeader(p)' <=> IsHeader(p)) /\ (IsFrame(p)' <=> IsFrame(p))
                              /\ (IsKey(p)' <=> IsKey(p))
  BY DEF Onward, IsHeader, IsFrame, IsKey

\* What covers the stream up to a message that is done with covers it from there too.
LEMMA CoversOn ==
  ASSUME TypeInv, Onward, NEW k \in Nat, NEW S, NEW T, Covers(k, S),
         \A p \in Positions : k < p /\ p \in S => p \in T \/ IsHeader(p),
         NotQueued' \subseteq T,
         msg # 0 /\ msg' = 0 /\ k < msg => msg \in T \/ IsHeader(msg)
  PROVE  \A p \in Positions' : k < p /\ p < Upcoming' => p \in T \/ IsHeader(p)'
<1> SUFFICES ASSUME NEW p \in Positions', k < p, p < Upcoming'
             PROVE  p \in T \/ IsHeader(p)'
  OBVIOUS
<1>1. Len(stream) \in Nat /\ Len(stream') \in Nat /\ msg \in Positions \cup {0}
  <2>1. stream \in Seq(Messages) /\ msg \in Positions \cup {0}
    BY DEF TypeInv, TypeOK
  <2>2. Len(stream) \in Nat
    BY <2>1
  <2> QED
    BY <2>1, <2>2 DEF Onward, Positions
<1>2. CASE p < Upcoming
  <2>1. p \in Positions
    BY <1>1, <1>2 DEF Onward, Positions
  <2> QED
    BY <1>2, <2>1, HeadersStay DEF Covers
<1>3. CASE Upcoming <= p
  <2>1. CASE p = msg /\ p # 0 /\ msg' = 0
    BY <1>1, <2>1, HeadersStay
  <2>2. CASE p \in NotQueued'
    BY <2>2
  <2> QED
    BY <1>3, <2>1, <2>2 DEF Onward
<1> QED
  BY <1>1, <1>2, <1>3 DEF Onward, Positions

\* A sequence in the order of the stream.
Ordered(s) == \A i, j \in 1..Len(s) : i <= j => s[j] - s[i] >= j - i

\* A later message may be appended to a sequence in order.
LEMMA OrderedAppend ==
  ASSUME NEW s \in Seq(Nat), Ordered(s), NEW n \in Nat, \A i \in 1..Len(s) : s[i] < n
  PROVE  Ordered(Append(s, n))
<1> DEFINE t == Append(s, n)
<1>1. /\ Len(s) \in Nat /\ Len(t) = Len(s) + 1 /\ t[Len(s) + 1] = n
      /\ \A i \in 1..Len(s) : t[i] = s[i] /\ s[i] \in Nat
  OBVIOUS
<1> HIDE DEF t
<1>2. ASSUME NEW i \in 1..Len(t), NEW j \in 1..Len(t), i <= j
      PROVE  t[j] - t[i] >= j - i
  <2>1. CASE j \in 1..Len(s)
    <3>1. i \in 1..Len(s) /\ s[j] - s[i] >= j - i
      BY <1>1, <1>2, <2>1 DEF Ordered
    <3> QED
      BY <1>1, <2>1, <3>1
  <2>2. CASE j = Len(s) + 1 /\ i = j
    BY <1>1, <2>2
  <2>3. CASE j = Len(s) + 1 /\ i \in 1..Len(s)
    <3>1. Len(s) \in 1..Len(s) /\ s[Len(s)] - s[i] >= Len(s) - i /\ s[Len(s)] < n
      BY <1>1, <2>3 DEF Ordered
    <3> QED
      BY <1>1, <2>3, <3>1
  <2> QED
    BY <1>1, <1>2, <2>1, <2>2, <2>3
<1> QED
  BY <1>2 DEF Ordered, t

\* A sequence in order stays so without its first element.
LEMMA OrderedTail ==
  ASSUME NEW s \in Seq(Nat), Ordered(s), s # <<>>
  PROVE  /\ Ordered(Tail(s))
         /\ \A x \in Elems(s) : x = s[1] \/ x \in Elems(Tail(s))
         /\ Tail(s) # <<>> => s[1] < Tail(s)[1]
<1> DEFINE t == Tail(s)
<1>1. /\ Len(s) \in Nat /\ Len(s) >= 1 /\ Len(t) = Len(s) - 1 /\ t \in Seq(Nat)
      /\ \A i \in 1..Len(t) : t[i] = s[i + 1]
      /\ \A i \in 1..Len(s) : s[i] \in Nat
  OBVIOUS
<1>2. t # <<>> => Len(t) >= 1
  BY <1>1, Empty
<1> HIDE DEF t
<1>3. ASSUME NEW i \in 1..Len(t), NEW j \in 1..Len(t), i <= j
      PROVE  t[j] - t[i] >= j - i
  <2>1. i + 1 \in 1..Len(s) /\ j + 1 \in 1..Len(s) /\ i + 1 <= j + 1
    BY <1>1, <1>3
  <2>2. s[j + 1] - s[i + 1] >= (j + 1) - (i + 1)
    BY <2>1 DEF Ordered
  <2>3. (j + 1) - (i + 1) = j - i /\ t[i] = s[i + 1] /\ t[j] = s[j + 1]
    BY <1>1
  <2> QED
    BY <2>2, <2>3
<1>4. ASSUME NEW x \in Elems(s), x # s[1] PROVE x \in Elems(t)
  <2>1. PICK i \in 1..Len(s) : x = s[i]
    BY DEF Elems
  <2>2. i - 1 \in 1..Len(t) /\ t[i - 1] = x
    BY <1>1, <1>4, <2>1
  <2> QED
    BY <2>2 DEF Elems
<1>5. ASSUME t # <<>> PROVE s[1] < t[1]
  <2>1. 1 \in 1..Len(s) /\ 2 \in 1..Len(s) /\ t[1] = s[2]
    BY <1>1, <1>2, <1>5
  <2>2. s[2] - s[1] >= 2 - 1
    BY <2>1 DEF Ordered
  <2> QED
    BY <1>1, <2>1, <2>2
<1> QED
  BY <1>3, <1>4, <1>5 DEF Ordered, t

\* remember keeps the held GOP so.
LEMMA RememberKeeps ==
  ASSUME TypeInv, TypeInv', GopInv, Onward, msg # 0, msg' = 0, Remember(msg)
  PROVE  GopInv'
<1>1. /\ gop \in Seq(Positions) /\ gop \in Seq(Nat) /\ msg \in Positions /\ msg \in Nat
      /\ Upcoming = msg /\ Upcoming' \in Nat /\ msg < Upcoming'
  <2>1. gop \in Seq(Positions) /\ msg \in Positions /\ Positions \subseteq Nat
    <3>1. gop \in Seq(Positions) /\ msg \in Positions
      BY DEF TypeInv, TypeOK
    <3> QED
      BY <3>1 DEF Positions
  <2> QED
    BY <2>1, Wider DEF Onward
<1>2. Ordered(gop) /\ \A i \in 1..Len(gop) : gop[i] \in Positions /\ gop[i] < msg
  BY <1>1 DEF GopInv, Ordered
<1> DEFINE T(s) == Elems(s) \cup NotQueued'
<1> SUFFICES /\ Ordered(gop')
             /\ \A x \in Elems(gop') : x \in Positions /\ x <= msg /\ IsFrame(x)
             /\ gop' # <<>> => \A p \in Positions' :
                   gop'[1] < p /\ p < Upcoming' => p \in T(gop') \/ IsHeader(p)'
             /\ videoSeq' # 0 => videoSeq' \in Positions /\ videoSeq' <= msg /\ IsHeader(videoSeq')
  <2>1. \A i \in 1..Len(gop') : gop'[i] \in Elems(gop')
    BY DEF Elems
  <2> QED
    BY <1>1, <2>1, HeadersStay DEF GopInv, Ordered, Covers, Positions
<1> HIDE DEF T
<1>3. CASE IsHeader(msg)
  <2>1. gop' = gop /\ videoSeq' = msg
    BY <1>3 DEF Remember
  <2>2. \A x \in Elems(gop') : x \in Positions /\ x <= msg /\ IsFrame(x)
    BY <1>1, <1>2, <2>1 DEF Elems, GopInv, Positions
  <2>3. ASSUME gop # <<>>
        PROVE  \A p \in Positions' :
                 gop[1] < p /\ p < Upcoming' => p \in T(gop) \/ IsHeader(p)'
    <3>1. Covers(gop[1], Elems(gop) \cup NotQueued) /\ gop[1] \in Nat
      BY <1>1, <2>3 DEF GopInv
    <3>2. /\ \A p \in Elems(gop) \cup NotQueued : p \in T(gop)
          /\ NotQueued' \subseteq T(gop)
      BY DEF T, Onward
    <3> QED
      BY <1>3, <3>1, <3>2, CoversOn
  <2> QED
    BY <1>1, <1>2, <1>3, <2>1, <2>2, <2>3 DEF Positions
<1>4. CASE IsKey(msg)
  <2>1. gop' = <<msg>> /\ videoSeq' = videoSeq /\ IsFrame(msg)
    BY <1>4 DEF Remember, IsHeader, IsKey, IsFrame
  <2>2. Len(gop') = 1 /\ gop'[1] = msg
    BY <2>1
  <2>3. Elems(gop') = {msg}
    BY <2>2 DEF Elems
  <2>4. Ordered(gop')
    BY <1>1, <2>2 DEF Ordered
  <2>5. \A p \in Positions' : msg < p /\ p < Upcoming' => p \in NotQueued'
    BY <1>1 DEF Onward, Positions
  <2>6. videoSeq' # 0 => videoSeq' \in Positions /\ videoSeq' <= msg /\ IsHeader(videoSeq')
    BY <1>1, <2>1 DEF GopInv, TypeInv, TypeOK, Positions
  <2> QED
    BY <1>1, <2>1, <2>2, <2>3, <2>4, <2>5, <2>6 DEF T
<1>5. CASE IsFrame(msg) /\ ~IsKey(msg)
  <2> DEFINE longer == Append(gop, msg)
  <2>1. /\ videoSeq' = videoSeq
        /\ gop' = longer \/ gop' = Tail(longer)
    BY <1>5 DEF Remember, IsFrame
  <2>2. Ordered(longer) /\ longer \in Seq(Nat) /\ longer # <<>>
    BY <1>1, <1>2, OrderedAppend
  <2>3. /\ Len(longer) = Len(gop) + 1 /\ longer[Len(gop) + 1] = msg /\ Len(gop) \in Nat
        /\ \A i \in 1..Len(gop) : longer[i] = gop[i]
    BY <1>1
  <2>4. Elems(longer) = Elems(gop) \cup {msg}
    BY <2>3 DEF Elems
  <2>5. \A x \in Elems(longer) : x \in Positions /\ x <= msg /\ IsFrame(x)
    <3>1. \A x \in Elems(gop) : x \in Positions /\ x <= msg /\ IsFrame(x)
      BY <1>1, <1>2 DEF Elems, GopInv, Positions
    <3> QED
      BY <1>1, <1>5, <2>4, <3>1
  <2>6. longer[1] \in Nat
    BY <2>2
  <2>7. \A p \in Positions' : longer[1] < p /\ p < Upcoming' => p \in T(longer) \/ IsHeader(p)'
    <3>1. CASE gop = <<>>
      <4>1. longer[1] = msg
        BY <3>1
      <4>2. \A p \in Positions' : msg < p /\ p < Upcoming' => p \in NotQueued'
        BY <1>1 DEF Onward, Positions
      <4> QED
        BY <4>1, <4>2 DEF T
    <3>2. CASE gop # <<>>
      <4>1. longer[1] = gop[1] /\ gop[1] \in Nat
        BY <1>1, <2>3, <3>2
      <4>2. Covers(gop[1], Elems(gop) \cup NotQueued)
        BY <3>2 DEF GopInv
      <4>3. /\ \A p \in Elems(gop) \cup NotQueued : p \in T(longer)
            /\ NotQueued' \subseteq T(longer) /\ msg \in T(longer)
        BY <2>4 DEF T, Onward
      <4> HIDE DEF longer
      <4> QED
        BY <4>1, <4>2, <4>3, CoversOn
    <3> QED
      BY <3>1, <3>2
  <2>8. videoSeq' # 0 => videoSeq' \in Positions /\ videoSeq' <= msg /\ IsHeader(videoSeq')
    BY <1>1, <2>1 DEF GopInv, TypeInv, TypeOK, Positions
  <2> HIDE DEF longer
  <2>9. CASE gop' = longer
    BY <2>2, <2>5, <2>7, <2>8, <2>9
  <2>10. CASE gop' = Tail(longer)
    <3> DEFINE t == Tail(longer)
    <3>1. /\ Ordered(t)
          /\ \A x \in Elems(longer) : x = longer[1] \/ x \in Elems(t)
          /\ t # <<>> => longer[1] < t[1]
      BY <2>2, OrderedTail
    <3>2. Elems(t) \subseteq Elems(longer)
      <4>1. /\ Len(t) = Len(longer) - 1 /\ Len(longer) \in Nat /\ Len(longer) >= 1
            /\ \A i \in 1..Len(t) : t[i] = longer[i + 1]
        BY <2>2
      <4>2. \A i \in 1..Len(t) : i + 1 \in 1..Len(longer)
        BY <4>1
      <4> QED
        BY <4>1, <4>2 DEF Elems
    <3>3. t # <<>> => t[1] \in Nat
      BY <2>2
    <3> HIDE DEF t
    <3>4. t # <<>> => \A p \in Positions' :
                        t[1] < p /\ p < Upcoming' => p \in T(t) \/ IsHeader(p)'
      <4> SUFFICES ASSUME t # <<>>, NEW p \in Positions', t[1] < p, p < Upcoming'
                   PROVE  p \in T(t) \/ IsHeader(p)'
        OBVIOUS
      <4>1. longer[1] < p /\ p # longer[1]
        BY <2>6, <3>1, <3>3 DEF Positions
      <4> QED
        BY <2>7, <3>1, <4>1 DEF T
    <3>5. gop' = t
      BY <2>10 DEF t
    <3> QED
      BY <2>5, <2>8, <3>1, <3>2, <3>4, <3>5
  <2> QED
    BY <2>1, <2>9, <2>10
<1> QED
  BY <1>3, <1>4, <1>5 DEF IsFrame

\* A loop step that does not remember drops no message that a held GOP lacks.
LEMMA GopKeeps ==
  ASSUME TypeInv, TypeInv', GopInv, Onward, gop' = gop \/ gop' = <<>>, videoSeq' = videoSeq,
         msg # 0 /\ msg' = 0 => gop' = <<>>
  PROVE  GopInv'
<1>1. gop \in Seq(Positions) /\ Len(gop) \in Nat /\ Upcoming' \in Nat
  BY DEF TypeInv, TypeOK, Onward
<1>2. /\ \A i \in 1..Len(gop) : gop[i] \in Positions
      /\ gop # <<>> => gop[1] \in Nat
  BY <1>1 DEF Positions
<1>3. videoSeq' # 0 => IsHeader(videoSeq)' /\ videoSeq' < Upcoming'
  <2>1. videoSeq \in Positions \cup {0}
    BY DEF TypeInv, TypeOK
  <2> QED
    BY <2>1, HeadersStay DEF GopInv, Onward, Positions
<1>4. CASE gop' = <<>>
  BY <1>3, <1>4 DEF GopInv
<1>5. CASE gop' = gop /\ gop # <<>>
  <2>1. \A p \in Positions' : gop[1] < p /\ p < Upcoming'
                             => p \in Elems(gop) \cup NotQueued' \/ IsHeader(p)'
    <3>1. Covers(gop[1], Elems(gop) \cup NotQueued)
      BY <1>5 DEF GopInv
    <3>2. ~(msg # 0 /\ msg' = 0) /\ NotQueued \subseteq NotQueued'
      BY <1>5 DEF Onward
    <3> QED
      BY <1>2, <1>5, <3>1, <3>2, CoversOn
  <2>2. \A i \in 1..Len(gop) : IsFrame(gop[i])' /\ gop[i] < Upcoming'
    <3> SUFFICES ASSUME NEW i \in 1..Len(gop) PROVE IsFrame(gop[i])' /\ gop[i] < Upcoming'
      OBVIOUS
    <3>1. IsFrame(gop[i]) /\ gop[i] < Upcoming /\ gop[i] \in Positions /\ gop[i] \in Nat
      BY <1>2 DEF GopInv, Positions
    <3>2. IsFrame(gop[i])' <=> stream'[gop[i]].type # "header"
      BY <1>5 DEF IsFrame, IsHeader
    <3> QED
      BY <3>1, <3>2 DEF Onward, IsFrame, IsHeader
  <2> QED
    BY <1>3, <1>5, <2>1, <2>2 DEF GopInv, Covers, Elems
<1> QED
  BY <1>4, <1>5

\* Every step keeps the held GOP so.
LEMMA GopStep ==
  ASSUME TypeInv, TypeInv', GopInv, CacheInv, Onward, [Next]_vars
  PROVE  GopInv'
<1>1. CASE Elsewhere
  BY <1>1, GopKeeps DEF Elsewhere
<1>2. CASE Resync
  <2>1. (gop' = gop \/ gop' = <<>>) /\ videoSeq' = videoSeq
    BY <1>2 DEF Resync
  <2>2. ASSUME msg # 0, msg' = 0 PROVE gop' = <<>>
    BY <1>2, <2>2 DEF Resync, CacheInv
  <2> QED
    BY <2>1, <2>2, GopKeeps
<1>3. CASE ObeyRotate \/ PrepareWhenOn
  BY <1>3, GopKeeps DEF ObeyRotate, PrepareWhenOn
<1>4. CASE SkipWhenOff
  <2>1. msg # 0
    BY <1>4 DEF SkipWhenOff, TypeInv, TypeOK
  <2> QED
    BY <1>4, <2>1, RememberKeeps DEF SkipWhenOff
<1>5. CASE Apply
  <2>1. msg # 0
    BY <1>5 DEF Apply, TypeInv, TypeOK
  <2>2. CASE Len(todo) = 1
    BY <1>5, <2>1, <2>2, RememberKeeps DEF Apply
  <2>3. CASE Len(todo) # 1
    BY <1>5, <2>3, GopKeeps DEF Apply
  <2> QED
    BY <2>2, <2>3
<1> QED
  BY <1>1, <1>2, <1>3, <1>4, <1>5, Steps

\* Every step keeps the segment and the held GOP in step.
LEMMA CacheStep ==
  ASSUME TypeInv, TypeInv', CacheInv, Onward, [Next]_vars
  PROVE  CacheInv'
<1>1. CASE Elsewhere
  <2>1. pc' = pc \/ pc' \in {"resync", "done"}
    BY <1>1 DEF Elsewhere
  <2>2. pc = "apply" => msg \in Positions /\ msg # 0
    BY DEF TypeInv, TypeOK
  <2>3. pc = "apply" /\ pc' = "apply" /\ IsHeader(msg) => msg' = msg /\ IsHeader(msg)'
    BY <1>1, <2>2, HeadersStay DEF Elsewhere
  <2> QED
    BY <1>1, <2>1, <2>3 DEF Elsewhere, CacheInv
<1>2. CASE Resync
  <2>1. mediaGap => seg' = None /\ gop' = <<>> /\ flushed'
    BY <1>2 DEF Resync, CloseSegment
  <2>2. ~mediaGap => UNCHANGED <<seg, gop, flushed>>
    BY <1>2 DEF Resync
  <2>3. awaitKeyframe' => /\ mediaGap \/ awaitKeyframe
                          /\ pc' \in {"apply", "wait"}
                          /\ pc' = "apply" => todo' = <<msg>> /\ msg' = msg /\ IsHeader(msg)
    BY <1>2 DEF Resync, IsFrame
  <2>4. /\ msg' = msg /\ IsHeader(msg) => IsHeader(msg)'
        /\ pc' = "apply" => awaitKeyframe'
    BY <1>2 DEF Resync, IsHeader
  <2> QED
    BY <2>1, <2>2, <2>3, <2>4 DEF CacheInv
<1>3. CASE ObeyRotate
  <2>1. UNCHANGED <<gop, awaitKeyframe>> /\ (seg' = seg \/ seg' = None) /\ ~awaitKeyframe
        /\ pc' = "switch"
    BY <1>3 DEF ObeyRotate, CloseSegment, CacheInv
  <2>2. flushed' = flushed \/ seg' = None
    BY <1>3 DEF ObeyRotate, CloseSegment
  <2> QED
    BY <2>1, <2>2 DEF CacheInv
<1>4. CASE SkipWhenOff
  BY <1>4 DEF SkipWhenOff, CloseSegment, CacheInv
<1>5. CASE PrepareWhenOn
  BY <1>5 DEF PrepareWhenOn, CacheInv
<1>6. CASE Apply
  <2>1. UNCHANGED <<flushed, awaitKeyframe>> /\ todo' = Tail(todo) /\ pc = "apply"
    BY <1>6 DEF Apply
  <2>2. CASE awaitKeyframe
    <3>1. todo = <<msg>> /\ IsHeader(msg) /\ gop = <<>> /\ seg = None
      BY <2>1, <2>2 DEF CacheInv
    <3>2. Head(todo) = msg /\ Len(todo) = 1
      BY <3>1
    <3>3. ApplyHeader(msg) /\ Remember(msg) /\ pc' = "wait"
      BY <1>6, <3>1, <3>2 DEF Apply
    <3>4. gop' = gop
      BY <3>1, <3>3 DEF Remember
    <3>5. seg' = None
      BY <3>1, <3>3 DEF ApplyHeader, CloseSegment
    <3> QED
      BY <3>1, <3>3, <3>4, <3>5 DEF CacheInv
  <2>3. CASE ~awaitKeyframe
    BY <2>1, <2>3 DEF CacheInv
  <2> QED
    BY <2>1, <2>2, <2>3 DEF CacheInv
<1> QED
  BY <1>1, <1>2, <1>3, <1>4, <1>5, <1>6, Steps

----------------------------------------------------------------------------
(* What is to be applied, and the frame it goes on from.                  *)

\* What is to be applied, and while there is something, the message at hand.
LEMMA ToApply ==
  ASSUME TypeInv
  PROVE  /\ todo \in Seq(Positions) /\ Len(todo) \in Nat
         /\ \A i \in 1..Len(todo) : todo[i] \in Positions /\ todo[i] \in Nat
         /\ todo # <<>> <=> Len(todo) >= 1
         /\ todo # <<>> => msg \in Positions /\ msg # 0 /\ Upcoming = msg
         /\ pc # "apply" => todo = <<>>
<1>1. todo \in Seq(Positions)
  BY DEF TypeInv, TypeOK
<1>2. Len(todo) \in Nat /\ \A i \in 1..Len(todo) : todo[i] \in Positions
  BY <1>1
<1>3. todo # <<>> <=> Len(todo) >= 1
  BY <1>1, <1>2, Empty
<1>4. todo # <<>> => msg \in Positions /\ msg # 0 /\ Upcoming = msg
  BY DEF TypeInv, TypeOK, Upcoming
<1>5. pc # "apply" => todo = <<>>
  BY DEF TypeInv, TypeOK
<1> QED
  BY <1>1, <1>2, <1>3, <1>4, <1>5 DEF Positions

\* flushHeld: the header, the held GOP and the message at hand.
LEMMA Flushing ==
  ASSUME TypeInv, msg \in Positions, NEW t, t = Append(Held, msg)
  PROVE  \E o \in {0, 1} :
           /\ Len(t) = o + Len(gop) + 1 /\ Len(gop) \in Nat
           /\ t[Len(t)] = msg
           /\ o = 1 => t[1] = videoSeq /\ videoSeq # 0
           /\ o = 0 => videoSeq = 0
           /\ \A i \in 1..Len(gop) : t[i + o] = gop[i]
<1>1. gop \in Seq(Positions) /\ videoSeq \in Positions \cup {0}
  BY DEF TypeInv, TypeOK
<1>2. CASE videoSeq = 0
  <2>1. Held = gop
    BY <1>1, <1>2 DEF Held
  <2>2. /\ Len(t) = Len(gop) + 1 /\ Len(gop) \in Nat /\ t[Len(gop) + 1] = msg
        /\ \A i \in 1..Len(gop) : t[i] = gop[i]
    BY <1>1, <2>1
  <2> WITNESS 0 \in {0, 1}
  <2> QED
    BY <1>2, <2>2
<1>3. CASE videoSeq # 0
  <2>1. Held = <<videoSeq>> \o gop
    BY <1>3 DEF Held
  <2>2. /\ Held \in Seq(Positions) /\ Len(Held) = 1 + Len(gop) /\ Len(gop) \in Nat
        /\ Held[1] = videoSeq
        /\ \A i \in 1..Len(gop) : Held[i + 1] = gop[i]
    BY <1>1, <1>3, <2>1
  <2>3. /\ Len(t) = Len(Held) + 1 /\ t[Len(Held) + 1] = msg
        /\ \A i \in 1..Len(Held) : t[i] = Held[i]
    BY <2>2
  <2>4. t[1] = videoSeq /\ \A i \in 1..Len(gop) : t[i + 1] = gop[i]
    BY <2>2, <2>3
  <2> WITNESS 1 \in {0, 1}
  <2> QED
    BY <1>3, <2>2, <2>3, <2>4
<1> QED
  BY <1>2, <1>3

\* The flushed messages are in order and lack nothing that was not lost.
LEMMA FlushedInOrder ==
  ASSUME TypeInv, GopInv, msg # 0, Upcoming = msg, NEW t, t = Append(Held, msg)
  PROVE  /\ \A i, j \in 1..Len(t) : i < j /\ IsFrame(t[i]) => t[i] < t[j]
         /\ t # <<>> /\ t[Len(t)] = msg
         /\ \A i \in 1..Len(t) : i < Len(t) /\ IsHeader(t[i]) => i = 1
         /\ \A i \in 1..Len(t) : IsFrame(t[i]) => Covers(t[i], Elems(t) \cup NotQueued)
<1>1. msg \in Positions /\ gop \in Seq(Positions)
  BY DEF TypeInv, TypeOK
<1>2. PICK o \in {0, 1} :
           /\ Len(t) = o + Len(gop) + 1 /\ Len(gop) \in Nat
           /\ t[Len(t)] = msg
           /\ o = 1 => t[1] = videoSeq /\ videoSeq # 0
           /\ o = 0 => videoSeq = 0
           /\ \A i \in 1..Len(gop) : t[i + o] = gop[i]
  BY <1>1, Flushing
<1>3. \A i \in 1..Len(t) :
         \/ i = 1 /\ o = 1 /\ t[i] = videoSeq /\ IsHeader(t[i])
         \/ i = Len(t) /\ t[i] = msg
         \/ /\ i - o \in 1..Len(gop) /\ t[i] = gop[i - o] /\ gop[i - o] \in Positions
            /\ IsFrame(t[i]) /\ t[i] < msg
  <2> SUFFICES ASSUME NEW i \in 1..Len(t), ~(i = 1 /\ o = 1), i # Len(t)
               PROVE  /\ i - o \in 1..Len(gop) /\ t[i] = gop[i - o] /\ gop[i - o] \in Positions
                      /\ IsFrame(t[i]) /\ t[i] < msg
    BY <1>2 DEF GopInv
  <2>1. i - o \in 1..Len(gop) /\ (i - o) + o = i
    BY <1>2
  <2>2. t[i] = gop[i - o]
    BY <1>2, <2>1
  <2> QED
    BY <1>1, <2>1, <2>2 DEF GopInv
<1>4. ASSUME NEW i \in 1..Len(t), NEW j \in 1..Len(t), i < j, IsFrame(t[i])
      PROVE  t[i] < t[j]
  <2>1. i - o \in 1..Len(gop) /\ t[i] = gop[i - o] /\ gop[i - o] \in Positions /\ t[i] < msg
    BY <1>2, <1>3, <1>4 DEF IsFrame
  <2>2. CASE j = Len(t)
    BY <1>2, <2>1, <2>2
  <2>3. CASE j # Len(t)
    <3>1. j - o \in 1..Len(gop) /\ t[j] = gop[j - o] /\ gop[j - o] \in Positions
      BY <1>2, <1>3, <1>4, <2>3
    <3>2. gop[j - o] - gop[i - o] >= (j - o) - (i - o)
      <4>1. i - o <= j - o
        BY <1>2, <1>4
      <4> QED
        BY <2>1, <3>1, <4>1 DEF GopInv
    <3>3. (j - o) - (i - o) >= 1
      BY <1>2, <1>4
    <3>4. gop[j - o] \in Nat /\ gop[i - o] \in Nat
      BY <2>1, <3>1 DEF Positions
    <3>5. gop[i - o] < gop[j - o]
      BY <1>2, <3>2, <3>3, <3>4
    <3> QED
      BY <2>1, <3>1, <3>5
  <2> QED
    BY <2>2, <2>3
<1>5. t # <<>>
  <2>1. Held \in Seq(Positions)
    BY <1>1 DEF Held, TypeInv, TypeOK
  <2> QED
    BY <2>1, <1>1
<1>6. \A i \in 1..Len(t) : i < Len(t) /\ IsHeader(t[i]) => i = 1
  BY <1>2, <1>3 DEF IsFrame
<1>7. ASSUME NEW i \in 1..Len(t), IsFrame(t[i]), NEW p \in Positions, t[i] < p, p < Upcoming
      PROVE  p \in Elems(t) \cup NotQueued \/ IsHeader(p)
  <2>1. i - o \in 1..Len(gop) /\ t[i] = gop[i - o] /\ gop[i - o] \in Positions
    BY <1>1, <1>2, <1>3, <1>7 DEF IsFrame, Positions
  <2>2. gop # <<>> /\ 1 \in 1..Len(gop) /\ gop[1] \in Positions
    BY <1>1, <2>1
  <2>3. gop[1] <= t[i]
    <3>1. gop[i - o] - gop[1] >= (i - o) - 1
      BY <2>1, <2>2 DEF GopInv
    <3> QED
      BY <2>1, <2>2, <3>1 DEF Positions
  <2>4. p \in Elems(gop) \cup NotQueued \/ IsHeader(p)
    BY <1>7, <2>1, <2>2, <2>3 DEF GopInv, Covers, Positions
  <2>5. Elems(gop) \subseteq Elems(t)
    <3>1. \A k \in 1..Len(gop) : k + o \in 1..Len(t)
      BY <1>2
    <3> QED
      BY <1>2, <3>1 DEF Elems
  <2> QED
    BY <2>4, <2>5
<1> QED
  BY <1>2, <1>4, <1>5, <1>6, <1>7 DEF Covers

\* Every step keeps what is to be applied so.
LEMMA TodoStep ==
  ASSUME TypeInv, TypeInv', GopInv, CacheInv, TodoInv, Onward, [Next]_vars
  PROVE  TodoInv'
<1>1. CASE todo' = <<>>
  BY <1>1 DEF TodoInv
<1>2. CASE Elsewhere /\ todo # <<>>
  <2>1. todo' = todo /\ msg' = msg /\ (seg' = seg \/ seg' = None)
    BY <1>2, ToApply DEF Elsewhere
  <2>2. \A i \in 1..Len(todo) : (IsHeader(todo[i])' <=> IsHeader(todo[i]))
                                /\ (IsFrame(todo[i])' <=> IsFrame(todo[i]))
    <3> SUFFICES ASSUME NEW i \in 1..Len(todo)
                 PROVE  /\ stream'[todo'[i]].type = "header" <=> stream[todo[i]].type = "header"
      BY <2>1 DEF IsHeader, IsFrame
    <3> QED
      BY <2>1, ToApply DEF Onward
  <2>3. ASSUME NEW i \in 1..Len(todo), IsFrame(todo[i])
        PROVE  \A p \in Positions' : todo[i] < p /\ p < Upcoming'
                                   => p \in Elems(todo) \cup NotQueued' \/ IsHeader(p)'
    <3>1. Covers(todo[i], Elems(todo) \cup NotQueued) /\ todo[i] \in Nat
      BY <2>3, ToApply DEF TodoInv
    <3>2. NotQueued \subseteq NotQueued' /\ ~(msg # 0 /\ msg' = 0)
      BY <2>1 DEF Onward
    <3> QED
      BY <3>1, <3>2, CoversOn
  <2> QED
    BY <2>1, <2>2, <2>3 DEF TodoInv, Covers, Elems
<1>3. CASE Resync /\ todo' # <<>>
  <2>1. todo' = <<msg>> /\ msg' = msg /\ IsHeader(msg) /\ stream' = stream
    BY <1>3 DEF Resync, IsFrame
  <2>2. Len(todo') = 1 /\ todo'[1] = msg
    BY <2>1
  <2> QED
    BY <2>1, <2>2 DEF TodoInv, IsFrame, IsHeader
<1>4. CASE (ObeyRotate \/ SkipWhenOff \/ Elsewhere) /\ todo = <<>>
  BY <1>1, <1>4 DEF ObeyRotate, SkipWhenOff, Elsewhere
<1>5. CASE PrepareWhenOn
  <2>1. /\ UNCHANGED <<stream, msg, seg, dropped, ignored>> /\ msg # 0 /\ Upcoming = msg
        /\ todo' = IF flushed THEN <<msg>> ELSE Append(Held, msg)
        /\ UNCHANGED queue /\ msg \in Positions
    BY <1>5 DEF PrepareWhenOn, TypeInv, TypeOK, Upcoming
  <2>2. Upcoming' = Upcoming /\ Positions' = Positions /\ NotQueued' = NotQueued
    BY <2>1 DEF Upcoming, Positions, NotQueued
  <2>3. CASE flushed
    <3>1. todo' = <<msg>> /\ Len(todo') = 1 /\ todo'[1] = msg
      BY <2>1, <2>3
    <3>2. Covers(msg, Elems(todo') \cup NotQueued)
      BY <2>1 DEF Covers, Positions
    <3> QED
      BY <2>1, <2>2, <3>1, <3>2 DEF TodoInv, IsFrame, IsHeader, Covers
  <2>4. CASE ~flushed
    <3>1. seg' = None
      BY <2>1, <2>4 DEF CacheInv
    <3>2. todo' = Append(Held, msg)
      BY <2>1, <2>4
    <3>3. /\ \A i, j \in 1..Len(todo') : i < j /\ IsFrame(todo'[i]) => todo'[i] < todo'[j]
          /\ todo' # <<>> /\ todo'[Len(todo')] = msg
          /\ \A i \in 1..Len(todo') : i < Len(todo') /\ IsHeader(todo'[i]) => i = 1
          /\ \A i \in 1..Len(todo') :
               IsFrame(todo'[i]) => Covers(todo'[i], Elems(todo') \cup NotQueued)
      BY <2>1, <3>2, FlushedInOrder
    <3> QED
      BY <2>1, <2>2, <3>1, <3>3 DEF TodoInv, IsFrame, IsHeader, Covers, Elems
  <2> QED
    BY <2>3, <2>4
<1>6. CASE Apply /\ todo' # <<>>
  <2>1. /\ todo' = Tail(todo) /\ todo # <<>> /\ UNCHANGED <<stream, queue, dropped, ignored>>
        /\ Len(todo) # 1 => msg' = msg
    BY <1>6 DEF Apply, TypeInv, TypeOK
  <2>2. /\ Len(todo') = Len(todo) - 1
        /\ \A i \in 1..Len(todo') : todo'[i] = todo[i + 1] /\ i + 1 \in 1..Len(todo)
        /\ Len(todo') >= 1
    <3>1. todo' \in Seq(Positions)
      BY <2>1, ToApply
    <3>2. Len(todo') >= 1
      BY <1>6, <3>1, Empty
    <3> QED
      BY <2>1, <3>2, ToApply
  <2>3. msg' = msg /\ Upcoming' = Upcoming /\ Positions' = Positions /\ NotQueued' = NotQueued
    <3>1. Len(todo) \in Nat /\ Len(todo) # 1
      BY <2>2, ToApply
    <3> QED
      BY <2>1, <3>1 DEF Upcoming, Positions, NotQueued
  <2>4. \A i \in 1..Len(todo') : stream'[todo'[i]].type = "header" <=> IsHeader(todo[i + 1])
    BY <2>1, <2>2 DEF IsHeader
  <2>5. ASSUME NEW i \in 1..Len(todo'), NEW j \in 1..Len(todo'), i < j, IsFrame(todo[i + 1])
        PROVE  todo'[i] < todo'[j]
    <3>1. i + 1 < j + 1 /\ i + 1 \in 1..Len(todo) /\ j + 1 \in 1..Len(todo)
      BY <2>2, <2>5
    <3> QED
      BY <2>2, <2>5, <3>1 DEF TodoInv
  <2>6. todo'[Len(todo')] = msg
    <3>1. Len(todo') \in 1..Len(todo') /\ Len(todo') + 1 = Len(todo)
      BY <2>2, ToApply
    <3> QED
      BY <2>1, <2>2, <3>1 DEF TodoInv
  <2>7. \A i \in 1..Len(todo') : ~(i < Len(todo') /\ IsHeader(todo[i + 1]))
    BY <2>2, ToApply DEF TodoInv
  <2>8. ASSUME NEW i \in 1..Len(todo'), IsFrame(todo[i + 1]),
               NEW p \in Positions, todo[i + 1] < p, p < Upcoming
        PROVE  p \in Elems(todo') \cup NotQueued \/ IsHeader(p)
    <3>1. p \in Elems(todo) \cup NotQueued \/ IsHeader(p)
      BY <2>2, <2>8 DEF TodoInv, Covers
    <3>2. CASE p \in Elems(todo)
      <4>1. PICK j \in 1..Len(todo) : p = todo[j]
        BY <3>2 DEF Elems
      <4>2. CASE j = 1
        <5>1. 1 \in 1..Len(todo) /\ 1 < i + 1 /\ i + 1 \in 1..Len(todo)
          BY <2>2, ToApply
        <5>2. IsFrame(todo[1]) => todo[1] < todo[i + 1]
          BY <5>1 DEF TodoInv
        <5>3. todo[1] \in Nat /\ todo[i + 1] \in Nat
          BY <5>1, ToApply
        <5> QED
          BY <2>8, <4>1, <4>2, <5>2, <5>3 DEF IsFrame
      <4>3. CASE j # 1
        <5>1. j - 1 \in 1..Len(todo') /\ todo'[j - 1] = p
          BY <2>2, <4>1, <4>3, ToApply
        <5> QED
          BY <5>1 DEF Elems
      <4> QED
        BY <4>2, <4>3
    <3> QED
      BY <3>1, <3>2
  <2> QED
    BY <2>1, <2>2, <2>3, <2>4, <2>5, <2>6, <2>7, <2>8 DEF TodoInv, IsFrame, Covers, IsHeader, Elems
<1>7. pc # "apply" => todo = <<>>
  BY ToApply
<1>8. ObeyRotate \/ SkipWhenOff => pc # "apply"
  BY DEF ObeyRotate, SkipWhenOff
<1> QED
  BY <1>1, <1>2, <1>3, <1>4, <1>5, <1>6, <1>7, <1>8, Steps

\* A frame that anchors the segment does so after a step that lets nothing go but
\* headers and what is lost.
LEMMA AnchorStays ==
  ASSUME TypeInv, Onward, NEW k, Anchored(k), unwritten \subseteq unwritten',
         \A i \in 1..Len(todo') : IsFrame(todo[i])' => k < todo'[i],
         \A p \in Elems(todo) : p \in Elems(todo') \cup Lost' \/ IsHeader(p),
         msg # 0 /\ msg' = 0 => msg \in Lost' \/ IsHeader(msg)
  PROVE  Anchored(k)'
<1>1. k \in Nat /\ k \in Positions' /\ k < Upcoming'
  BY DEF Anchored, Onward, Positions
<1> DEFINE T == Elems(todo') \cup Lost'
<1>2. \A p \in Elems(todo) \cup Lost : p \in T \/ IsHeader(p)
  BY DEF Lost, Onward
<1>3. NotQueued' \subseteq T
  BY DEF Lost
<1>4. msg # 0 /\ msg' = 0 => msg \in T \/ IsHeader(msg)
  OBVIOUS
<1> HIDE DEF T
<1>5. Covers(k, Elems(todo) \cup Lost)
  BY DEF Anchored
<1>6. \A p \in Positions' : k < p /\ p < Upcoming' => p \in T \/ IsHeader(p)'
  BY <1>1, <1>2, <1>3, <1>4, <1>5, CoversOn
<1> QED
  BY <1>1, <1>6 DEF Anchored, Covers, T

\* A frame of what is to be applied anchors what follows it.
LEMMA FrameAnchors ==
  ASSUME TypeInv, TypeInv', TodoInv, Onward, UNCHANGED stream,
         todo # <<>>, IsFrame(Head(todo)), todo' = Tail(todo),
         IF Len(todo) = 1 THEN msg' = 0 ELSE msg' = msg,
         NotQueued' = NotQueued, NEW n, n = Head(todo)
  PROVE  Anchored(n)'
<1>1. /\ n = todo[1] /\ 1 \in 1..Len(todo) /\ n \in Positions /\ n \in Nat
      /\ Len(todo') = Len(todo) - 1 /\ Len(todo) \in Nat
      /\ \A i \in 1..Len(todo') : todo'[i] = todo[i + 1] /\ i + 1 \in 1..Len(todo) /\ i + 1 > 1
  BY ToApply
<1>2. msg \in Nat /\ Upcoming = msg /\ todo[Len(todo)] = msg
  BY ToApply DEF TodoInv, Positions
<1>3. /\ IsFrame(todo[1])
      /\ \A i \in 1..Len(todo') : todo[1] < todo'[i]
  BY <1>1 DEF TodoInv
<1>4. n <= msg /\ n < Upcoming'
  <2>1. CASE Len(todo) = 1
    BY <1>1, <1>2, <2>1 DEF Onward
  <2>2. CASE Len(todo) # 1
    <3>1. Len(todo) \in 1..Len(todo) /\ 1 < Len(todo)
      BY <1>1, <2>2
    <3>2. todo[1] < msg
      BY <1>1, <1>2, <1>3, <3>1 DEF TodoInv
    <3> QED
      BY <1>1, <1>2, <3>2 DEF Onward
  <2> QED
    BY <2>1, <2>2
<1> DEFINE T == Elems(todo') \cup NotQueued'
<1>5. Covers(n, Elems(todo) \cup NotQueued)
  BY <1>1, <1>3 DEF TodoInv
<1>6. \A p \in Positions : n < p /\ p \in Elems(todo) \cup NotQueued => p \in T
  <2> SUFFICES ASSUME NEW p \in Positions, n < p, p \in Elems(todo) PROVE p \in Elems(todo')
    OBVIOUS
  <2>1. PICK j \in 1..Len(todo) : p = todo[j]
    BY DEF Elems
  <2>2. j # 1
    BY <1>1, <2>1
  <2>3. j - 1 \in 1..Len(todo') /\ todo'[j - 1] = p
    BY <1>1, <2>1, <2>2
  <2> QED
    BY <2>3 DEF Elems
<1>7. msg # 0 /\ msg' = 0 => ~(n < msg)
  <2>1. msg # 0 /\ msg' = 0 => Len(todo) = 1
    BY DEF Onward
  <2>2. Len(todo) = 1 => msg = n
    BY <1>1, <1>2
  <2>3. ~(n < n)
    BY <1>1
  <2> QED
    BY <2>1, <2>2, <2>3
<1>8. NotQueued' \subseteq T
  OBVIOUS
<1> HIDE DEF T
<1>9. \A p \in Positions' : n < p /\ p < Upcoming' => p \in T \/ IsHeader(p)'
  BY <1>1, <1>5, <1>6, <1>7, <1>8, CoversOn
<1>10. n \in Positions'
  BY <1>1 DEF Onward
<1> QED
  BY <1>1, <1>3, <1>4, <1>9, <1>10 DEF Anchored, Covers, T, Lost

\* Every step keeps the open segment anchored.
LEMMA SegStep ==
  ASSUME TypeInv, TypeInv', CacheInv, TodoInv, SegInv, Onward, [Next]_vars
  PROVE  SegInv'
<1> DEFINE Ends(k) == IF seg.frames # <<>> THEN k = seg.frames[Len(seg.frames)] ELSE k \in unwritten
<1>1. ASSUME seg # None PROVE \E k : Ends(k) /\ Anchored(k)
  BY <1>1 DEF SegInv
<1>2. ASSUME NEW k, Ends(k), Anchored(k)', seg' # None, seg'.frames = seg.frames,
             unwritten \subseteq unwritten'
      PROVE  SegInv'
  BY <1>2 DEF SegInv
<1> HIDE DEF Ends
<1>3. CASE seg' = None
  BY <1>3 DEF SegInv
<1>4. CASE seg' = seg /\ seg # None /\ todo' = todo /\ (msg' = msg \/ msg = 0)
           /\ unwritten' = unwritten
  <2>1. PICK k : Ends(k) /\ Anchored(k)
    BY <1>1, <1>4
  <2>2. k \in Positions
    BY <2>1 DEF Anchored
  <2>3. \A i \in 1..Len(todo') : IsFrame(todo[i])' => k < todo'[i]
    <3> SUFFICES ASSUME NEW i \in 1..Len(todo), stream'[todo[i]].type # "header" PROVE k < todo[i]
      BY <1>4 DEF IsFrame, IsHeader
    <3>1. IsFrame(todo[i])
      BY ToApply DEF Onward, IsFrame, IsHeader
    <3> QED
      BY <2>1, <3>1 DEF Anchored
  <2>4. ~(msg # 0 /\ msg' = 0) /\ unwritten \subseteq unwritten' /\ Elems(todo') = Elems(todo)
    BY <1>4 DEF Elems
  <2>5. Anchored(k)'
    BY <2>1, <2>3, <2>4, AnchorStays
  <2> QED
    BY <1>2, <1>4, <2>1, <2>4, <2>5
<1>5. CASE Elsewhere
  BY <1>3, <1>4, <1>5 DEF Elsewhere
<1>6. CASE Resync
  <2>1. CASE mediaGap \/ awaitKeyframe
    BY <1>3, <1>6, <2>1 DEF Resync, CloseSegment, CacheInv
  <2>2. CASE ~mediaGap /\ ~awaitKeyframe
    <3>1. seg' = seg /\ todo' = <<>> /\ msg' = msg /\ unwritten' = unwritten
      BY <1>6, <2>2 DEF Resync
    <3>2. todo = <<>>
      BY <1>6, ToApply DEF Resync
    <3> QED
      BY <1>3, <1>4, <3>1, <3>2
  <2> QED
    BY <2>1, <2>2
<1>7. CASE ObeyRotate
  <2>1. (seg' = seg \/ seg' = None) /\ UNCHANGED <<todo, msg, unwritten>>
    BY <1>7 DEF ObeyRotate, CloseSegment
  <2> QED
    BY <1>3, <1>4, <2>1
<1>8. CASE SkipWhenOff
  BY <1>3, <1>8 DEF SkipWhenOff, CloseSegment
<1>9. CASE PrepareWhenOn /\ seg # None
  <2>1. seg' = seg /\ UNCHANGED <<stream, msg, unwritten>> /\ flushed /\ todo' = <<msg>>
    BY <1>9 DEF PrepareWhenOn, CacheInv
  <2>2. PICK k : Ends(k) /\ Anchored(k)
    BY <1>1, <1>9
  <2>3. msg # 0 /\ Upcoming = msg /\ todo = <<>>
    BY <1>9, ToApply DEF PrepareWhenOn, TypeInv, TypeOK, Upcoming
  <2>4. k < msg
    BY <2>2, <2>3 DEF Anchored
  <2>5. Len(todo') = 1 /\ todo'[1] = msg /\ Elems(todo) = {}
    BY <2>1, <2>3 DEF Elems
  <2>6. Anchored(k)'
    BY <2>1, <2>2, <2>3, <2>4, <2>5, AnchorStays
  <2> QED
    BY <1>2, <1>9, <2>1, <2>2, <2>6
<1>10. CASE PrepareWhenOn /\ seg = None
  BY <1>3, <1>10 DEF PrepareWhenOn
<1>11. CASE Apply
  <2>1. PICK n : n = Head(todo)
    OBVIOUS
  <2>2. /\ todo # <<>> /\ todo' = Tail(todo) /\ UNCHANGED <<stream, dropped, ignored>>
        /\ IF Len(todo) = 1 THEN msg' = 0 ELSE msg' = msg
        /\ NotQueued' = NotQueued
    BY <1>11, ToApply DEF Apply, TypeInv, TypeOK, NotQueued
  <2>3. /\ n \in Positions /\ n = todo[1] /\ Len(todo') = Len(todo) - 1 /\ Len(todo) \in Nat
        /\ \A i \in 1..Len(todo') : todo'[i] = todo[i + 1] /\ i + 1 \in 1..Len(todo)
    BY <2>1, <2>2, ToApply
  <2>4. \A p \in Elems(todo) : p = n \/ p \in Elems(todo')
    <3> SUFFICES ASSUME NEW j \in 1..Len(todo), j # 1 PROVE todo[j] \in Elems(todo')
      BY <2>3 DEF Elems
    <3>1. j - 1 \in 1..Len(todo') /\ todo'[j - 1] = todo[j]
      BY <2>3
    <3> QED
      BY <3>1 DEF Elems
  <2>5. msg # 0 /\ msg' = 0 => msg = n
    BY <2>2, <2>3 DEF TodoInv
  <2>6. ASSUME NEW k, Anchored(k), unwritten \subseteq unwritten',
               n \in Lost' \/ IsHeader(n)
        PROVE  Anchored(k)'
    <3>1. \A i \in 1..Len(todo') : IsFrame(todo[i])' => k < todo'[i]
      BY <2>2, <2>3, <2>6 DEF Anchored, IsFrame, IsHeader
    <3> QED
      BY <2>4, <2>5, <2>6, <3>1, AnchorStays
  <2>7. CASE IsHeader(n)
    <3>1. unwritten' = unwritten /\ (seg' = seg \/ seg' = None)
      BY <1>11, <2>1, <2>7 DEF Apply, ApplyHeader, CloseSegment
    <3>2. CASE seg' = seg /\ seg # None
      <4>1. PICK k : Ends(k) /\ Anchored(k)
        BY <1>1, <3>2
      <4> QED
        BY <1>2, <2>6, <2>7, <3>1, <3>2, <4>1
    <3> QED
      BY <1>3, <3>1, <3>2
  <2>8. CASE IsFrame(n)
    <3>1. ApplyFrame(n)
      BY <1>11, <2>1, <2>8 DEF Apply, IsFrame
    <3>2. FrameStep(n)
      BY <2>2, <2>3, <3>1, Framing
    <3>3. Anchored(n)'
      BY <2>1, <2>2, <2>8, FrameAnchors
    <3>4. CASE seg' # None /\ unwritten' = unwritten /\ seg'.frames = <<n>>
      BY <3>3, <3>4 DEF SegInv
    <3>5. CASE seg' # None /\ seg'.frames = <<>> /\ n \in unwritten'
      BY <3>3, <3>5 DEF SegInv
    <3>6. CASE seg # None /\ seg' # None /\ seg'.frames = Append(seg.frames, n)
      <4>1. seg.frames \in Seq(Positions)
        BY <3>6 DEF TypeInv
      <4>2. seg'.frames # <<>> /\ seg'.frames[Len(seg'.frames)] = n
        BY <3>6, <4>1
      <4> QED
        BY <3>3, <4>2 DEF SegInv
    <3>7. CASE seg # None /\ seg' # None /\ seg'.frames = seg.frames
               /\ unwritten' = unwritten \cup {n}
      <4>1. PICK k : Ends(k) /\ Anchored(k)
        BY <1>1, <3>7
      <4>2. n \in Lost' /\ unwritten \subseteq unwritten'
        BY <3>7 DEF Lost
      <4> QED
        BY <1>2, <2>6, <3>7, <4>1, <4>2
    <3> QED
      BY <1>3, <3>2, <3>4, <3>5, <3>6, <3>7 DEF FrameStep
  <2> QED
    BY <2>7, <2>8 DEF IsFrame
<1> QED
  BY <1>5, <1>6, <1>7, <1>8, <1>9, <1>10, <1>11, Steps

----------------------------------------------------------------------------
(* The footage plays.                                                     *)

\* The types of the footage.
LEMMA FootageType ==
  ASSUME TypeInv, NEW s \in Footage
  PROVE  /\ s.cfg \in Configs /\ s.frames \in Seq(Positions) /\ Len(s.frames) \in Nat
         /\ \A i \in DOMAIN s.frames : s.frames[i] \in Positions
         /\ DOMAIN s.frames = 1..Len(s.frames)
<1>1. CASE seg # None /\ s = [cfg |-> seg.cfg, frames |-> seg.frames]
  BY <1>1 DEF TypeInv, TypeOK, Segments
<1>2. CASE \E r \in ToSet(recordings) : s = [cfg |-> r.cfg, frames |-> r.frames]
  <2>1. PICK r \in ToSet(recordings) : s = [cfg |-> r.cfg, frames |-> r.frames]
    BY <1>2
  <2>2. recordings \in Seq(Recordings)
    BY DEF TypeInv, TypeOK, Recordings
  <2>3. r \in Recordings
    BY <2>2 DEF ToSet
  <2> QED
    BY <2>1, <2>3 DEF Recordings
<1> QED
  BY <1>1, <1>2 DEF Footage

\* What a step of the loop with a frame makes of the footage.
LEMMA FootageStep ==
  ASSUME TypeInv, TypeInv', [Next]_vars, NEW s \in Footage'
  PROVE  \/ s \in Footage
         \/ s.frames = <<>>
         \/ /\ pc = "apply" /\ todo # <<>> /\ Apply /\ IsFrame(todo[1])
            /\ \/ IsKey(todo[1]) /\ s.frames = <<todo[1]>> /\ s.cfg = sps
               \/ seg # None /\ s.frames = Append(seg.frames, todo[1]) /\ s.cfg = seg.cfg
<1>1. CASE Elsewhere
  BY <1>1 DEF Elsewhere
<1>2. CASE Resync
  <2>1. CASE mediaGap
    BY <1>2, <2>1, Closing DEF Resync
  <2>2. CASE ~mediaGap
    BY <1>2, <2>2 DEF Resync, Footage
  <2> QED
    BY <2>1, <2>2
<1>3. CASE ObeyRotate
  <2>1. CASE rotate
    BY <1>3, <2>1, Closing DEF ObeyRotate
  <2>2. CASE ~rotate
    BY <1>3, <2>2 DEF ObeyRotate, Footage
  <2> QED
    BY <2>1, <2>2
<1>4. CASE SkipWhenOff
  BY <1>4, Closing DEF SkipWhenOff
<1>5. CASE PrepareWhenOn
  BY <1>5 DEF PrepareWhenOn, Footage
<1>6. CASE Apply
  <2>1. todo # <<>> /\ Head(todo) = todo[1] /\ todo[1] \in Positions /\ UNCHANGED stream
    BY <1>6, ToApply DEF Apply, TypeInv, TypeOK
  <2>2. CASE IsHeader(todo[1])
    <3>1. ApplyHeader(todo[1])
      BY <1>6, <2>1, <2>2 DEF Apply
    <3>2. CASE UNCHANGED <<seg, recordings>>
      BY <3>2 DEF Footage
    <3>3. CASE \E disk \in Faults \cup {"ok"} : CloseSegment(disk)
      BY <2>1, <3>3, Closing
    <3> QED
      BY <3>1, <3>2, <3>3 DEF ApplyHeader
  <2>3. CASE IsFrame(todo[1])
    <3>1. ApplyFrame(todo[1])
      BY <1>6, <2>1, <2>3 DEF Apply, IsFrame
    <3>2. FrameStep(todo[1]) /\ Files(recordings') \subseteq Footage
      BY <2>1, <3>1, Framing
    <3>3. \/ s \in Files(recordings')
          \/ seg' # None /\ s = [cfg |-> seg'.cfg, frames |-> seg'.frames]
      BY DEF Footage, Files
    <3>4. CASE seg' # None /\ s = [cfg |-> seg'.cfg, frames |-> seg'.frames]
      <4>1. s.frames = seg'.frames /\ s.cfg = seg'.cfg
        BY <3>4
      <4>2. seg # None => [cfg |-> seg.cfg, frames |-> seg.frames] \in Footage
        BY DEF Footage
      <4>3. CASE seg # None /\ seg'.frames = seg.frames /\ seg'.cfg = seg.cfg
        BY <3>4, <4>2, <4>3
      <4>4. CASE seg # None /\ seg'.frames = Append(seg.frames, todo[1]) /\ seg'.cfg = seg.cfg
        BY <1>6, <2>1, <2>3, <4>1, <4>4 DEF Apply
      <4>5. CASE IsKey(todo[1]) /\ seg'.cfg = sps /\ (seg'.frames = <<todo[1]>> \/ seg'.frames = <<>>)
        BY <1>6, <2>1, <2>3, <4>1, <4>5 DEF Apply
      <4> QED
        BY <3>2, <3>4, <4>3, <4>4, <4>5 DEF FrameStep
    <3> QED
      BY <3>2, <3>3, <3>4
  <2> QED
    BY <2>2, <2>3 DEF IsFrame
<1> QED
  BY <1>1, <1>2, <1>3, <1>4, <1>5, <1>6, Steps

\* What is lost stays lost.
LEMMA LostGrows ==
  ASSUME TypeInv, Onward, [Next]_vars
  PROVE  unwritten \subseteq unwritten' /\ Lost \subseteq Lost'
<1>1. unwritten \subseteq unwritten'
  <2>1. CASE Elsewhere
    BY <2>1 DEF Elsewhere
  <2>2. CASE Resync \/ ObeyRotate \/ SkipWhenOff \/ PrepareWhenOn
    BY <2>2 DEF Resync, ObeyRotate, SkipWhenOff, PrepareWhenOn
  <2>3. CASE Apply
    <3>1. ApplyHeader(Head(todo)) \/ ApplyFrame(Head(todo))
      BY <2>3 DEF Apply
    <3> QED
      BY <3>1, Zenon DEF ApplyHeader, ApplyFrame
  <2> QED
    BY <2>1, <2>2, <2>3, Steps
<1> QED
  BY <1>1 DEF Lost, Onward

\* Frame i of the frames fs can be decoded.
Plays(fs, i) ==
    \/ IsKey(fs[i])
    \/ i > 1 /\ fs[i - 1] = fs[i] - 1
    \/ fs[i] - 1 \in Lost /\ (i = 1 => unwritten # {})

\* A frame that can be decoded stays so.
LEMMA PlaysOn ==
  ASSUME TypeInv, Onward, [Next]_vars, NEW fs, NEW i, fs[i] \in Positions, Plays(fs, i)
  PROVE  Plays(fs, i)'
<1>1. IsKey(fs[i])' <=> IsKey(fs[i])
  BY DEF Onward, IsKey
<1>2. unwritten \subseteq unwritten' /\ Lost \subseteq Lost'
  BY LostGrows
<1> QED
  BY <1>1, <1>2 DEF Plays

\* The next frame of the open segment can be decoded: what it refers to is before it
\* in the segment, or lost.
LEMMA NextPlays ==
  ASSUME TypeInv, StreamInv, TodoInv, SegInv, seg # None, todo # <<>>, IsFrame(todo[1]),
         NEW fs, fs = Append(seg.frames, todo[1])
  PROVE  /\ Len(fs) = Len(seg.frames) + 1
         /\ Plays(fs, Len(fs))
<1> DEFINE n == todo[1]
<1>1. /\ 1 \in 1..Len(todo) /\ n \in Positions /\ n \in Nat /\ n >= 1
      /\ msg \in Positions /\ Upcoming = msg /\ msg \in Nat /\ Len(todo) \in Nat
  BY ToApply DEF Positions
<1>2. n <= Upcoming
  <2>1. todo[Len(todo)] = msg /\ (1 < Len(todo) => todo[1] < todo[Len(todo)])
    BY <1>1 DEF TodoInv
  <2> QED
    BY <1>1, <2>1
<1>3. seg.frames \in Seq(Positions) /\ Len(seg.frames) \in Nat
  <2>1. seg.frames \in Seq(Positions)
    BY DEF TypeInv
  <2> QED
    BY <2>1
<1>4. /\ Len(fs) = Len(seg.frames) + 1 /\ fs[Len(seg.frames) + 1] = n
      /\ \A i \in 1..Len(seg.frames) : fs[i] = seg.frames[i]
  BY <1>3
<1>5. ASSUME ~IsKey(n), NEW k, Anchored(k)
      PROVE  k = n - 1 \/ n - 1 \in Lost
  <2>1. k \in Positions /\ k < n /\ k \in Nat /\ k >= 1
    BY <1>1, <1>5 DEF Anchored, Positions
  <2>2. n - 1 \in Positions /\ k <= n - 1
    BY <1>1, <2>1 DEF Positions
  <2>3. stream[n].type = "inter"
    <3>1. stream \in Seq(Messages)
      BY DEF TypeInv, TypeOK
    <3>2. stream[n] \in Messages
      BY <1>1, <3>1 DEF Positions
    <3> QED
      BY <1>5, <3>2 DEF IsFrame, IsHeader, IsKey, Messages
  <2>4. IsFrame(n - 1) \/ n = 2
    BY <1>1, <2>1, <2>3 DEF StreamInv
  <2>5. ASSUME k < n - 1 PROVE n - 1 \in Elems(todo) \cup Lost
    <3>1. IsFrame(n - 1)
      BY <1>1, <2>1, <2>4, <2>5
    <3>2. n - 1 < Upcoming
      BY <1>1, <1>2
    <3> QED
      BY <1>5, <2>2, <2>5, <3>1, <3>2 DEF Anchored, Covers, IsFrame
  <2>6. n - 1 \notin Elems(todo)
    <3> SUFFICES ASSUME NEW j \in 1..Len(todo), todo[j] = n - 1 PROVE FALSE
      BY DEF Elems
    <3>1. todo[j] \in Nat
      BY ToApply
    <3>2. j = 1 \/ todo[1] < todo[j]
      BY <1>1 DEF TodoInv
    <3> QED
      BY <1>1, <3>1, <3>2
  <2>7. k = n - 1 \/ k < n - 1
    BY <1>1, <2>1
  <2> QED
    BY <2>5, <2>6, <2>7
<1>6. CASE seg.frames # <<>>
  <2>1. Len(seg.frames) >= 1
    BY <1>3, <1>6, Empty
  <2>2. Anchored(seg.frames[Len(seg.frames)])
    BY <1>6 DEF SegInv
  <2>3. fs[Len(fs) - 1] = seg.frames[Len(seg.frames)] /\ Len(fs) > 1
    BY <1>3, <1>4, <2>1
  <2> QED
    BY <1>4, <1>5, <2>2, <2>3 DEF Plays
<1>7. CASE seg.frames = <<>>
  <2>1. PICK k \in unwritten : Anchored(k)
    BY <1>7 DEF SegInv
  <2> QED
    BY <1>4, <1>5, <2>1 DEF Plays, Lost
<1> QED
  BY <1>6, <1>7, <1>4

\* Every frame of the footage can be decoded.
PlayInv == \A s \in Footage : \A i \in DOMAIN s.frames : Plays(s.frames, i)

\* Every step keeps the footage playable.
LEMMA PlayStep ==
  ASSUME TypeInv, TypeInv', StreamInv, TodoInv, SegInv, Onward, [Next]_vars, PlayInv
  PROVE  PlayInv'
<1> SUFFICES ASSUME NEW s \in Footage', NEW i \in DOMAIN s.frames
             PROVE  Plays(s.frames, i)'
  BY DEF PlayInv
<1>1. CASE s \in Footage
  BY <1>1, PlaysOn, FootageType DEF PlayInv
<1>2. CASE s.frames = <<>>
  BY <1>2
<1>3. CASE /\ Apply /\ todo # <<>> /\ IsKey(todo[1]) /\ s.frames = <<todo[1]>>
  <2>1. i = 1 /\ s.frames[1] = todo[1]
    BY <1>3
  <2>2. IsKey(todo[1])
    BY <1>3
  <2> QED
    BY <1>3, <2>1 DEF Plays, IsKey, Apply
<1>4. CASE /\ Apply /\ todo # <<>> /\ IsFrame(todo[1]) /\ seg # None
           /\ s.frames = Append(seg.frames, todo[1])
  <2> DEFINE fs == s.frames
             old == [cfg |-> seg.cfg, frames |-> seg.frames]
  <2>1. seg.frames \in Seq(Positions) /\ todo[1] \in Positions /\ old \in Footage
    BY <1>4, ToApply DEF TypeInv, Footage
  <2>2. /\ Len(fs) = Len(seg.frames) + 1 /\ Len(seg.frames) \in Nat
        /\ \A j \in 1..Len(seg.frames) : fs[j] = seg.frames[j]
        /\ DOMAIN fs = 1..Len(fs) /\ \A j \in 1..Len(fs) : fs[j] \in Positions
    BY <1>4, <2>1
  <2>3. Plays(fs, i)
    <3>1. CASE i = Len(fs)
      BY <1>4, <3>1, NextPlays
    <3>2. CASE i # Len(fs)
      <4>1. i \in 1..Len(seg.frames)
        BY <2>2, <3>2
      <4>2. i \in DOMAIN old.frames /\ old.frames = seg.frames
        BY <2>1, <4>1
      <4>3. Plays(seg.frames, i)
        BY <2>1, <4>2 DEF PlayInv
      <4>4. fs[i] = seg.frames[i] /\ (i > 1 => fs[i - 1] = seg.frames[i - 1])
        <5>1. i > 1 => i - 1 \in 1..Len(seg.frames)
          BY <2>2, <4>1
        <5> QED
          BY <2>2, <4>1, <5>1
      <4> QED
        BY <4>3, <4>4 DEF Plays
    <3> QED
      BY <3>1, <3>2
  <2>4. fs[i] \in Positions
    BY <2>2
  <2> QED
    BY <2>3, <2>4, PlaysOn
<1> QED
  BY <1>1, <1>2, <1>3, <1>4, FootageStep

\* The session's messages in their order.
OrderInv == TypeInv /\ StreamInv /\ QueueInv /\ GopInv /\ CacheInv /\ TodoInv /\ SegInv /\ PlayInv

\* A session begins in order.
LEMMA OrderInit == Init => OrderInv
<1> SUFFICES ASSUME Init PROVE OrderInv
  OBVIOUS
<1>1. Positions = {} /\ Footage = {}
  BY DEF Init, Positions, Footage, ToSet
<1> QED
  BY <1>1, TypeInit
  DEF Init, OrderInv, StreamInv, QueueInv, GopInv, CacheInv, TodoInv, SegInv, PlayInv

\* Every step keeps the order, and the loop goes on.
LEMMA OrderStep == OrderInv /\ [Next]_vars => OrderInv' /\ Onward
<1> SUFFICES ASSUME OrderInv, [Next]_vars PROVE OrderInv' /\ Onward
  OBVIOUS
<1> USE DEF OrderInv
<1>1. TypeInv'
  BY TypeStep
<1>2. QueueInv' /\ Onward
  BY <1>1, QueueStep
<1>3. StreamInv' /\ GopInv' /\ CacheInv' /\ TodoInv' /\ SegInv' /\ PlayInv'
  BY <1>1, <1>2, StreamStep, GopStep, CacheStep, TodoStep, SegStep, PlayStep
<1> QED
  BY <1>1, <1>2, <1>3

\* The types hold, and the queue, the held GOP and the messages to apply are parts of
\* the stream within the limits of the code.
THEOREM TypeCorrect == Spec => []TypeOK
<1>1. OrderInv => TypeOK
  BY DEF OrderInv, TypeInv
<1> QED
  BY <1>1, OrderInit, OrderStep, PTL DEF Spec

\* In every segment, published or open, a frame that is not a keyframe comes right
\* after the one it refers to, unless that one was lost. (apply, handle, flushHeld)
THEOREM SegmentsAlwaysPlay == Spec => []SegmentsPlay
<1>1. OrderInv => SegmentsPlay
  BY DEF OrderInv, PlayInv, Plays, SegmentsPlay
<1> QED
  BY <1>1, OrderInit, OrderStep, PTL DEF Spec

----------------------------------------------------------------------------
(* The frames of a segment match its track.                               *)

\* When nothing is kept off the queue, the loop is done with one message at a time.
LEMMA OneByOne ==
  ASSUME TypeInv, TypeInv', Onward, NotQueued' = {}
  PROVE  /\ NotQueued = {}
         /\ Upcoming' = IF msg # 0 /\ msg' = 0 THEN Upcoming + 1 ELSE Upcoming
<1>1. NotQueued = {}
  BY DEF Onward
<1>2. Upcoming \in Nat /\ Upcoming' \in Nat /\ Upcoming <= Upcoming' /\ Upcoming >= 1
  BY DEF Onward
<1>3. \A p \in Positions' : Upcoming <= p /\ p < Upcoming' => p = msg /\ msg # 0 /\ msg' = 0
  BY DEF Onward
<1>4. Len(stream') \in Nat /\ Upcoming' <= Len(stream') + 1
  <2>1. (TypeInv => Upcoming \in Nat /\ 1 <= Upcoming /\ Upcoming <= Len(stream) + 1)'
    BY UpcomingType, PTL
  <2>2. stream' \in Seq(Messages)
    BY DEF TypeInv, TypeOK
  <2> QED
    BY <2>1, <2>2
<1>5. ASSUME NEW p \in Nat, Upcoming <= p, p < Upcoming' PROVE p = msg /\ msg # 0 /\ msg' = 0
  <2>1. p \in Positions'
    BY <1>2, <1>4, <1>5 DEF Positions
  <2> QED
    BY <1>3, <1>5, <2>1
<1>6. CASE msg # 0 /\ msg' = 0
  <2>1. Upcoming = msg /\ Upcoming < Upcoming'
    BY <1>6 DEF Onward
  <2>2. ~(Upcoming + 1 < Upcoming')
    <3>1. Upcoming + 1 \in Nat /\ Upcoming <= Upcoming + 1 /\ Upcoming + 1 # msg
      BY <1>2, <2>1
    <3> QED
      BY <1>5, <3>1
  <2> QED
    BY <1>1, <1>2, <1>6, <2>1, <2>2
<1>7. CASE ~(msg # 0 /\ msg' = 0)
  <2>1. ~(Upcoming < Upcoming')
    BY <1>2, <1>5, <1>7
  <2> QED
    BY <1>1, <1>2, <1>7, <2>1
<1> QED
  BY <1>6, <1>7

\* Neither the switch nor Rotate has been used, and no message is lost.
Undisturbed == flips = 0 /\ NotQueued = {}

\* Undisturbed, the session records under the parameter sets of the message before the
\* one at hand, and has nothing to apply but the message at hand.
TrackInv ==
  Undisturbed =>
    /\ ~overflowing /\ ~mediaGap /\ ~awaitKeyframe /\ ~rotate
    /\ todo # <<>> => todo = <<msg>>
    /\ ~writing => seg = None /\ recordings = <<>> /\ todo = <<>>
    /\ writing => /\ sps = IF Upcoming = 1 THEN None ELSE stream[Upcoming - 1].cfg
                  /\ flushed \/ Upcoming = 1
    /\ seg # None => seg.cfg = sps
    /\ \A s \in Footage : \A i \in DOMAIN s.frames : stream[s.frames[i]].cfg = s.cfg

\* After a step, segments hold frames of their own parameter sets.
TracksKept == \A s \in Footage' : \A i \in DOMAIN s.frames : stream'[s.frames[i]].cfg = s.cfg

\* The loop's steps leave the switch alone, and those that handle no message the rest.
LEMMA StayUndisturbed ==
  ASSUME TypeInv, TypeInv', Onward, [Next]_vars, Undisturbed'
  PROVE  Undisturbed /\ UNCHANGED writing
<1>1. NotQueued = {}
  BY OneByOne DEF Undisturbed
<1>2. flips = 0 /\ UNCHANGED writing
  <2>1. CASE Elsewhere
    BY <2>1 DEF Elsewhere, Undisturbed
  <2>2. CASE Resync \/ ObeyRotate \/ SkipWhenOff \/ PrepareWhenOn \/ Apply
    BY <2>2 DEF Resync, ObeyRotate, SkipWhenOff, PrepareWhenOn, Apply, Undisturbed
  <2> QED
    BY <2>1, <2>2, Steps
<1> QED
  BY <1>1, <1>2 DEF Undisturbed

\* Every step of an undisturbed session keeps the tracks pure.
LEMMA TrackStep ==
  ASSUME OrderInv, OrderInv', Onward, [Next]_vars, TrackInv
  PROVE  TrackInv'
<1> SUFFICES ASSUME Undisturbed' PROVE TrackInv'
  BY DEF TrackInv
<1>1. TypeInv /\ TypeInv' /\ StreamInv /\ GopInv /\ CacheInv
  BY DEF OrderInv
<1>2. Undisturbed /\ UNCHANGED writing /\ NotQueued' = {}
  BY <1>1, StayUndisturbed DEF Undisturbed
<1>3. Upcoming' = IF msg # 0 /\ msg' = 0 THEN Upcoming + 1 ELSE Upcoming
  BY <1>1, <1>2, OneByOne
<1>4. /\ ~overflowing /\ ~mediaGap /\ ~awaitKeyframe /\ ~rotate
      /\ todo # <<>> => todo = <<msg>>
      /\ ~writing => seg = None /\ recordings = <<>> /\ todo = <<>>
      /\ writing => /\ sps = IF Upcoming = 1 THEN None ELSE stream[Upcoming - 1].cfg
                    /\ flushed \/ Upcoming = 1
      /\ seg # None => seg.cfg = sps
      /\ \A s \in Footage : \A i \in DOMAIN s.frames : stream[s.frames[i]].cfg = s.cfg
  BY <1>2 DEF TrackInv
<1>5. ASSUME NEW s \in Footage, NEW i \in DOMAIN s.frames
      PROVE  stream'[s.frames[i]].cfg = s.cfg
  <2>1. s.frames[i] \in Positions
    BY <1>1, FootageType
  <2> QED
    BY <1>4, <2>1 DEF Onward
<1>6. Upcoming \in Nat /\ 1 <= Upcoming /\ Upcoming <= Len(stream) + 1 /\ Len(stream) \in Nat
  <2>1. stream \in Seq(Messages)
    BY <1>1 DEF TypeInv, TypeOK
  <2> QED
    BY <1>1, <2>1, UpcomingType
<1>7. Upcoming # 1 => stream'[Upcoming - 1] = stream[Upcoming - 1]
  BY <1>6 DEF Onward, Positions
<1>8. CASE Elsewhere
  <2>1. Upcoming' = Upcoming
    BY <1>3, <1>8 DEF Elsewhere
  <2>2. ~overflowing' /\ ~mediaGap' /\ ~awaitKeyframe' /\ ~rotate'
    BY <1>2, <1>4, <1>8 DEF Elsewhere, Undisturbed
  <2>3. todo' # <<>> => todo' = <<msg'>>
    BY <1>1, <1>4, <1>8, ToApply DEF Elsewhere
  <2>4. ~writing' => seg' = None /\ recordings' = <<>> /\ todo' = <<>>
    BY <1>2, <1>4, <1>8 DEF Elsewhere
  <2>5. UNCHANGED <<sps, flushed>> /\ (seg' # None => seg' = seg) /\ Footage' \subseteq Footage
    BY <1>8 DEF Elsewhere
  <2>6. TracksKept
    BY <1>5, <2>5 DEF TracksKept
  <2> QED
    BY <1>2, <1>4, <1>7, <2>1, <2>2, <2>3, <2>4, <2>5, <2>6 DEF TrackInv, TracksKept
<1>9. CASE Resync \/ ObeyRotate
  <2>1. /\ UNCHANGED <<seg, recordings, flushed, sps, stream, overflowing, msg>>
        /\ ~mediaGap' /\ ~awaitKeyframe' /\ ~rotate' /\ todo' = <<>>
    <3>1. CASE Resync
      BY <1>4, <3>1 DEF Resync
    <3>2. CASE ObeyRotate
      BY <1>1, <1>4, <3>2, ToApply DEF ObeyRotate
    <3> QED
      BY <1>9, <3>1, <3>2
  <2>2. Footage' = Footage /\ Upcoming' = Upcoming
    BY <1>3, <2>1 DEF Footage
  <2> QED
    BY <1>2, <1>4, <2>1, <2>2 DEF TrackInv
<1>10. CASE SkipWhenOff
  <2>1. ~writing /\ ~writing' /\ UNCHANGED <<stream, overflowing, mediaGap, awaitKeyframe, rotate, todo>>
    BY <1>2, <1>10 DEF SkipWhenOff
  <2>2. seg' = None /\ recordings' = recordings /\ Footage' \subseteq Footage
    BY <1>1, <1>4, <1>10, <2>1, Closing DEF SkipWhenOff
  <2>3. TracksKept
    BY <1>5, <2>2 DEF TracksKept
  <2> QED
    BY <1>4, <2>1, <2>2, <2>3 DEF TrackInv, TracksKept
<1>11. CASE PrepareWhenOn
  <2>1. /\ UNCHANGED <<seg, recordings, sps, stream, overflowing, mediaGap, awaitKeyframe, rotate, msg>>
        /\ writing /\ flushed' = TRUE /\ Upcoming = msg /\ msg # 0
        /\ todo' = IF flushed THEN <<msg>> ELSE Append(Held, msg)
    BY <1>1, <1>11 DEF PrepareWhenOn, TypeInv, TypeOK, Upcoming
  <2>2. Footage' = Footage /\ Upcoming' = Upcoming
    BY <1>3, <2>1 DEF Footage
  <2>3. todo' = <<msg>>
    <3>1. CASE flushed
      BY <2>1, <3>1
    <3>2. CASE ~flushed
      <4>1. Upcoming = 1
        BY <1>4, <2>1, <3>2
      <4>2. videoSeq = 0
        BY <1>1, <4>1 DEF GopInv, TypeInv, TypeOK, Positions
      <4>3. gop = <<>>
        <5>1. gop \in Seq(Positions)
          BY <1>1 DEF TypeInv, TypeOK
        <5>2. \A i \in 1..Len(gop) : gop[i] \in Positions /\ gop[i] < 1
          BY <1>1, <4>1, <5>1 DEF GopInv
        <5>3. Len(gop) \in Nat /\ (Len(gop) >= 1 => 1 \in 1..Len(gop))
          BY <5>1
        <5>4. Len(gop) = 0
          BY <5>2, <5>3 DEF Positions
        <5> QED
          BY <5>1, <5>4, Empty
      <4>4. Held = <<>>
        BY <4>2, <4>3 DEF Held
      <4> QED
        BY <2>1, <3>2, <4>4
    <3> QED
      BY <3>1, <3>2
  <2> QED
    BY <1>2, <1>4, <2>1, <2>2, <2>3 DEF TrackInv
<1>12. CASE Apply
  <2>1. pc = "apply" /\ todo = <<msg>> /\ msg \in Positions /\ msg # 0 /\ Upcoming = msg /\ writing
    BY <1>1, <1>4, <1>12 DEF Apply, TypeInv, TypeOK, Upcoming
  <2>2. Head(todo) = msg /\ Len(todo) = 1 /\ Tail(todo) = <<>> /\ todo[1] = msg
    BY <2>1
  <2>3. /\ UNCHANGED <<overflowing, mediaGap, awaitKeyframe, rotate, stream, flushed>>
        /\ todo' = <<>> /\ msg' = 0
        /\ IF IsHeader(msg) THEN ApplyHeader(msg) ELSE ApplyFrame(msg)
    BY <1>12, <2>2 DEF Apply
  <2>4. Upcoming' = msg + 1 /\ msg \in Nat /\ msg >= 1
    BY <1>3, <2>1, <2>3 DEF Positions
  <2>5. flushed
    <3>1. ~awaitKeyframe
      BY <1>4
    <3> QED
      BY <1>1, <2>1, <3>1 DEF CacheInv
  <2>6. Upcoming' # 1 /\ Upcoming' - 1 = msg
    BY <2>4
  <2>7. CASE IsHeader(msg)
    <3>1. sps' = stream[msg].cfg /\ ApplyHeader(msg)
      BY <2>3, <2>7 DEF ApplyHeader
    <3>2. \/ seg' = seg /\ recordings' = recordings /\ sps \in {None, stream[msg].cfg}
          \/ seg' = None /\ Footage' \subseteq Footage
      BY <1>1, <2>3, <3>1, Closing DEF ApplyHeader
    <3>3. seg' # None => seg'.cfg = sps'
      BY <1>1, <1>4, <3>1, <3>2 DEF TypeInv
    <3>4. Footage' \subseteq Footage
      BY <3>2 DEF Footage
    <3>5. TracksKept
      BY <1>5, <3>4 DEF TracksKept
    <3> QED
      BY <1>2, <1>4, <2>1, <2>3, <2>5, <2>6, <3>1, <3>3, <3>5 DEF TrackInv, TracksKept
  <2>8. CASE IsFrame(msg)
    <3>1. msg # 1 /\ stream[msg].cfg = stream[msg - 1].cfg
      BY <1>1, <2>1, <2>4, <2>8 DEF StreamInv, IsFrame
    <3>2. sps = stream[msg].cfg
      BY <1>4, <2>1, <3>1
    <3>3. FrameStep(msg) /\ sps' = sps
      BY <1>1, <2>1, <2>3, <2>8, Framing DEF IsFrame
    <3>4. seg' # None => seg'.cfg = sps'
      BY <1>4, <3>3 DEF FrameStep
    <3>5. TracksKept
      <4> SUFFICES ASSUME NEW s \in Footage', NEW i \in DOMAIN s.frames
                   PROVE  stream'[s.frames[i]].cfg = s.cfg
        BY DEF TracksKept
      <4>1. CASE s \in Footage
        BY <1>5, <4>1
      <4>2. CASE s.frames = <<>>
        BY <4>2
      <4>3. CASE s.frames = <<msg>> /\ s.cfg = sps
        BY <2>3, <3>2, <4>3
      <4>4. CASE seg # None /\ s.frames = Append(seg.frames, msg) /\ s.cfg = seg.cfg
        <5> DEFINE old == [cfg |-> seg.cfg, frames |-> seg.frames]
        <5>1. seg.frames \in Seq(Positions) /\ old \in Footage /\ old.frames = seg.frames
              /\ old.cfg = seg.cfg
          BY <1>1, <4>4 DEF TypeInv, Footage
        <5>2. /\ i \in 1..(Len(seg.frames) + 1) /\ Len(seg.frames) \in Nat
              /\ i \in 1..Len(seg.frames) => s.frames[i] = seg.frames[i] /\ i \in DOMAIN seg.frames
              /\ i = Len(seg.frames) + 1 => s.frames[i] = msg
          BY <2>1, <4>4, <5>1
        <5>3. CASE i \in 1..Len(seg.frames)
          BY <1>5, <4>4, <5>1, <5>2, <5>3
        <5>4. CASE i = Len(seg.frames) + 1
          BY <1>4, <2>3, <3>2, <4>4, <5>2, <5>4
        <5> QED
          BY <5>2, <5>3, <5>4
      <4> QED
        BY <1>1, <2>2, <4>1, <4>2, <4>3, <4>4, FootageStep
    <3> QED
      BY <1>2, <1>4, <2>1, <2>3, <2>5, <2>6, <3>2, <3>3, <3>4, <3>5 DEF TrackInv, TracksKept
  <2> QED
    BY <2>7, <2>8 DEF IsFrame
<1> QED
  BY <1>1, <1>8, <1>9, <1>10, <1>11, <1>12, Steps

\* Without loss, switch and Rotate, a segment holds only frames coded with the
\* parameter sets of its track. (apply on a sequence header)
THEOREM FramesAlwaysMatchTrack == Spec => []FramesMatchTrack
<1>1. Init => TrackInv
  BY DEF Init, TrackInv, Footage, ToSet, Upcoming
<1>2. TrackInv => FramesMatchTrack
  BY DEF TrackInv, FramesMatchTrack, Undisturbed
<1>3. OrderInv /\ TrackInv /\ [Next]_vars => TrackInv'
  BY OrderStep, TrackStep
<1> QED
  BY <1>1, <1>2, <1>3, OrderInit, OrderStep, PTL DEF Spec

----------------------------------------------------------------------------
(* Nothing is recorded twice.                                             *)

\* The frames that are in the footage.
Recorded == UNION {ToSet(s.frames) : s \in Footage}

\* Uninterrupted, what is recorded comes before what is yet to be handled.
OnceInv ==
  ~interrupted =>
    /\ ~rotate
    /\ \A f \in Recorded :
         f < Upcoming /\ \A i \in 1..Len(todo) : IsFrame(todo[i]) => f < todo[i]
    /\ ~flushed \/ ~writing => Recorded = {} /\ seg = None
    /\ ~writing => \A i \in 1..Len(todo) : IsHeader(todo[i])
    /\ FootageOnce

\* What a step makes of the segments: it publishes the open one or not, and may go on
\* with the frame n, which was in none.
Publishes(n) ==
    /\ \/ recordings' = recordings
       \/ \E b : /\ seg # None
                 /\ recordings' = Append(recordings,
                       [cfg |-> seg.cfg, frames |-> seg.frames, listed |-> b])
                 /\ seg' # None => seg'.frames \in {<<>>, <<n>>}
    /\ seg' # None => \/ seg # None /\ seg'.frames = seg.frames
                      \/ seg'.frames \in {<<>>, <<n>>}
                      \/ seg # None /\ seg'.frames = Append(seg.frames, n)

\* What the open segment and the published ones hold is recorded.
LEMMA RecordedHas ==
  ASSUME TypeInv
  PROVE  /\ seg # None => ToSet(seg.frames) \subseteq Recorded
         /\ recordings \in Seq(Recordings)
         /\ \A i \in DOMAIN recordings : ToSet(recordings[i].frames) \subseteq Recorded
         /\ Recorded \subseteq Positions
<1>1. recordings \in Seq(Recordings)
  BY DEF TypeInv, TypeOK, Recordings
<1>2. ASSUME seg # None PROVE ToSet(seg.frames) \subseteq Recorded
  <2> DEFINE s == [cfg |-> seg.cfg, frames |-> seg.frames]
  <2>1. s \in Footage /\ s.frames = seg.frames
    BY <1>2 DEF Footage
  <2> HIDE DEF s
  <2> QED
    BY <2>1 DEF Recorded
<1>3. ASSUME NEW i \in DOMAIN recordings PROVE ToSet(recordings[i].frames) \subseteq Recorded
  <2> DEFINE s == [cfg |-> recordings[i].cfg, frames |-> recordings[i].frames]
  <2>1. s \in Footage /\ s.frames = recordings[i].frames
    BY <1>3 DEF Footage, ToSet
  <2> HIDE DEF s
  <2> QED
    BY <2>1 DEF Recorded
<1>4. Recorded \subseteq Positions
  BY FootageType DEF Recorded, ToSet
<1> QED
  BY <1>1, <1>2, <1>3, <1>4

\* The elements of a sequence with one more.
LEMMA AppendSet ==
  ASSUME NEW S, NEW s \in Seq(S), NEW n
  PROVE  ToSet(Append(s, n)) = ToSet(s) \cup {n}
<1>1. /\ DOMAIN s = 1..Len(s) /\ Len(s) \in Nat /\ DOMAIN Append(s, n) = 1..(Len(s) + 1)
      /\ \A i \in 1..Len(s) : Append(s, n)[i] = s[i]
      /\ Append(s, n)[Len(s) + 1] = n
  OBVIOUS
<1> QED
  BY <1>1 DEF ToSet

\* A sequence without duplicates stays so with a new element.
LEMMA AppendOnce ==
  ASSUME NEW s \in Seq(Nat), NEW n, IsInjective(s), n \notin ToSet(s)
  PROVE  IsInjective(Append(s, n))
<1> DEFINE t == Append(s, n)
<1>1. /\ DOMAIN s = 1..Len(s) /\ Len(s) \in Nat /\ DOMAIN t = 1..(Len(s) + 1)
      /\ \A i \in 1..Len(s) : t[i] = s[i] /\ s[i] \in ToSet(s)
      /\ t[Len(s) + 1] = n
  BY DEF ToSet
<1> HIDE DEF t
<1>2. \A a, b \in DOMAIN t : t[a] = t[b] => a = b
  <2> SUFFICES ASSUME NEW a \in DOMAIN t, NEW b \in DOMAIN t, t[a] = t[b]
               PROVE  a = b
    OBVIOUS
  <2>1. CASE a \in 1..Len(s) /\ b \in 1..Len(s)
    BY <1>1, <2>1 DEF IsInjective
  <2>2. CASE a = Len(s) + 1 \/ b = Len(s) + 1
    BY <1>1, <2>2
  <2> QED
    BY <1>1, <2>1, <2>2
<1>3. IsInjective(t)
  BY <1>2 DEF IsInjective
<1> QED
  BY <1>3 DEF t

\* A step that records at most a new frame records nothing twice.
LEMMA StillOnce ==
  ASSUME TypeInv, FootageOnce, ~interrupted, NEW n, n \notin Recorded, Publishes(n)
  PROVE  FootageOnce'
<1>1. /\ \A s \in Footage : IsInjective(s.frames)
      /\ \A i, j \in DOMAIN recordings :
           i # j => ToSet(recordings[i].frames) \cap ToSet(recordings[j].frames) = {}
      /\ seg # None => \A i \in DOMAIN recordings :
           ToSet(recordings[i].frames) \cap ToSet(seg.frames) = {}
  BY DEF FootageOnce
<1>2. seg # None => seg.frames \in Seq(Positions) /\ IsInjective(seg.frames)
  <2>1. ASSUME seg # None PROVE IsInjective(seg.frames)
    <3> DEFINE s == [cfg |-> seg.cfg, frames |-> seg.frames]
    <3>1. s \in Footage /\ s.frames = seg.frames
      BY <2>1 DEF Footage
    <3> HIDE DEF s
    <3> QED
      BY <1>1, <3>1
  <2> QED
    BY <2>1 DEF TypeInv
<1>3. \A i \in DOMAIN recordings : IsInjective(recordings[i].frames)
  <2> SUFFICES ASSUME NEW i \in DOMAIN recordings PROVE IsInjective(recordings[i].frames)
    OBVIOUS
  <2> DEFINE s == [cfg |-> recordings[i].cfg, frames |-> recordings[i].frames]
  <2>1. s \in Footage /\ s.frames = recordings[i].frames
    BY DEF Footage, ToSet
  <2> HIDE DEF s
  <2> QED
    BY <1>1, <2>1
<1>4. ToSet(<<>>) = {} /\ ToSet(<<n>>) = {n} /\ IsInjective(<<>>) /\ IsInjective(<<n>>)
  BY DEF ToSet, IsInjective
<1>5. seg' # None => /\ IsInjective(seg'.frames)
                     /\ \/ seg # None /\ ToSet(seg'.frames) \subseteq ToSet(seg.frames) \cup {n}
                        \/ ToSet(seg'.frames) \subseteq {n}
  <2> SUFFICES ASSUME seg' # None
               PROVE  /\ IsInjective(seg'.frames)
                      /\ \/ seg # None /\ ToSet(seg'.frames) \subseteq ToSet(seg.frames) \cup {n}
                         \/ ToSet(seg'.frames) \subseteq {n}
    OBVIOUS
  <2>1. CASE seg # None /\ seg'.frames = seg.frames
    BY <1>2, <2>1
  <2>2. CASE seg'.frames \in {<<>>, <<n>>}
    BY <1>4, <2>2
  <2>3. CASE seg # None /\ seg'.frames = Append(seg.frames, n)
    <3>1. seg.frames \in Seq(Positions) /\ IsInjective(seg.frames) /\ n \notin ToSet(seg.frames)
      BY <1>2, <2>3, RecordedHas
    <3>2. seg.frames \in Seq(Nat)
      BY <3>1 DEF Positions
    <3>3. IsInjective(Append(seg.frames, n))
      BY <3>1, <3>2, AppendOnce
    <3>4. ToSet(seg'.frames) = ToSet(seg.frames) \cup {n}
      BY <2>3, <3>1, AppendSet
    <3> QED
      BY <2>3, <3>3, <3>4, Zenon
  <2> QED
    BY <2>1, <2>2, <2>3 DEF Publishes
<1>6. /\ recordings \in Seq(Recordings) /\ DOMAIN recordings = 1..Len(recordings)
      /\ Len(recordings) \in Nat
      /\ \A i \in DOMAIN recordings : n \notin ToSet(recordings[i].frames)
      /\ seg # None => n \notin ToSet(seg.frames)
  <2>1. recordings \in Seq(Recordings)
    BY RecordedHas
  <2> QED
    BY <2>1, RecordedHas
<1>7. /\ \A i \in DOMAIN recordings' : IsInjective(recordings'[i].frames)
      /\ \A i, j \in DOMAIN recordings' :
           i # j => ToSet(recordings'[i].frames) \cap ToSet(recordings'[j].frames) = {}
      /\ seg' # None => \A i \in DOMAIN recordings' :
           ToSet(recordings'[i].frames) \cap ToSet(seg'.frames) = {}
  <2>1. CASE recordings' = recordings
    BY <1>1, <1>3, <1>5, <1>6, <2>1
  <2>2. CASE recordings' # recordings
    <3>1. PICK b : /\ seg # None
                   /\ recordings' = Append(recordings,
                         [cfg |-> seg.cfg, frames |-> seg.frames, listed |-> b])
                   /\ seg' # None => seg'.frames \in {<<>>, <<n>>}
      BY <2>2 DEF Publishes
    <3> DEFINE row == [cfg |-> seg.cfg, frames |-> seg.frames, listed |-> b]
    <3>2. row.frames = seg.frames
      OBVIOUS
    <3>3. recordings' = Append(recordings, row)
      BY <3>1
    <3> HIDE DEF row
    <3>4. /\ DOMAIN recordings' = 1..(Len(recordings) + 1)
          /\ \A i \in 1..Len(recordings) : recordings'[i] = recordings[i]
          /\ recordings'[Len(recordings) + 1] = row
      BY <1>6, <3>3
    <3>5. \A i \in DOMAIN recordings' :
             \/ i \in DOMAIN recordings /\ recordings'[i] = recordings[i]
             \/ i = Len(recordings) + 1 /\ recordings'[i].frames = seg.frames
      BY <1>6, <3>2, <3>4
    <3>6. \A i \in DOMAIN recordings' : IsInjective(recordings'[i].frames)
      BY <1>2, <1>3, <3>1, <3>5
    <3>7. \A i, j \in DOMAIN recordings' :
             i # j => ToSet(recordings'[i].frames) \cap ToSet(recordings'[j].frames) = {}
      BY <1>1, <3>1, <3>5
    <3>8. seg' # None => ToSet(seg'.frames) \subseteq {n}
      BY <1>4, <3>1
    <3>9. \A i \in DOMAIN recordings' : n \notin ToSet(recordings'[i].frames)
      BY <1>6, <3>1, <3>5
    <3> QED
      BY <3>6, <3>7, <3>8, <3>9
  <2> QED
    BY <2>1, <2>2
<1>8. \A s \in Footage' : IsInjective(s.frames)
  <2> SUFFICES ASSUME NEW s \in Footage' PROVE IsInjective(s.frames)
    OBVIOUS
  <2>1. CASE seg' # None /\ s = [cfg |-> seg'.cfg, frames |-> seg'.frames]
    <3>1. s.frames = seg'.frames
      BY <2>1
    <3> QED
      BY <1>5, <2>1, <3>1
  <2>2. CASE \E i \in DOMAIN recordings' :
               s = [cfg |-> recordings'[i].cfg, frames |-> recordings'[i].frames]
    <3>1. PICK i \in DOMAIN recordings' :
               s = [cfg |-> recordings'[i].cfg, frames |-> recordings'[i].frames]
      BY <2>2
    <3>2. s.frames = recordings'[i].frames
      BY <3>1
    <3> QED
      BY <1>7, <3>2
  <2> QED
    BY <2>1, <2>2 DEF Footage, ToSet
<1> QED
  BY <1>7, <1>8 DEF FootageOnce

\* Only applying a frame records it.
LEMMA RecordedStep ==
  ASSUME TypeInv, TypeInv', [Next]_vars
  PROVE  \A f \in Recorded' :
           f \in Recorded \/ (pc = "apply" /\ todo # <<>> /\ IsFrame(todo[1]) /\ f = todo[1])
<1> SUFFICES ASSUME NEW f \in Recorded'
             PROVE  f \in Recorded \/ (pc = "apply" /\ todo # <<>> /\ IsFrame(todo[1]) /\ f = todo[1])
  OBVIOUS
<1>1. PICK s \in Footage' : f \in ToSet(s.frames)
  BY DEF Recorded
<1>2. CASE s \in Footage
  BY <1>1, <1>2 DEF Recorded
<1>3. CASE s.frames = <<>>
  BY <1>1, <1>3 DEF ToSet
<1>4. CASE pc = "apply" /\ todo # <<>> /\ IsFrame(todo[1]) /\ s.frames = <<todo[1]>>
  BY <1>1, <1>4 DEF ToSet
<1>5. CASE /\ pc = "apply" /\ todo # <<>> /\ IsFrame(todo[1])
           /\ seg # None /\ s.frames = Append(seg.frames, todo[1])
  <2>1. seg.frames \in Seq(Positions)
    BY <1>5 DEF TypeInv
  <2>2. f \in ToSet(seg.frames) \/ f = todo[1]
    BY <1>1, <1>5, <2>1, AppendSet
  <2> QED
    BY <1>5, <2>2, RecordedHas
<1> QED
  BY <1>1, <1>2, <1>3, <1>4, <1>5, FootageStep

\* What a frame makes of the segments.
LEMMA FramePublishes ==
  ASSUME TypeInv, UNCHANGED stream, NEW n \in Positions, ApplyFrame(n)
  PROVE  Publishes(n)
<1>1. FrameStep(n)
  BY Framing
<1>2. \/ recordings' = recordings
      \/ \E b : /\ seg # None
                /\ recordings' = Append(recordings,
                      [cfg |-> seg.cfg, frames |-> seg.frames, listed |-> b])
  BY Framing
<1> DEFINE Appends == \E b : /\ seg # None
                             /\ recordings' = Append(recordings,
                                   [cfg |-> seg.cfg, frames |-> seg.frames, listed |-> b])
<1>3. recordings' = recordings \/ Appends
  BY <1>2
<1>4. Appends /\ (seg' # None => seg'.frames \in {<<>>, <<n>>}) =>
        \E b : /\ seg # None
               /\ recordings' = Append(recordings,
                     [cfg |-> seg.cfg, frames |-> seg.frames, listed |-> b])
               /\ seg' # None => seg'.frames \in {<<>>, <<n>>}
  OBVIOUS
<1> HIDE DEF Appends
<1>5. CASE seg = None /\ recordings' = recordings /\ seg' = seg
  BY <1>5 DEF Publishes
<1>6. CASE seg' = None
  BY <1>3, <1>4, <1>6 DEF Publishes
<1>7. CASE /\ seg # None /\ seg' # None /\ recordings' = recordings
           /\ seg'.frames \in {seg.frames, Append(seg.frames, n)}
  BY <1>7 DEF Publishes
<1>8. CASE seg' # None /\ seg'.frames \in {<<>>, <<n>>}
  BY <1>3, <1>4, <1>8 DEF Publishes
<1> QED
  BY <1>1, <1>5, <1>6, <1>7, <1>8 DEF FrameStep

\* A step that records nothing anew keeps the invariant.
LEMMA OnceKept ==
  ASSUME OrderInv, OrderInv', Onward, [Next]_vars, OnceInv, ~interrupted, ~interrupted',
         ~rotate', Recorded' \subseteq Recorded, Publishes(0), writing => writing',
         seg' = None \/ seg' = seg,
         ~flushed' => ~flushed \/ ~writing,
         \A i \in 1..Len(todo') : stream'[todo'[i]].type # "header" =>
             writing /\ \A f \in Recorded : f < todo'[i]
  PROVE  OnceInv'
<1>1. TypeInv /\ TypeInv' /\ Recorded \subseteq Positions
  BY RecordedHas DEF OrderInv
<1>2. 0 \notin Recorded
  BY <1>1 DEF Positions
<1>3. FootageOnce'
  BY <1>1, <1>2, StillOnce DEF OnceInv
<1>4. \A f \in Recorded' : f < Upcoming'
  <2> SUFFICES ASSUME NEW f \in Recorded' PROVE f < Upcoming'
    OBVIOUS
  <2>1. f < Upcoming /\ f \in Nat
    BY <1>1 DEF OnceInv, Positions
  <2> QED
    BY <2>1 DEF Onward
<1>5. (\A i \in 1..Len(todo) : IsFrame(todo[i]) => \A f \in Recorded : f < todo[i])'
  BY DEF IsFrame, IsHeader
<1>6. ~flushed' \/ ~writing' => Recorded' = {} /\ seg' = None
  BY DEF OnceInv
<1>7. (~writing => \A i \in 1..Len(todo) : IsHeader(todo[i]))'
  BY DEF IsHeader
<1> QED
  BY <1>3, <1>4, <1>5, <1>6, <1>7 DEF OnceInv

\* Every step of an uninterrupted session records no frame again.
LEMMA OnceStep ==
  ASSUME OrderInv, OrderInv', Onward, [Next]_vars, OnceInv
  PROVE  OnceInv'
<1> SUFFICES ASSUME ~interrupted' PROVE OnceInv'
  BY DEF OnceInv
<1>1. TypeInv /\ TypeInv' /\ CacheInv /\ TodoInv
  BY DEF OrderInv
<1>2. todo \in Seq(Positions) /\ Len(todo) \in Nat /\ \A i \in 1..Len(todo) : todo[i] \in Positions
  BY <1>1, ToApply
<1>3. \A p \in Positions : stream'[p] = stream[p]
  BY DEF Onward
<1>4. ASSUME ~interrupted
      PROVE  /\ \A i \in 1..Len(todo) : stream'[todo[i]].type # "header" =>
                    writing /\ \A f \in Recorded : f < todo[i]
             /\ ~rotate
             /\ ~writing => Recorded = {} /\ seg = None
             /\ ~flushed => Recorded = {} /\ seg = None
             /\ \A f \in Recorded : f < Upcoming
  BY <1>2, <1>3, <1>4 DEF OnceInv, IsFrame, IsHeader
<1>5. \A f \in Recorded' :
        f \in Recorded \/ (pc = "apply" /\ todo # <<>> /\ IsFrame(todo[1]) /\ f = todo[1])
  BY <1>1, RecordedStep
<1>6. CASE Elsewhere
  <2>1. ~interrupted /\ ~rotate' /\ (writing => writing') /\ todo' = todo /\ flushed' = flushed
        /\ (seg' = None \/ seg' = seg)
    BY <1>4, <1>6 DEF Elsewhere
  <2>2. Recorded' \subseteq Recorded
    BY <1>6 DEF Elsewhere, Recorded
  <2>3. Publishes(0)
    BY <1>6 DEF Elsewhere, Publishes
  <2> QED
    BY <1>4, <2>1, <2>2, <2>3, OnceKept
<1>7. CASE Resync \/ ObeyRotate \/ SkipWhenOff
  <2>1. ~interrupted /\ UNCHANGED <<stream, writing>> /\ pc # "apply"
    BY <1>7 DEF Resync, ObeyRotate, SkipWhenOff
  <2>2. Recorded' \subseteq Recorded
    BY <1>5, <2>1
  <2>3. (seg' = seg /\ recordings' = recordings) \/ \E disk \in Faults \cup {"ok"} : CloseSegment(disk)
    BY <1>7 DEF Resync, ObeyRotate, SkipWhenOff
  <2>4. Publishes(0) /\ (seg' = None \/ seg' = seg)
    BY <1>1, <2>1, <2>3, Closing DEF Publishes
  <2>5. ~rotate' /\ (~flushed' => ~flushed \/ ~writing)
    BY <1>4, <1>7, <2>1 DEF Resync, ObeyRotate, SkipWhenOff
  <2>6. \A i \in 1..Len(todo') : stream'[todo'[i]].type # "header" => writing /\ \A f \in Recorded : f < todo'[i]
    <3>1. CASE Resync
      <4>1. todo' = <<>> \/ (todo' = <<msg>> /\ IsHeader(msg))
        BY <3>1 DEF Resync
      <4>2. todo' = <<msg>> => Len(todo') = 1 /\ todo'[1] = msg
        OBVIOUS
      <4>3. todo' = <<>> => Len(todo') = 0
        OBVIOUS
      <4>4. IsHeader(msg) => stream'[msg].type = "header"
        BY <2>1 DEF IsHeader
      <4> QED
        BY <4>1, <4>2, <4>3, <4>4
    <3>2. CASE ObeyRotate \/ SkipWhenOff
      <4>1. todo' = todo
        BY <3>2 DEF ObeyRotate, SkipWhenOff
      <4> QED
        BY <1>4, <2>1, <4>1
    <3> QED
      BY <1>7, <3>1, <3>2
  <2> QED
    BY <2>1, <2>2, <2>4, <2>5, <2>6, OnceKept
<1>8. CASE PrepareWhenOn
  <2>1. /\ ~interrupted /\ UNCHANGED <<stream, writing, seg, recordings, rotate, msg>> /\ writing
        /\ flushed' = TRUE /\ msg # 0 /\ Upcoming = msg /\ pc # "apply"
        /\ todo' = IF flushed THEN <<msg>> ELSE Append(Held, msg)
    BY <1>1, <1>8 DEF PrepareWhenOn, TypeInv, TypeOK, Upcoming
  <2>2. Recorded' \subseteq Recorded
    BY <1>5, <2>1
  <2>3. Publishes(0)
    BY <2>1 DEF Publishes
  <2>4. \A i \in 1..Len(todo') : stream'[todo'[i]].type # "header" => writing /\ \A f \in Recorded : f < todo'[i]
    <3>1. CASE flushed
      <4>1. Len(todo') = 1 /\ todo'[1] = msg
        BY <2>1, <3>1
      <4> QED
        BY <1>4, <2>1, <4>1
    <3>2. CASE ~flushed
      BY <1>4, <2>1, <3>2
    <3> QED
      BY <3>1, <3>2
  <2> QED
    BY <1>4, <2>1, <2>2, <2>3, <2>4, OnceKept
<1>9. CASE Apply
  <2> DEFINE n == todo[1]
  <2>1. /\ ~interrupted /\ UNCHANGED <<stream, writing, rotate, flushed>> /\ pc = "apply"
        /\ todo' = Tail(todo) /\ n = Head(todo) /\ n \in Positions /\ 1 \in 1..Len(todo) /\ Len(todo) >= 1
        /\ msg = Upcoming /\ msg # 0 /\ todo # <<>>
        /\ Len(todo) = 1 => msg' = 0
        /\ IF IsHeader(n) THEN ApplyHeader(n) ELSE ApplyFrame(n)
    <3>1. pc = "apply" /\ todo # <<>>
      BY <1>1, <1>9 DEF Apply, TypeInv, TypeOK
    <3>2. Len(todo) >= 1 /\ Upcoming = msg /\ msg # 0
      BY <1>1, <3>1, ToApply
    <3> QED
      BY <1>2, <1>9, <3>1, <3>2 DEF Apply
  <2>2. /\ Len(todo') = Len(todo) - 1
        /\ \A i \in 1..Len(todo') : i + 1 \in 1..Len(todo) /\ 1 < i + 1 /\ todo'[i] = todo[i + 1]
    BY <1>2, <2>1
  <2>3. \A i \in 1..Len(todo') : stream'[todo'[i]].type # "header" => writing /\ \A f \in Recorded : f < todo'[i]
    BY <1>4, <2>1, <2>2
  <2>4. CASE IsHeader(n)
    <3>1. Recorded' \subseteq Recorded
      BY <1>5, <2>4 DEF IsFrame
    <3>2. (seg' = seg /\ recordings' = recordings) \/ \E disk \in Faults \cup {"ok"} : CloseSegment(disk)
      BY <2>1, <2>4 DEF ApplyHeader
    <3>3. Publishes(0) /\ (seg' = None \/ seg' = seg)
      BY <1>1, <2>1, <3>2, Closing DEF Publishes
    <3> QED
      BY <1>4, <2>1, <2>3, <3>1, <3>3, OnceKept
  <2>5. CASE IsFrame(n)
    <3>1. writing /\ \A f \in Recorded : f < n
      BY <1>4, <2>1, <2>5 DEF IsFrame, IsHeader
    <3>2. flushed
      <4>1. awaitKeyframe => todo = <<msg>> /\ IsHeader(msg)
        BY <1>1, <2>1 DEF CacheInv
      <4>2. ~awaitKeyframe
        BY <2>5, <4>1 DEF IsFrame
      <4> QED
        BY <1>1, <2>1, <4>2 DEF CacheInv
    <3>3. n \notin Recorded /\ n \in Nat
      BY <2>1, <3>1 DEF Positions
    <3>4. Publishes(n)
      BY <1>1, <2>1, <2>5, FramePublishes DEF IsFrame
    <3>5. FootageOnce'
      BY <1>1, <2>1, <3>3, <3>4, StillOnce DEF OnceInv
    <3>6. \A f \in Recorded' : f \in Recorded \/ f = n
      BY <1>5
    <3>7. n < Upcoming'
      <4>1. CASE Len(todo) = 1
        <5>1. n = msg /\ msg' = 0
          BY <1>1, <2>1, <4>1 DEF TodoInv
        <5> QED
          BY <2>1, <5>1 DEF Onward
      <4>2. CASE Len(todo) # 1
        <5>1. 1 < Len(todo) /\ Len(todo) \in 1..Len(todo)
          <6> DEFINE k == Len(todo)
          <6>1. k \in Nat /\ k >= 1 /\ k # 1
            BY <1>2, <2>1, <4>2
          <6> HIDE DEF k
          <6>2. 1 < k /\ k \in 1..k
            BY <6>1
          <6> QED
            BY <6>2 DEF k
        <5>2. n < todo[Len(todo)] /\ todo[Len(todo)] = msg
          BY <1>1, <2>1, <2>5, <5>1 DEF TodoInv
        <5> QED
          BY <2>1, <3>3, <5>2 DEF Onward
      <4> QED
        BY <4>1, <4>2
    <3>8. \A f \in Recorded' : f < Upcoming'
      <4> SUFFICES ASSUME NEW f \in Recorded, f < Upcoming PROVE f < Upcoming'
        BY <1>4, <2>1, <3>6, <3>7
      <4>1. f \in Nat
        BY <1>1, RecordedHas DEF Positions
      <4> QED
        BY <4>1 DEF Onward
    <3>9. (\A i \in 1..Len(todo) : IsFrame(todo[i]) => \A f \in Recorded : f < todo[i])'
      <4> SUFFICES ASSUME NEW i \in 1..Len(todo'), stream'[todo'[i]].type # "header"
                   PROVE  n < todo'[i]
        BY <2>3, <3>6 DEF IsFrame, IsHeader
      <4> QED
        BY <1>1, <2>1, <2>2, <2>5 DEF TodoInv
    <3> QED
      BY <1>4, <2>1, <3>1, <3>2, <3>5, <3>8, <3>9 DEF OnceInv
  <2> QED
    BY <2>4, <2>5 DEF IsFrame
<1> QED
  BY <1>1, <1>6, <1>7, <1>8, <1>9, Steps

\* No frame is recorded twice while recording is not interrupted, whatever is lost or
\* fails. (handle, flushHeld, apply)
THEOREM FootageIsRecordedOnce == Spec => []FootageOnce
<1>1. Init => OnceInv
  <2> SUFFICES ASSUME Init PROVE OnceInv
    OBVIOUS
  <2>1. Footage = {}
    BY DEF Init, Footage, ToSet
  <2>2. Recorded = {} /\ \A i \in 1..Len(todo) : FALSE
    BY <2>1 DEF Init, Recorded
  <2> QED
    BY <2>1, <2>2 DEF Init, OnceInv, FootageOnce
<1>2. OnceInv => FootageOnce
  BY DEF OnceInv, FootageOnce
<1>3. OrderInv /\ OnceInv /\ [Next]_vars => OnceInv'
  BY OrderStep, OnceStep
<1> QED
  BY <1>1, <1>2, <1>3, OrderInit, OrderStep, PTL DEF Spec

----------------------------------------------------------------------------
(* Nothing that should be recorded is missing.                            *)

\* Nothing is lost at the queue, and nothing fails.
Intact == NotQueued = {} /\ faults = 0

\* No more than GOPLimit messages have come since the keyframe of frame n.
Near(n) == \E k \in 1..n : IsKey(k) /\ n - k <= GOPLimit

\* The messages that are replayed when recording starts in the midst of a GOP: from its
\* keyframe on, unless it is too far back, and the parameter sets.
HeldInv ==
    /\ \A k \in Positions : k < Upcoming /\ IsKey(k) =>
         /\ gop # <<>> /\ k <= gop[1]
         /\ Upcoming - k <= GOPLimit => IsKey(gop[1])
    /\ Upcoming > 1 => videoSeq # 0

\* The parameter sets are known, or come first.
ParamsInv ==
    /\ flushed /\ pc # "apply" => sps # None
    /\ pc = "apply" => sps # None \/ IsHeader(todo[1])

\* A segment is open, unless one is to be opened by what is to be applied, or by the
\* next frame, or no keyframe is near.
OpensInv ==
    /\ pc = "apply" /\ IsFrame(msg) /\ Near(msg) =>
         seg # None \/ \E i \in 1..Len(todo) : IsKey(todo[i])
    /\ flushed /\ seg = None /\ pc \notin {"apply", "done"} /\ Upcoming > 1 =>
         \/ IsHeader(Upcoming - 1)
         \/ \A k \in Positions : k < Upcoming /\ IsKey(k) => Upcoming - k > GOPLimit

\* A frame that was to be recorded is, or is the next to be applied.
WantedInv ==
    \A n \in wanted :
        /\ IsFrame(n)
        /\ Near(n) => n \in Recorded \/ (pc = "apply" /\ n = msg)

\* What keeps an undisturbed session from losing footage.
KeepInv ==
    Intact =>
      /\ ~overflowing /\ ~mediaGap /\ ~awaitKeyframe
      /\ HeldInv
      /\ ParamsInv
      /\ OpensInv
      /\ WantedInv

\* Without failures, what a frame does to the open segment.
LEMMA FrameRecords ==
  ASSUME TypeInv, TypeInv', UNCHANGED stream, NEW n \in Positions, ApplyFrame(n), faults' = 0
  PROVE  /\ Recorded \subseteq Recorded'
         /\ seg # None \/ (IsKey(n) /\ sps # None) => seg' # None /\ n \in Recorded'
<1>1. FrameStep(n) /\ Files(recordings) \subseteq Files(recordings')
  BY Framing
<1>2. seg' = None \/ (IsKey(n) /\ seg # None /\ seg.cut) =>
        \A s \in Footage : s.frames = <<>> \/ s \in Files(recordings')
  BY Framing
<1>3. seg # None => seg.frames \in Seq(Positions)
  BY DEF TypeInv
<1>4. Files(recordings') \subseteq Footage'
  BY DEF Footage, Files
<1>5. seg' # None => ToSet(seg'.frames) \subseteq Recorded'
  <2> SUFFICES ASSUME seg' # None PROVE ToSet(seg'.frames) \subseteq Recorded'
    OBVIOUS
  <2> DEFINE s == [cfg |-> seg'.cfg, frames |-> seg'.frames]
  <2>1. s \in Footage' /\ s.frames = seg'.frames
    BY DEF Footage
  <2> HIDE DEF s
  <2> QED
    BY <2>1 DEF Recorded
<1>6. seg # None \/ (IsKey(n) /\ sps # None) => seg' # None /\ n \in Recorded'
  <2>1. CASE seg # None /\ seg' # None /\ seg'.frames = Append(seg.frames, n)
    <3>1. n \in ToSet(seg'.frames)
      BY <1>3, <2>1, AppendSet
    <3> QED
      BY <1>5, <2>1, <3>1
  <2>2. CASE seg' # None /\ seg'.frames = <<n>>
    <3>1. n \in ToSet(seg'.frames)
      BY <2>2 DEF ToSet
    <3> QED
      BY <1>5, <2>2, <3>1
  <2> QED
    BY <1>1, <2>1, <2>2 DEF FrameStep
<1>7. ASSUME NEW f \in Recorded PROVE f \in Recorded'
  <2>1. PICK s \in Footage : f \in ToSet(s.frames)
    BY DEF Recorded
  <2>2. s.frames # <<>>
    BY <2>1 DEF ToSet
  <2>3. CASE s \in Files(recordings')
    BY <1>4, <2>1, <2>3 DEF Recorded
  <2>4. CASE /\ seg # None /\ seg' # None /\ s.frames = seg.frames
             /\ seg'.frames = seg.frames \/ seg'.frames = Append(seg.frames, n)
    <3>1. f \in ToSet(seg.frames) /\ ToSet(Append(seg.frames, n)) = ToSet(seg.frames) \cup {n}
      BY <1>3, <2>1, <2>4, AppendSet
    <3>2. f \in ToSet(seg'.frames)
      BY <2>4, <3>1
    <3> QED
      BY <1>5, <2>4, <3>2
  <2>5. s \in Files(recordings) \/ (seg # None /\ s.frames = seg.frames)
    BY DEF Footage, Files
  <2> QED
    BY <1>1, <1>2, <2>2, <2>3, <2>4, <2>5 DEF FrameStep
<1> QED
  BY <1>6, <1>7

\* Nothing that is lost is found, and without failures nothing recorded is lost.
LEMMA StayIntact ==
  ASSUME TypeInv, TypeInv', Onward, [Next]_vars, Intact'
  PROVE  /\ Intact
         /\ Recorded \subseteq Recorded'
         /\ Upcoming' = IF msg # 0 /\ msg' = 0 THEN Upcoming + 1 ELSE Upcoming
<1>1. NotQueued = {} /\ Upcoming' = IF msg # 0 /\ msg' = 0 THEN Upcoming + 1 ELSE Upcoming
  BY OneByOne DEF Intact
<1>2. faults \in Nat /\ faults' = 0
  BY DEF TypeInv, TypeOK, Intact
<1> SUFFICES faults = 0 /\ Recorded \subseteq Recorded'
  BY <1>1 DEF Intact
<1>3. ASSUME faults <= faults', \A s \in Footage : s.frames = <<>> \/ s \in Footage'
      PROVE  faults = 0 /\ Recorded \subseteq Recorded'
  <2>1. \A s \in Footage : ToSet(s.frames) \subseteq Recorded'
    <3> SUFFICES ASSUME NEW s \in Footage PROVE ToSet(s.frames) \subseteq Recorded'
      OBVIOUS
    <3>1. CASE s.frames = <<>>
      BY <3>1 DEF ToSet
    <3>2. CASE s \in Footage'
      BY <3>2 DEF Recorded
    <3> QED
      BY <1>3, <3>1, <3>2
  <2>2. Recorded \subseteq Recorded'
    BY <2>1 DEF Recorded
  <2> QED
    BY <1>2, <1>3, <2>2
<1>4. ASSUME UNCHANGED <<seg, recordings, faults>>
      PROVE  faults = 0 /\ Recorded \subseteq Recorded'
  <2>1. Footage' = Footage
    BY <1>4 DEF Footage
  <2> QED
    BY <1>2, <1>4, <2>1 DEF Recorded
<1>5. ASSUME UNCHANGED stream, \E disk \in Faults \cup {"ok"} : CloseSegment(disk)
      PROVE  faults = 0 /\ Recorded \subseteq Recorded'
  <2>1. faults <= faults' /\ \A s \in Footage : s.frames = <<>> \/ s \in Footage'
    BY <1>2, <1>5, Closing
  <2> QED
    BY <1>3, <2>1
<1>6. CASE Elsewhere
  <2>1. faults <= faults' /\ \A s \in Footage : s.frames = <<>> \/ s \in Footage'
    BY <1>2, <1>6 DEF Elsewhere
  <2> QED
    BY <1>3, <2>1
<1>7. CASE Resync \/ ObeyRotate \/ SkipWhenOff \/ PrepareWhenOn
  <2>1. /\ UNCHANGED stream
        /\ \/ UNCHANGED <<seg, recordings, faults>>
           \/ \E disk \in Faults \cup {"ok"} : CloseSegment(disk)
    BY <1>7 DEF Resync, ObeyRotate, SkipWhenOff, PrepareWhenOn
  <2> QED
    BY <1>4, <1>5, <2>1
<1>8. CASE Apply
  <2>1. /\ todo # <<>> /\ todo[1] \in Positions /\ Head(todo) = todo[1] /\ UNCHANGED stream
        /\ IF IsHeader(todo[1]) THEN ApplyHeader(todo[1]) ELSE ApplyFrame(todo[1])
    <3>1. todo # <<>> /\ Len(todo) >= 1
      BY <1>8, ToApply DEF Apply, TypeInv, TypeOK
    <3> QED
      BY <1>8, <3>1, ToApply DEF Apply
  <2>2. CASE ApplyHeader(todo[1])
    <3>1. UNCHANGED <<seg, recordings, faults>> \/ \E disk \in Faults \cup {"ok"} : CloseSegment(disk)
      BY <2>2 DEF ApplyHeader
    <3> QED
      BY <1>4, <1>5, <2>1, <3>1
  <2>3. CASE ApplyFrame(todo[1])
    <3>1. faults <= faults'
      BY <2>1, <2>3, Framing
    <3>2. Recorded \subseteq Recorded'
      BY <1>2, <2>1, <2>3, FrameRecords
    <3> QED
      BY <1>2, <3>1, <3>2
  <2> QED
    BY <2>1, <2>2, <2>3
<1> QED
  BY <1>6, <1>7, <1>8, Steps

\* A keyframe stays as near as it is.
LEMMA NearStays ==
  ASSUME TypeInv, Onward, NEW n \in Positions
  PROVE  Near(n)' <=> Near(n)
<1>1. \A k \in 1..n : k \in Positions
  BY DEF Positions
<1>2. \A k \in 1..n : IsKey(k)' <=> IsKey(k)
  BY <1>1, HeadersStay
<1> QED
  BY <1>2 DEF Near

\* remember holds back what is to be replayed: it lets the first frame go only once there
\* are too many after it.
LEMMA RememberHolds ==
  ASSUME TypeInv, TypeInv', GopInv, StreamInv, HeldInv, UNCHANGED stream,
         msg # 0, Upcoming = msg, Upcoming' = msg + 1, Remember(msg)
  PROVE  HeldInv'
<1>1. /\ msg \in Positions /\ msg \in Nat /\ msg >= 1 /\ Positions' = Positions
      /\ gop \in Seq(Positions) /\ Len(gop) \in Nat /\ GOPLimit \in Nat /\ Positions \subseteq Nat
      /\ \A i \in 1..Len(gop) : gop[i] \in Nat
  <2>1. msg \in Positions /\ gop \in Seq(Positions)
    BY DEF TypeInv, TypeOK
  <2>2. Positions \subseteq Nat /\ Positions' = Positions /\ GOPLimit \in Nat
    BY SessionAssumption DEF Positions
  <2>3. msg \in Nat /\ msg >= 1
    BY <2>1 DEF Positions
  <2>4. Len(gop) \in Nat /\ \A i \in 1..Len(gop) : gop[i] \in Positions
    BY <2>1
  <2> QED
    BY <2>1, <2>2, <2>3, <2>4
<1>2. \A k \in Positions : IsKey(k)' <=> IsKey(k)
  BY DEF IsKey
<1>3. CASE IsHeader(msg)
  <2>1. gop' = gop /\ videoSeq' = msg /\ ~IsKey(msg)
    BY <1>3 DEF Remember, IsHeader, IsKey
  <2>2. ASSUME NEW k \in Positions, k < msg + 1, IsKey(k)
        PROVE  /\ gop # <<>> /\ k <= gop[1]
               /\ msg + 1 - k <= GOPLimit => IsKey(gop[1])
    <3>1. k < msg /\ k \in Nat
      BY <1>1, <2>1, <2>2
    <3>2. msg + 1 - k <= GOPLimit => msg - k <= GOPLimit
      BY <1>1, <3>1
    <3> QED
      BY <2>2, <3>1, <3>2 DEF HeldInv
  <2> QED
    BY <1>1, <1>2, <2>1, <2>2 DEF HeldInv, IsKey
<1>4. CASE IsKey(msg)
  <2>1. gop' = <<msg>> /\ videoSeq' = videoSeq /\ gop'[1] = msg /\ gop' # <<>>
    <3>1. ~IsHeader(msg)
      BY <1>4 DEF IsHeader, IsKey
    <3>2. gop' = <<msg>> /\ videoSeq' = videoSeq
      BY <1>4, <3>1 DEF Remember
    <3> QED
      BY <3>2
  <2>2. \A k \in Positions : k < msg + 1 => k <= msg
    BY <1>1
  <2>3. msg > 1
    BY <1>1, <1>4 DEF StreamInv, IsHeader, IsKey
  <2> QED
    BY <1>1, <1>2, <1>4, <2>1, <2>2, <2>3 DEF HeldInv, IsKey
<1>5. CASE ~IsHeader(msg) /\ ~IsKey(msg)
  <2> DEFINE longer == Append(gop, msg)
  <2>1. /\ gop' = IF Len(longer) > GOPLimit THEN Tail(longer) ELSE longer
        /\ videoSeq' = videoSeq
    BY <1>5 DEF Remember
  <2>2. /\ longer \in Seq(Positions) /\ Len(longer) = Len(gop) + 1 /\ longer[Len(gop) + 1] = msg
        /\ \A i \in 1..Len(gop) : longer[i] = gop[i]
    BY <1>1
  <2>3. msg > 1
    BY <1>1, <1>5 DEF StreamInv
  <2>4. ASSUME NEW k \in Positions, k < msg + 1, IsKey(k)
        PROVE  /\ gop' # <<>> /\ k <= gop'[1]
               /\ msg + 1 - k <= GOPLimit => IsKey(gop'[1])
    <3>1. k < msg /\ k \in Nat
      BY <1>1, <1>5, <2>4
    <3>2. gop # <<>> /\ k <= gop[1] /\ (msg - k <= GOPLimit => IsKey(gop[1]))
      BY <2>4, <3>1 DEF HeldInv
    <3>3. Len(gop) >= 1
      BY <1>1, <3>2, Empty
    <3>4. gop[1] \in Nat /\ gop[Len(gop)] \in Nat /\ gop[Len(gop)] < msg
          /\ gop[Len(gop)] - gop[1] >= Len(gop) - 1
      <4>1. 1 \in 1..Len(gop) /\ Len(gop) \in 1..Len(gop) /\ 1 <= Len(gop)
        BY <1>1, <3>3
      <4> QED
        BY <1>1, <4>1 DEF GopInv
    <3>5. CASE Len(longer) <= GOPLimit
      <4>1. gop' = longer /\ longer[1] = gop[1] /\ longer # <<>>
        BY <1>1, <2>1, <2>2, <3>3, <3>5
      <4>2. msg + 1 - k <= GOPLimit => msg - k <= GOPLimit
        BY <1>1, <3>1
      <4> QED
        BY <3>2, <4>1, <4>2
    <3>6. CASE Len(longer) > GOPLimit
      <4> HIDE DEF longer
      <4>1. gop' = Tail(longer) /\ Len(Tail(longer)) = Len(gop) /\ Tail(longer)[1] = longer[2]
            /\ Tail(longer) \in Seq(Positions)
        BY <1>1, <2>1, <2>2, <3>3, <3>6
      <4>2. gop' # <<>>
        BY <1>1, <3>3, <4>1, Empty
      <4>3. k <= longer[2]
        <5>1. CASE Len(gop) = 1
          <6>1. longer[2] = msg
            BY <2>2, <5>1
          <6> QED
            BY <1>1, <3>1, <6>1
        <5>2. CASE Len(gop) # 1
          <6>1. 2 \in 1..Len(gop) /\ 1 \in 1..Len(gop)
            <7> DEFINE l == Len(gop)
            <7>1. l \in Nat /\ l >= 1 /\ l # 1
              BY <1>1, <3>3, <5>2
            <7> HIDE DEF l
            <7>2. 2 \in 1..l /\ 1 \in 1..l
              BY <7>1
            <7> QED
              BY <7>2 DEF l
          <6>2. longer[2] = gop[2] /\ gop[2] - gop[1] >= 2 - 1 /\ gop[2] \in Nat
            BY <1>1, <2>2, <6>1 DEF GopInv
          <6> QED
            BY <3>1, <3>2, <3>4, <6>2
        <5> QED
          BY <5>1, <5>2
      <4>4. ~(msg + 1 - k <= GOPLimit)
        <5>1. Len(gop) >= GOPLimit
          BY <1>1, <2>2, <3>6
        <5> QED
          BY <1>1, <3>1, <3>2, <3>4, <5>1
      <4> QED
        BY <4>1, <4>2, <4>3, <4>4
    <3> QED
      BY <1>1, <2>2, <3>5, <3>6
  <2>5. \A k \in Positions' : k < Upcoming' /\ IsKey(k)' =>
         /\ gop' # <<>> /\ k <= gop'[1]
         /\ Upcoming' - k <= GOPLimit => stream'[gop'[1]].type = "key"
    <3> SUFFICES ASSUME NEW k \in Positions', k < Upcoming', IsKey(k)'
                 PROVE  /\ gop' # <<>> /\ k <= gop'[1]
                        /\ Upcoming' - k <= GOPLimit => stream'[gop'[1]].type = "key"
      OBVIOUS
    <3>1. k \in Positions /\ k < msg + 1 /\ IsKey(k)
      BY <1>1, <1>2
    <3>2. /\ gop' # <<>> /\ k <= gop'[1]
          /\ msg + 1 - k <= GOPLimit => IsKey(gop'[1])
      BY <2>4, <3>1
    <3>3. Upcoming' - k = msg + 1 - k
      BY <1>1, <3>1
    <3>4. IsKey(gop'[1]) => stream'[gop'[1]].type = "key"
      BY DEF IsKey
    <3> QED
      BY <3>2, <3>3, <3>4
  <2>6. Upcoming' > 1 => videoSeq' # 0
    BY <2>1, <2>3 DEF HeldInv
  <2> QED
    BY <2>5, <2>6 DEF HeldInv, IsKey
<1> QED
  BY <1>3, <1>4, <1>5

\* A step that leaves the held GOP alone.
LEMMA HeldStays ==
  ASSUME TypeInv, TypeInv', Onward, HeldInv, UNCHANGED <<gop, videoSeq>>, Upcoming' = Upcoming
  PROVE  HeldInv'
<1>1. \A k \in Positions' : k < Upcoming => k \in Positions
  <2>1. Len(stream) \in Nat /\ Len(stream') \in Nat
    <3>1. stream \in Seq(Messages)
      BY DEF TypeInv, TypeOK
    <3>2. stream' \in Seq(Messages)
      BY DEF TypeInv, TypeOK
    <3> QED
      BY <3>1, <3>2
  <2> QED
    BY <2>1 DEF Onward, Positions
<1>2. \A k \in Positions : stream'[k] = stream[k]
  BY DEF Onward
<1>3. gop # <<>> => gop[1] \in Positions
  <2>1. gop \in Seq(Positions)
    BY DEF TypeInv, TypeOK
  <2> QED
    BY <2>1
<1> QED
  BY <1>1, <1>2, <1>3 DEF HeldInv, IsKey

\* Every step keeps what is to be replayed.
LEMMA HeldStep ==
  ASSUME OrderInv, OrderInv', Onward, [Next]_vars, KeepInv, Intact, Intact',
         Upcoming' = IF msg # 0 /\ msg' = 0 THEN Upcoming + 1 ELSE Upcoming
  PROVE  HeldInv'
<1>1. TypeInv /\ TypeInv' /\ GopInv /\ StreamInv /\ HeldInv /\ ~mediaGap /\ ~awaitKeyframe
  BY DEF OrderInv, KeepInv
<1>2. msg # 0 => Upcoming = msg
  BY DEF Upcoming
<1>3. CASE Elsewhere
  <2>1. UNCHANGED <<gop, videoSeq>> /\ Upcoming' = Upcoming
    BY <1>3 DEF Elsewhere
  <2> QED
    BY <1>1, <2>1, HeldStays
<1>4. CASE Resync \/ ObeyRotate \/ PrepareWhenOn
  <2>1. UNCHANGED <<gop, videoSeq, msg>>
    BY <1>1, <1>4 DEF Resync, ObeyRotate, PrepareWhenOn
  <2> QED
    BY <1>1, <2>1, HeldStays
<1>5. CASE SkipWhenOff
  <2>1. msg # 0 /\ msg' = 0 /\ Remember(msg) /\ UNCHANGED stream
    BY <1>1, <1>5 DEF SkipWhenOff, TypeInv, TypeOK
  <2> QED
    BY <1>1, <1>2, <2>1, RememberHolds
<1>6. CASE Apply
  <2>1. CASE Len(todo) = 1
    <3>1. msg # 0 /\ msg' = 0 /\ Remember(msg) /\ UNCHANGED stream
      BY <1>1, <1>6, <2>1 DEF Apply, TypeInv, TypeOK
    <3> QED
      BY <1>1, <1>2, <3>1, RememberHolds
  <2>2. CASE Len(todo) # 1
    <3>1. UNCHANGED <<gop, videoSeq, msg>>
      BY <1>6, <2>2 DEF Apply
    <3> QED
      BY <1>1, <3>1, HeldStays
  <2> QED
    BY <2>1, <2>2
<1> QED
  BY <1>1, <1>3, <1>4, <1>5, <1>6, Steps

\* What applying a message is.
LEMMA Applying ==
  ASSUME TypeInv, Apply
  PROVE  /\ pc = "apply" /\ UNCHANGED <<stream, flushed, wanted>>
         /\ todo # <<>> /\ todo[1] \in Positions
         /\ Len(todo) \in Nat /\ Len(todo) >= 1 /\ 1 \in 1..Len(todo) /\ Len(todo) \in 1..Len(todo)
         /\ msg \in Positions /\ msg # 0 /\ Upcoming = msg
         /\ IsHeader(todo[1]) => ApplyHeader(todo[1])
         /\ IsFrame(todo[1]) => ApplyFrame(todo[1])
         /\ todo' = Tail(todo) /\ Len(todo') = Len(todo) - 1
         /\ \A i \in 1..Len(todo) : i # 1 => i - 1 \in 1..Len(todo') /\ todo'[i - 1] = todo[i]
         /\ Len(todo) > 1 => todo'[1] = todo[2] /\ 2 \in 1..Len(todo)
         /\ IF Len(todo) = 1 THEN pc' = "wait" /\ msg' = 0 ELSE pc' = "apply" /\ msg' = msg
<1>1. pc = "apply" /\ todo # <<>> /\ UNCHANGED <<stream, flushed, wanted>> /\ todo' = Tail(todo)
  BY DEF Apply, TypeInv, TypeOK
<1>2. todo \in Seq(Positions) /\ Len(todo) \in Nat /\ msg \in Positions /\ msg # 0 /\ Upcoming = msg
  BY <1>1, ToApply
<1>3. Len(todo) >= 1
  BY <1>1, <1>2, Empty
<1>4. 1 \in 1..Len(todo) /\ Len(todo) \in 1..Len(todo)
  BY <1>2, <1>3
<1>5. Head(todo) = todo[1] /\ todo[1] \in Positions
  BY <1>1, <1>2, <1>4
<1>6. Len(todo') = Len(todo) - 1 /\ \A i \in 1..Len(todo) - 1 : todo'[i] = todo[i + 1]
  BY <1>1, <1>2
<1>7. ASSUME NEW i \in 1..Len(todo), i # 1
      PROVE  i - 1 \in 1..Len(todo') /\ todo'[i - 1] = todo[i]
  <2>1. i - 1 \in 1..Len(todo) - 1 /\ (i - 1) + 1 = i
    BY <1>2, <1>7
  <2> QED
    BY <1>6, <2>1
<1>8. ASSUME Len(todo) > 1 PROVE todo'[1] = todo[2] /\ 2 \in 1..Len(todo)
  <2>1. 1 \in 1..Len(todo) - 1 /\ 1 + 1 = 2 /\ 2 \in 1..Len(todo)
    BY <1>2, <1>8
  <2> QED
    BY <1>6, <2>1
<1>9. /\ IsHeader(todo[1]) => ApplyHeader(todo[1])
      /\ IsFrame(todo[1]) => ApplyFrame(todo[1])
      /\ IF Len(todo) = 1 THEN pc' = "wait" /\ msg' = 0 ELSE pc' = pc /\ msg' = msg
  BY <1>5 DEF Apply, IsFrame
<1> QED
  BY <1>1, <1>2, <1>3, <1>4, <1>5, <1>6, <1>7, <1>8, <1>9

\* A step that handles no message leaves the loop where it was, between two messages.
LEMMA ElsewhereStays ==
  ASSUME TypeInv, TypeInv', Elsewhere
  PROVE  /\ pc' = "apply" <=> pc = "apply"
         /\ pc = "apply" => msg' = msg
         /\ ~(msg # 0 /\ msg' = 0)
<1>1. pc' = "apply" <=> pc = "apply"
  <2>1. (pc = "apply" <=> todo # <<>>) /\ (pc' = "apply" <=> todo' # <<>>)
    BY DEF TypeInv, TypeOK
  <2> QED
    BY <2>1 DEF Elsewhere
<1>2. pc = "apply" => msg # 0
  BY DEF TypeInv, TypeOK
<1> QED
  BY <1>1, <1>2 DEF Elsewhere

\* Every step keeps the parameter sets known, or first in what is to be applied.
LEMMA ParamsStep ==
  ASSUME OrderInv, OrderInv', Onward, [Next]_vars, KeepInv, Intact, Intact'
  PROVE  ParamsInv'
<1>1. TypeInv /\ TypeInv' /\ GopInv /\ StreamInv /\ HeldInv /\ ParamsInv /\ ~mediaGap /\ ~awaitKeyframe
  BY DEF OrderInv, KeepInv
<1>2. todo # <<>> => todo[1] \in Positions /\ stream'[todo[1]] = stream[todo[1]]
  <2>1. \A i \in 1..Len(todo) : todo[i] \in Positions
    BY <1>1, ToApply
  <2>2. todo # <<>> => 1 \in 1..Len(todo)
    BY <1>1, ToApply
  <2> QED
    BY <2>1, <2>2 DEF Onward
<1>3. CASE Elsewhere
  <2>1. UNCHANGED <<todo, sps, flushed>> /\ (pc' = "apply" <=> pc = "apply")
    BY <1>1, <1>3, ElsewhereStays DEF Elsewhere
  <2>2. pc = "apply" => todo # <<>>
    BY <1>1 DEF TypeInv, TypeOK
  <2> QED
    BY <1>1, <1>2, <2>1, <2>2 DEF ParamsInv, IsHeader
<1>4. CASE Resync \/ ObeyRotate \/ SkipWhenOff
  <2>1. (flushed' => flushed) /\ sps' = sps /\ pc # "apply" /\ pc' # "apply"
    BY <1>1, <1>4 DEF Resync, ObeyRotate, SkipWhenOff
  <2> QED
    BY <1>1, <2>1 DEF ParamsInv
<1>5. CASE PrepareWhenOn
  <2>1. /\ UNCHANGED <<stream, sps, msg>> /\ msg \in Positions /\ msg # 0 /\ Upcoming = msg
        /\ pc' = "apply" /\ pc # "apply"
        /\ todo' = IF flushed THEN <<msg>> ELSE Append(Held, msg)
    BY <1>1, <1>5 DEF PrepareWhenOn, TypeInv, TypeOK, Upcoming
  <2>2. CASE flushed
    BY <1>1, <2>1, <2>2 DEF ParamsInv
  <2>3. CASE ~flushed /\ videoSeq # 0
    <3>1. gop \in Seq(Positions) /\ videoSeq \in Positions
      BY <1>1, <2>3 DEF TypeInv, TypeOK
    <3>2. Held = <<videoSeq>> \o gop
      BY <2>3 DEF Held
    <3>3. todo'[1] = videoSeq
      BY <2>1, <2>3, <3>1, <3>2
    <3>4. IsHeader(videoSeq)
      BY <1>1, <2>3 DEF GopInv
    <3> QED
      BY <2>1, <3>3, <3>4 DEF ParamsInv, IsHeader
  <2>4. CASE ~flushed /\ videoSeq = 0
    <3>1. ~(Upcoming > 1)
      BY <1>1, <2>4 DEF HeldInv
    <3>2. Upcoming = 1
      BY <2>1, <3>1 DEF Positions
    <3>3. gop = <<>>
      <4>1. gop \in Seq(Positions)
        BY <1>1 DEF TypeInv, TypeOK
      <4>2. \A i \in 1..Len(gop) : gop[i] \in Positions /\ gop[i] < 1
        BY <1>1, <3>2, <4>1 DEF GopInv
      <4>3. Len(gop) \in Nat /\ (Len(gop) >= 1 => 1 \in 1..Len(gop))
        BY <4>1
      <4>4. Len(gop) = 0
        BY <4>2, <4>3 DEF Positions
      <4> QED
        BY <4>1, <4>4, Empty
    <3>4. Held = <<>>
      BY <2>4, <3>3 DEF Held
    <3>5. todo' = <<msg>>
      BY <2>1, <2>4, <3>4
    <3>6. IsHeader(msg)
      BY <1>1, <2>1, <3>2 DEF StreamInv
    <3> QED
      BY <2>1, <3>5, <3>6 DEF ParamsInv, IsHeader
  <2> QED
    BY <2>2, <2>3, <2>4
<1>6. CASE Apply
  <2>1. sps' # None
    <3>1. CASE IsHeader(todo[1])
      <4>1. sps' = stream[todo[1]].cfg /\ todo[1] \in Positions
        BY <1>1, <1>6, <3>1, Applying DEF ApplyHeader
      <4>2. stream \in Seq(Messages)
        BY <1>1 DEF TypeInv, TypeOK
      <4>3. stream[todo[1]] \in Messages
        BY <4>1, <4>2 DEF Positions
      <4> QED
        BY <4>1, <4>3, SessionAssumption DEF Messages
    <3>2. CASE IsFrame(todo[1])
      <4>1. sps' = sps
        BY <1>1, <1>6, <3>2, Applying, Zenon DEF ApplyFrame
      <4>2. sps # None
        BY <1>1, <1>6, <3>2, Applying DEF ParamsInv, IsFrame
      <4> QED
        BY <4>1, <4>2
    <3> QED
      BY <3>1, <3>2 DEF IsFrame
  <2> QED
    BY <2>1 DEF ParamsInv
<1> QED
  BY <1>1, <1>3, <1>4, <1>5, <1>6, Steps

\* What is replayed when recording starts, or the message at hand, opens a segment if the
\* message is near its keyframe.
LEMMA OpensWithKey ==
  ASSUME OrderInv, KeepInv, Intact, pc = "switch", msg \in Positions, msg # 0, Upcoming = msg,
         IsFrame(msg), Near(msg),
         NEW t, t = IF flushed THEN <<msg>> ELSE Append(Held, msg)
  PROVE  seg # None \/ \E i \in 1..Len(t) : IsKey(t[i])
<1>1. TypeInv /\ GopInv /\ StreamInv /\ HeldInv /\ OpensInv
  BY DEF OrderInv, KeepInv
<1>2. msg \in Nat /\ msg >= 1
  BY DEF Positions
<1>3. PICK k \in 1..msg : IsKey(k) /\ msg - k <= GOPLimit
  BY DEF Near
<1>4. k \in Positions /\ k \in Nat
  BY <1>2 DEF Positions
<1>5. CASE flushed
  <2>1. Len(t) = 1 /\ t[1] = msg /\ 1 \in 1..Len(t)
    BY <1>5
  <2>2. ASSUME seg = None PROVE IsKey(msg)
    <3>1. msg > 1
      BY <1>1, <1>2 DEF StreamInv, IsFrame
    <3>2. \/ IsHeader(msg - 1)
          \/ \A j \in Positions : j < msg /\ IsKey(j) => msg - j > GOPLimit
      BY <1>1, <1>5, <2>2, <3>1 DEF OpensInv
    <3>3. CASE IsHeader(msg - 1)
      <4>1. stream[msg] \in Messages
        <5>1. stream \in Seq(Messages)
          BY <1>1 DEF TypeInv, TypeOK
        <5> QED
          BY <5>1 DEF Positions
      <4>2. IsKey(msg) \/ stream[msg].type = "inter"
        BY <4>1 DEF Messages, IsKey, IsFrame, IsHeader
      <4>3. stream[msg].type = "inter" => msg = 2
        BY <1>1, <3>1, <3>3 DEF StreamInv, IsFrame
      <4>4. ASSUME msg = 2 PROVE IsKey(msg)
        <5>1. k = 1 \/ k = 2
          BY <1>3, <4>4
        <5>2. IsHeader(1)
          BY <1>1, <1>2, <4>4 DEF StreamInv, Positions
        <5> QED
          BY <1>3, <4>4, <5>1, <5>2 DEF IsKey, IsHeader
      <4> QED
        BY <4>2, <4>3, <4>4
    <3>4. CASE \A j \in Positions : j < msg /\ IsKey(j) => msg - j > GOPLimit
      <4>1. ~(msg - k > GOPLimit)
        BY <1>2, <1>3, <1>4, SessionAssumption
      <4>2. ~(k < msg)
        BY <1>3, <1>4, <3>4, <4>1
      <4>3. k = msg
        BY <1>2, <1>4, <4>2
      <4> QED
        BY <1>3, <4>3
    <3> QED
      BY <3>2, <3>3, <3>4
  <2> QED
    BY <2>1, <2>2
<1>6. CASE ~flushed
  <2>1. t = Append(Held, msg)
    BY <1>6
  <2>2. PICK o \in {0, 1} :
            /\ Len(t) = o + Len(gop) + 1 /\ Len(gop) \in Nat
            /\ t[Len(t)] = msg
            /\ \A i \in 1..Len(gop) : t[i + o] = gop[i]
    BY <1>1, <2>1, Flushing
  <2>3. CASE k = msg
    <3>1. Len(t) \in 1..Len(t)
      BY <2>2
    <3> QED
      BY <1>3, <2>2, <2>3, <3>1
  <2>4. CASE k # msg
    <3>1. k < msg
      BY <1>2, <1>4, <2>4
    <3>2. gop # <<>> /\ IsKey(gop[1])
      BY <1>1, <1>3, <1>4, <3>1 DEF HeldInv
    <3>3. 1 \in 1..Len(gop)
      <4>1. gop \in Seq(Positions)
        BY <1>1 DEF TypeInv, TypeOK
      <4> QED
        BY <3>2, <4>1
    <3>4. 1 + o \in 1..Len(t)
      BY <2>2, <3>3
    <3> QED
      BY <2>2, <3>2, <3>3, <3>4
  <2> QED
    BY <2>3, <2>4
<1> QED
  BY <1>5, <1>6

\* Applying a frame records it and leaves the segment open, if it was or the frame is a
\* keyframe.
LEMMA ApplyOpens ==
  ASSUME OrderInv, OrderInv', Apply, KeepInv, Intact, Intact', IsFrame(todo[1]),
         seg # None \/ IsKey(todo[1])
  PROVE  seg' # None /\ todo[1] \in Recorded'
<1>1. TypeInv /\ TypeInv' /\ ParamsInv /\ faults' = 0
  BY DEF OrderInv, KeepInv, Intact
<1>2. UNCHANGED stream /\ todo[1] \in Positions /\ ApplyFrame(todo[1]) /\ pc = "apply"
  BY <1>1, Applying
<1>3. sps # None
  BY <1>2, <1>1 DEF ParamsInv, IsFrame
<1> QED
  BY <1>1, <1>2, <1>3, FrameRecords

\* Every step keeps a segment open, or its keyframe to come.
LEMMA OpensStep ==
  ASSUME OrderInv, OrderInv', Onward, [Next]_vars, KeepInv, Intact, Intact',
         Upcoming' = IF msg # 0 /\ msg' = 0 THEN Upcoming + 1 ELSE Upcoming
  PROVE  OpensInv'
<1>1. TypeInv /\ TypeInv' /\ TodoInv /\ OpensInv /\ ~mediaGap /\ ~awaitKeyframe
  BY DEF OrderInv, KeepInv
<1>2. \A p \in Positions : stream'[p] = stream[p]
  BY DEF Onward
<1>3. /\ msg \in Positions \cup {0} /\ Upcoming \in Nat /\ Upcoming <= Len(stream) + 1
      /\ Len(stream) \in Nat /\ Len(stream') \in Nat /\ GOPLimit \in Nat
      /\ \A i \in 1..Len(todo) : todo[i] \in Positions
  <2>1. msg \in Positions \cup {0} /\ stream \in Seq(Messages) /\ stream' \in Seq(Messages)
    BY <1>1 DEF TypeInv, TypeOK
  <2>2. Len(stream) \in Nat /\ Len(stream') \in Nat
    BY <2>1
  <2> QED
    BY <1>1, <2>1, <2>2, UpcomingType, ToApply, SessionAssumption
\* A step that leaves the segment and the next message alone.
<1>4. ASSUME UNCHANGED <<seg>>, flushed' => flushed, Upcoming' = Upcoming,
             pc' \notin {"apply", "done"} => pc \notin {"apply", "done"}
      PROVE  flushed' /\ seg' = None /\ pc' \notin {"apply", "done"} /\ Upcoming' > 1 =>
                \/ stream'[Upcoming' - 1].type = "header"
                \/ \A k \in Positions' : k < Upcoming' /\ stream'[k].type = "key" =>
                      Upcoming' - k > GOPLimit
  <2> SUFFICES ASSUME flushed', seg' = None, pc' \notin {"apply", "done"}, Upcoming' > 1
               PROVE  \/ stream'[Upcoming' - 1].type = "header"
                      \/ \A k \in Positions' : k < Upcoming' /\ stream'[k].type = "key" =>
                            Upcoming' - k > GOPLimit
    OBVIOUS
  <2>1. Upcoming - 1 \in Positions
    BY <1>3, <1>4 DEF Positions
  <2>2. \A k \in Positions' : k < Upcoming => k \in Positions
    BY <1>3 DEF Positions
  <2>3. \/ IsHeader(Upcoming - 1)
        \/ \A k \in Positions : k < Upcoming /\ IsKey(k) => Upcoming - k > GOPLimit
    BY <1>1, <1>4 DEF OpensInv
  <2>4. CASE IsHeader(Upcoming - 1)
    BY <1>2, <1>4, <2>1, <2>4 DEF IsHeader
  <2>5. CASE \A k \in Positions : k < Upcoming /\ IsKey(k) => Upcoming - k > GOPLimit
    BY <1>2, <1>4, <2>2, <2>5 DEF IsKey
  <2> QED
    BY <2>3, <2>4, <2>5
<1>5. CASE Elsewhere
  <2>1. UNCHANGED <<todo, flushed>> /\ Upcoming' = Upcoming /\ (pc = "apply" => msg' = msg)
        /\ (pc' = "apply" <=> pc = "apply") /\ (pc = "done" => pc' = "done")
        /\ (pc' # "done" => seg' = seg)
    BY <1>1, <1>5, ElsewhereStays DEF Elsewhere
  <2>2. CASE pc' = "done"
    BY <2>2 DEF OpensInv
  <2>3. CASE pc' # "done" /\ pc' # "apply"
    BY <1>4, <2>1, <2>3 DEF OpensInv, IsHeader, IsKey
  <2>4. CASE pc' = "apply"
    <3> SUFFICES ASSUME IsFrame(msg)', Near(msg)'
                 PROVE  seg' # None \/ \E i \in 1..Len(todo') : stream'[todo'[i]].type = "key"
      BY <2>4 DEF OpensInv, IsKey
    <3>1. msg' = msg /\ msg \in Positions
      BY <1>1, <1>3, <2>1, <2>4 DEF TypeInv, TypeOK
    <3>2. Near(msg)
      <4> DEFINE n == msg
      <4>1. Near(n)' <=> Near(n)
        BY <1>1, <3>1, NearStays
      <4> QED
        BY <3>1, <4>1
    <3>3. IsFrame(msg)
      BY <1>2, <3>1 DEF IsFrame, IsHeader
    <3>4. seg # None \/ \E i \in 1..Len(todo) : IsKey(todo[i])
      BY <1>1, <2>1, <2>4, <3>2, <3>3 DEF OpensInv
    <3> QED
      BY <1>2, <1>3, <2>1, <2>4, <3>4 DEF IsKey
  <2> QED
    BY <2>2, <2>3, <2>4
<1>6. CASE Resync
  <2>1. UNCHANGED <<seg, flushed, msg>> /\ pc = "resync" /\ pc' # "apply"
    BY <1>1, <1>6 DEF Resync
  <2>2. Upcoming' = Upcoming
    BY <2>1
  <2> QED
    BY <1>4, <2>1, <2>2 DEF OpensInv, IsHeader, IsKey
<1>7. CASE ObeyRotate \/ SkipWhenOff
  <2>1. pc' # "apply" /\ pc \notin {"apply", "done"}
    BY <1>7 DEF ObeyRotate, SkipWhenOff
  <2>2. ~flushed' \/ (UNCHANGED <<seg, flushed, msg>>)
    BY <1>7 DEF ObeyRotate, SkipWhenOff
  <2> QED
    BY <1>4, <2>1, <2>2 DEF OpensInv, IsHeader, IsKey
<1>8. CASE PrepareWhenOn
  <2>1. /\ UNCHANGED <<stream, seg, msg>> /\ pc' = "apply" /\ pc = "switch"
        /\ msg \in Positions /\ msg # 0 /\ Upcoming = msg
        /\ todo' = IF flushed THEN <<msg>> ELSE Append(Held, msg)
    BY <1>1, <1>8 DEF PrepareWhenOn, TypeInv, TypeOK, Upcoming
  <2> SUFFICES ASSUME IsFrame(msg)', Near(msg)'
               PROVE  seg' # None \/ \E i \in 1..Len(todo') : stream'[todo'[i]].type = "key"
    BY <2>1 DEF OpensInv, IsKey
  <2>2. IsFrame(msg) /\ Near(msg)
    BY <2>1 DEF IsFrame, IsHeader, Near, IsKey
  <2>3. seg # None \/ \E i \in 1..Len(todo') : IsKey(todo'[i])
    BY <2>1, <2>2, OpensWithKey
  <2> QED
    BY <2>1, <2>3 DEF IsKey
<1>9. CASE Apply
  <2>1. /\ UNCHANGED stream /\ pc = "apply" /\ msg \in Positions /\ msg # 0 /\ Upcoming = msg
        /\ msg \in Nat
    BY <1>1, <1>9, Applying DEF Positions
  <2>2. ASSUME IsFrame(msg), Near(msg)
        PROVE  seg # None \/ \E i \in 1..Len(todo) : IsKey(todo[i])
    BY <1>1, <2>1, <2>2 DEF OpensInv
  <2>3. CASE Len(todo) = 1
    <3>1. pc' = "wait" /\ msg' = 0 /\ todo[1] = msg /\ 1 \in 1..Len(todo) /\ Len(todo) = 1
      BY <1>1, <1>9, <2>3, Applying DEF TodoInv
    <3>2. Upcoming' = msg + 1 /\ Upcoming' - 1 = msg
      BY <2>1, <3>1
    <3> SUFFICES ASSUME seg' = None, ~IsHeader(msg)
                 PROVE  \A k \in Positions' : k < Upcoming' /\ IsKey(k)' => Upcoming' - k > GOPLimit
      BY <2>1, <3>1, <3>2 DEF OpensInv, IsHeader
    <3>3. ~Near(msg)
      <4> SUFFICES ASSUME Near(msg) PROVE FALSE
        OBVIOUS
      <4>1. seg # None \/ IsKey(todo[1])
        BY <2>2, <3>1 DEF IsFrame
      <4> QED
        BY <1>9, <3>1, <4>1, ApplyOpens DEF IsFrame
    <3>4. ASSUME NEW k \in Positions', k < Upcoming', IsKey(k)'
          PROVE  Upcoming' - k > GOPLimit
      <4>1. k \in 1..msg /\ k \in Nat /\ IsKey(k)
        BY <2>1, <3>2, <3>4 DEF Positions, IsKey
      <4>2. ~(msg - k <= GOPLimit)
        BY <3>3, <4>1 DEF Near
      <4> QED
        BY <1>3, <2>1, <3>2, <4>1, <4>2
    <3> QED
      BY <3>4
  <2>4. CASE Len(todo) # 1
    <3>1. pc' = "apply" /\ msg' = msg /\ Len(todo) > 1 /\ 1 \in 1..Len(todo) /\ Len(todo) \in 1..Len(todo)
          /\ Len(todo) \in Nat
          /\ \A i \in 1..Len(todo) : i # 1 => i - 1 \in 1..Len(todo') /\ todo'[i - 1] = todo[i]
      BY <1>1, <1>9, <2>4, Applying
    <3> SUFFICES ASSUME IsFrame(msg)', Near(msg)'
                 PROVE  seg' # None \/ \E i \in 1..Len(todo') : stream'[todo'[i]].type = "key"
      BY <3>1 DEF OpensInv, IsKey
    <3>2. IsFrame(msg) /\ Near(msg)
      BY <2>1, <3>1 DEF IsFrame, IsHeader, Near, IsKey
    <3>3. ASSUME NEW i \in 1..Len(todo), i # 1, IsKey(todo[i])
          PROVE  \E j \in 1..Len(todo') : stream'[todo'[j]].type = "key"
      BY <2>1, <3>1, <3>3 DEF IsKey
    <3>4. CASE IsHeader(todo[1])
      <4>1. seg = None
        BY <1>1, <3>1, <3>4 DEF TodoInv
      <4>2. PICK i \in 1..Len(todo) : IsKey(todo[i])
        BY <2>2, <3>2, <4>1
      <4>3. i # 1
        BY <3>4, <4>2 DEF IsKey, IsHeader
      <4> QED
        BY <3>3, <4>2, <4>3
    <3>5. CASE IsFrame(todo[1])
      <4>1. CASE seg # None \/ IsKey(todo[1])
        BY <1>9, <3>5, <4>1, ApplyOpens
      <4>2. CASE ~(seg # None \/ IsKey(todo[1]))
        BY <2>2, <3>2, <3>3, <4>2
      <4> QED
        BY <4>1, <4>2
    <3> QED
      BY <3>4, <3>5 DEF IsFrame
  <2> QED
    BY <2>3, <2>4
<1> QED
  BY <1>1, <1>5, <1>6, <1>7, <1>8, <1>9, Steps

\* Every step keeps what was to be recorded.
LEMMA WantedStep ==
  ASSUME OrderInv, OrderInv', Onward, [Next]_vars, KeepInv, Intact, Intact',
         Recorded \subseteq Recorded'
  PROVE  WantedInv'
<1>1. TypeInv /\ TypeInv' /\ TodoInv /\ OpensInv /\ WantedInv
  BY DEF OrderInv, KeepInv
<1>2. /\ \A p \in Positions : stream'[p] = stream[p]
      /\ wanted \subseteq Positions
      /\ \A n \in Positions : Near(n)' <=> Near(n)
  <2>1. \A n \in Positions : Near(n)' <=> Near(n)
    BY <1>1, NearStays
  <2> QED
    BY <1>1, <2>1 DEF Onward, TypeInv, TypeOK
<1>3. ASSUME NEW n \in wanted
      PROVE  /\ n \in Positions /\ IsFrame(n) /\ stream'[n].type # "header"
             /\ (Near(n) => n \in Recorded \/ (pc = "apply" /\ n = msg))
  BY <1>1, <1>2, <1>3 DEF WantedInv, IsFrame, IsHeader
<1>4. CASE Elsewhere
  <2>1. wanted' = wanted /\ (pc = "apply" => pc' = "apply" /\ msg' = msg)
    BY <1>1, <1>4, ElsewhereStays DEF Elsewhere
  <2> QED
    BY <1>2, <1>3, <2>1 DEF WantedInv, IsFrame, IsHeader
<1>5. CASE Resync \/ ObeyRotate \/ SkipWhenOff
  <2>1. wanted' = wanted /\ pc # "apply"
    BY <1>5 DEF Resync, ObeyRotate, SkipWhenOff
  <2> QED
    BY <1>2, <1>3, <2>1 DEF WantedInv, IsFrame, IsHeader
<1>6. CASE PrepareWhenOn
  <2>1. /\ UNCHANGED <<stream, msg>> /\ pc # "apply" /\ pc' = "apply"
        /\ wanted' = IF IsFrame(msg) THEN wanted \cup {msg} ELSE wanted
    BY <1>6 DEF PrepareWhenOn
  <2>2. ASSUME NEW n \in wanted'
        PROVE  n \in wanted \/ (n = msg /\ IsFrame(msg))
    BY <2>1, <2>2
  <2> QED
    BY <1>2, <1>3, <2>1, <2>2 DEF WantedInv, IsFrame, IsHeader
<1>7. CASE Apply
  <2>1. /\ UNCHANGED <<stream, wanted>> /\ pc = "apply"
        /\ IF Len(todo) = 1 THEN pc' = "wait" /\ msg' = 0 ELSE pc' = "apply" /\ msg' = msg
    BY <1>1, <1>7, Applying
  <2>2. CASE Len(todo) = 1
    <3>1. todo[1] = msg /\ 1 \in 1..Len(todo) /\ todo # <<>>
      BY <1>1, <1>7, <2>2, Applying DEF TodoInv
    <3>2. ASSUME IsFrame(msg), Near(msg) PROVE msg \in Recorded'
      <4>1. seg # None \/ IsKey(todo[1])
        BY <1>1, <2>1, <2>2, <3>2 DEF OpensInv
      <4> QED
        BY <1>7, <3>1, <3>2, <4>1, ApplyOpens
    <3>3. ASSUME NEW n \in wanted, Near(n) PROVE n \in Recorded'
      BY <1>3, <3>2, <3>3
    <3> QED
      BY <1>2, <1>3, <2>1, <3>3 DEF WantedInv, IsFrame, IsHeader
  <2>3. CASE Len(todo) # 1
    BY <1>2, <1>3, <2>1, <2>3 DEF WantedInv, IsFrame, IsHeader
  <2> QED
    BY <2>2, <2>3
<1> QED
  BY <1>1, <1>4, <1>5, <1>6, <1>7, Steps

\* Every step keeps the footage.
LEMMA KeepStep ==
  ASSUME OrderInv, OrderInv', Onward, [Next]_vars, KeepInv
  PROVE  KeepInv'
<1> SUFFICES ASSUME Intact' PROVE KeepInv'
  BY DEF KeepInv
<1>1. TypeInv /\ TypeInv'
  BY DEF OrderInv
<1>2. /\ Intact /\ Recorded \subseteq Recorded'
      /\ Upcoming' = IF msg # 0 /\ msg' = 0 THEN Upcoming + 1 ELSE Upcoming
  BY <1>1, StayIntact
<1>3. HeldInv' /\ ParamsInv' /\ OpensInv' /\ WantedInv'
  BY <1>2, HeldStep, ParamsStep, OpensStep, WantedStep
<1>4. ~overflowing' /\ ~mediaGap' /\ ~awaitKeyframe'
  <2>1. ~overflowing /\ ~mediaGap /\ ~awaitKeyframe
    BY <1>2 DEF KeepInv
  <2>2. CASE Elsewhere
    BY <2>1, <2>2 DEF Elsewhere, Intact
  <2>3. CASE Resync
    BY <2>1, <2>3 DEF Resync
  <2>4. CASE ObeyRotate \/ SkipWhenOff \/ PrepareWhenOn \/ Apply
    BY <2>1, <2>4 DEF ObeyRotate, SkipWhenOff, PrepareWhenOn, Apply
  <2> QED
    BY <1>1, <2>2, <2>3, <2>4, Steps
<1> QED
  BY <1>3, <1>4 DEF KeepInv

\* Every frame handled with the switch on, at most GOPLimit messages after its keyframe,
\* is recorded or about to be, as long as nothing is lost at the queue or fails.
\* (handle, flushHeld, remember)
THEOREM FootageIsKept == Spec => []KeepsFootage
<1>1. Init => KeepInv
  <2> SUFFICES ASSUME Init PROVE KeepInv
    OBVIOUS
  <2>1. Positions = {} /\ Upcoming = 1
    BY DEF Init, Positions, Upcoming
  <2> QED
    BY <2>1 DEF Init, KeepInv, HeldInv, ParamsInv, OpensInv, WantedInv
<1>2. OrderInv /\ KeepInv => KeepsFootage
  <2> SUFFICES ASSUME OrderInv, KeepInv, NotQueued = {}, faults = 0,
                      NEW n \in wanted, Near(n)
               PROVE  \/ n \in ToSet(todo)
                      \/ \E s \in Footage : n \in ToSet(s.frames)
    BY DEF KeepsFootage, Near
  <2>1. n \in Recorded \/ (pc = "apply" /\ n = msg)
    BY DEF KeepInv, WantedInv, Intact
  <2>2. CASE n \in Recorded
    BY <2>2 DEF Recorded
  <2>3. CASE pc = "apply" /\ n = msg
    <3>1. todo \in Seq(Positions) /\ todo # <<>> /\ todo[Len(todo)] = msg
      BY <2>3 DEF OrderInv, TypeInv, TypeOK, TodoInv
    <3>2. Len(todo) \in DOMAIN todo
      BY <3>1
    <3>3. n \in ToSet(todo)
      BY <2>3, <3>1, <3>2 DEF ToSet
    <3> QED
      BY <3>3
  <2> QED
    BY <2>1, <2>2, <2>3
<1>3. OrderInv /\ KeepInv /\ [Next]_vars => KeepInv'
  BY OrderStep, KeepStep
<1> QED
  BY <1>1, <1>2, <1>3, OrderInit, OrderStep, PTL DEF Spec

----------------------------------------------------------------------------
(* A session that is stopped.                                             *)

\* Only a session that was stopped ends, with its queue empty at that moment, and
\* what is queued later is further on in the stream than the stop.
StopInv ==
    /\ stream \in Seq(Messages)
    /\ queue \in Seq(Nat)
    /\ haltedAt \in 0..Len(stream)
    /\ draining => stop
    /\ pc = "done" => /\ draining /\ seg = None
                      /\ \A i \in 1..Len(queue) : queue[i] > haltedAt

LEMMA StopInit == Init => StopInv
  BY DEF Init, StopInv

\* A step of the loop of a session that has not ended.
LoopFrame ==
    /\ pc # "done" /\ pc' # "done"
    /\ queue' \in Seq(Nat)
    /\ draining' => stop
    /\ UNCHANGED <<stream, haltedAt, stop>>

LEMMA LoopFrameKeeps == StopInv /\ LoopFrame => StopInv'
  BY DEF StopInv, LoopFrame

LEMMA SubscriberKeeps ==
  ASSUME StopInv, Enqueue \/ IgnoreWhenStopped \/ Overflow
  PROVE  StopInv'
<1>1. PICK m \in Messages : Arrive(m)
  BY DEF Enqueue, IgnoreWhenStopped, Overflow
<1>2. stream' \in Seq(Messages) /\ Len(stream') = Len(stream) + 1 /\ Len(stream) \in Nat
  <2>1. stream \in Seq(Messages) /\ stream' = Append(stream, m)
    BY <1>1 DEF Arrive, StopInv
  <2>2. QED
    BY <2>1
<1>3. UNCHANGED <<haltedAt, draining, stop, pc, seg>>
  BY DEF Enqueue, IgnoreWhenStopped, Overflow
<1>4. haltedAt' \in 0..Len(stream') /\ haltedAt < Len(stream')
  BY <1>2, <1>3 DEF StopInv
<1>5. queue' = queue \/ queue' = Append(queue, Len(stream'))
  BY DEF Enqueue, IgnoreWhenStopped, Overflow
<1>6. queue' \in Seq(Nat)
  <2>1. Len(stream') \in Nat /\ queue \in Seq(Nat)
    BY <1>2 DEF StopInv
  <2>2. QED
    BY <2>1, <1>5
<1>7. ASSUME pc = "done" PROVE \A i \in 1..Len(queue') : queue'[i] > haltedAt
  <2>1. \A i \in 1..Len(queue) : queue[i] > haltedAt
    BY <1>7 DEF StopInv
  <2>2. queue \in Seq(Nat) /\ Len(queue) \in Nat
    BY DEF StopInv
  <2>3. CASE queue' = queue
    BY <2>1, <2>3
  <2>4. CASE queue' = Append(queue, Len(stream'))
    <3>1. Len(queue') = Len(queue) + 1 /\ queue'[Len(queue) + 1] = Len(stream')
      BY <2>2, <2>4
    <3>2. \A i \in 1..Len(queue) : queue'[i] = queue[i]
      BY <2>2, <2>4
    <3>3. Len(stream') > haltedAt
      BY <1>2, <1>4
    <3> QED
      BY <2>1, <2>2, <3>1, <3>2, <3>3
  <2> QED
    BY <1>5, <2>3, <2>4
<1>8. QED
  BY <1>2, <1>3, <1>4, <1>6, <1>7 DEF StopInv

LEMMA StopStep == StopInv /\ [Next]_vars => StopInv'
<1> SUFFICES ASSUME StopInv, [Next]_vars PROVE StopInv'
  OBVIOUS
<1>1. CASE Enqueue \/ IgnoreWhenStopped \/ Overflow
  BY <1>1, SubscriberKeeps
<1>2. CASE MarkGap \/ SetWriting \/ Rotate \/ UNCHANGED vars
  BY <1>2 DEF MarkGap, SetWriting, Rotate, StopInv
<1>3. CASE Halt
  <2>1. pc # "done"
    BY <1>3 DEF Halt, StopInv
  <2>2. QED
    BY <1>3, <2>1 DEF Halt, StopInv
<1>4. CASE Take
  <2>1. queue' \in Seq(Nat)
    BY <1>4 DEF Take, StopInv
  <2>2. QED
    BY <1>4, <2>1, LoopFrameKeeps DEF Take, StopInv, LoopFrame
<1>5. CASE SeeStop
  BY <1>5, LoopFrameKeeps DEF SeeStop, StopInv, LoopFrame
<1>6. CASE Finish
  <2>1. seg' = None
    BY <1>6 DEF Finish, CloseSegment
  <2>2. QED
    BY <1>6, <2>1 DEF Finish, StopInv
<1>7. CASE Resync \/ ObeyRotate \/ SkipWhenOff \/ PrepareWhenOn
  BY <1>7, LoopFrameKeeps DEF Resync, ObeyRotate, SkipWhenOff, PrepareWhenOn, StopInv, LoopFrame
<1>8. CASE Apply
  BY <1>8, LoopFrameKeeps DEF Apply, StopInv, LoopFrame
<1>9. QED
  BY <1>1, <1>2, <1>3, <1>4, <1>5, <1>6, <1>7, <1>8 DEF Next, Loop

\* What had been queued when a session was stopped is handled before its loop ends,
\* and its last segment is closed.
THEOREM StopHandlesTheQueue == Spec => []StopDrains
<1>1. StopInv => StopDrains
  BY DEF StopInv, StopDrains
<1>2. QED
  BY <1>1, StopInit, StopStep, PTL DEF Spec

=============================================================================
