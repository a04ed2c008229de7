------------------------------ MODULE AudioRing ------------------------------
(***************************************************************************)
(* The PCM ring of AVDecoderFFMPEG: the demux thread pushes decoded audio, *)
(* the host's audio callback reads it without a lock, and another thread   *)
(* asks for the media time of the read head.  Positions only ever grow,    *)
(* modulo 2^64 in the code and Wrap here; m_audio_read_position is stored  *)
(* by the callback, and also by the demux thread when it executes a seek.  *)
(*                                                                         *)
(* Every load and store of an atomic that another thread can observe in a  *)
(* different order is an action of its own.  A sample is known by the seek *)
(* it follows and its media time, counted in samples.                      *)
(***************************************************************************)
EXTENDS Integers, Sequences

CONSTANTS
  Size,        \* m_audio_samples.size(): four seconds
  Reserve,     \* room that a packet is decoded into: one second
  Packet,      \* samples in a packet
  Block,       \* samples that the callback asks for
  MaxTime,     \* the track's samples are 0 .. MaxTime - 1
  MaxSeek,     \* MaxSeek[o]: bound on seeks, by a host that lets them overlap (o) or not
  MaxPosition, \* bound on what is ever pushed
  Wrap         \* positions are counted modulo Wrap (2^64)

ASSUME RingAssumption ==
  /\ Size \in Nat \ {0} /\ Reserve \in 1 .. Size /\ Packet \in 1 .. Reserve
  /\ Block \in Nat \ {0} /\ MaxTime \in Nat /\ MaxSeek \in [BOOLEAN -> Nat]
  /\ MaxPosition \in Nat /\ Wrap \in Nat /\ Wrap > 2 * (MaxPosition + Size)

Position == 0 .. Wrap - 1
Seek == Nat
Time == 0 .. MaxTime
Sample == [seek : Seek, time : Time]
NoSample == [seek |-> 0, time |-> MaxTime]    \* what a slot holds before use
NoDiscard == MaxTime + 1                      \* m_audio_discard_before = -1

\* uint64_t subtraction
Distance(to, from) == (to - from) % Wrap

VARIABLES
  overlap,                 \* constant: the host lets its callback run while it seeks
  slots,                   \* m_audio_samples
  write, read,             \* m_audio_write_position, m_audio_read_position
  originPosition, originTime, \* m_audio_timeline_origin_position, _time
  discard,                 \* m_audio_discard_before
  underran,                \* m_audio_underrun_count > 0
  seek,                    \* seeks executed so far
  ppc, pos, held,          \* demux thread: next packet, samples to push
  seekTo,                  \* the time of the seek that is being executed
  failed,                  \* the ring had no room for a decoded packet
  cpc, cRead, cCount,      \* audio callback: locals of read_audio()
  cSeek, heard,            \* history: seeks executed when the callback began, and
                           \* the last samples returned, each with that count
  targets,                 \* history: the times sought
  opc, oRead, oOrigin, oTime, \* observer: locals of audio_buffer_info()
  oNext                    \* history: the media time of the next sample to be
                           \* read when the observer loaded the read position

ringVars == <<slots, write, read>>
originVars == <<originPosition, originTime>>
producerVars == <<discard, seek, ppc, pos, held, seekTo, targets, failed>>
consumerVars == <<cpc, cRead, cCount, cSeek, heard>>
observerVars == <<opc, oRead, oOrigin, oTime, oNext>>
vars == <<overlap, ringVars, originVars, underran, producerVars, consumerVars, observerVars>>

TypeOK ==
  /\ overlap \in BOOLEAN
  /\ slots \in [0 .. Size - 1 -> Sample]
  /\ {write, read, originPosition, cRead, oRead, oOrigin} \subseteq Position
  /\ {originTime, pos, seekTo, oNext} \subseteq Time
  /\ discard \in Time \cup {NoDiscard} /\ {underran, failed} \subseteq BOOLEAN
  /\ {seek, cSeek} \subseteq Seek /\ targets \in Seq(Time)
  /\ ppc \in {"idle", "push", "publish", "origin", "time"}
  /\ held \in Seq(Sample) /\ Len(held) <= Packet
  /\ cpc \in {"idle", "count", "copy", "store"} /\ cCount \in 0 .. Block
  /\ heard \in Seq([seek : Seek, time : Time, begun : Seek])
  /\ opc \in {"idle", "origin", "time", "done"} /\ oTime \in Nat

Init ==
  /\ overlap \in BOOLEAN
  /\ slots = [i \in 0 .. Size - 1 |-> NoSample]
  /\ write = 0 /\ read = 0 /\ originPosition = 0 /\ originTime = 0
  /\ discard = NoDiscard /\ underran = FALSE /\ seek = 0
  /\ ppc = "idle" /\ pos = 0 /\ held = <<>> /\ seekTo = 0 /\ targets = <<>>
  /\ failed = FALSE
  /\ cpc = "idle" /\ cRead = 0 /\ cCount = 0 /\ cSeek = 0 /\ heard = <<>>
  /\ opc = "idle" /\ oRead = 0 /\ oOrigin = 0 /\ oTime = 0 /\ oNext = 0

-----------------------------------------------------------------------------
(* The demux thread.                                                       *)

Available == Distance(Size, Distance(write, read))

\* audio_can_accept_packet().
AcceptsPacket == Available >= Reserve

\* Samples from .. to - 1 of the track, after the last seek.
Run(from, to) == [i \in 1 .. to - from |-> [seek |-> seek, time |-> from + i - 1]]

\* What is kept of a packet that starts at t: nothing that ends before the
\* target of the last seek, and the part from the target on of the one around it.
KeepsPreroll(t) == t                              \* mutant: nothing discarded
FirstKept(t) ==
  IF discard = NoDiscard THEN t
  ELSE IF t + Packet <= discard THEN t + Packet
  ELSE IF t < discard THEN discard
  ELSE t

\* decode_audio_frame(), up to push_audio().
Decode ==
  /\ ppc = "idle" /\ ~failed /\ AcceptsPacket
  /\ pos + Packet <= MaxTime /\ write + Packet <= MaxPosition
  /\ held' = Run(FirstKept(pos), pos + Packet)
  /\ discard' = IF held' = <<>> THEN discard ELSE NoDiscard
  /\ pos' = pos + Packet
  /\ ppc' = IF held' = <<>> THEN "idle" ELSE "push"
  /\ UNCHANGED <<overlap, ringVars, originVars, underran, seek, seekTo, targets, failed, consumerVars,
                 observerVars>>

\* push_audio(): the room is tested, the samples are copied...
Push ==
  /\ ppc = "push"
  /\ IF Len(held) > Available
     THEN failed' = TRUE /\ ppc' = "idle" /\ UNCHANGED slots
     ELSE /\ slots' = [i \in 0 .. Size - 1 |->
                         LET n == ((i - write) % Size) + 1
                         IN  IF n <= Len(held) THEN held[n] ELSE slots[i]]
          /\ ppc' = "publish" /\ UNCHANGED failed
  /\ UNCHANGED <<overlap, write, read, originVars, underran, discard, seek, pos, held, seekTo, targets,
                 consumerVars, observerVars>>

\* ...and then published.
Publish ==
  /\ ppc = "publish"
  /\ write' = (write + Len(held)) % Wrap
  /\ held' = <<>>
  /\ ppc' = "idle"
  /\ UNCHANGED <<overlap, slots, read, originVars, underran, discard, seek, pos, seekTo, targets, failed,
                 consumerVars, observerVars>>

\* Nobody reads or observes while the host seeks, unless it lets them overlap.
Quiet == overlap \/ (cpc = "idle" /\ opc \in {"idle", "done"})

\* perform_seek(t): the container is placed at or before t and the buffered
\* samples are discarded by moving the read position up to the write position...
FlushedToZero == 0                                \* mutant: both positions start over
Flushed == write

SeekFlush(t) ==
  /\ ppc = "idle" /\ Quiet /\ seek < MaxSeek[overlap]
  /\ seekTo' = t
  /\ \E landing \in 0 .. t : pos' = landing
  /\ write' = Flushed /\ read' = Flushed
  /\ ppc' = "origin"
  /\ UNCHANGED <<overlap, slots, originVars, underran, discard, seek, held, targets, failed,
                 consumerVars, observerVars>>

\* ...the read position becomes the timeline's origin...
OriginKept == originPosition                      \* mutant: origin not moved
OriginMoved == read

SeekOrigin ==
  /\ ppc = "origin"
  /\ originPosition' = OriginMoved
  /\ ppc' = "time"
  /\ UNCHANGED <<overlap, ringVars, originTime, underran, discard, seek, pos, held, seekTo,
                 targets, failed, consumerVars, observerVars>>

\* ...which stands for time t; samples before t will be dropped.
SeekTime ==
  /\ ppc = "time"
  /\ originTime' = seekTo /\ discard' = seekTo
  /\ underran' = FALSE
  /\ seek' = seek + 1 /\ targets' = Append(targets, seekTo)
  /\ ppc' = "idle"
  /\ UNCHANGED <<overlap, ringVars, originPosition, pos, held, seekTo, failed, consumerVars,
                 observerVars>>

-----------------------------------------------------------------------------
(* The audio callback: read_audio().                                       *)

\* Whether a callback or an observer may run now.
Undisturbed == overlap \/ ppc \notin {"origin", "time"}

ReadBegin ==
  /\ cpc = "idle" /\ Undisturbed
  /\ cRead' = read
  /\ cSeek' = seek
  /\ cpc' = "count"
  /\ UNCHANGED <<overlap, ringVars, originVars, underran, producerVars, cCount, heard, observerVars>>

\* What the ring has of the block.
Takes == IF Distance(write, cRead) < Block THEN Distance(write, cRead) ELSE Block

ReadCount ==
  /\ cpc = "count"
  /\ cCount' = Takes
  /\ cpc' = "copy"
  /\ UNCHANGED <<overlap, ringVars, originVars, underran, producerVars, cRead, cSeek, heard,
                 observerVars>>

\* The history keeps the last block and the sample before it: every two samples
\* that are heard one after the other are in it together at some time.
Latest(h) == IF Len(h) > Block + 1 THEN SubSeq(h, Len(h) - Block, Len(h)) ELSE h

\* The samples are copied, and silence after them.
ReadCopy ==
  /\ cpc = "copy"
  /\ heard' = Latest(heard \o [i \in 1 .. cCount |->
                 LET s == slots[(cRead + i - 1) % Size]
                 IN  [seek |-> s.seek, time |-> s.time, begun |-> cSeek]])
  /\ underran' = (underran \/ cCount < Block)
  /\ cpc' = "store"
  /\ UNCHANGED <<overlap, ringVars, originVars, producerVars, cRead, cCount, cSeek, observerVars>>

ReadUpTo == (cRead + cCount) % Wrap

ReadStore ==
  /\ cpc = "store"
  /\ read' = ReadUpTo
  /\ cpc' = "idle"
  /\ UNCHANGED <<overlap, slots, write, originVars, underran, producerVars, cRead, cCount, cSeek,
                 heard, observerVars>>

-----------------------------------------------------------------------------
(* audio_buffer_info(): the position, its origin and the origin's time are *)
(* three loads.                                                            *)

\* The media time of the sample at the read position, pushed or not.
NextTime ==
  IF read # write THEN slots[read % Size].time
  ELSE IF held # <<>> THEN Head(held).time
  ELSE IF discard # NoDiscard THEN discard
  ELSE pos

ObserveRead ==
  /\ opc \in {"idle", "done"} /\ Undisturbed
  /\ oRead' = read /\ oNext' = NextTime
  /\ opc' = "origin"
  /\ UNCHANGED <<overlap, ringVars, originVars, underran, producerVars, consumerVars, oOrigin, oTime>>

ObserveOrigin ==
  /\ opc = "origin"
  /\ oOrigin' = originPosition
  /\ opc' = "time"
  /\ UNCHANGED <<overlap, ringVars, originVars, underran, producerVars, consumerVars, oRead, oTime,
                 oNext>>

ObserveTime ==
  /\ opc = "time"
  /\ oTime' = originTime + Distance(oRead, oOrigin)
  /\ opc' = "done"
  /\ UNCHANGED <<overlap, ringVars, originVars, underran, producerVars, consumerVars, oRead, oOrigin,
                 oNext>>

-----------------------------------------------------------------------------
Producer == Decode \/ Push \/ Publish \/ (\E t \in Time : SeekFlush(t)) \/ SeekOrigin \/ SeekTime
Callback == ReadBegin \/ ReadCount \/ ReadCopy \/ ReadStore
Observer == ObserveRead \/ ObserveOrigin \/ ObserveTime

Next == Producer \/ Callback \/ Observer

Spec == Init /\ [][Next]_vars

-----------------------------------------------------------------------------
(* Properties.                                                             *)

\* What is heard is the track: sample follows sample with none lost, repeated or
\* overwritten before it was read, and after a seek the first is the one at the
\* time sought, none of what was buffered before it (flush_audio(), m_audio_discard_before).
\* It takes a host that does not seek under a callback, as Unity's does not.
SoundInOrder ==
  ~overlap => \A i \in 1 .. Len(heard) - 1 :
    LET a == heard[i]
        b == heard[i + 1]
    IN  \/ b.seek = a.seek /\ b.time = a.time + 1
        \/ b.seek > a.seek /\ b.time = targets[b.seek]

\* audio_buffer_info() reports the media time of the sample that the read position
\* stood for, however the callback and the demux thread move on in between (but for a seek).
ReadTimeIsExact == ~overlap /\ opc = "done" => oTime = oNext

\* A callback that begins after a seek returns nothing that was buffered before it (it does,
\* if an earlier one was in flight during the seek).
NoStalePcm == \A i \in 1 .. Len(heard) : heard[i].seek >= heard[i].begun

\* The free room Size - (write - read) never wraps below zero: while a callback is
\* in flight the ring is not filled past the slots it has (it is, if the host lets the
\* callback overlap a seek).
RoomNeverWraps == Distance(write, read) <= Size

\* Whatever a seek does under a callback in flight, the read position that the callback
\* stores in the end is not past the write position, so that write - read does not wrap
\* (flush_audio() and the overview say that this is why positions only ever grow).
NoUnderflow == Distance(write, read) <= MaxPosition
=============================================================================
