-------------------------------- MODULE Player --------------------------------
(***************************************************************************)
(* OpenVolumetricPlayer: the façade that pairs a decoded video frame with  *)
(* the mesh of the same presentation time.  The render thread runs         *)
(* presentation(), the game thread runs seek(); the media demux thread and *)
(* the Draco worker feed them.  The façade has no lock of its own: a host  *)
(* that calls both from one thread (Unreal's component tick) serialises    *)
(* them, Unity's render events and game thread do not.                     *)
(*                                                                         *)
(* The media decoder is reduced to its two output queues, the geometry     *)
(* decoder to its queues and its worker's pop, generation test and append  *)
(* (GeometryDecoder has all its steps).  Frame numbers stand for           *)
(* timestamps spaced wider than the tolerance; number 0 is the time -1     *)
(* that get_video_data() reports when the queue was emptied under it.      *)
(***************************************************************************)
EXTENDS Naturals, Sequences

CONSTANTS
  LastFrame,          \* frames 1 .. LastFrame of video and of geometry
  NoMesh,             \* frames whose geometry sample the Draco worker drops
  VideoCapacity,      \* m_video_frames (32)
  GeometryCapacity,   \* m_geometry_frames (128)
  StreamedCapacity,   \* m_streamed_meshes (256)
  DecodedCapacity,    \* m_decoded_meshes (64)
  Lookahead,          \* how far ahead geometry is submitted (4 seconds)
  MaxGeneration,      \* bound on seeks
  HostSerialises      \* the host calls seek() and presentation() one at a time

Frame == 1 .. LastFrame

ASSUME StreamAssumption == LastFrame \in Nat \ {0} /\ NoMesh \subseteq Frame
ASSUME CapacityAssumption ==
  /\ VideoCapacity \in Nat \ {0} /\ GeometryCapacity \in Nat \ {0}
  /\ StreamedCapacity \in Nat \ {0} /\ DecodedCapacity \in Nat \ {0}
  /\ Lookahead \in Nat /\ MaxGeneration \in Nat /\ HostSerialises \in BOOLEAN

Generation == 0 .. MaxGeneration
NoGeneration == MaxGeneration + 1
Unset == LastFrame + 1    \* has_pending_video = false
\* A queued item and the generation it was produced in.  m_video_frames does
\* not record the generation: there it is history.
Sample == [gen : Generation, frame : Frame]
NoSample == [gen |-> 0, frame |-> 0]
Time == 0 .. LastFrame
Shown == [video : Sample \cup {NoSample}, mesh : Sample \cup {NoSample}, time : Time]

VARIABLES
  video, geometry,       \* m_video_frames, m_geometry_frames
  mediaEos,              \* the media queues are marked EndOfStream
  mediaGen,              \* m_playback_generation
  nextVideo, nextGeometry, \* what the demux thread decodes next
  streamed, decoded,     \* m_streamed_meshes, m_decoded_meshes
  wpc, held,             \* the Draco worker and the sample it holds
  geomGen, geomEos,      \* the geometry decoder's generation and its end mark
  playerGen, pending,    \* Impl::generation; pending_video_time or Unset
  clock,                 \* the engine's presentation time
  rpc, rGen, rTime, rTarget, rHeld, rTimeOfFrame, rMesh, rVideo,
                         \* presentation(): program counter and locals
  spc, seekTo,           \* seek(): program counter and argument
  shown                  \* history: the last presentation handed to the host

mediaVars == <<video, geometry, mediaEos, mediaGen, nextVideo, nextGeometry>>
workerVars == <<wpc, held>>
geometryVars == <<streamed, decoded, workerVars, geomGen, geomEos>>
renderVars == <<rpc, rGen, rTime, rTarget, rHeld, rTimeOfFrame, rMesh, rVideo>>
renderLocals == <<rGen, rTime, rTarget, rHeld, rTimeOfFrame, rMesh, rVideo>>
seekVars == <<spc, seekTo>>
vars == <<mediaVars, geometryVars, playerGen, pending, clock, renderVars, seekVars, shown>>

TypeOK ==
  /\ video \in Seq(Sample) /\ Len(video) <= VideoCapacity
  /\ geometry \in Seq(Sample) /\ Len(geometry) <= GeometryCapacity
  /\ streamed \in Seq(Sample) /\ Len(streamed) <= StreamedCapacity
  /\ decoded \in Seq(Sample) /\ Len(decoded) <= DecodedCapacity
  /\ wpc \in {"pop", "check", "push"} /\ held \in Sample \cup {NoSample}
  /\ mediaEos \in BOOLEAN
  /\ {mediaGen, geomGen, playerGen, rGen} \subseteq Generation
  /\ geomEos \in Generation \cup {NoGeneration}
  /\ {nextVideo, nextGeometry} \subseteq 1 .. LastFrame + 1
  /\ pending \in Time \cup {Unset} /\ {rTarget, rTimeOfFrame} \subseteq Time
  /\ {clock, rTime, seekTo} \subseteq Frame
  /\ {rHeld, rMesh, rVideo} \subseteq Sample \cup {NoSample}
  /\ rpc \in {"idle", "reset", "reset_clear", "submit", "push", "mark", "select",
              "frame_time", "match", "drop_video", "copy", "free_video", "free_mesh"}
  /\ spc \in {"idle", "inherited", "flush", "bump", "adopt", "reset", "reset_clear", "unset"}
  /\ shown \in Shown

\* A file was opened, perhaps after another that was sought and played to its end:
\* the decoders keep their generation and geometry its end mark, and open() takes
\* the media decoder's generation for the player's, so nothing resets geometry.
\* A seek that the worker of the file before left behind when it ended by itself
\* is still requested: init() does not withdraw it.
Init ==
  /\ video = <<>> /\ geometry = <<>> /\ mediaEos = FALSE /\ mediaGen \in Generation
  /\ nextVideo = 1 /\ nextGeometry = 1
  /\ streamed = <<>> /\ decoded = <<>> /\ wpc = "pop" /\ held = NoSample
  /\ geomGen = mediaGen /\ geomEos \in {NoGeneration, geomGen}
  /\ playerGen = mediaGen /\ pending = Unset /\ clock = 1
  /\ rpc = "idle" /\ rGen = 0 /\ rTime = 1 /\ rTarget = 1 /\ rHeld = NoSample
  /\ rTimeOfFrame = 0 /\ rMesh = NoSample /\ rVideo = NoSample
  /\ spc \in {"idle", "inherited"} /\ (spc = "inherited" => mediaGen < MaxGeneration)
  /\ seekTo = 1
  /\ shown = [video |-> NoSample, mesh |-> NoSample, time |-> 0]

-----------------------------------------------------------------------------
(* The demux thread and the Draco worker.                                  *)

\* The demux thread executes seeks between packets, so it produces nothing
\* while a seek is being performed, nor before one that it inherited.
Producing == spc \notin {"inherited", "flush", "bump"}

\* The host is in seek().
HostSeeks == spc \notin {"idle", "inherited"}

ProduceVideo ==
  /\ Producing /\ nextVideo <= LastFrame /\ Len(video) < VideoCapacity
  /\ video' = Append(video, [gen |-> mediaGen, frame |-> nextVideo])
  /\ nextVideo' = nextVideo + 1
  /\ UNCHANGED <<geometry, mediaEos, mediaGen, nextGeometry, geometryVars, playerGen,
                 pending, clock, renderVars, seekVars, shown>>

ProduceGeometry ==
  /\ Producing /\ nextGeometry <= LastFrame /\ Len(geometry) < GeometryCapacity
  /\ geometry' = Append(geometry, [gen |-> mediaGen, frame |-> nextGeometry])
  /\ nextGeometry' = nextGeometry + 1
  /\ UNCHANGED <<video, mediaEos, mediaGen, nextVideo, geometryVars, playerGen,
                 pending, clock, renderVars, seekVars, shown>>

ProduceEnd ==
  /\ Producing /\ nextVideo = LastFrame + 1 /\ nextGeometry = LastFrame + 1
  /\ ~mediaEos
  /\ mediaEos' = TRUE
  /\ UNCHANGED <<video, geometry, mediaGen, nextVideo, nextGeometry, geometryVars,
                 playerGen, pending, clock, renderVars, seekVars, shown>>

WorkerPop ==
  /\ wpc = "pop" /\ streamed # <<>> /\ Len(decoded) < DecodedCapacity
  /\ held' = Head(streamed) /\ streamed' = Tail(streamed)
  /\ wpc' = "check"
  /\ UNCHANGED <<decoded, geomGen, geomEos, mediaVars, playerGen, pending, clock,
                 renderVars, seekVars, shown>>

\* The worker keeps a mesh only in the generation it was demuxed in.
Current(s) == s.gen = geomGen

\* m_decode_active becomes true; a frame of NoMesh is dropped while decoding,
\* a frame of an earlier generation after it.
WorkerCheck ==
  /\ wpc = "check"
  /\ wpc' = IF Current(held) /\ held.frame \notin NoMesh THEN "push" ELSE "pop"
  /\ UNCHANGED <<streamed, decoded, held, geomGen, geomEos, mediaVars, playerGen,
                 pending, clock, renderVars, seekVars, shown>>

WorkerPush ==
  /\ wpc = "push" /\ decoded' = Append(decoded, held)
  /\ wpc' = "pop"
  /\ UNCHANGED <<streamed, held, geomGen, geomEos, mediaVars, playerGen, pending,
                 clock, renderVars, seekVars, shown>>

DecodeMesh == WorkerPop \/ WorkerCheck \/ WorkerPush

DecodeActive == wpc = "push"

-----------------------------------------------------------------------------
(* The render thread: presentation(requested_time).                        *)

PresentBegin ==
  /\ rpc = "idle" /\ (HostSerialises => ~HostSeeks)
  /\ rTime' = clock
  /\ rGen' = mediaGen
  /\ rpc' = IF mediaGen # playerGen THEN "reset" ELSE "submit"
  /\ playerGen' = mediaGen
  /\ UNCHANGED <<mediaVars, geometryVars, pending, clock, rTarget, rHeld,
                 rTimeOfFrame, rMesh, rVideo, seekVars, shown>>

\* geometry.reset(generation): the generation first, then both queues.
ResetStore(g) == geomGen' = g /\ geomEos' = NoGeneration
ResetClear == streamed' = <<>> /\ decoded' = <<>>

PresentReset ==
  \/ /\ rpc = "reset" /\ ResetStore(rGen) /\ rpc' = "reset_clear"
     /\ UNCHANGED <<streamed, decoded, workerVars, mediaVars, playerGen, pending,
                    clock, renderLocals, seekVars, shown>>
  \/ /\ rpc = "reset_clear" /\ ResetClear /\ rpc' = "submit"
     /\ UNCHANGED <<workerVars, geomGen, geomEos, mediaVars, playerGen, pending,
                    clock, renderLocals, seekVars, shown>>

CanSubmit ==
  /\ Len(streamed) < StreamedCapacity
  /\ geometry # <<>> /\ Head(geometry).frame <= rTime + Lookahead

\* The loop of submit_geometry(): take a sample from the media decoder...
PresentTakeGeometry ==
  /\ rpc = "submit" /\ CanSubmit
  /\ rHeld' = Head(geometry) /\ geometry' = Tail(geometry)
  /\ rpc' = "push"
  /\ UNCHANGED <<video, mediaEos, mediaGen, nextVideo, nextGeometry, geometryVars,
                 playerGen, pending, clock, rGen, rTime, rTarget,
                 rTimeOfFrame, rMesh, rVideo, seekVars, shown>>

\* ...and submit it under the generation it was demuxed in.
PresentPushGeometry ==
  /\ rpc = "push"
  /\ streamed' = Append(streamed, rHeld)
  /\ rpc' = "submit"
  /\ UNCHANGED <<decoded, workerVars, geomGen, geomEos, mediaVars, playerGen,
                 pending, clock, renderLocals, seekVars, shown>>

\* Its end: the media decoder has no further geometry, now or ever.
NeverEnded == FALSE                               \* mutant: end not propagated
GeometryEnded == mediaEos /\ geometry = <<>>

\* The time to look for: a frame chosen by an earlier call stays the one to
\* match.
VideoTarget == IF pending # Unset THEN pending ELSE rTime

PresentEndSubmit ==
  /\ rpc = "submit" /\ ~CanSubmit
  /\ rpc' = IF GeometryEnded THEN "mark" ELSE "select"
  /\ rTarget' = VideoTarget
  /\ UNCHANGED <<geometryVars, mediaVars, playerGen, pending, clock, rGen, rTime,
                 rHeld, rTimeOfFrame, rMesh, rVideo, seekVars, shown>>

PresentMarkEnd ==
  /\ rpc = "mark"
  /\ geomEos' = rGen
  /\ rTarget' = VideoTarget
  /\ rpc' = "select"
  /\ UNCHANGED <<streamed, decoded, workerVars, geomGen, mediaVars, playerGen,
                 pending, clock, rGen, rTime, rHeld, rTimeOfFrame, rMesh,
                 rVideo, seekVars, shown>>

\* The number of items at the front of q that are older than time t.
Older(q, t) == CHOOSE n \in 0 .. Len(q) :
                 /\ \A i \in 1 .. n : q[i].frame < t
                 /\ n < Len(q) => q[n + 1].frame >= t
From(q, t) == SubSeq(q, Older(q, t) + 1, Len(q))

\* get_video_data(), first critical section: older frames are freed, and a
\* pointer to the front frame leaves the lock.
PresentSelect ==
  /\ rpc = "select"
  /\ video' = From(video, rTarget)
  /\ rpc' = IF video' = <<>> THEN "idle" ELSE "frame_time"
  /\ UNCHANGED <<geometry, mediaEos, mediaGen, nextVideo, nextGeometry, geometryVars,
                 playerGen, pending, clock, rGen, rTime, rTarget, rHeld,
                 rTimeOfFrame, rMesh, rVideo, seekVars, shown>>

\* Second critical section: the time of the front frame, -1 when there is none
\* any more.  The player then remembers the time it chose.
FrontTime == IF video = <<>> THEN 0 ELSE Head(video).frame

PresentFrameTime ==
  /\ rpc = "frame_time"
  /\ IF FrontTime > rTarget
     THEN rpc' = "idle" /\ UNCHANGED <<rTimeOfFrame, pending>>
     ELSE /\ rpc' = "match"
          /\ rTimeOfFrame' = FrontTime
          /\ pending' = IF pending = Unset THEN FrontTime ELSE pending
  /\ UNCHANGED <<mediaVars, geometryVars, playerGen, clock, rGen, rTime, rTarget,
                 rHeld, rMesh, rVideo, seekVars, shown>>

\* The front mesh is later than the matching window of time t.
TooLate(q, t) == Head(q).frame > t

NoMoreMeshes == geomEos = geomGen /\ streamed = <<>> /\ ~DecodeActive

\* get_mesh_data(video_time).
PresentMatch ==
  /\ rpc = "match"
  /\ decoded' = From(decoded, rTimeOfFrame)
  /\ IF decoded' = <<>>
     THEN rpc' = (IF NoMoreMeshes THEN "drop_video" ELSE "idle") /\ UNCHANGED rMesh
     ELSE IF TooLate(decoded', rTimeOfFrame)
     THEN rpc' = "drop_video" /\ UNCHANGED rMesh
     ELSE rpc' = "copy" /\ rMesh' = Head(decoded')
  /\ UNCHANGED <<streamed, workerVars, geomGen, geomEos, mediaVars, playerGen,
                 pending, clock, rGen, rTime, rTarget, rHeld, rTimeOfFrame, rVideo, seekVars, shown>>

\* has_pending_video = false
UnsetPending == pending' = Unset

FreeFrontVideo == video' = IF video = <<>> THEN <<>> ELSE Tail(video)

\* Missing: the video frame can no longer be completed.
PresentDropVideo ==
  /\ rpc = "drop_video"
  /\ FreeFrontVideo
  /\ UnsetPending
  /\ rpc' = "idle"
  /\ UNCHANGED <<geometry, mediaEos, mediaGen, nextVideo, nextGeometry, geometryVars,
                 playerGen, clock, renderLocals, seekVars, shown>>

\* copy_selected_video() copies whatever frame is at the front now.
PresentCopy ==
  /\ rpc = "copy"
  /\ IF video = <<>>
     THEN rpc' = "idle" /\ UNCHANGED rVideo
     ELSE rpc' = "free_video" /\ rVideo' = Head(video)
  /\ UNCHANGED <<mediaVars, geometryVars, playerGen, pending, clock, rGen, rTime,
                 rTarget, rHeld, rTimeOfFrame, rMesh, seekVars, shown>>

PresentFreeVideo ==
  /\ rpc = "free_video"
  /\ FreeFrontVideo
  /\ rpc' = "free_mesh"
  /\ UNCHANGED <<geometry, mediaEos, mediaGen, nextVideo, nextGeometry, geometryVars,
                 playerGen, pending, clock, renderLocals, seekVars, shown>>

PresentReady ==
  /\ rpc = "free_mesh"
  /\ decoded' = IF decoded = <<>> THEN <<>> ELSE Tail(decoded)
  /\ UnsetPending
  /\ shown' = [video |-> rVideo, mesh |-> rMesh, time |-> rTimeOfFrame]
  /\ rpc' = "idle"
  /\ UNCHANGED <<streamed, workerVars, geomGen, geomEos, mediaVars, playerGen,
                 clock, renderLocals, seekVars>>

Present ==
  \/ PresentBegin \/ PresentReset \/ PresentTakeGeometry \/ PresentPushGeometry
  \/ PresentEndSubmit \/ PresentMarkEnd \/ PresentSelect \/ PresentFrameTime \/ PresentMatch
  \/ PresentDropVideo \/ PresentCopy \/ PresentFreeVideo \/ PresentReady

-----------------------------------------------------------------------------
(* The game thread: the playback clock and seek(time).                     *)

Tick ==
  /\ ~HostSeeks /\ clock < LastFrame
  /\ clock' = clock + 1
  /\ UNCHANGED <<mediaVars, geometryVars, playerGen, pending, renderVars, seekVars, shown>>

SeekBegin(f) ==
  /\ spc = "idle" /\ (HostSerialises => rpc = "idle") /\ mediaGen < MaxGeneration
  /\ spc' = "flush" /\ seekTo' = f
  /\ UNCHANGED <<mediaVars, geometryVars, playerGen, pending, clock, renderVars, shown>>

\* perform_seek(), on the demux thread: the container is placed at or before
\* the target, the queues are emptied, then the generation advances.
SeekFlush ==
  /\ spc = "flush"
  /\ video' = <<>> /\ geometry' = <<>> /\ mediaEos' = FALSE
  /\ \E f \in 1 .. seekTo : nextVideo' = f /\ nextGeometry' = f
  /\ spc' = "bump"
  /\ UNCHANGED <<mediaGen, geometryVars, playerGen, pending, clock, renderVars, seekTo, shown>>

SameGeneration == mediaGen                        \* mutant: not advanced
NextGeneration == mediaGen + 1

SeekBump ==
  /\ spc = "bump"
  /\ mediaGen' = NextGeneration
  /\ spc' = "adopt"
  /\ UNCHANGED <<video, geometry, mediaEos, nextVideo, nextGeometry, geometryVars,
                 playerGen, pending, clock, renderVars, seekTo, shown>>

SeekAdopt ==
  /\ spc = "adopt"
  /\ playerGen' = mediaGen
  /\ spc' = "reset"
  /\ UNCHANGED <<mediaVars, geometryVars, pending, clock, renderVars, seekTo, shown>>

SeekReset ==
  \/ /\ spc = "reset" /\ ResetStore(playerGen) /\ spc' = "reset_clear"
     /\ UNCHANGED <<streamed, decoded, workerVars, mediaVars, playerGen, pending,
                    clock, renderVars, seekTo, shown>>
  \/ /\ spc = "reset_clear" /\ ResetClear /\ spc' = "unset"
     /\ UNCHANGED <<workerVars, geomGen, geomEos, mediaVars, playerGen, pending,
                    clock, renderVars, seekTo, shown>>

\* has_pending_video = false; the engine restarts its clock at the target.
SeekUnset ==
  /\ spc = "unset"
  /\ UnsetPending
  /\ clock' = seekTo
  /\ spc' = "idle"
  /\ UNCHANGED <<mediaVars, geometryVars, playerGen, renderVars, seekTo, shown>>

\* The request of the file before, taken as the worker's first deed: the queues
\* are empty still, and no call of this file's host adopts the generation.
InheritedSeek ==
  /\ spc = "inherited"
  /\ \E f \in Frame : nextVideo' = f /\ nextGeometry' = f
  /\ mediaGen' = NextGeneration
  /\ spc' = "idle"
  /\ UNCHANGED <<video, geometry, mediaEos, geometryVars, playerGen, pending, clock,
                 renderVars, seekTo, shown>>

SeekStep == InheritedSeek \/ SeekFlush \/ SeekBump \/ SeekAdopt \/ SeekReset \/ SeekUnset

Next ==
  \/ ProduceVideo \/ ProduceGeometry \/ ProduceEnd \/ DecodeMesh
  \/ Present \/ Tick
  \/ \E f \in Frame : SeekBegin(f)
  \/ SeekStep

Spec == Init /\ [][Next]_vars

\* Every thread is scheduled and the host keeps presenting; nobody has to seek.
FairSpec ==
  /\ Spec
  /\ WF_vars(ProduceVideo) /\ WF_vars(ProduceGeometry) /\ WF_vars(ProduceEnd)
  /\ WF_vars(DecodeMesh) /\ WF_vars(Present) /\ WF_vars(Tick) /\ WF_vars(SeekStep)

-----------------------------------------------------------------------------
(* Properties.                                                             *)

\* TECHNICAL_OVERVIEW, atomic multimodal presentation: what is handed to the
\* host is one texture and one mesh of the same frame, labelled with its time.
CompletePairs ==
  shown.time # 0 =>
    shown.video.frame = shown.time /\ shown.mesh.frame = shown.time

\* The last presentation, as the host sees it.
Presented == [pass |-> shown.video.gen, texture |-> shown.video.frame,
              mesh |-> shown.mesh.frame, time |-> shown.time]

Stream == INSTANCE PresentationStream
            WITH Passes <- Generation, Times <- Frame, pass <- mediaGen, presented <- Presented

\* To a host that calls it in turn the player is a stream of complete
\* presentations: their times advance within a pass, and when perform_seek() has
\* advanced the generation nothing that was queued before it is shown.
ImplementsStream == Stream!Spec

\* docs/CORE.md: a video sample is dropped when it can no longer form a complete
\* presentation; so its mesh is not on its way.
DroppedIsHopeless ==
  rpc = "drop_video" =>
    ~(wpc \in {"check", "push"} /\ held.gen = geomGen /\ held.frame = rTimeOfFrame
      /\ held.frame \notin NoMesh)

\* No circular wait between the queues: the video of the last pass is consumed to
\* its end, shown or found hopeless, although frames lack meshes, a late mesh may
\* be at the front, and geometry is only submitted by the calls that wait for it.
PlaysOut ==
  \A g \in Generation :
    (mediaGen = g) ~> ((nextVideo = LastFrame + 1 /\ video = <<>>) \/ mediaGen > g)

\* A mesh is about to be dropped because the geometry decoder has not been told of
\* its generation: an inherited seek was executed during a call of presentation().
Overtaken == wpc = "check" /\ held.gen > geomGen

\* Unless an inherited seek overtakes a call, and takes meshes from the pass that
\* begins, every pass that no seek cuts short plays out.  NoMesh leaves fewer than
\* VideoCapacity frames without a mesh at the end: README says what more do.
EveryPassPlaysOut == []~Overtaken => PlaysOut
=============================================================================
