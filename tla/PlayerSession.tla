----------------------------- MODULE PlayerSession -----------------------------
(***************************************************************************)
(* One OpenVolumetricPlayer over its life: open, start, seek, stop, close  *)
(* and open again, with the failures of every part that they put together: *)
(* the byte source, the MP4 container, the codecs and the two workers.     *)
(* One host thread calls the player; another may cancel its input; a       *)
(* remote file may stop answering.                                         *)
(*                                                                         *)
(* What the demux worker does with a packet is module MediaDecoder's; here *)
(* it reads, seeks and ends.  What the geometry worker decodes is module   *)
(* GeometryDecoder's; here it begins, is told to stop, and ends.           *)
(***************************************************************************)
EXTENDS Naturals, FiniteSets

CONSTANTS
  Paths,        \* what open() is called with
  Media,        \* Media[p]: what is behind a path
  MaxOpen       \* bound on open()

Kinds == {"video", "audio", "geometry"}

\* exists: the source can be opened; mp4: FFmpeg recognises it; tracks: how many
\* of each kind; codecs: what FFmpeg has a decoder for; remote: behind HTTP;
\* damaged: has a packet that ends the demux worker.
ASSUME MediaAssumption ==
  Media \in [Paths -> [exists : BOOLEAN, mp4 : BOOLEAN, remote : BOOLEAN, damaged : BOOLEAN,
                       tracks : [Kinds -> Nat], codecs : SUBSET {"video", "audio"}]]

VARIABLES
  pc, op,             \* the host thread: where it is, in which call
  path,               \* what was opened last
  opens,              \* how many calls of open() there were
  open, started,      \* m_impl->open, started
  hasAudio,           \* m_impl->info.has_audio
  error,              \* whether m_impl->error has a text
  acquired,           \* "source", "context", "video", "audio": pointers that are not
                      \* null; "geometry": the Draco decoder is initialised
  cancelled,          \* the source's m_cancelled
  containerError,     \* whether the container's m_error has a text
  audioEnabled,       \* m_audio_info.is_enabled
  demux,              \* the demux worker; "ended" is joinable
  draco,              \* the geometry worker: "fresh" until it stores DECODING, "told"
                      \* once STOP is stored after that; "ended" is joinable
  stopRequested,      \* m_stop_requested
  request,            \* m_requested_seek: "none", "pending", and once taken "done"
  stalled             \* whether the server of a remote file answers

playerVars == <<open, started, hasAudio, error>>
decoderVars == <<acquired, cancelled, containerError, audioEnabled>>
threadVars == <<demux, draco, stopRequested, request>>
callVars == <<pc, op, path, opens>>
sessionVars == <<callVars, playerVars, decoderVars, threadVars, stalled>>

Things == {"source", "context", "video", "audio", "geometry"}
Working == {"loop", "reading", "seeking"}      \* m_thread_running

SessionTypeOK ==
  /\ pc \in {"idle", "cancel", "join", "destroy", "media", "source", "input", "streams",
             "codecs", "audio", "geometry", "failed", "start", "unstart", "unjoin", "wait", "seek",
             "drain", "terminated"}
  /\ op \in {"open", "fail", "close", "stop", "start", "seek"}
  /\ path \in Paths /\ opens \in 0 .. MaxOpen
  /\ {open, started, hasAudio, error, cancelled, containerError, audioEnabled} \subseteq BOOLEAN
  /\ acquired \subseteq Things
  /\ demux \in {"none", "ended"} \cup Working
  /\ draco \in {"none", "fresh", "loop", "told", "ended"}
  /\ {stopRequested, stalled} \subseteq BOOLEAN
  /\ request \in {"none", "pending", "done"}

SessionInit ==
  /\ pc = "idle" /\ op = "close" /\ path \in Paths /\ opens = 0
  /\ open = FALSE /\ started = FALSE /\ hasAudio = FALSE /\ error = FALSE
  /\ acquired = {} /\ cancelled = FALSE /\ containerError = FALSE /\ audioEnabled = FALSE
  /\ demux = "none" /\ draco = "none" /\ stopRequested = FALSE /\ request = "none"
  /\ stalled = FALSE

-----------------------------------------------------------------------------
(* The container's input.                                                  *)

\* discover_streams(): exactly one video, one geometry, at most one audio track.
Playable(p) ==
  /\ Media[p].tracks["video"] = 1
  /\ Media[p].tracks["geometry"] = 1
  /\ Media[p].tracks["audio"] <= 1

HasTrack(p, kind) == Media[p].tracks[kind] > 0

\* A read or a seek of the source returns: with data, at once if the file is
\* local, or with an error once cancel() was called.
Answers == stalled => cancelled \/ ~Media[path].remote

\* close(): everything the container owns, and with it the source's flag.
ContainerClosed == acquired' = acquired \ {"source", "context"} /\ cancelled' = FALSE

-----------------------------------------------------------------------------
(* close(), and stop() as part of it.                                      *)

Begin(call, at) == pc = "idle" /\ op' = call /\ pc' = at

Close == Begin("close", "cancel") /\ UNCHANGED <<path, opens, playerVars, decoderVars, threadVars, stalled>>

Open ==
  /\ opens < MaxOpen /\ opens' = opens + 1
  /\ Begin("open", "cancel")
  /\ UNCHANGED <<path, playerVars, decoderVars, threadVars, stalled>>

\* Not the code: close() leaves a worker that waits for the server to itself.
CloseWithoutCancel ==
  /\ pc = "cancel"
  /\ stopRequested' = (stopRequested \/ started)
  /\ pc' = IF started THEN "join" ELSE "destroy"
  /\ UNCHANGED <<op, path, opens, playerVars, decoderVars, demux, draco, request, stalled>>

\* cancel_pending_io() on whatever is open, then stop(), which does nothing to a
\* player that is not started.
CloseCancel ==
  /\ pc = "cancel"
  /\ cancelled' = ("source" \in acquired)
  /\ stopRequested' = (stopRequested \/ started)
  /\ pc' = IF started THEN "join" ELSE "destroy"
  /\ UNCHANGED <<op, path, opens, playerVars, acquired, containerError, audioEnabled, demux, draco,
                 request, stalled>>

Stop ==
  /\ started /\ Begin("stop", "join")
  /\ stopRequested' = TRUE
  /\ UNCHANGED <<path, opens, playerVars, decoderVars, demux, draco, request, stalled>>

\* The joins at the end of IAVDecoder::stop_decoding() and of the geometry decoder's.
Joined == demux \notin Working /\ demux' = "none"
DracoJoined == draco \in {"none", "ended"} /\ draco' = "none"

\* media.stop_decoding() returns, and geometry.stop_decoding() stores STOP, which a
\* worker that has not begun will overwrite.
StopJoin ==
  /\ pc = "join" /\ Joined
  /\ draco' = IF draco = "loop" THEN "told" ELSE draco
  /\ pc' = "drain"
  /\ UNCHANGED <<op, path, opens, playerVars, decoderVars, stopRequested, request, stalled>>

StopDrain ==
  /\ pc = "drain" /\ DracoJoined
  /\ started' = FALSE
  /\ pc' = IF op = "stop" THEN "idle" ELSE "destroy"
  /\ UNCHANGED <<op, path, opens, open, hasAudio, error, decoderVars, demux, stopRequested, request,
                 stalled>>

\* geometry.destroy(), whose worker is gone by now, and the stop that media.destroy()
\* begins with.
DestroyGeometry ==
  /\ pc = "destroy" /\ DracoJoined
  /\ acquired' = acquired \ {"geometry"}
  /\ stopRequested' = TRUE
  /\ pc' = "media"
  /\ UNCHANGED <<op, path, opens, playerVars, cancelled, containerError, audioEnabled, demux,
                 request, stalled>>

\* media.destroy() releases the codecs and the container, and the player forgets
\* what it was.  An open() that failed is over; one that began goes on.
DestroyMedia ==
  /\ pc = "media" /\ Joined /\ UNCHANGED draco
  /\ acquired' = {} /\ cancelled' = FALSE
  /\ open' = FALSE /\ hasAudio' = FALSE
  /\ IF op = "open" THEN pc' = "source" /\ path' \in Paths ELSE pc' = "idle" /\ path' = path
  /\ UNCHANGED <<op, opens, started, error, containerError, audioEnabled, stopRequested,
                 request, stalled>>

-----------------------------------------------------------------------------
(* open(), after its close().                                              *)

OpenStep(from, next) == pc = from /\ pc' = next /\ UNCHANGED <<op, path, opens, playerVars, threadVars, stalled>>

\* The source is built before the container owns it: until then nobody can
\* cancel it.
OpenSource ==
  /\ Answers
  /\ IF Media[path].exists
       THEN /\ OpenStep("source", "input")
            /\ acquired' = acquired \cup {"source"}
            /\ UNCHANGED containerError
       ELSE /\ OpenStep("source", "failed")
            /\ containerError' = TRUE
            /\ UNCHANGED acquired
  /\ UNCHANGED <<cancelled, audioEnabled>>

\* avformat_open_input() reads through read_source().
OpenInput ==
  /\ Answers
  /\ IF Media[path].mp4 /\ ~cancelled
       THEN /\ OpenStep("input", "streams")
            /\ acquired' = acquired \cup {"context"}
            /\ UNCHANGED <<cancelled, containerError>>
       ELSE /\ OpenStep("input", "failed")
            /\ ContainerClosed /\ containerError' = TRUE
  /\ UNCHANGED audioEnabled

\* avformat_find_stream_info() and discover_streams().
FinishOpen ==
  /\ Answers
  /\ IF Playable(path) /\ ~cancelled
       THEN /\ OpenStep("streams", "codecs")
            /\ containerError' = FALSE
            /\ UNCHANGED <<acquired, cancelled>>
       ELSE /\ OpenStep("streams", "failed")
            /\ ContainerClosed /\ containerError' = TRUE
  /\ UNCHANGED audioEnabled

OpenVideo ==
  /\ IF "video" \in Media[path].codecs
       THEN OpenStep("codecs", "audio") /\ acquired' = acquired \cup {"video"}
       ELSE OpenStep("codecs", "failed") /\ UNCHANGED acquired
  /\ UNCHANGED <<cancelled, containerError, audioEnabled>>

\* A file without an audio track leaves everything about audio as it was.
NoAudio ==
  /\ ~HasTrack(path, "audio")
  /\ OpenStep("audio", "geometry")
  /\ UNCHANGED decoderVars
OpenAudio ==
  /\ HasTrack(path, "audio")
  /\ IF "audio" \in Media[path].codecs
       THEN /\ OpenStep("audio", "geometry")
            /\ acquired' = acquired \cup {"audio"} /\ audioEnabled' = TRUE
       ELSE /\ OpenStep("audio", "failed")
            /\ UNCHANGED <<acquired, audioEnabled>>
  /\ UNCHANGED <<cancelled, containerError>>

\* The geometry track was found; the Draco decoder has nothing that can fail.
OpenGeometry ==
  /\ pc = "geometry" /\ pc' = "idle"
  /\ acquired' = acquired \cup {"geometry"}
  /\ open' = TRUE /\ error' = FALSE /\ hasAudio' = audioEnabled
  /\ UNCHANGED <<op, path, opens, started, cancelled, containerError, audioEnabled, threadVars, stalled>>

\* The error is what the container says, then everything is released.
OpenFailed ==
  /\ pc = "failed" /\ pc' = "media" /\ op' = "fail"
  /\ error' = containerError /\ stopRequested' = TRUE
  /\ UNCHANGED <<path, opens, open, started, hasAudio, decoderVars, demux, draco, request, stalled>>

-----------------------------------------------------------------------------
(* start() and seek().                                                     *)

\* Either worker may fail to start: std::thread throws.  A demux worker of a start()
\* that was broken off is taken as it is if it runs; if it has ended and was not joined,
\* the assignment of a new thread over it terminates the process.
StartMedia ==
  /\ open /\ ~started
  /\ \/ demux \in Working /\ Begin("start", "start") /\ UNCHANGED <<demux, stopRequested>>
     \/ /\ demux \notin Working /\ stopRequested' = FALSE
        /\ \/ demux = "none" /\ Begin("start", "start") /\ demux' = "loop"
           \/ demux = "ended" /\ Begin("start", "terminated") /\ demux' = demux
           \/ Begin("start", "unstart") /\ demux' = demux
  /\ UNCHANGED <<path, opens, playerVars, decoderVars, draco, request, stalled>>

\* Nothing catches what the second std::thread throws: start() is broken off, and the
\* demux worker goes on.
StartGeometry ==
  /\ pc = "start" /\ pc' = "idle"
  /\ \/ draco' = "fresh" /\ started' = TRUE
     \/ UNCHANGED <<draco, started>>
  /\ UNCHANGED <<op, path, opens, open, hasAudio, error, decoderVars, demux, stopRequested, request, stalled>>

\* Not the code: a worker that is there is left.
KeepsFirstWorker ==
  /\ pc = "unstart" /\ pc' = "idle"
  /\ error' = TRUE
  /\ UNCHANGED <<op, path, opens, open, started, hasAudio, decoderVars, threadVars, stalled>>

\* The demux worker could not be started: geometry.stop_decoding(), which has no worker,
\* and media.stop_decoding().
Rollback ==
  /\ pc = "unstart" /\ pc' = "unjoin"
  /\ error' = TRUE
  /\ DracoJoined /\ stopRequested' = TRUE
  /\ UNCHANGED <<op, path, opens, open, started, hasAudio, decoderVars, demux, request, stalled>>
RollbackJoin ==
  /\ pc = "unjoin" /\ Joined /\ UNCHANGED draco
  /\ pc' = "idle"
  /\ UNCHANGED <<op, path, opens, playerVars, decoderVars, stopRequested, request, stalled>>

\* The worker is asked, or if there is none the caller seeks by itself.
Seek ==
  /\ open
  /\ IF demux \in Working
       THEN Begin("seek", "wait") /\ request' = "pending"
       ELSE Begin("seek", "seek") /\ UNCHANGED request
  /\ UNCHANGED <<path, opens, playerVars, decoderVars, demux, draco, stopRequested, stalled>>

SeekAlone ==
  /\ pc = "seek" /\ pc' = "idle" /\ Answers
  /\ \E failed \in {cancelled, TRUE} :
       containerError' = failed /\ error' = (error \/ failed)
  /\ UNCHANGED <<op, path, opens, open, started, hasAudio, acquired, cancelled, audioEnabled, threadVars, stalled>>

\* A worker that has ended leaves a request that it did not take.
SeekReturn ==
  /\ pc = "wait" /\ pc' = "idle"
  /\ request = "done" \/ demux \notin Working
  /\ request' = IF request = "done" THEN "none" ELSE request
  /\ error' = (error \/ containerError)
  /\ UNCHANGED <<op, path, opens, open, started, hasAudio, decoderVars, demux, draco, stopRequested, stalled>>

Host ==
  \/ CloseCancel \/ StopJoin \/ StopDrain \/ DestroyGeometry \/ DestroyMedia
  \/ OpenSource \/ OpenInput \/ FinishOpen \/ OpenVideo \/ NoAudio \/ OpenAudio
  \/ OpenGeometry \/ OpenFailed
  \/ StartGeometry \/ Rollback \/ RollbackJoin \/ SeekAlone \/ SeekReturn

-----------------------------------------------------------------------------
(* The two workers, another thread, and the network.                       *)

DemuxStep(from, next) ==
  /\ pc # "terminated" /\ demux \in from /\ demux' = next
  /\ UNCHANGED <<callVars, playerVars, acquired, cancelled, audioEnabled, draco, stopRequested, stalled>>

DemuxEnd == stopRequested /\ DemuxStep({"loop"}, "ended") /\ UNCHANGED <<containerError, request>>

DemuxTakeSeek ==
  /\ ~stopRequested /\ request = "pending"
  /\ DemuxStep({"loop"}, "seeking") /\ UNCHANGED <<containerError, request>>

DemuxSeek ==
  /\ Answers
  /\ \E failed \in {cancelled, TRUE} :
       /\ DemuxStep({"seeking"}, IF failed THEN "ended" ELSE "loop")
       /\ containerError' = failed
  /\ request' = "done"

DemuxDecode == ~stopRequested /\ request # "pending" /\ DemuxStep({"loop"}, "reading") /\ UNCHANGED <<containerError, request>>

\* A packet, or end of stream, which the worker waits out; a read that fails and
\* a packet that does not decode end it.
DemuxRead ==
  /\ Answers /\ ~cancelled
  /\ DemuxStep({"reading"}, "loop") /\ UNCHANGED <<containerError, request>>
DemuxFail ==
  /\ Answers /\ (cancelled \/ Media[path].damaged)
  /\ DemuxStep({"reading"}, "ended") /\ containerError' = (containerError \/ cancelled) /\ UNCHANGED request

Demux == DemuxEnd \/ DemuxTakeSeek \/ DemuxSeek \/ DemuxDecode \/ DemuxRead \/ DemuxFail

DracoStep(from, next) ==
  /\ draco = from /\ draco' = next
  /\ UNCHANGED <<callVars, playerVars, decoderVars, demux, stopRequested, request, stalled>>

\* The worker's first store, over whatever was stored before; its loop ends at STOP.
DracoBegin == DracoStep("fresh", "loop")
DracoEnd == DracoStep("told", "ended")
Draco == DracoBegin \/ DracoEnd

\* cancel_pending_io() of another thread reaches a source that the container owns.
Cancel ==
  /\ pc # "terminated" /\ "source" \in acquired /\ cancelled' = TRUE
  /\ UNCHANGED <<callVars, playerVars, acquired, containerError, audioEnabled, threadVars, stalled>>

Network == stalled' = ~stalled /\ UNCHANGED <<callVars, playerVars, decoderVars, threadVars>>

Calls == Open \/ Close \/ StartMedia \/ Stop \/ Seek

SessionNext == Calls \/ Host \/ Demux \/ Draco \/ Cancel \/ Network

SessionSpec == SessionInit /\ [][SessionNext]_sessionVars

\* Threads run; the host is not obliged to call, nor the server to answer.
FairSession == SessionSpec /\ WF_sessionVars(Host) /\ WF_sessionVars(Demux) /\ WF_sessionVars(Draco)

-----------------------------------------------------------------------------
(* Properties.                                                             *)

\* close() returns even if the server never answers again: the input is cancelled
\* before the demux worker is joined.  One thing alone can hold it: a geometry worker
\* that had not begun when it was told to stop, and stores DECODING over it.
StopOverwritten == pc = "drain" /\ draco \in {"fresh", "loop"}
CloseReturns == (pc = "cancel" /\ op = "close") ~> (pc = "idle" \/ StopOverwritten)

\* The player's ownership, as the abstract lifecycle sees it.
Owned ==
  acquired \cup (IF demux = "none" THEN {} ELSE {"demux"})
           \cup (IF draco = "none" THEN {} ELSE {"draco"})
AtRest ==
  IF started THEN "running" ELSE IF ~open THEN "closed" ELSE IF demux = "none" THEN "ready" ELSE "adrift"
State ==
  CASE pc \in {"source", "input", "streams", "codecs", "audio", "geometry", "failed"} -> "opening"
    [] pc \in {"cancel", "destroy", "media"} \/ (pc \in {"join", "drain"} /\ op # "stop") -> "closing"
    [] pc = "start" -> "starting"
    [] pc \in {"unstart", "unjoin"} \/ (pc \in {"join", "drain"} /\ op = "stop") -> "stopping"
    [] pc = "terminated" -> "terminated"
    [] OTHER -> AtRest

\* What a worker works with.
UsedBy == [demux |-> Things \ {"geometry"}, draco |-> {"geometry"}]

Lifecycle ==
  INSTANCE PlayerLifecycle WITH
    Required <- Things \ {"audio"}, Workers <- {"demux", "draco"}, Uses <- UsedBy,
    state <- State, held <- Owned

\* Whatever fails on the way, the player goes through the abstract lifecycle.
ImplementsLifecycle == Lifecycle!Spec

\* media_info() describes the file that is open (it does not: see README).
InfoDescribesFile == open /\ pc = "idle" => (hasAudio <=> HasTrack(path, "audio"))

\* start() starts both workers or none (it does not: see README).
StartIsAllOrNothing == pc = "idle" /\ ~started => demux = "none"

\* close() returns whenever it is called (it does not: see README).
CloseAlwaysReturns == (pc = "cancel" /\ op = "close") ~> (pc = "idle")

\* An open() that failed has left a message (it does not for an unsupported codec).
FailureIsExplained == op = "fail" /\ pc = "idle" => error

\* A file is opened without a seek of an earlier one pending (it is not: a worker
\* that ended by itself leaves the request behind).
NoInheritedSeek == open /\ pc = "idle" /\ op = "open" => request = "none"
=============================================================================
