---------------------------- MODULE MediaDecoder ----------------------------
(***************************************************************************)
(* The demux thread of AVDecoderFFMPEG.  It reads the packets of one MP4   *)
(* file, whose video, audio and geometry are interleaved, and hands each   *)
(* to its stream's output: the decoded video queue, the PCM ring and the   *)
(* compressed geometry queue.  A stream whose output is full parks its     *)
(* packets in a bounded pending queue, and a packet that does not fit      *)
(* there either is deferred and stops the demuxer.  Video passes through a *)
(* codec that keeps the last Delay frames until it is drained.             *)
(*                                                                         *)
(* Another thread seeks: it leaves a request and waits on a condition      *)
(* variable for the demux thread to have executed it, or to be gone.       *)
(*                                                                         *)
(* A packet is its index in File.  The consumers only make room, so one    *)
(* decode, with the test of the room before it, is one step.               *)
(***************************************************************************)
EXTENDS Integers, Sequences

Queue == {"video", "geometry"}      \* outputs that have a QueueState
Stream == Queue \cup {"audio"}

CONSTANTS
  File,        \* the kinds of the packets, in file order
  Landings,    \* packets that a container seek may come to rest at
  Capacity,    \* per stream: frames the queue holds, packets the PCM ring accepts
  Pending,     \* per stream: max_pending_video, _audio, _geometry
  Delay,       \* frames that the video codec keeps until it is drained
  Plans        \* sessions to explore: how often the host seeks, which packets do not
               \* decode, whether reads and container seeks may fail, whether the host
               \* stops and restarts the decoder

ASSUME MediaAssumption ==
  /\ File \in Seq(Stream) /\ Landings \subseteq 1 .. Len(File)
  /\ Plans \subseteq [seeks : Nat, damaged : SUBSET (1 .. Len(File)), reads : BOOLEAN, stops : BOOLEAN]
  /\ Capacity \in [Stream -> Nat \ {0}] /\ Pending \in [Stream -> Nat]
  /\ Delay \in Nat

NoSeek == 0
Packets == 1 .. Len(File)

VARIABLES
  plan,              \* the session that is explored
  cursor, eof,       \* the container: its next packet, m_end_of_stream
  pending, deferred, \* m_pending_*_packets, m_deferred_packet (at most one)
  codec, drained,    \* frames in the video codec, m_video_decoder_drained
  out, state,        \* the outputs' contents, the queues' QueueState
  decoder,           \* m_decoder_state
  wpc,               \* where the demux thread is
  running, stop,     \* m_thread_running, m_stop_requested
  joining,           \* stop_decoding() waits for the thread
  requested,         \* m_requested_seek
  requestId, completedId, result, \* m_seek_request_id, m_completed_seek_id, m_seek_result
  taken,             \* the request that the demux thread executes, and its outcome
  seeker, request,   \* the seeking thread and the id it waits for
  due                \* history: first packet that was not yet handed to a consumer

flow == <<pending, deferred, codec, drained, out, state>>
file == <<plan, cursor, eof>>
threads == <<running, stop, joining>>
handshake == <<requested, requestId, completedId, result, taken, seeker, request>>
vars == <<flow, file, decoder, wpc, threads, handshake, due>>

TypeOK ==
  /\ plan \in Plans
  /\ cursor \in 1 .. Len(File) + 1 /\ {eof, drained, running, stop, joining, result} \subseteq BOOLEAN
  /\ pending \in [Stream -> Seq(Packets)] /\ \A k \in Stream : Len(pending[k]) <= Pending[k]
  /\ out \in [Stream -> Seq(Packets)] /\ \A k \in Stream : Len(out[k]) <= Capacity[k]
  /\ {deferred, codec} \subseteq Seq(Packets) /\ Len(deferred) <= 1 /\ Len(codec) <= Delay
  /\ state \in [Queue -> {"open", "end", "error"}]
  /\ decoder \in {"init", "decoding", "eof", "stop"}
  /\ wpc \in {"new", "top", "request", "seek", "complete", "decode", "deferred", "read",
              "exit", "notify", "gone"} \cup Stream
  /\ requested \in Landings \cup {NoSeek}
  /\ {requestId, completedId, request} \subseteq 0 .. plan.seeks
  /\ taken \in [id : 0 .. plan.seeks, to : Landings \cup {NoSeek}, ok : BOOLEAN]
  /\ seeker \in {"idle", "lock", "test", "checked", "blocked"}
  /\ due \in [Stream -> 1 .. Len(File) + 1]

Init ==
  /\ plan \in Plans
  /\ cursor = 1 /\ eof = FALSE
  /\ pending = [k \in Stream |-> <<>>] /\ deferred = <<>>
  /\ codec = <<>> /\ drained = FALSE
  /\ out = [k \in Stream |-> <<>>] /\ state = [k \in Queue |-> "open"]
  /\ decoder = "init" /\ wpc = "new" /\ running = FALSE /\ stop = FALSE
  /\ joining = FALSE
  /\ requested = NoSeek /\ requestId = 0 /\ completedId = 0 /\ result = FALSE
  /\ taken = [id |-> 0, to |-> NoSeek, ok |-> FALSE]
  /\ seeker = "idle" /\ request = 0
  /\ due = [k \in Stream |-> 1]

-----------------------------------------------------------------------------
(* Decoding one packet, decode_packet(), and where packets wait.           *)

\* full(), audio_can_accept_packet().
Room(k) == Len(out[k]) < Capacity[k]

\* The decoder's step fails: the worker idles if the file had ended, else it stops.
Fails(broken, ended) ==
  /\ state' = [k \in Queue |-> IF k \in broken THEN "error" ELSE state[k]]
  /\ decoder' = IF ended THEN "eof" ELSE "stop"
  /\ stop' = (stop \/ ~ended)
  /\ wpc' = "top"

\* A video packet enters the codec, and the oldest frame leaves a full one; audio and
\* geometry go straight to their outputs.  A damaged packet fails, and so does a push
\* onto a queue that is not open or full; both set the error of their queue if they
\* have one.
Decode(i, next) ==
  LET k == File[i]
      frames == IF k = "video" THEN Append(codec, i) ELSE <<i>>
      leaves == k # "video" \/ Len(frames) > Delay
      refused == k \in Queue /\ (state[k] # "open" \/ Len(out[k]) >= Capacity[k])
  IN  IF i \in plan.damaged \/ (leaves /\ refused)
      THEN Fails({k} \cap Queue, eof) /\ UNCHANGED <<codec, out>>
      ELSE /\ out' = IF leaves THEN [out EXCEPT ![k] = Append(@, Head(frames))] ELSE out
           /\ codec' = IF k # "video" THEN codec ELSE IF leaves THEN Tail(frames) ELSE frames
           /\ wpc' = next
           /\ UNCHANGED <<state, decoder, stop>>

\* A packet may not overtake those of its stream that are parked.
OvertakesPending(k) == ~Room(k)                    \* mutant: only the room is tested
Blocked(k) == ~Room(k) \/ pending[k] # <<>>

\* Where route_packet() puts a blocked packet.
NeverParks(k) == FALSE                             \* mutant: no pending queues
Parks(k) == Len(pending[k]) < Pending[k]

Route(i, afterwards, whenDeferred) ==
  LET k == File[i]
  IN  IF ~Blocked(k)
      THEN Decode(i, afterwards) /\ deferred' = <<>> /\ UNCHANGED pending
      ELSE /\ IF Parks(k)
              THEN pending' = [pending EXCEPT ![k] = Append(@, i)] /\ deferred' = <<>>
                   /\ wpc' = afterwards
              ELSE deferred' = <<i>> /\ wpc' = whenDeferred /\ UNCHANGED pending
           /\ UNCHANGED <<codec, out, state, decoder, stop>>

-----------------------------------------------------------------------------
(* The demux thread: decode().                                             *)

\* drain_pending_packets(): one packet of each stream, audio first.
After(k) == CASE k = "audio" -> "video" [] k = "video" -> "geometry"
              [] k = "geometry" -> "deferred"

DrainPending(k) ==
  /\ wpc = k
  /\ IF Room(k) /\ pending[k] # <<>>
     THEN Decode(Head(pending[k]), After(k)) /\ pending' = [pending EXCEPT ![k] = Tail(@)]
     ELSE wpc' = After(k) /\ UNCHANGED <<pending, codec, out, state, decoder, stop>>
  /\ UNCHANGED <<file, deferred, drained, running, joining, handshake, due>>

RouteDeferred ==
  /\ wpc = "deferred"
  /\ IF deferred = <<>>
     THEN wpc' = "read" /\ UNCHANGED <<pending, deferred, codec, out, state, decoder, stop>>
     ELSE Route(deferred[1], "read", "top")
  /\ UNCHANGED <<file, drained, running, joining, handshake, due>>

ReadPacket ==
  /\ wpc = "read" /\ cursor <= Len(File)
  /\ Route(cursor, "top", "top")
  /\ cursor' = cursor + 1
  /\ UNCHANGED <<plan, eof, drained, running, joining, handshake, due>>

ReadError ==
  /\ wpc = "read" /\ plan.reads
  /\ Fails(Queue, eof)
  /\ UNCHANGED <<file, pending, deferred, codec, drained, out, running, joining, handshake, due>>

\* The end of the file: parked packets go first,
ParkedForgotten == FALSE                           \* mutant: they are not waited for
Parked == \E k \in Stream : pending[k] # <<>>

EndWithParked ==
  /\ wpc = "read" /\ cursor > Len(File) /\ Parked
  /\ eof' = TRUE
  /\ wpc' = "top"
  /\ UNCHANGED <<plan, cursor, flow, decoder, threads, handshake, due>>

\* then the codec is drained: drain_video_decoder() pushes each frame that was kept,
\* without a test of the room, and the first that does not fit is an error,
DrainVideo ==
  /\ wpc = "read" /\ cursor > Len(File) /\ ~Parked /\ ~drained
  /\ eof' = TRUE
  /\ LET fit == IF state["video"] = "open" THEN Capacity["video"] - Len(out["video"]) ELSE 0
     IN  IF Len(codec) <= fit
         THEN /\ out' = [out EXCEPT !["video"] = @ \o codec]
              /\ codec' = <<>> /\ drained' = TRUE
              /\ wpc' = "top"
              /\ UNCHANGED <<state, decoder, stop>>
         ELSE /\ out' = [out EXCEPT !["video"] = @ \o SubSeq(codec, 1, fit)]
              /\ codec' = SubSeq(codec, fit + 2, Len(codec))
              /\ Fails({"video"}, TRUE)
              /\ UNCHANGED drained
  /\ UNCHANGED <<plan, cursor, pending, deferred, running, joining, handshake, due>>

\* and then the queues are told.
MarkEnd ==
  /\ wpc = "read" /\ cursor > Len(File) /\ ~Parked /\ drained
  /\ eof' = TRUE
  /\ state' = [k \in Queue |-> IF state[k] = "error" THEN "error" ELSE "end"]
  /\ decoder' = "eof"
  /\ wpc' = "top"
  /\ UNCHANGED <<plan, cursor, pending, deferred, codec, drained, out, threads, handshake, due>>

-----------------------------------------------------------------------------
(* The demux thread: its loop, and the seeks it executes for others.       *)

\* start_decoding().
Start ==
  /\ wpc = "new"
  /\ running' = TRUE /\ stop' = FALSE
  /\ decoder' = "decoding"
  /\ wpc' = "top"
  /\ UNCHANGED <<file, flow, joining, handshake, due>>

Loop ==
  /\ wpc = "top"
  /\ wpc' = IF stop THEN "exit" ELSE "request"
  /\ UNCHANGED <<file, flow, decoder, threads, handshake, due>>

Unlocked == seeker # "checked"                     \* m_seek_mutex

TakeRequest ==
  /\ wpc = "request" /\ Unlocked
  /\ IF requested = NoSeek
     THEN wpc' = "decode" /\ UNCHANGED taken
     ELSE wpc' = "seek" /\ taken' = [id |-> requestId, to |-> requested, ok |-> FALSE]
  /\ requested' = NoSeek
  /\ UNCHANGED <<file, flow, decoder, threads, requestId, completedId, result, seeker,
                 request, due>>

\* In states other than DECODING the thread sleeps or yields.
Dispatch ==
  /\ wpc = "decode"
  /\ wpc' = IF decoder = "decoding" THEN "audio" ELSE "top"
  /\ UNCHANGED <<file, flow, decoder, threads, handshake, due>>

\* perform_seek() at the container's landing: everything on its way is dropped.
FirstFrom(k, n) ==
  IF \E i \in n .. Len(File) : File[i] = k
  THEN CHOOSE i \in n .. Len(File) : File[i] = k /\ \A j \in n .. i - 1 : File[j] # k
  ELSE Len(File) + 1

KeepDeferred == deferred                           \* mutant: the deferred packet survives
DeferredAfterSeek == <<>>

Seek(landing) ==
  /\ cursor' = landing /\ eof' = FALSE /\ UNCHANGED plan
  /\ codec' = <<>> /\ drained' = FALSE
  /\ out' = [k \in Stream |-> <<>>] /\ state' = [k \in Queue |-> "open"]
  /\ pending' = [k \in Stream |-> <<>>] /\ deferred' = DeferredAfterSeek
  /\ decoder' = "decoding"
  /\ due' = [k \in Stream |-> FirstFrom(k, landing)]

ExecuteSeek ==
  /\ wpc = "seek"
  /\ Seek(taken.to)
  /\ taken' = [taken EXCEPT !.ok = TRUE]
  /\ wpc' = "complete"
  /\ UNCHANGED <<threads, requested, requestId, completedId, result, seeker, request>>

\* The container refuses: nothing else has changed, and the thread will end.
RefuseSeek ==
  /\ wpc = "seek" /\ plan.reads
  /\ wpc' = "complete"
  /\ UNCHANGED <<file, flow, decoder, threads, handshake, due>>

\* The wait ends for whoever is in it when it is notified.
Notified == IF seeker = "blocked" THEN "test" ELSE seeker
Silence == seeker                                  \* mutant: no notification
Completed == Notified

CompleteSeek ==
  /\ wpc = "complete" /\ Unlocked
  /\ result' = taken.ok /\ completedId' = taken.id
  /\ seeker' = Completed
  /\ IF taken.ok
     THEN wpc' = "decode" /\ UNCHANGED decoder
     ELSE wpc' = "exit" /\ decoder' = "stop"
  /\ UNCHANGED <<file, flow, threads, requested, requestId, taken, request, due>>

\* The end of the thread: the flag is cleared without m_seek_mutex, then it notifies.
Exit ==
  /\ wpc = "exit"
  /\ running' = FALSE
  /\ wpc' = "notify"
  /\ UNCHANGED <<file, flow, decoder, stop, joining, handshake, due>>

NotifyExit ==
  /\ wpc = "notify"
  /\ seeker' = Notified
  /\ wpc' = "gone"
  /\ UNCHANGED <<file, flow, decoder, threads, requested, requestId, completedId, result,
                 taken, request, due>>

-----------------------------------------------------------------------------
(* The host: seeks, and stops the decoder.                                 *)

\* seek() without a demux thread is done by the caller.
SeekAlone(t) ==
  /\ seeker = "idle" /\ ~running
  /\ wpc \in {"new", "notify", "gone"}
  /\ Seek(t)
  /\ UNCHANGED <<wpc, threads, handshake>>

SeekCall ==
  /\ seeker = "idle" /\ running /\ requestId < plan.seeks
  /\ seeker' = "lock"
  /\ UNCHANGED <<file, flow, decoder, wpc, threads, requested, requestId, completedId,
                 result, taken, request, due>>

Waits(id) == running /\ completedId < id

\* The request is left and the condition tested with the mutex held, which is let go
\* of as the wait begins.
SeekRequest(t) ==
  /\ seeker = "lock"
  /\ requestId' = requestId + 1 /\ request' = requestId + 1
  /\ requested' = t
  /\ seeker' = IF Waits(requestId + 1) THEN "checked" ELSE "idle"
  /\ UNCHANGED <<file, flow, decoder, wpc, threads, completedId, result, taken, due>>

SeekBlock ==
  /\ seeker = "checked"
  /\ seeker' = "blocked"
  /\ UNCHANGED <<file, flow, decoder, wpc, threads, requested, requestId, completedId,
                 result, taken, request, due>>

SeekTest ==
  /\ seeker = "test"
  /\ seeker' = IF Waits(request) THEN "checked" ELSE "idle"
  /\ UNCHANGED <<file, flow, decoder, wpc, threads, requested, requestId, completedId,
                 result, taken, request, due>>

\* stop_decoding().
Stop ==
  /\ plan.stops /\ ~joining /\ wpc # "new"
  /\ stop' = TRUE /\ joining' = TRUE
  /\ seeker' = Notified
  /\ UNCHANGED <<file, flow, decoder, wpc, running, requested, requestId, completedId,
                 result, taken, request, due>>

Join ==
  /\ joining /\ wpc = "gone"
  /\ joining' = FALSE
  /\ decoder' = "stop"
  /\ wpc' = "new"
  /\ UNCHANGED <<file, flow, running, stop, handshake, due>>

-----------------------------------------------------------------------------
(* The consumers.                                                          *)

Popped(k) == /\ out' = [j \in Stream |-> IF j \in k THEN Tail(out[j]) ELSE out[j]]
             /\ due' = [j \in Stream |-> IF j \in k THEN FirstFrom(j, Head(out[j]) + 1)
                                          ELSE due[j]]
             /\ UNCHANGED <<file, pending, deferred, codec, drained, state, decoder, wpc,
                            threads, handshake>>

\* The player presents a video frame with its mesh, and neither without the other.
TakePair == (\A k \in Queue : out[k] # <<>>) /\ Popped(Queue)

\* What is left of one when the other has ended is given up.
TakeRest ==
  \E k \in Queue :
    /\ out[k] # <<>>
    /\ \A j \in Queue \ {k} : out[j] = <<>> /\ state[j] = "end"
    /\ Popped({k})

TakeAudio == out["audio"] # <<>> /\ Popped({"audio"})

-----------------------------------------------------------------------------
Demux ==
  \/ Start \/ Loop \/ TakeRequest \/ ExecuteSeek \/ RefuseSeek \/ CompleteSeek \/ Dispatch
  \/ (\E k \in Stream : DrainPending(k)) \/ RouteDeferred \/ ReadPacket \/ ReadError
  \/ EndWithParked \/ DrainVideo \/ MarkEnd \/ Exit \/ NotifyExit

Seeker == (\E t \in Landings : SeekRequest(t)) \/ SeekBlock \/ SeekTest

Host == SeekCall \/ (\E t \in Landings : SeekAlone(t)) \/ Stop \/ Join

Consumer == TakePair \/ TakeRest \/ TakeAudio

Next == Demux \/ Seeker \/ Host \/ Consumer

Spec == Init /\ [][Next]_vars

\* The threads run and the consumers consume.  Nobody need seek or stop.
FairSpec ==
  /\ Spec
  /\ WF_vars(Demux) /\ WF_vars(Seeker) /\ WF_vars(Join)
  /\ WF_vars(TakePair) /\ WF_vars(TakeRest) /\ WF_vars(TakeAudio)

-----------------------------------------------------------------------------
(* Properties.                                                             *)

\* Everything of stream k between the file and its consumer, in order.
DeferredOf(k) == IF deferred # <<>> /\ File[deferred[1]] = k THEN deferred ELSE <<>>
InFlight(k) ==
  out[k] \o (IF k = "video" THEN codec ELSE <<>>) \o pending[k] \o DeferredOf(k)

\* The packets of stream k from number a up to b, once each and in file order.
IsRun(q, k, a, b) ==
  /\ \A i \in DOMAIN q : q[i] \in a .. b - 1 /\ File[q[i]] = k
  /\ \A i, j \in DOMAIN q : i < j => q[i] < q[j]
  /\ \A n \in a .. b - 1 : File[n] = k => \E i \in DOMAIN q : q[i] = n

\* A video or geometry queue in error has lost a packet; the PCM ring cannot say so.
Unharmed(k) == IF k \in Queue THEN state[k] # "error" ELSE \A i \in plan.damaged : File[i] # k

\* However full its output was and whatever was parked or deferred on the way, a
\* stream's packets from the file's position back to the next one due are all there,
\* once and in file order, and none is left from before a seek (route_packet(),
\* drain_pending_packets(), perform_seek()), if none of them failed to decode.
NothingLost == \A k \in Stream : Unharmed(k) => IsRun(InFlight(k), k, due[k], cursor)

\* A queue says that its stream has ended only when everything of the file is in the
\* outputs: nothing parked, deferred or kept by the codec.
EndIsTheEnd ==
  \A k \in Queue : state[k] = "end" =>
    /\ cursor = Len(File) + 1 /\ codec = <<>> /\ deferred = <<>>
    /\ \A j \in Stream : pending[j] = <<>>

\* The frames that the codec keeps are presentable when the file has ended.
FinalWindowPresentable == state["video"] # "error"

\* A file whose streams are interleaved no further apart than the pending queues reach
\* is consumed to its end: a full queue whose consumer waits for the other stream does
\* not keep the demuxer from reaching it.  (A video queue in error has lost a frame.)
Exhausted == \A k \in Stream : due[k] = Len(File) + 1
NoFaults == plan.damaged = {} /\ ~plan.reads /\ ~plan.stops
FileIsConsumed == NoFaults => <>[](Exhausted \/ state["video"] = "error")

\* A demux thread that ends by itself leaves an error for get_last_error() to report.
SelfStopIsReported ==
  wpc = "gone" /\ ~joining => \E k \in Queue : state[k] = "error"

\* seek() returns when the demux thread executes it.
SeekReturns == (NoFaults /\ seeker # "idle") ~> seeker = "idle"

\* It returns also when the thread ends instead.
SeekReturnsAnyway == seeker # "idle" ~> seeker = "idle"
=============================================================================
