--------------------------- MODULE GeometryDecoder ---------------------------
(***************************************************************************)
(* GeometryDecoderDraco: one worker thread takes compressed samples from   *)
(* m_streamed_meshes and appends decoded meshes to m_decoded_meshes, while *)
(* the thread that drives the player submits, resets, matches and stops.   *)
(*                                                                         *)
(* Every critical section of a BoundedQueue and every access to an atomic  *)
(* that another thread can observe is an action of its own.  A sample is   *)
(* known by its number: numbers stand for presentation timestamps, whose   *)
(* spacing always exceeds the matching tolerance (half a frame).           *)
(***************************************************************************)
EXTENDS Naturals, Sequences

CONSTANTS
  LastFrame,         \* samples of a file are numbered 1 .. LastFrame
  KeyOf,             \* KeyOf[f]: the independent sample that f is coded against
  Corrupt,           \* samples whose payload Draco rejects
  StreamedCapacity,  \* capacity of m_streamed_meshes (256 in the code)
  DecodedCapacity,   \* capacity of m_decoded_meshes (64 in the code)
  MaxGeneration,     \* bound on seeks: generations are 0 .. MaxGeneration
  MaxSession         \* bound on open(): sessions are 1 .. MaxSession

Frame == 1 .. LastFrame

\* Sample 1 is independent, and a sample's keyframe is an earlier independent
\* sample: the packer writes windows that start with an IndependentMesh.
ASSUME StreamAssumption ==
  /\ LastFrame \in Nat \ {0}
  /\ KeyOf \in [Frame -> Frame]
  /\ \A f \in Frame : KeyOf[f] <= f /\ KeyOf[KeyOf[f]] = KeyOf[f]
  /\ Corrupt \subseteq Frame

ASSUME BoundsAssumption ==
  /\ StreamedCapacity \in Nat \ {0}
  /\ DecodedCapacity \in Nat \ {0}
  /\ MaxGeneration \in Nat
  /\ MaxSession \in Nat \ {0}

Generation == 0 .. MaxGeneration
NoGeneration == MaxGeneration + 1      \* numeric_limits<uint64_t>::max()
Session == 0 .. MaxSession

\* A compressed sample carries the generation it was demuxed in; the session
\* (which file it came from) is history the code does not record.
Encoded == [session : Session, gen : Generation, frame : Frame]
NoJob == [session |-> 0, gen |-> 0, frame |-> 0]

\* The topology cache: the generation and keyframe of the last independent
\* mesh.  key = 0 is the cleared cache (m_topology_id = 0).
Topology == [session : Session, gen : Generation, key : 0 .. LastFrame]
NoTopology == [session |-> 0, gen |-> 0, key |-> 0]

\* A decoded mesh remembers, as history, the topology it was built on.
DecodedMesh == [session : Session, gen : Generation, frame : Frame, base : Topology]

VARIABLES
  streamed, streamedState,   \* m_streamed_meshes: items and QueueState
  decoded, decodedState,     \* m_decoded_meshes: items and QueueState
  generation,                \* m_generation
  eosGeneration,             \* m_end_of_stream_generation
  decodeActive,              \* m_decode_active
  decoderState,              \* IDecoder::m_decoder_state
  topology,                  \* m_topology_mesh, _id, _keyframe, _generation
  wpc, job, store,           \* the worker: where it is, the sample it holds, the
                             \* value it is about to assign to m_decoder_state
  cpc, lifecycle,            \* the calling thread, and whether open / started
  session, next, target,     \* file in use, next sample to submit, last match time
  eosMarked,                 \* history: mark_end_of_stream since open or reset
  ended, after               \* history: what the worker held when a match was first
                             \* told that no mesh would come, and the meshes since

queueVars == <<streamed, streamedState, decoded, decodedState>>
flagVars == <<generation, eosGeneration, decodeActive>>
workerVars == <<topology, wpc, job, store>>
callerVars == <<cpc, lifecycle, session, next, target, eosMarked>>
endVars == <<ended, after>>
vars == <<queueVars, flagVars, decoderState, workerVars, callerVars, endVars>>

Independent(f) == KeyOf[f] = f

TypeOK ==
  /\ streamed \in Seq(Encoded) /\ streamedState \in {"Open", "Error"}
  /\ decoded \in Seq(DecodedMesh) /\ decodedState \in {"Open", "Error"}
  /\ generation \in Generation
  /\ eosGeneration \in Generation \cup {NoGeneration}
  /\ decodeActive \in BOOLEAN
  /\ decoderState \in {"UNINITIALIZED", "INITIALIZED", "DECODING", "DECODE_EOF", "STOP"}
  /\ topology \in Topology
  /\ wpc \in {"off", "store", "test", "pop", "mark", "work", "check", "push", "finish"}
  /\ job \in Encoded \cup {NoJob}
  /\ store \in {"DECODING", "DECODE_EOF"}
  /\ cpc \in {"idle", "clear_streamed", "clear_decoded", "join_stop", "join_close"}
  /\ lifecycle \in {"closed", "open", "started"}
  /\ session \in Session
  /\ next \in 1 .. LastFrame + 1
  /\ target \in Frame
  /\ eosMarked \in BOOLEAN
  /\ ended \in {"no", "held", "drained"} /\ after \in Nat

Init ==
  /\ streamed = <<>> /\ streamedState = "Open"
  /\ decoded = <<>> /\ decodedState = "Open"
  /\ generation = 0 /\ eosGeneration = NoGeneration /\ decodeActive = FALSE
  /\ decoderState = "UNINITIALIZED"
  /\ topology = NoTopology
  /\ wpc = "off" /\ job = NoJob /\ store = "DECODING"
  /\ cpc = "idle" /\ lifecycle = "closed"
  /\ session = 0 /\ next = 1 /\ target = 1 /\ eosMarked = FALSE
  /\ ended = "no" /\ after = 0

-----------------------------------------------------------------------------
(* The calling thread: init, start, submit, mark, match, reset, stop.      *)

\* init(): flush_buffer() and the cleared input queue.  m_generation, the
\* end-of-stream generation and the topology cache keep their values.
Open ==
  /\ cpc = "idle" /\ lifecycle = "closed" /\ session < MaxSession
  /\ streamed' = <<>> /\ streamedState' = "Open"
  /\ decoded' = <<>> /\ decodedState' = "Open"
  /\ decoderState' = "INITIALIZED"
  /\ lifecycle' = "open"
  /\ session' = session + 1 /\ next' = 1 /\ target' = 1 /\ eosMarked' = FALSE
  /\ ended' = "no" /\ after' = 0
  /\ UNCHANGED <<flagVars, workerVars, cpc>>

\* start_decoding() launches the thread, which has not run yet.
Start ==
  /\ cpc = "idle" /\ lifecycle = "open"
  /\ wpc' = "store" /\ store' = "DECODING"
  /\ lifecycle' = "started"
  /\ UNCHANGED <<queueVars, flagVars, decoderState, topology, job,
                 cpc, session, next, target, eosMarked, endVars>>

CanAccept == streamedState = "Open" /\ Len(streamed) < StreamedCapacity

\* can_accept_encoded_frame() and then submit_encoded_frame(): one action, as
\* only this thread adds to the queue.
Submit ==
  /\ cpc = "idle" /\ lifecycle = "started" /\ next <= LastFrame
  /\ CanAccept
  /\ IF streamedState = "Open" /\ Len(streamed) < StreamedCapacity
     THEN /\ streamed' = Append(streamed,
                [session |-> session, gen |-> generation, frame |-> next])
          /\ UNCHANGED streamedState
     ELSE /\ streamedState' = "Error"
          /\ UNCHANGED streamed
  /\ next' = next + 1
  /\ UNCHANGED <<decoded, decodedState, flagVars, decoderState, workerVars,
                 cpc, lifecycle, session, target, eosMarked, endVars>>

\* The media decoder has no further geometry and the player says so.
MarkEndOfStream ==
  /\ cpc = "idle" /\ lifecycle = "started" /\ next = LastFrame + 1
  /\ eosGeneration' = generation /\ eosMarked' = TRUE
  /\ UNCHANGED <<queueVars, generation, decodeActive, decoderState, workerVars,
                 cpc, lifecycle, session, next, target, endVars>>

\* The test of get_mesh_data() that turns an empty queue into "Missing".
SaysNoMoreMeshes ==
  /\ eosGeneration = generation
  /\ streamed = <<>>
  /\ ~decodeActive

\* The first such answer after the end of this file and pass was marked.
HearsEnd == ended = "no" /\ eosMarked /\ SaysNoMoreMeshes

\* get_mesh_data(t): drops the prefix older than t; a mesh at t is Ready, and
\* leaves through clear_frame_data() unless copying the video failed.
Match(t) ==
  /\ cpc = "idle" /\ lifecycle = "started" /\ t >= target
  /\ \E n \in 0 .. Len(decoded) :
       /\ \A i \in 1 .. n : decoded[i].frame < t
       /\ n < Len(decoded) => decoded[n + 1].frame >= t
       /\ LET ready == n < Len(decoded) /\ decoded[n + 1].frame = t
          IN  \E taken \in IF ready THEN {n, n + 1} ELSE {n} :
                decoded' = SubSeq(decoded, taken + 1, Len(decoded))
       /\ ended' = IF n = Len(decoded) /\ HearsEnd
                   THEN IF wpc = "mark" THEN "held" ELSE "drained"
                   ELSE ended
  /\ target' = t
  /\ UNCHANGED <<streamed, streamedState, decodedState, flagVars, decoderState,
                 workerVars, cpc, lifecycle, session, next, eosMarked, after>>

\* The generation of the next pass over the timeline.
SameGeneration == generation                      \* mutant: not advanced
NextGeneration == generation + 1

\* Player seek: reset(generation + 1), then the samples from f on.
ResetStore(f) ==
  /\ cpc = "idle" /\ lifecycle # "closed" /\ generation < MaxGeneration
  /\ generation' = NextGeneration /\ eosGeneration' = NoGeneration
  /\ cpc' = "clear_streamed"
  /\ next' = f /\ target' = f /\ eosMarked' = FALSE
  /\ ended' = "no" /\ after' = 0
  /\ UNCHANGED <<queueVars, decodeActive, decoderState, workerVars, lifecycle, session>>

ResetClearStreamed ==
  /\ cpc = "clear_streamed"
  /\ streamed' = <<>> /\ streamedState' = "Open"
  /\ cpc' = "clear_decoded"
  /\ UNCHANGED <<decoded, decodedState, flagVars, decoderState, workerVars,
                 lifecycle, session, next, target, eosMarked, endVars>>

KeepDecoded == UNCHANGED <<decoded, decodedState>>  \* mutant: queue not cleared
ClearDecoded == decoded' = <<>> /\ decodedState' = "Open"

ResetClearDecoded ==
  /\ cpc = "clear_decoded"
  /\ ClearDecoded
  /\ cpc' = "idle"
  /\ UNCHANGED <<streamed, streamedState, flagVars, decoderState, workerVars,
                 lifecycle, session, next, target, eosMarked, endVars>>

\* stop_decoding(), called by stop() or by destroy(); join is the next action.
Stop(then) ==
  /\ cpc = "idle"
  /\ \/ then = "join_stop" /\ lifecycle = "started"
     \/ then = "join_close" /\ lifecycle # "closed"
  /\ decoderState' = "STOP"
  /\ cpc' = then
  /\ UNCHANGED <<queueVars, flagVars, workerVars, lifecycle, session, next,
                 target, eosMarked, endVars>>

\* m_decode_thread.join() returns; destroy() then empties both queues.
Joined ==
  /\ cpc \in {"join_stop", "join_close"} /\ wpc = "off"
  /\ cpc' = "idle"
  /\ IF cpc = "join_close"
     THEN /\ streamed' = <<>> /\ streamedState' = "Open"
          /\ decoded' = <<>> /\ decodedState' = "Open"
          /\ decoderState' = "UNINITIALIZED"
          /\ lifecycle' = "closed"
     ELSE /\ lifecycle' = "open"
          /\ UNCHANGED <<queueVars, decoderState>>
  /\ UNCHANGED <<flagVars, workerVars, session, next, target, eosMarked, endVars>>

-----------------------------------------------------------------------------
(* The worker thread.                                                      *)

\* An assignment of the thread body to m_decoder_state.
WorkerStore ==
  /\ wpc = "store"
  /\ decoderState' = store
  /\ wpc' = "test"
  /\ UNCHANGED <<queueVars, flagVars, topology, job, store, callerVars, endVars>>

\* The loop condition and the switch on m_decoder_state.
WorkerTest ==
  /\ wpc = "test"
  /\ wpc' = CASE decoderState = "STOP" -> "off"
              [] decoderState = "DECODING" -> "pop"
              [] decoderState = "DECODE_EOF" -> "store"
              [] OTHER -> "test"
  /\ store' = "DECODING"
  /\ UNCHANGED <<queueVars, flagVars, decoderState, topology, job, callerVars, endVars>>

\* is_buffer_blocked().
FullPastCapacity == Len(decoded) > DecodedCapacity  \* mutant: off by one
DecodedFull == Len(decoded) >= DecodedCapacity

\* Where the worker goes on after it found nothing to take.
LeavesWhenIdle == "off"                           \* mutant: return false
AfterIdle == "test"

\* is_buffer_blocked() and the pop.  One action: between the two only the
\* caller can touch m_decoded_meshes, and it only shortens it.
WorkerPop ==
  /\ wpc = "pop"
  /\ IF DecodedFull \/ streamed = <<>>
     THEN /\ wpc' = AfterIdle
          /\ UNCHANGED <<streamed, job>>
     ELSE /\ job' = Head(streamed)
          /\ streamed' = Tail(streamed)
          /\ wpc' = "mark"
  /\ UNCHANGED <<streamedState, decoded, decodedState, flagVars, decoderState,
                 topology, store, callerVars, endVars>>

NeverActive == FALSE                              \* mutant: flag not raised
Active == TRUE

WorkerMark ==
  /\ wpc = "mark"
  /\ decodeActive' = Active
  /\ wpc' = "work"
  /\ UNCHANGED <<queueVars, generation, eosGeneration, decoderState, topology,
                 job, store, callerVars, endVars>>

KeyframeMatches == topology.key = KeyOf[job.frame]  \* mutant: no generation test

\* A position update is applied only to a topology of its own generation and
\* window (the code also compares the counts, which the window determines).
TopologyMatches == topology.gen = job.gen /\ topology.key = KeyOf[job.frame]

\* The three outcomes of decoding: a mesh; an update without its topology,
\* dropped with the cache kept; a rejected payload, dropped with it cleared.
WorkerDecode ==
  /\ wpc = "work"
  /\ \/ /\ job.frame \notin Corrupt /\ (Independent(job.frame) \/ TopologyMatches)
        /\ topology' = IF Independent(job.frame)
                       THEN [session |-> job.session, gen |-> job.gen, key |-> job.frame]
                       ELSE topology
        /\ wpc' = "check"
        /\ UNCHANGED decodeActive
     \/ /\ ~Independent(job.frame) /\ ~TopologyMatches
        /\ decodeActive' = FALSE
        /\ wpc' = "test"
        /\ UNCHANGED topology
     \/ /\ job.frame \in Corrupt /\ (Independent(job.frame) \/ TopologyMatches)
        /\ decodeActive' = FALSE
        /\ topology' = NoTopology
        /\ wpc' = "test"
  /\ UNCHANGED <<queueVars, generation, eosGeneration, decoderState, job, store,
                 callerVars, endVars>>

\* A sample of an earlier generation is discarded...
WorkerCheckGeneration ==
  /\ wpc = "check"
  /\ IF job.gen # generation
     THEN decodeActive' = FALSE /\ wpc' = "test"
     ELSE wpc' = "push" /\ UNCHANGED decodeActive
  /\ UNCHANGED <<queueVars, generation, eosGeneration, decoderState, topology,
                 job, store, callerVars, endVars>>

\* ...but the append that follows is a critical section of its own.
WorkerPush ==
  /\ wpc = "push"
  /\ IF decodedState = "Open" /\ Len(decoded) < DecodedCapacity
     THEN /\ decoded' = Append(decoded,
                [session |-> job.session, gen |-> job.gen, frame |-> job.frame,
                 base |-> topology])
          /\ after' = IF ended = "no" THEN after ELSE after + 1
          /\ wpc' = "finish"
          /\ UNCHANGED <<decodedState, decodeActive, store>>
     ELSE /\ decodedState' = "Error" /\ decodeActive' = FALSE
          /\ store' = "DECODE_EOF" /\ wpc' = "store"
          /\ UNCHANGED <<decoded, after>>
  /\ UNCHANGED <<streamed, streamedState, generation, eosGeneration,
                 decoderState, topology, job, callerVars, ended>>

WorkerFinish ==
  /\ wpc = "finish"
  /\ decodeActive' = FALSE
  /\ wpc' = "test"
  /\ UNCHANGED <<queueVars, generation, eosGeneration, decoderState, topology,
                 job, store, callerVars, endVars>>

-----------------------------------------------------------------------------

Worker ==
  \/ WorkerStore \/ WorkerTest \/ WorkerPop \/ WorkerMark
  \/ WorkerDecode \/ WorkerCheckGeneration \/ WorkerPush \/ WorkerFinish

Reset == ResetClearStreamed \/ ResetClearDecoded

Next ==
  \/ Open \/ Start \/ Submit \/ MarkEndOfStream
  \/ \E t \in Frame : Match(t)
  \/ \E f \in Frame : ResetStore(f)
  \/ Reset
  \/ \E then \in {"join_stop", "join_close"} : Stop(then)
  \/ Joined
  \/ Worker

Spec == Init /\ [][Next]_vars

\* The worker and the second half of a call that has begun are scheduled; no
\* caller is obliged to begin a call.
FairSpec == Spec /\ WF_vars(Worker) /\ WF_vars(Reset) /\ WF_vars(Joined)

-----------------------------------------------------------------------------
(* Properties.                                                             *)

\* Backpressure is complete: neither queue is ever driven into its terminal
\* Error state, because the only producer of each tests for room first and
\* every other thread can only make room (can_accept_encoded_frame, is_buffer_
\* blocked against try_push).
QueuesNeverFail == streamedState = "Open" /\ decodedState = "Open"

\* A decoded mesh was built on the keyframe of its own window, demuxed in its
\* own generation from its own file, with no rejected sample of the window up
\* to it: what the topology cache, its generation test and its clearing after
\* a corrupt sample are for.  The cache survives close and reopen.
BuiltOnOwnWindow ==
  \A i \in 1 .. Len(decoded) :
    LET m == decoded[i]
    IN  /\ m.base = [session |-> m.session, gen |-> m.gen, key |-> KeyOf[m.frame]]
        /\ \A g \in Corrupt : ~(KeyOf[g] = KeyOf[m.frame] /\ g <= m.frame)

\* Samples in flight, oldest first: decoded, the one the worker holds, waiting.
HeldSample == IF wpc \in {"mark", "work", "check", "push"} THEN <<job>> ELSE <<>>
InFlight ==
  [i \in 1 .. Len(decoded) |->
     [session |-> decoded[i].session, gen |-> decoded[i].gen, frame |-> decoded[i].frame]]
  \o HeldSample \o streamed

Precedes(a, b) == a.gen < b.gen \/ (a.gen = b.gen /\ a.frame < b.frame)

\* Whatever resets fall between, samples stay in presentation order through
\* both queues and the worker: the matcher may treat a later front mesh as
\* proof that an earlier one will not come.
InFlightInOrder ==
  \A i, j \in 1 .. Len(InFlight) : i < j => Precedes(InFlight[i], InFlight[j])

\* What the generation test does achieve: once a reset has returned, at most
\* one mesh of an earlier generation is in the decoded queue or about to be,
\* and it is at the front.
AtMostOneLateMesh ==
  cpc \notin {"clear_streamed", "clear_decoded"} =>
    \A i \in 1 .. Len(decoded) :
      decoded[i].gen # generation =>
        i = 1 /\ ~(wpc = "push" /\ job.gen # generation)

\* The end is final but for one mesh.  The matcher says "Missing" on three reads,
\* of the mark, of the input queue and of m_decode_active, while the worker moves
\* the last samples from one to the other: once it has said so of a file whose end
\* was marked, a mesh may still come only if the worker had popped it and not yet
\* raised m_decode_active, and it is the only one.
OneMeshPastEnd == ended # "no" => after <= IF ended = "held" THEN 1 ELSE 0

\* Compressed samples do not stall: while the player runs, a waiting sample is
\* taken unless the decoded queue is full, whatever was corrupt before it.
StreamedDrains ==
  (lifecycle = "started" /\ streamed # <<>>) ~>
    (streamed = <<>> \/ Len(decoded) = DecodedCapacity \/ cpc # "idle")

\* docs/CORE.md: a Draco result that completed during a reset is discarded
\* instead of appearing in the next loop.
NoMeshOfEarlierGeneration ==
  cpc = "idle" => \A i \in 1 .. Len(decoded) : decoded[i].gen = generation

\* IDecoder::stop_decoding: requests termination and waits until the worker no
\* longer touches state; so the call returns.
StopReturns == (cpc \in {"join_stop", "join_close"}) ~> (cpc = "idle")

\* IGeometryDecoder::init clears previous state: a file just opened has not
\* ended before its own end-of-stream is marked.
FreshFileNotEnded ==
  (lifecycle = "started" /\ cpc = "idle" /\ eosGeneration = generation) => eosMarked
=============================================================================
