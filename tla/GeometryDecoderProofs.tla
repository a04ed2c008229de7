------------------------ MODULE GeometryDecoderProofs ------------------------
(***************************************************************************)
(* Proofs about GeometryDecoder for every stream, capacity and bound.      *)
(***************************************************************************)
EXTENDS GeometryDecoder, SequenceTheorems, TLAPS

\* The worker is between taking a sample and appending its mesh.
Holding == wpc \in {"mark", "work", "check", "push"}

\* A caller is inside reset().
Resetting == cpc \in {"clear_streamed", "clear_decoded"}

-----------------------------------------------------------------------------
(* Sequences.                                                              *)

\* What is left of a queue when its first k items are dropped.
LEMMA DropFront ==
  ASSUME NEW S, NEW q \in Seq(S), NEW k \in 0 .. Len(q)
  PROVE  /\ SubSeq(q, k + 1, Len(q)) \in Seq(S)
         /\ Len(SubSeq(q, k + 1, Len(q))) = Len(q) - k
         /\ \A i \in 1 .. Len(q) - k : SubSeq(q, k + 1, Len(q))[i] = q[i + k]
<1>1. Len(q) \in Nat
  BY LenProperties
<1>2. \A i \in k + 1 .. Len(q) : q[i] \in S
  BY <1>1, ElementOfSeq
<1>3. k + 1 \in Int /\ Len(q) \in Int
  BY <1>1
<1> QED
  BY <1>1, <1>2, <1>3, SubSeqProperties

\* The sample that a worker takes from a non-empty queue, and what it leaves.
LEMMA TakeFront ==
  ASSUME NEW S, NEW q \in Seq(S), q # <<>>
  PROVE  /\ Head(q) \in S /\ Head(q) = q[1]
         /\ Tail(q) \in Seq(S)
         /\ Len(Tail(q)) = Len(q) - 1
         /\ \A i \in 1 .. Len(q) - 1 : Tail(q)[i] = q[i + 1]
BY HeadTailProperties

\* An item is appended at the end and leaves the others in place.
LEMMA AppendBack ==
  ASSUME NEW S, NEW q \in Seq(S), NEW x \in S
  PROVE  /\ Append(q, x) \in Seq(S)
         /\ Len(Append(q, x)) = Len(q) + 1
         /\ \A i \in 1 .. Len(q) : Append(q, x)[i] = q[i]
         /\ Append(q, x)[Len(q) + 1] = x
BY AppendProperties

\* A sequence made of three: what stands where.
LEMMA ThreeParts ==
  ASSUME NEW S, NEW a \in Seq(S), NEW b \in Seq(S), NEW c \in Seq(S)
  PROVE  /\ \A n \in 1 .. Len(a \o b \o c) :
              n \in 1 .. Len(a) \/ n - Len(a) \in 1 .. Len(b)
                \/ n - (Len(a) + Len(b)) \in 1 .. Len(c)
         /\ \A n \in 1 .. Len(a) : (a \o b \o c)[n] = a[n]
         /\ \A n \in 1 .. Len(b) : (a \o b \o c)[Len(a) + n] = b[n]
         /\ \A n \in 1 .. Len(c) : (a \o b \o c)[Len(a) + Len(b) + n] = c[n]
<1>1. Len(a) \in Nat /\ Len(b) \in Nat /\ Len(c) \in Nat
  BY LenProperties
<1>2. /\ a \o b \in Seq(S) /\ Len(a \o b) = Len(a) + Len(b)
      /\ \A i \in 1 .. Len(a) + Len(b) :
           (a \o b)[i] = IF i <= Len(a) THEN a[i] ELSE b[i - Len(a)]
  BY ConcatProperties
<1>3. /\ Len(a \o b \o c) = Len(a) + Len(b) + Len(c)
      /\ \A i \in 1 .. Len(a) + Len(b) + Len(c) :
           (a \o b \o c)[i] = IF i <= Len(a) + Len(b) THEN (a \o b)[i]
                              ELSE c[i - (Len(a) + Len(b))]
  BY <1>2, ConcatProperties
<1> QED
  BY <1>1, <1>2, <1>3

-----------------------------------------------------------------------------
(* Type correctness.                                                       *)

\* What the worker holds is a sample.
HoldsSample == Holding => job \in Encoded

TypeInv == TypeOK /\ HoldsSample

\* The constants' bounds, as the provers want them.
LEMMA Bounds ==
  /\ LastFrame \in Nat /\ LastFrame >= 1 /\ 1 \in Frame
  /\ MaxGeneration \in Nat /\ MaxSession \in Nat
  /\ StreamedCapacity \in Nat /\ DecodedCapacity \in Nat
  /\ Generation \subseteq Nat /\ Session \subseteq Nat /\ Frame \subseteq Nat
  /\ KeyOf \in [Frame -> Frame]
BY StreamAssumption, BoundsAssumption DEF Frame, Generation, Session

LEMMA TypeInit == Init => TypeInv
<1> SUFFICES ASSUME Init PROVE TypeInv
  OBVIOUS
<1> USE Bounds DEF Init
<1>1. streamed \in Seq(Encoded) /\ decoded \in Seq(DecodedMesh)
  BY EmptySeq
<1>2. generation \in Generation /\ session \in Session /\ target \in Frame /\ next \in 1 .. LastFrame + 1
  BY DEF Generation, Session
<1>3. topology \in Topology
  BY DEF NoTopology, Topology, Generation, Session
<1>4. eosGeneration \in Generation \cup {NoGeneration}
  OBVIOUS
<1> QED
  BY <1>1, <1>2, <1>3, <1>4 DEF TypeInv, TypeOK, HoldsSample, Holding, NoJob

\* get_mesh_data() only ever drops a prefix of the decoded queue.
LEMMA MatchDrops ==
  ASSUME TypeInv, NEW t \in Frame, Match(t)
  PROVE  \E k \in 0 .. Len(decoded) : decoded' = SubSeq(decoded, k + 1, Len(decoded))
<1> DEFINE Ready(n) == n < Len(decoded) /\ decoded[n + 1].frame = t
<1>1. PICK n \in 0 .. Len(decoded) :
        \E taken \in IF Ready(n) THEN {n, n + 1} ELSE {n} :
          decoded' = SubSeq(decoded, taken + 1, Len(decoded))
  BY DEF Match
<1>2. PICK taken \in IF Ready(n) THEN {n, n + 1} ELSE {n} :
        decoded' = SubSeq(decoded, taken + 1, Len(decoded))
  BY <1>1
<1>3. taken \in 0 .. Len(decoded)
  BY <1>2, LenProperties DEF TypeInv, TypeOK
<1> QED
  BY <1>2, <1>3

\* Every step preserves the types and the worker's hold on a sample.
LEMMA TypeStep == TypeInv /\ [Next]_vars => TypeInv'
<1> SUFFICES ASSUME TypeInv, [Next]_vars PROVE TypeInv'
  OBVIOUS
<1> USE Bounds DEF TypeInv, TypeOK, HoldsSample, Holding, endVars
<1>0. <<>> \in Seq(Encoded) /\ <<>> \in Seq(DecodedMesh)
  BY EmptySeq
<1>1. CASE Open
  <2>1. streamed' \in Seq(Encoded) /\ decoded' \in Seq(DecodedMesh)
    BY <1>0, <1>1 DEF Open
  <2>2. session' \in Session /\ next' \in 1 .. LastFrame + 1 /\ target' \in Frame
    BY <1>1 DEF Open, Session
  <2>3. HoldsSample'
    BY <1>1 DEF Open, workerVars
  <2> QED
    BY <1>1, <2>1, <2>2, <2>3 DEF Open, flagVars, workerVars
<1>2. CASE Start
  BY <1>2 DEF Start, queueVars, flagVars
<1>3. CASE Submit
  <2>1. streamed' \in Seq(Encoded)
    <3>1. next \in Frame
      BY <1>3 DEF Submit, Frame
    <3>2. [session |-> session, gen |-> generation, frame |-> next] \in Encoded
      BY <3>1 DEF Encoded
    <3>3. Append(streamed, [session |-> session, gen |-> generation, frame |-> next])
            \in Seq(Encoded)
      BY <3>2, AppendBack
    <3> QED
      BY <1>3, <3>3 DEF Submit
  <2>2. next' \in 1 .. LastFrame + 1
    BY <1>3 DEF Submit
  <2>3. HoldsSample'
    BY <1>3 DEF Submit, workerVars
  <2> QED
    BY <1>3, <2>1, <2>2, <2>3 DEF Submit, flagVars, workerVars
<1>4. CASE MarkEndOfStream
  BY <1>4 DEF MarkEndOfStream, queueVars, workerVars
<1>5. ASSUME NEW t \in Frame, Match(t) PROVE TypeInv'
  <2>1. decoded' \in Seq(DecodedMesh)
    <3>1. PICK k \in 0 .. Len(decoded) : decoded' = SubSeq(decoded, k + 1, Len(decoded))
      BY <1>5, MatchDrops
    <3> QED
      BY <3>1, DropFront
  <2>2. HoldsSample'
    BY <1>5 DEF Match, workerVars
  <2>3. ended' \in {"no", "held", "drained"} /\ after' \in Nat
    BY <1>5 DEF Match
  <2> QED
    BY <1>5, <2>1, <2>2, <2>3 DEF Match, flagVars, workerVars
<1>6. ASSUME NEW f \in Frame, ResetStore(f) PROVE TypeInv'
  <2>1. generation' \in Generation /\ next' \in 1 .. LastFrame + 1
    BY <1>6 DEF ResetStore, NextGeneration, Generation, Frame
  <2>2. HoldsSample'
    BY <1>6 DEF ResetStore, workerVars
  <2>3. eosGeneration' = NoGeneration /\ cpc' = "clear_streamed" /\ eosMarked' \in BOOLEAN
        /\ target' \in Frame
    BY <1>6 DEF ResetStore
  <2> QED
    BY <1>6, <2>1, <2>2, <2>3 DEF ResetStore, queueVars, workerVars
<1>7. CASE ResetClearStreamed
  BY <1>0, <1>7 DEF ResetClearStreamed, flagVars, workerVars
<1>8. CASE ResetClearDecoded
  BY <1>0, <1>8 DEF ResetClearDecoded, ClearDecoded, flagVars, workerVars
<1>9. ASSUME NEW then \in {"join_stop", "join_close"}, Stop(then) PROVE TypeInv'
  BY <1>9 DEF Stop, queueVars, flagVars, workerVars
<1>10. CASE Joined
  <2>1. CASE cpc = "join_close"
    BY <1>0, <1>10, <2>1 DEF Joined, flagVars, workerVars
  <2>2. CASE cpc # "join_close"
    BY <1>10, <2>2 DEF Joined, queueVars, flagVars, workerVars
  <2> QED
    BY <2>1, <2>2
<1>11. CASE WorkerStore
  BY <1>11 DEF WorkerStore, queueVars, flagVars, callerVars
<1>12. CASE WorkerTest
  BY <1>12 DEF WorkerTest, queueVars, flagVars, callerVars
<1>13. CASE WorkerPop
  <2>1. CASE DecodedFull \/ streamed = <<>>
    BY <1>13, <2>1 DEF WorkerPop, AfterIdle, flagVars, callerVars
  <2>2. CASE ~(DecodedFull \/ streamed = <<>>)
    <3>1. job' \in Encoded /\ streamed' \in Seq(Encoded)
      BY <1>13, <2>2, TakeFront DEF WorkerPop
    <3> QED
      BY <1>13, <2>2, <3>1 DEF WorkerPop, flagVars, callerVars
  <2> QED
    BY <2>1, <2>2
<1>14. CASE WorkerMark
  BY <1>14 DEF WorkerMark, Active, queueVars, callerVars
<1>15. CASE WorkerDecode
  <2>1. topology' \in Topology
    <3>1. job \in Encoded
      BY <1>15 DEF WorkerDecode
    <3>2. [session |-> job.session, gen |-> job.gen, key |-> job.frame] \in Topology
      BY <3>1 DEF Encoded, Topology, Frame
    <3>3. NoTopology \in Topology
      BY DEF NoTopology, Topology, Session, Generation
    <3> QED
      BY <1>15, <3>2, <3>3 DEF WorkerDecode
  <2>2. wpc' \in {"check", "test"} /\ decodeActive' \in BOOLEAN /\ job' = job /\ HoldsSample'
    BY <1>15 DEF WorkerDecode
  <2> QED
    BY <1>15, <2>1, <2>2 DEF WorkerDecode, queueVars, callerVars
<1>16. CASE WorkerCheckGeneration
  <2>1. wpc' \in {"push", "test"} /\ decodeActive' \in BOOLEAN /\ job' = job /\ HoldsSample'
    BY <1>16 DEF WorkerCheckGeneration
  <2> QED
    BY <1>16, <2>1 DEF WorkerCheckGeneration, queueVars, callerVars
<1>17. CASE WorkerPush
  <2>1. decoded' \in Seq(DecodedMesh)
    <3>1. [session |-> job.session, gen |-> job.gen, frame |-> job.frame, base |-> topology]
            \in DecodedMesh
      BY <1>17 DEF WorkerPush, Encoded, DecodedMesh
    <3>2. Append(decoded, [session |-> job.session, gen |-> job.gen, frame |-> job.frame,
                           base |-> topology]) \in Seq(DecodedMesh)
      BY <3>1, AppendBack
    <3> QED
      BY <1>17, <3>2 DEF WorkerPush
  <2>2. wpc' \in {"finish", "store"} /\ decodedState' \in {"Open", "Error"}
        /\ decodeActive' \in BOOLEAN /\ store' \in {"DECODING", "DECODE_EOF"}
    BY <1>17 DEF WorkerPush
  <2>3. ended' = ended /\ after' \in Nat
    <3>1. after' \in {after, after + 1} /\ ended' = ended
      BY <1>17 DEF WorkerPush
    <3> QED
      BY <3>1
  <2> QED
    BY <1>17, <2>1, <2>2, <2>3 DEF WorkerPush, callerVars
<1>18. CASE WorkerFinish
  <2>1. wpc' = "test" /\ decodeActive' \in BOOLEAN /\ job' = job /\ HoldsSample'
    BY <1>18 DEF WorkerFinish
  <2> QED
    BY <1>18, <2>1 DEF WorkerFinish, queueVars, callerVars
<1>19. CASE UNCHANGED vars
  BY <1>19 DEF vars, queueVars, flagVars, workerVars, callerVars
<1> QED
  BY <1>1, <1>2, <1>3, <1>4, <1>5, <1>6, <1>7, <1>8, <1>9, <1>10, <1>11, <1>12,
     <1>13, <1>14, <1>15, <1>16, <1>17, <1>18, <1>19
     DEF Next, Reset, Worker

\* The variables keep their types whatever the stream, the capacities and the
\* order of the threads' steps.
THEOREM TypeCorrect == Spec => []TypeOK
<1>1. TypeInv => TypeOK
  BY DEF TypeInv
<1> QED
  BY <1>1, TypeInit, TypeStep, PTL DEF Spec

-----------------------------------------------------------------------------
(* The worker and the host agree on who runs.                              *)

\* There is a worker only while the host has the decoder started, the flag of
\* get_mesh_data() tells what the worker does, and the end of the stream is
\* marked after its last sample.
ThreadsInv ==
  /\ lifecycle # "started" => wpc = "off"
  /\ decodeActive => wpc \in {"work", "check", "push", "finish"}
  /\ wpc \in {"work", "check", "push"} => decodeActive
  /\ eosMarked => next = LastFrame + 1

LEMMA ThreadsStep == TypeInv /\ ThreadsInv /\ [Next]_vars => ThreadsInv'
<1> SUFFICES ASSUME TypeInv, ThreadsInv, [Next]_vars PROVE ThreadsInv'
  OBVIOUS
<1> USE DEF ThreadsInv
<1>1. CASE Open \/ Start \/ MarkEndOfStream
  BY <1>1 DEF Open, Start, MarkEndOfStream, flagVars, workerVars
<1>2. CASE Submit
  <2>1. ~eosMarked
    BY <1>2, Bounds DEF Submit, TypeInv, TypeOK
  <2> QED
    BY <1>2, <2>1 DEF Submit, flagVars, workerVars
<1>3. ASSUME NEW t \in Frame, Match(t) PROVE ThreadsInv'
  BY <1>3 DEF Match, flagVars, workerVars
<1>4. ASSUME NEW f \in Frame, ResetStore(f) PROVE ThreadsInv'
  BY <1>4 DEF ResetStore, workerVars
<1>5. CASE Reset
  BY <1>5 DEF Reset, ResetClearStreamed, ResetClearDecoded, flagVars, workerVars
<1>6. ASSUME NEW then \in {"join_stop", "join_close"}, Stop(then) PROVE ThreadsInv'
  BY <1>6 DEF Stop, flagVars, workerVars
<1>7. CASE Joined
  BY <1>7 DEF Joined, flagVars, workerVars
<1>8. CASE WorkerStore \/ WorkerTest
  BY <1>8 DEF WorkerStore, WorkerTest, flagVars, callerVars
<1>9. CASE WorkerPop
  BY <1>9 DEF WorkerPop, AfterIdle, flagVars, callerVars
<1>10. CASE WorkerMark \/ WorkerFinish
  BY <1>10 DEF WorkerMark, WorkerFinish, Active, callerVars
<1>11. CASE WorkerDecode
  BY <1>11 DEF WorkerDecode, callerVars
<1>12. CASE WorkerCheckGeneration \/ WorkerPush
  BY <1>12 DEF WorkerCheckGeneration, WorkerPush, callerVars
<1>13. CASE UNCHANGED vars
  BY <1>13 DEF vars, flagVars, workerVars, callerVars
<1> QED
  BY <1>1, <1>2, <1>3, <1>4, <1>5, <1>6, <1>7, <1>8, <1>9, <1>10, <1>11, <1>12, <1>13
     DEF Next, Worker

\* Once the end has been heard nothing is left to submit or to take, and of the
\* meshes only the one that the worker then held can still come.
EndInv ==
  /\ ended = "no" => after = 0
  /\ ended # "no" => streamed = <<>> /\ next = LastFrame + 1
  /\ ended = "drained" => ~Holding /\ after = 0
  /\ ended = "held" => after <= 1 /\ (Holding => after = 0)

\* A match hears the end only of an empty input queue, and of a worker that holds
\* a sample only where it has not raised the flag yet.
LEMMA EndIsHeard ==
  ASSUME TypeInv, ThreadsInv, EndInv, NEW t \in Frame, Match(t)
  PROVE  EndInv'
<1>1. /\ ended' \in {ended} \cup (IF HearsEnd THEN {IF wpc = "mark" THEN "held" ELSE "drained"} ELSE {})
      /\ after' = after /\ streamed' = streamed /\ next' = next /\ wpc' = wpc
  BY DEF Match, workerVars
<1>2. CASE ended' = ended
  BY <1>1, <1>2 DEF EndInv, Holding
<1>3. CASE ended' # ended
  <2>1. HearsEnd /\ ended' = IF wpc = "mark" THEN "held" ELSE "drained"
    BY <1>1, <1>3
  <2>2. after = 0 /\ streamed = <<>> /\ next = LastFrame + 1 /\ (Holding => wpc = "mark")
    BY <2>1 DEF HearsEnd, SaysNoMoreMeshes, ThreadsInv, EndInv, Holding
  <2> QED
    BY <1>1, <2>1, <2>2 DEF EndInv, Holding
<1> QED
  BY <1>2, <1>3

LEMMA EndStep == TypeInv /\ ThreadsInv /\ EndInv /\ [Next]_vars => EndInv'
<1> SUFFICES ASSUME TypeInv, ThreadsInv, EndInv, [Next]_vars PROVE EndInv'
  OBVIOUS
<1> USE DEF EndInv, Holding, endVars
<1>1. CASE Open
  BY <1>1 DEF Open
<1>2. CASE Start \/ MarkEndOfStream
  BY <1>2 DEF Start, MarkEndOfStream, queueVars, workerVars, ThreadsInv
<1>3. CASE Submit
  BY <1>3, Bounds DEF Submit, workerVars, TypeInv, TypeOK
<1>4. ASSUME NEW t \in Frame, Match(t) PROVE EndInv'
  BY <1>4, EndIsHeard
<1>5. ASSUME NEW f \in Frame, ResetStore(f) PROVE EndInv'
  BY <1>5 DEF ResetStore
<1>6. CASE Reset
  BY <1>6 DEF Reset, ResetClearStreamed, ResetClearDecoded, workerVars
<1>7. ASSUME NEW then \in {"join_stop", "join_close"}, Stop(then) PROVE EndInv'
  BY <1>7 DEF Stop, queueVars, workerVars
<1>8. CASE Joined
  BY <1>8 DEF Joined, queueVars, workerVars
<1>9. CASE WorkerStore \/ WorkerTest
  BY <1>9 DEF WorkerStore, WorkerTest, queueVars, callerVars
<1>10. CASE WorkerPop
  BY <1>10 DEF WorkerPop, AfterIdle, callerVars
<1>11. CASE WorkerMark \/ WorkerFinish
  BY <1>11 DEF WorkerMark, WorkerFinish, queueVars, callerVars
<1>12. CASE WorkerDecode
  BY <1>12 DEF WorkerDecode, queueVars, callerVars
<1>13. CASE WorkerCheckGeneration
  BY <1>13 DEF WorkerCheckGeneration, queueVars, callerVars
<1>14. CASE WorkerPush
  BY <1>14 DEF WorkerPush, callerVars, TypeInv, TypeOK
<1>15. CASE UNCHANGED vars
  BY <1>15 DEF vars, queueVars, workerVars, callerVars
<1> QED
  BY <1>1, <1>2, <1>3, <1>4, <1>5, <1>6, <1>7, <1>8, <1>9, <1>10, <1>11, <1>12, <1>13,
     <1>14, <1>15
     DEF Next, Worker

\* After get_mesh_data() has said of a marked file that no mesh will come, none
\* comes, but for one that the worker had taken and not yet marked.
THEOREM EndIsFinal == Spec => []OneMeshPastEnd
<1>1. Init => TypeInv /\ ThreadsInv /\ EndInv
  BY TypeInit DEF Init, ThreadsInv, EndInv
<1>2. TypeInv /\ EndInv => OneMeshPastEnd
  BY DEF TypeInv, TypeOK, EndInv, OneMeshPastEnd
<1> QED
  BY <1>1, <1>2, TypeStep, ThreadsStep, EndStep, PTL DEF Spec

-----------------------------------------------------------------------------
(* Backpressure.                                                           *)

\* The room that the worker found before it took a sample is still there when
\* it appends the mesh.
RoomInv ==
  /\ QueuesNeverFail
  /\ Holding => Len(decoded) < DecodedCapacity

LEMMA RoomStep == TypeInv /\ RoomInv /\ [Next]_vars => RoomInv'
<1> SUFFICES ASSUME TypeInv, RoomInv, [Next]_vars PROVE RoomInv'
  OBVIOUS
<1> USE DEF RoomInv, QueuesNeverFail, Holding
<1>0. Len(decoded) \in Nat /\ Len(<<>>) = 0
  BY LenProperties DEF TypeInv, TypeOK
<1>1. CASE Open
  BY <1>0, <1>1, Bounds, BoundsAssumption DEF Open, workerVars
<1>2. CASE Start \/ MarkEndOfStream
  BY <1>2 DEF Start, MarkEndOfStream, queueVars, workerVars
<1>3. CASE Submit
  BY <1>3 DEF Submit, CanAccept, workerVars
<1>4. ASSUME NEW t \in Frame, Match(t) PROVE RoomInv'
  <2>1. PICK k \in 0 .. Len(decoded) : decoded' = SubSeq(decoded, k + 1, Len(decoded))
    BY <1>4, MatchDrops
  <2>2. Len(decoded') <= Len(decoded)
    BY <1>0, <2>1, DropFront DEF TypeInv, TypeOK
  <2>3. Len(decoded') \in Nat
    BY <1>0, <2>1, DropFront, LenProperties DEF TypeInv, TypeOK
  <2> QED
    BY <1>0, <1>4, <2>2, <2>3, Bounds DEF Match, workerVars
<1>5. ASSUME NEW f \in Frame, ResetStore(f) PROVE RoomInv'
  BY <1>5 DEF ResetStore, queueVars, workerVars
<1>6. CASE ResetClearStreamed
  BY <1>6 DEF ResetClearStreamed, workerVars
<1>7. CASE ResetClearDecoded
  BY <1>0, <1>7, BoundsAssumption DEF ResetClearDecoded, ClearDecoded, workerVars
<1>8. ASSUME NEW then \in {"join_stop", "join_close"}, Stop(then) PROVE RoomInv'
  BY <1>8 DEF Stop, queueVars, workerVars
<1>9. CASE Joined
  BY <1>0, <1>9, BoundsAssumption DEF Joined, queueVars, workerVars
<1>10. CASE WorkerStore \/ WorkerTest \/ WorkerMark \/ WorkerFinish
  BY <1>10 DEF WorkerStore, WorkerTest, WorkerMark, WorkerFinish, queueVars
<1>11. CASE WorkerPop
  BY <1>0, <1>11, Bounds DEF WorkerPop, DecodedFull, AfterIdle
<1>12. CASE WorkerDecode \/ WorkerCheckGeneration
  BY <1>12 DEF WorkerDecode, WorkerCheckGeneration, queueVars
<1>13. CASE WorkerPush
  BY <1>13 DEF WorkerPush
<1>14. CASE UNCHANGED vars
  BY <1>14 DEF vars, queueVars, workerVars
<1> QED
  BY <1>1, <1>2, <1>3, <1>4, <1>5, <1>6, <1>7, <1>8, <1>9, <1>10, <1>11, <1>12,
     <1>13, <1>14
     DEF Next, Reset, Worker

\* Neither queue is ever driven into its terminal Error state: the worker's
\* and the caller's tests for room hold until they append.
THEOREM QueuesStayOpen == Spec => []QueuesNeverFail
<1>1. Init => TypeInv /\ RoomInv
  BY TypeInit DEF Init, RoomInv, QueuesNeverFail, Holding
<1>2. RoomInv => QueuesNeverFail
  BY DEF RoomInv
<1> QED
  BY <1>1, <1>2, TypeStep, RoomStep, PTL DEF Spec

-----------------------------------------------------------------------------
(* Meshes of an earlier generation.                                        *)

\* Outside reset() only the front mesh can be of an earlier generation; and a
\* worker that passed the generation test before the reset finds the queue
\* that the reset emptied still empty, since nobody else appends.
LateInv ==
  ~Resetting =>
    /\ \A i \in 2 .. Len(decoded) : decoded[i].gen = generation
    /\ (wpc = "push" /\ job.gen # generation) => decoded = <<>>

LEMMA LateStep == TypeInv /\ LateInv /\ [Next]_vars => LateInv'
<1> SUFFICES ASSUME TypeInv, LateInv, [Next]_vars PROVE LateInv'
  OBVIOUS
<1> USE DEF LateInv, Resetting
<1>0. decoded \in Seq(DecodedMesh) /\ Len(decoded) \in Nat /\ Len(<<>>) = 0
  BY LenProperties DEF TypeInv, TypeOK
<1>1. CASE Open
  BY <1>0, <1>1 DEF Open
<1>2. CASE Start \/ Submit \/ MarkEndOfStream
  BY <1>2 DEF Start, Submit, MarkEndOfStream, queueVars, flagVars, workerVars
<1>3. ASSUME NEW t \in Frame, Match(t) PROVE LateInv'
  <2>1. PICK k \in 0 .. Len(decoded) : decoded' = SubSeq(decoded, k + 1, Len(decoded))
    BY <1>3, MatchDrops
  <2>2. /\ decoded' \in Seq(DecodedMesh)
        /\ Len(decoded') = Len(decoded) - k
        /\ \A i \in 1 .. Len(decoded) - k : decoded'[i] = decoded[i + k]
    BY <1>0, <2>1, DropFront
  <2>3. generation' = generation /\ wpc' = wpc /\ job' = job /\ ~Resetting
    BY <1>3 DEF Match, flagVars, workerVars
  <2>4. \A i \in 2 .. Len(decoded') : i + k \in 2 .. Len(decoded) /\ decoded'[i] = decoded[i + k]
    BY <1>0, <2>2
  <2>5. decoded = <<>> => decoded' = <<>>
    BY <1>0, <2>2, EmptySeq
  <2> QED
    BY <2>3, <2>4, <2>5
<1>4. ASSUME NEW f \in Frame, ResetStore(f) PROVE LateInv'
  BY <1>4 DEF ResetStore
<1>5. CASE ResetClearStreamed
  BY <1>5 DEF ResetClearStreamed
<1>6. CASE ResetClearDecoded
  BY <1>0, <1>6 DEF ResetClearDecoded, ClearDecoded
<1>7. ASSUME NEW then \in {"join_stop", "join_close"}, Stop(then) PROVE LateInv'
  BY <1>7 DEF Stop, queueVars, flagVars, workerVars
<1>8. CASE Joined
  BY <1>0, <1>8 DEF Joined, queueVars, flagVars, workerVars
<1>9. CASE WorkerStore \/ WorkerTest \/ WorkerMark \/ WorkerFinish
  BY <1>9 DEF WorkerStore, WorkerTest, WorkerMark, WorkerFinish, queueVars, flagVars, callerVars
<1>10. CASE WorkerPop
  BY <1>10 DEF WorkerPop, AfterIdle, flagVars, callerVars
<1>11. CASE WorkerDecode
  BY <1>11 DEF WorkerDecode, queueVars, callerVars
<1>12. CASE WorkerCheckGeneration
  BY <1>12 DEF WorkerCheckGeneration, queueVars, callerVars
<1>13. CASE WorkerPush
  <2>1. CASE decoded' = decoded
    BY <1>13, <2>1 DEF WorkerPush, callerVars
  <2>2. CASE decoded' # decoded
    <3> DEFINE m == [session |-> job.session, gen |-> job.gen, frame |-> job.frame,
                     base |-> topology]
    <3>1. m \in DecodedMesh /\ m.gen = job.gen
      BY <1>13 DEF WorkerPush, TypeInv, TypeOK, HoldsSample, Holding, Encoded, DecodedMesh
    <3>2. decoded' = Append(decoded, m) /\ wpc' = "finish" /\ cpc' = cpc /\ generation' = generation
      BY <1>13, <2>2 DEF WorkerPush, callerVars
    <3>3. /\ Len(decoded') = Len(decoded) + 1
          /\ \A i \in 1 .. Len(decoded) : decoded'[i] = decoded[i]
          /\ decoded'[Len(decoded) + 1] = m
      BY <1>0, <3>1, <3>2, AppendBack
    <3>4. ASSUME ~Resetting, NEW i \in 2 .. Len(decoded') PROVE decoded'[i].gen = generation
      <4>1. CASE i \in 2 .. Len(decoded)
        BY <1>0, <3>3, <3>4, <4>1
      <4>2. CASE i = Len(decoded) + 1
        <5>1. decoded # <<>>
          BY <1>0, <4>2
        <5> QED
          BY <1>13, <3>1, <3>3, <3>4, <4>2, <5>1 DEF WorkerPush
      <4> QED
        BY <1>0, <3>3, <4>1, <4>2
    <3> QED
      BY <3>2, <3>4
  <2> QED
    BY <2>1, <2>2
<1>14. CASE UNCHANGED vars
  BY <1>14 DEF vars, queueVars, flagVars, workerVars, callerVars
<1> QED
  BY <1>1, <1>2, <1>3, <1>4, <1>5, <1>6, <1>7, <1>8, <1>9, <1>10, <1>11, <1>12,
     <1>13, <1>14
     DEF Next, Reset, Worker

\* Once a reset has returned, at most one mesh decoded before it is in the
\* decoded queue or about to be, and it is at the front.
THEOREM OneLateMesh == Spec => []AtMostOneLateMesh
<1>1. Init => TypeInv /\ LateInv
  <2> SUFFICES ASSUME Init PROVE TypeInv /\ LateInv
    OBVIOUS
  <2>1. TypeInv
    BY TypeInit
  <2>2. decoded = <<>> /\ Len(<<>>) = 0
    BY DEF Init
  <2> QED
    BY <2>1, <2>2 DEF LateInv
<1>2. TypeInv /\ LateInv => AtMostOneLateMesh
  <2> SUFFICES ASSUME TypeInv, LateInv, ~Resetting,
                      NEW i \in 1 .. Len(decoded), decoded[i].gen # generation
               PROVE  i = 1 /\ ~(wpc = "push" /\ job.gen # generation)
    BY DEF AtMostOneLateMesh, Resetting
  <2>1. Len(decoded) \in Nat /\ Len(<<>>) = 0
    BY LenProperties DEF TypeInv, TypeOK
  <2>2. i = 1
    BY <2>1 DEF LateInv
  <2>3. decoded # <<>>
    BY <2>1
  <2> QED
    BY <2>2, <2>3 DEF LateInv
<1> QED
  BY <1>1, <1>2, TypeStep, LateStep, PTL DEF Spec

-----------------------------------------------------------------------------
(* Presentation order.                                                     *)

\* The place in the timeline of the sample to be submitted next.
Upcoming == [gen |-> generation, frame |-> next]

\* In each queue, from each queue to the next, and up to what is still to be
\* submitted, samples ascend by generation and then by frame.
OrderInv ==
  /\ \A i, j \in 1 .. Len(decoded) : i < j => Precedes(decoded[i], decoded[j])
  /\ \A i, j \in 1 .. Len(streamed) : i < j => Precedes(streamed[i], streamed[j])
  /\ \A i \in 1 .. Len(decoded), j \in 1 .. Len(streamed) :
       Precedes(decoded[i], streamed[j])
  /\ Holding => /\ \A i \in 1 .. Len(decoded) : Precedes(decoded[i], job)
                /\ \A j \in 1 .. Len(streamed) : Precedes(job, streamed[j])
                /\ Precedes(job, Upcoming)
  /\ \A i \in 1 .. Len(decoded) : Precedes(decoded[i], Upcoming)
  /\ \A j \in 1 .. Len(streamed) : Precedes(streamed[j], Upcoming)

\* Generations and frame numbers are naturals.
LEMMA Numbers ==
  ASSUME TypeInv
  PROVE  /\ \A i \in 1 .. Len(decoded) :
              decoded[i].gen \in Nat /\ decoded[i].frame \in Nat
         /\ \A j \in 1 .. Len(streamed) :
              streamed[j].gen \in Nat /\ streamed[j].frame \in Nat
         /\ Holding => job.gen \in Nat /\ job.frame \in Nat
         /\ generation \in Nat /\ next \in Nat
<1>1. \A i \in 1 .. Len(decoded) : decoded[i] \in DecodedMesh
  BY ElementOfSeq DEF TypeInv, TypeOK
<1>2. \A j \in 1 .. Len(streamed) : streamed[j] \in Encoded
  BY ElementOfSeq DEF TypeInv, TypeOK
<1>3. Holding => job \in Encoded
  BY DEF TypeInv, HoldsSample
<1>4. generation \in Nat /\ next \in Nat
  BY Bounds DEF TypeInv, TypeOK
<1> QED
  BY <1>1, <1>2, <1>3, <1>4, Bounds DEF DecodedMesh, Encoded

\* Dropping the oldest meshes disturbs no order.
LEMMA DecodedShortens ==
  ASSUME TypeInv, OrderInv, NEW k \in 0 .. Len(decoded),
         decoded' = SubSeq(decoded, k + 1, Len(decoded)),
         streamed' = streamed, job' = job, wpc' = wpc, Upcoming' = Upcoming
  PROVE  OrderInv'
<1>1. /\ Len(decoded) \in Nat
      /\ Len(decoded') = Len(decoded) - k
      /\ \A i \in 1 .. Len(decoded) - k : decoded'[i] = decoded[i + k]
  BY DropFront, LenProperties DEF TypeInv, TypeOK
<1>2. \A i \in 1 .. Len(decoded') : i + k \in 1 .. Len(decoded) /\ decoded'[i] = decoded[i + k]
  BY <1>1
<1>3. \A i, j \in 1 .. Len(decoded') : i < j => i + k < j + k
  BY <1>1
<1> USE DEF OrderInv
<1>4. \A i, j \in 1 .. Len(decoded') : i < j => Precedes(decoded'[i], decoded'[j])
  BY <1>2, <1>3
<1>5. \A i \in 1 .. Len(decoded'), j \in 1 .. Len(streamed') : Precedes(decoded'[i], streamed'[j])
  BY <1>2
<1>6. /\ \A i, j \in 1 .. Len(streamed') : i < j => Precedes(streamed'[i], streamed'[j])
      /\ \A j \in 1 .. Len(streamed') : Precedes(streamed'[j], Upcoming')
  OBVIOUS
<1>7. Holding' => /\ \A i \in 1 .. Len(decoded') : Precedes(decoded'[i], job')
                  /\ \A j \in 1 .. Len(streamed') : Precedes(job', streamed'[j])
                  /\ Precedes(job', Upcoming')
  BY <1>2 DEF Holding
<1>8. \A i \in 1 .. Len(decoded') : Precedes(decoded'[i], Upcoming')
  BY <1>2
<1> QED
  BY <1>4, <1>5, <1>6, <1>7, <1>8 DEF Precedes

LEMMA OrderStep == TypeInv /\ ThreadsInv /\ OrderInv /\ [Next]_vars => OrderInv'
<1> SUFFICES ASSUME TypeInv, ThreadsInv, OrderInv, [Next]_vars PROVE OrderInv'
  OBVIOUS
<1> USE DEF OrderInv, Holding
<1>0. /\ decoded \in Seq(DecodedMesh) /\ Len(decoded) \in Nat
      /\ streamed \in Seq(Encoded) /\ Len(streamed) \in Nat
      /\ Len(<<>>) = 0
  BY LenProperties DEF TypeInv, TypeOK
<1>1. CASE Open
  <2>1. wpc' = "off"
    BY <1>1 DEF Open, workerVars, ThreadsInv
  <2> QED
    BY <1>0, <1>1, <2>1 DEF Open
<1>2. CASE Start \/ MarkEndOfStream
  <2>1. /\ decoded' = decoded /\ streamed' = streamed /\ Upcoming' = Upcoming
        /\ job' = job /\ (Holding' => Holding)
    BY <1>2 DEF Start, MarkEndOfStream, queueVars, flagVars, workerVars, Upcoming
  <2> QED
    BY <2>1 DEF Precedes
<1>3. CASE Submit
  <2> DEFINE e == [session |-> session, gen |-> generation, frame |-> next]
  <2>1. /\ decoded' = decoded /\ job' = job /\ wpc' = wpc /\ streamed' = Append(streamed, e)
        /\ Upcoming' = [gen |-> generation, frame |-> next + 1]
        /\ e \in Encoded
    BY <1>3, Bounds
       DEF Submit, CanAccept, flagVars, workerVars, Upcoming, Encoded, Frame, TypeInv, TypeOK
  <2>2. /\ Len(streamed') = Len(streamed) + 1
        /\ \A i \in 1 .. Len(streamed) : streamed'[i] = streamed[i]
        /\ streamed'[Len(streamed) + 1] = e
    BY <1>0, <2>1, AppendBack
  <2>3. /\ \A i \in 1 .. Len(decoded) : Precedes(decoded[i], e) /\ Precedes(decoded[i], Upcoming')
        /\ \A j \in 1 .. Len(streamed) : Precedes(streamed[j], e) /\ Precedes(streamed[j], Upcoming')
        /\ Holding => Precedes(job, e) /\ Precedes(job, Upcoming')
    BY <2>1, Numbers DEF Precedes, Upcoming
  <2>4. Precedes(e, Upcoming')
    BY <2>1, Numbers DEF Precedes, Upcoming
  <2> HIDE DEF e
  <2>5. \A j \in 1 .. Len(streamed') : j \in 1 .. Len(streamed) \/ j = Len(streamed) + 1
    BY <1>0, <2>2
  <2>6. \A i, j \in 1 .. Len(streamed') : i < j => Precedes(streamed'[i], streamed'[j])
    BY <1>0, <2>2, <2>3, <2>5
  <2>7. \A i \in 1 .. Len(decoded'), j \in 1 .. Len(streamed') : Precedes(decoded'[i], streamed'[j])
    BY <2>1, <2>2, <2>3, <2>5
  <2>8. \A j \in 1 .. Len(streamed') : Precedes(streamed'[j], Upcoming')
    BY <2>2, <2>3, <2>4, <2>5
  <2>9. Holding' => \A j \in 1 .. Len(streamed') : Precedes(job', streamed'[j])
    BY <2>1, <2>2, <2>3, <2>5
  <2>10. /\ \A i, j \in 1 .. Len(decoded') : i < j => Precedes(decoded'[i], decoded'[j])
         /\ \A i \in 1 .. Len(decoded') : Precedes(decoded'[i], Upcoming')
    BY <2>1, <2>3
  <2>11. Holding' => (\A i \in 1 .. Len(decoded') : Precedes(decoded'[i], job')) /\ Precedes(job', Upcoming')
    BY <2>1, <2>3
  <2> HIDE DEF Holding
  <2> QED
    BY <2>6, <2>7, <2>8, <2>9, <2>10, <2>11 DEF Precedes
<1>4. ASSUME NEW t \in Frame, Match(t) PROVE OrderInv'
  <2>1. PICK k \in 0 .. Len(decoded) : decoded' = SubSeq(decoded, k + 1, Len(decoded))
    BY <1>4, MatchDrops
  <2>2. /\ streamed' = streamed /\ job' = job /\ wpc' = wpc /\ Upcoming' = Upcoming
    BY <1>4 DEF Match, flagVars, workerVars, Upcoming
  <2> QED
    BY <1>0, <2>1, <2>2, DecodedShortens
<1>5. ASSUME NEW f \in Frame, ResetStore(f) PROVE OrderInv'
  <2>1. /\ streamed' = streamed /\ decoded' = decoded /\ job' = job /\ wpc' = wpc
        /\ Upcoming' = [gen |-> generation + 1, frame |-> f]
    BY <1>5 DEF ResetStore, NextGeneration, queueVars, workerVars, Upcoming
  <2>2. /\ \A i \in 1 .. Len(decoded) : Precedes(decoded[i], Upcoming')
        /\ \A j \in 1 .. Len(streamed) : Precedes(streamed[j], Upcoming')
        /\ Holding => Precedes(job, Upcoming')
    BY <2>1, Numbers DEF Precedes, Upcoming
  <2> QED
    BY <2>1, <2>2 DEF Precedes
<1>6. CASE ResetClearStreamed
  BY <1>0, <1>6 DEF ResetClearStreamed, flagVars, workerVars, Upcoming, Precedes
<1>7. CASE ResetClearDecoded
  BY <1>0, <1>7 DEF ResetClearDecoded, ClearDecoded, flagVars, workerVars, Upcoming, Precedes
<1>8. ASSUME NEW then \in {"join_stop", "join_close"}, Stop(then) PROVE OrderInv'
  BY <1>8 DEF Stop, queueVars, flagVars, workerVars, Upcoming, Precedes
<1>9. CASE Joined
  <2>1. wpc' = wpc /\ ~Holding /\ Upcoming' = Upcoming
    BY <1>9 DEF Joined, flagVars, workerVars, Upcoming
  <2>2. CASE streamed' = <<>> /\ decoded' = <<>>
    BY <1>0, <2>1, <2>2
  <2>3. CASE streamed' = streamed /\ decoded' = decoded
    BY <2>1, <2>3 DEF Precedes
  <2> QED
    BY <1>9, <2>2, <2>3 DEF Joined, queueVars
<1>10. CASE WorkerStore \/ WorkerTest \/ WorkerMark \/ WorkerFinish
  BY <1>10
     DEF WorkerStore, WorkerTest, WorkerMark, WorkerFinish, queueVars, flagVars, callerVars,
         Upcoming, Precedes
<1>11. CASE WorkerPop
  <2>1. CASE DecodedFull \/ streamed = <<>>
    BY <1>11, <2>1 DEF WorkerPop, AfterIdle, flagVars, callerVars, Upcoming, Precedes
  <2>2. CASE ~(DecodedFull \/ streamed = <<>>)
    <3>1. /\ job' = streamed[1] /\ streamed' = Tail(streamed) /\ decoded' = decoded
          /\ Upcoming' = Upcoming /\ Len(streamed) >= 1
      BY <1>0, <1>11, <2>2, EmptySeq, TakeFront DEF WorkerPop, flagVars, callerVars, Upcoming
    <3>2. /\ Len(streamed') = Len(streamed) - 1
          /\ \A i \in 1 .. Len(streamed) - 1 : streamed'[i] = streamed[i + 1]
      BY <1>0, <2>2, <3>1, TakeFront
    <3>3. \A i \in 1 .. Len(streamed') : i + 1 \in 1 .. Len(streamed) /\ 1 < i + 1
      BY <1>0, <3>2
    <3>4. 1 \in 1 .. Len(streamed)
      BY <1>0, <3>1
    <3>5. \A i, j \in 1 .. Len(streamed') : i < j => Precedes(streamed'[i], streamed'[j])
      <4>1. \A i, j \in 1 .. Len(streamed') : i < j => i + 1 < j + 1
        BY <1>0, <3>2
      <4> QED
        BY <3>2, <3>3, <4>1
    <3>6. /\ \A i \in 1 .. Len(decoded'), j \in 1 .. Len(streamed') : Precedes(decoded'[i], streamed'[j])
          /\ \A j \in 1 .. Len(streamed') : Precedes(streamed'[j], Upcoming')
      BY <3>1, <3>2, <3>3
    <3>7. /\ \A i \in 1 .. Len(decoded') : Precedes(decoded'[i], job')
          /\ \A j \in 1 .. Len(streamed') : Precedes(job', streamed'[j])
          /\ Precedes(job', Upcoming')
      BY <3>1, <3>2, <3>3, <3>4
    <3>8. /\ \A i, j \in 1 .. Len(decoded') : i < j => Precedes(decoded'[i], decoded'[j])
          /\ \A i \in 1 .. Len(decoded') : Precedes(decoded'[i], Upcoming')
      BY <3>1
    <3> HIDE DEF Holding
    <3> QED
      BY <3>5, <3>6, <3>7, <3>8 DEF Precedes
  <2> QED
    BY <2>1, <2>2
<1>12. CASE WorkerDecode \/ WorkerCheckGeneration
  BY <1>12 DEF WorkerDecode, WorkerCheckGeneration, queueVars, callerVars, Upcoming, Precedes
<1>13. CASE WorkerPush
  <2>1. CASE decoded' = decoded
    BY <1>13, <2>1 DEF WorkerPush, callerVars, Upcoming, Precedes
  <2>2. CASE decoded' # decoded
    <3> DEFINE m == [session |-> job.session, gen |-> job.gen, frame |-> job.frame,
                     base |-> topology]
    <3>1. m \in DecodedMesh /\ m.gen = job.gen /\ m.frame = job.frame
      BY <1>13 DEF WorkerPush, TypeInv, TypeOK, HoldsSample, Encoded, DecodedMesh
    <3>2. /\ decoded' = Append(decoded, m) /\ wpc' = "finish" /\ streamed' = streamed
          /\ Upcoming' = Upcoming /\ Holding
      BY <1>13, <2>2 DEF WorkerPush, callerVars, Upcoming
    <3>3. /\ Len(decoded') = Len(decoded) + 1
          /\ \A i \in 1 .. Len(decoded) : decoded'[i] = decoded[i]
          /\ decoded'[Len(decoded) + 1] = m
      BY <1>0, <3>1, <3>2, AppendBack
    <3>4. \A i \in 1 .. Len(decoded') : i \in 1 .. Len(decoded) \/ i = Len(decoded) + 1
      BY <1>0, <3>3
    <3>5. /\ \A i \in 1 .. Len(decoded) : Precedes(decoded[i], m)
          /\ \A j \in 1 .. Len(streamed) : Precedes(m, streamed[j])
          /\ Precedes(m, Upcoming)
      BY <3>1, <3>2 DEF Precedes
    <3> HIDE DEF m
    <3>6. \A i, j \in 1 .. Len(decoded') : i < j => Precedes(decoded'[i], decoded'[j])
      BY <1>0, <3>3, <3>4, <3>5
    <3>7. \A i \in 1 .. Len(decoded'), j \in 1 .. Len(streamed') : Precedes(decoded'[i], streamed'[j])
      BY <3>2, <3>3, <3>4, <3>5
    <3>8. \A i \in 1 .. Len(decoded') : Precedes(decoded'[i], Upcoming')
      BY <3>2, <3>3, <3>4, <3>5
    <3>9. /\ \A i, j \in 1 .. Len(streamed') : i < j => Precedes(streamed'[i], streamed'[j])
          /\ \A j \in 1 .. Len(streamed') : Precedes(streamed'[j], Upcoming')
          /\ ~Holding'
      BY <3>2
    <3> QED
      BY <3>6, <3>7, <3>8, <3>9 DEF Precedes
  <2> QED
    BY <2>1, <2>2
<1>14. CASE UNCHANGED vars
  BY <1>14 DEF vars, queueVars, flagVars, workerVars, callerVars, Upcoming, Precedes
<1> QED
  BY <1>1, <1>2, <1>3, <1>4, <1>5, <1>6, <1>7, <1>8, <1>9, <1>10, <1>11, <1>12,
     <1>13, <1>14
     DEF Next, Reset, Worker

\* Samples stay in presentation order through both queues and the worker,
\* whatever seeks fall between: a later front mesh proves that an earlier one
\* will not come.
THEOREM InOrder == Spec => []InFlightInOrder
<1>1. Init => TypeInv /\ ThreadsInv /\ OrderInv
  BY TypeInit DEF Init, ThreadsInv, OrderInv, Holding
<1>2. TypeInv /\ OrderInv => InFlightInOrder
  <2> SUFFICES ASSUME TypeInv, OrderInv,
                      NEW i \in 1 .. Len(InFlight), NEW j \in 1 .. Len(InFlight), i < j
               PROVE  Precedes(InFlight[i], InFlight[j])
    BY DEF InFlightInOrder
  <2> DEFINE D == [n \in 1 .. Len(decoded) |->
                     [session |-> decoded[n].session, gen |-> decoded[n].gen,
                      frame |-> decoded[n].frame]]
             d == Len(D)
             h == Len(HeldSample)
  <2>1. decoded \in Seq(DecodedMesh) /\ streamed \in Seq(Encoded) /\ Len(decoded) \in Nat
    BY LenProperties DEF TypeInv, TypeOK
  <2>2. D \in Seq(Encoded) /\ d = Len(decoded)
    <3>1. ASSUME NEW n \in 1 .. Len(decoded)
          PROVE  [session |-> decoded[n].session, gen |-> decoded[n].gen,
                  frame |-> decoded[n].frame] \in Encoded
      <4>1. decoded[n] \in DecodedMesh
        BY <2>1, ElementOfSeq
      <4> QED
        BY <4>1 DEF DecodedMesh, Encoded
    <3> QED
      BY <2>1, <3>1
  <2>3. \A n \in 1 .. d : D[n].gen = decoded[n].gen /\ D[n].frame = decoded[n].frame
    BY <2>2
  <2>4. HeldSample \in Seq(Encoded) /\ h \in {0, 1} /\ (h = 1 => Holding /\ HeldSample[1] = job)
    <3>1. CASE Holding
      <4>1. HeldSample = <<job>> /\ job \in Encoded
        BY <3>1 DEF HeldSample, Holding, TypeInv, HoldsSample
      <4> QED
        BY <3>1, <4>1
    <3>2. CASE ~Holding
      <4>1. HeldSample = <<>>
        BY <3>2 DEF HeldSample, Holding
      <4> QED
        BY <4>1
    <3> QED
      BY <3>1, <3>2
  <2> HIDE DEF D
  <2>5. InFlight = D \o HeldSample \o streamed
    BY DEF InFlight, D
  <2>6. /\ \A n \in 1 .. Len(InFlight) :
             n \in 1 .. d \/ n - d \in 1 .. h \/ n - (d + h) \in 1 .. Len(streamed)
        /\ \A n \in 1 .. d : InFlight[n] = D[n]
        /\ \A n \in 1 .. h : InFlight[d + n] = HeldSample[n]
        /\ \A n \in 1 .. Len(streamed) : InFlight[d + h + n] = streamed[n]
    <3> HIDE DEF d, h
    <3>1. D \in Seq(Encoded) /\ HeldSample \in Seq(Encoded) /\ streamed \in Seq(Encoded)
      BY <2>1, <2>2, <2>4
    <3>2. d = Len(D) /\ h = Len(HeldSample)
      BY DEF d, h
    <3> DEFINE q == D \o HeldSample \o streamed
    <3>3. /\ \A n \in 1 .. Len(q) :
               n \in 1 .. Len(D) \/ n - Len(D) \in 1 .. Len(HeldSample)
                 \/ n - (Len(D) + Len(HeldSample)) \in 1 .. Len(streamed)
          /\ \A n \in 1 .. Len(D) : q[n] = D[n]
          /\ \A n \in 1 .. Len(HeldSample) : q[Len(D) + n] = HeldSample[n]
          /\ \A n \in 1 .. Len(streamed) : q[Len(D) + Len(HeldSample) + n] = streamed[n]
      BY <3>1, ThreeParts, SMTT(60)
    <3> QED
      BY <2>5, <3>2, <3>3, Zenon
  <2>7. d \in Nat /\ d = Len(decoded) /\ h \in {0, 1} /\ Len(streamed) \in Nat
    <3> HIDE DEF d, h
    <3>1. Len(streamed) \in Nat
      BY <2>1, LenProperties
    <3>2. d = Len(decoded) /\ h \in {0, 1}
      BY <2>2, <2>4
    <3> QED
      BY <2>1, <3>1, <3>2
  <2> HIDE DEF d, h
  <2>8. i \in Int /\ j \in Int
    OBVIOUS
  <2>9. \A n \in 1 .. d : InFlight[n].gen = decoded[n].gen /\ InFlight[n].frame = decoded[n].frame
    BY <2>3, <2>6
  <2>10. \A n \in Int : n - d \in 1 .. h => Holding /\ n = d + 1 /\ InFlight[n] = job
    <3> SUFFICES ASSUME NEW n \in Int, n - d \in 1 .. h
                 PROVE  Holding /\ n = d + 1 /\ InFlight[n] = job
      OBVIOUS
    <3>1. h = 1 /\ n = d + 1 /\ 1 \in 1 .. h
      BY <2>7
    <3> QED
      BY <2>4, <2>6, <3>1
  <2>11. \A n \in Int : n - (d + h) \in 1 .. Len(streamed) =>
                           InFlight[n] = streamed[n - (d + h)]
    <3> SUFFICES ASSUME NEW n \in Int, n - (d + h) \in 1 .. Len(streamed)
                 PROVE  InFlight[n] = streamed[n - (d + h)]
      OBVIOUS
    <3>1. n = d + h + (n - (d + h))
      BY <2>7
    <3> QED
      BY <2>6, <3>1
  <2>12. CASE j \in 1 .. d
    <3>1. i \in 1 .. d
      BY <2>7, <2>8, <2>12
    <3> QED
      BY <2>7, <2>9, <2>12, <3>1 DEF OrderInv, Precedes
  <2>13. CASE j - d \in 1 .. h
    <3>1. i \in 1 .. d
      BY <2>7, <2>8, <2>10, <2>13
    <3> QED
      BY <2>7, <2>8, <2>9, <2>10, <2>13, <3>1 DEF OrderInv, Precedes
  <2>14. CASE j - (d + h) \in 1 .. Len(streamed)
    <3>1. InFlight[j] = streamed[j - (d + h)]
      BY <2>8, <2>11, <2>14
    <3>2. CASE i \in 1 .. d
      BY <2>7, <2>9, <2>14, <3>1, <3>2 DEF OrderInv, Precedes
    <3>3. CASE i - d \in 1 .. h
      BY <2>8, <2>10, <2>14, <3>1, <3>3 DEF OrderInv
    <3>4. CASE i - (d + h) \in 1 .. Len(streamed)
      <4>1. i - (d + h) < j - (d + h)
        BY <2>7, <2>8
      <4> QED
        BY <2>8, <2>11, <2>14, <3>1, <3>4, <4>1 DEF OrderInv
    <3> QED
      BY <2>6, <3>2, <3>3, <3>4
  <2> QED
    BY <2>6, <2>12, <2>13, <2>14
<1> QED
  BY <1>1, <1>2, TypeStep, ThreadsStep, OrderStep, PTL DEF Spec

-----------------------------------------------------------------------------
(* The topology cache.                                                     *)

\* The worker holds a sample that it has not decoded.
Undecoded == wpc \in {"mark", "work"}

\* The sample that the worker decodes next: the one it holds, the oldest in the
\* queue, or the one that the caller submits next.
Due ==
  IF Undecoded THEN [gen |-> job.gen, frame |-> job.frame]
  ELSE IF streamed # <<>> THEN [gen |-> streamed[1].gen, frame |-> streamed[1].frame]
  ELSE [gen |-> generation, frame |-> next]

\* The samples that wait are of the file in use and of one generation, without a
\* gap; they go on where the caller stands, unless a reset is about to drop them.
QueueInv ==
  /\ lifecycle = "closed" => streamed = <<>> /\ cpc = "idle"
  /\ \A i \in 1 .. Len(streamed) :
       /\ streamed[i].session = session /\ streamed[i].gen = streamed[1].gen
       /\ streamed[i].frame = streamed[1].frame + (i - 1)
  /\ streamed # <<>> =>
       IF cpc = "clear_streamed" THEN streamed[1].gen < generation
       ELSE streamed[1].gen = generation /\ streamed[1].frame + Len(streamed) = next

\* So does the sample that the worker holds.
JobInv ==
  /\ Holding => job.session = session /\ job.gen <= generation
  /\ Holding /\ cpc = "clear_streamed" => job.gen < generation
  /\ Undecoded /\ streamed # <<>> =>
       \/ job.gen < streamed[1].gen
       \/ job.gen = streamed[1].gen /\ streamed[1].frame = job.frame + 1
  /\ Undecoded /\ streamed = <<>> /\ job.gen = generation => next = job.frame + 1

\* A cache that the next sample might match is of its own file, and none of the
\* samples of the window that were rejected is behind it; or it was left by the
\* file before, and the next sample is the first of its own.
CacheInv ==
  topology.key # 0 =>
    /\ topology.session <= session /\ topology.gen <= Due.gen
    /\ lifecycle # "closed" /\ topology.gen = Due.gen =>
         IF topology.session = session
         THEN \A c \in Corrupt : KeyOf[c] = topology.key => c >= Due.frame
         ELSE Due.frame = 1

\* A mesh between its decoding and its place in the queue.
BuiltInv ==
  wpc \in {"check", "push"} =>
    /\ topology = [session |-> job.session, gen |-> job.gen, key |-> KeyOf[job.frame]]
    /\ \A c \in Corrupt : ~(KeyOf[c] = KeyOf[job.frame] /\ c <= job.frame)

WindowInv == QueueInv /\ JobInv /\ CacheInv /\ BuiltInv /\ BuiltOnOwnWindow

\* The oldest sample of a queue that is not empty, and a sample's numbers.
LEMMA Front ==
  ASSUME NEW S, NEW q \in Seq(S), q # <<>>
  PROVE  Len(q) \in Nat /\ Len(q) >= 1 /\ q[1] \in S
<1>1. Len(q) \in Nat /\ Len(Tail(q)) \in Nat /\ Len(Tail(q)) = Len(q) - 1
  BY TakeFront, LenProperties
<1> QED
  BY <1>1, TakeFront

LEMMA SampleNumbers ==
  ASSUME NEW x \in Encoded
  PROVE  x.gen \in Nat /\ x.frame \in Nat
<1>1. x.gen \in Generation /\ x.frame \in Frame
  BY DEF Encoded
<1> QED
  BY <1>1, Bounds

LEMMA QueueStep == TypeInv /\ QueueInv /\ [Next]_vars => QueueInv'
<1> SUFFICES ASSUME TypeInv, QueueInv, [Next]_vars PROVE QueueInv'
  OBVIOUS
<1> USE DEF QueueInv
<1>0. /\ streamed \in Seq(Encoded) /\ Len(streamed) \in Nat /\ Len(<<>>) = 0
      /\ generation \in Nat /\ next \in Nat
  BY LenProperties, Bounds DEF TypeInv, TypeOK
<1>1. CASE Open \/ ResetClearStreamed
  BY <1>0, <1>1 DEF Open, ResetClearStreamed
<1>2. CASE Start \/ MarkEndOfStream
  BY <1>2 DEF Start, MarkEndOfStream, queueVars, flagVars
<1>3. CASE Submit
  <2> DEFINE sample == [session |-> session, gen |-> generation, frame |-> next]
  <2>1. /\ cpc = "idle" /\ lifecycle = "started" /\ next \in Frame
        /\ streamed' = Append(streamed, sample) /\ next' = next + 1
        /\ UNCHANGED <<generation, cpc, lifecycle, session>>
    BY <1>3, Bounds DEF Submit, CanAccept, flagVars, Frame, TypeInv, TypeOK
  <2>2. sample \in Encoded
    BY <2>1 DEF Encoded, TypeInv, TypeOK
  <2>3. /\ Len(streamed') = Len(streamed) + 1 /\ streamed'[Len(streamed) + 1] = sample
        /\ \A i \in 1 .. Len(streamed) : streamed'[i] = streamed[i]
        /\ streamed' # <<>>
    BY <1>0, <2>1, <2>2, AppendBack
  <2>4. CASE streamed = <<>>
    BY <1>0, <2>1, <2>3, <2>4
  <2>5. CASE streamed # <<>>
    <3>1. Len(streamed) >= 1 /\ streamed'[1] = streamed[1] /\ streamed[1] \in Encoded
      BY <1>0, <2>3, <2>5, Front
    <3>2. streamed[1].gen = generation /\ streamed[1].frame + Len(streamed) = next
      BY <2>1, <2>5
    <3>3. streamed[1].frame \in Nat
      BY <3>1, SampleNumbers
    <3>4. \A i \in 1 .. Len(streamed') : i \in 1 .. Len(streamed) \/ i = Len(streamed) + 1
      BY <1>0, <2>3
    <3> QED
      BY <1>0, <2>1, <2>3, <3>1, <3>2, <3>3, <3>4
  <2> QED
    BY <2>4, <2>5
<1>4. ASSUME NEW t \in Frame, Match(t) PROVE QueueInv'
  BY <1>4 DEF Match, flagVars
<1>5. ASSUME NEW f \in Frame, ResetStore(f) PROVE QueueInv'
  BY <1>0, <1>5 DEF ResetStore, NextGeneration, queueVars
<1>6. CASE ResetClearDecoded
  BY <1>6 DEF ResetClearDecoded, flagVars
<1>7. ASSUME NEW then \in {"join_stop", "join_close"}, Stop(then) PROVE QueueInv'
  BY <1>7 DEF Stop, queueVars, flagVars
<1>8. CASE Joined
  BY <1>0, <1>8 DEF Joined, queueVars, flagVars
<1>9. CASE WorkerStore \/ WorkerTest \/ WorkerMark \/ WorkerFinish
  BY <1>9 DEF WorkerStore, WorkerTest, WorkerMark, WorkerFinish, queueVars, flagVars, callerVars
<1>10. CASE WorkerPop
  <2>1. CASE streamed' = streamed
    BY <1>10, <2>1 DEF WorkerPop, flagVars, callerVars
  <2>2. CASE streamed' # streamed
    <3>1. /\ streamed # <<>> /\ streamed' = Tail(streamed)
          /\ UNCHANGED <<generation, cpc, lifecycle, session, next>>
      BY <1>10, <2>2 DEF WorkerPop, flagVars, callerVars
    <3>2. /\ Len(streamed') = Len(streamed) - 1 /\ streamed' \in Seq(Encoded)
          /\ \A i \in 1 .. Len(streamed) - 1 : streamed'[i] = streamed[i + 1]
      BY <1>0, <3>1, TakeFront
    <3>3. Len(streamed) >= 1 /\ streamed[1].frame \in Nat
      BY <1>0, <3>1, Front, SampleNumbers
    <3>4. /\ lifecycle # "closed"
          /\ \A i \in 1 .. Len(streamed) :
               /\ streamed[i].session = session /\ streamed[i].gen = streamed[1].gen
               /\ streamed[i].frame = streamed[1].frame + (i - 1)
          /\ IF cpc = "clear_streamed" THEN streamed[1].gen < generation
             ELSE streamed[1].gen = generation /\ streamed[1].frame + Len(streamed) = next
      BY <3>1
    <3> HIDE DEF QueueInv
    <3>5. CASE streamed' = <<>>
      <4>1. Len(streamed') = 0 /\ lifecycle' # "closed"
        BY <1>0, <3>1, <3>4, <3>5
      <4>2. 1 .. Len(streamed') = {}
        BY <4>1
      <4> QED
        BY <3>5, <4>1, <4>2 DEF QueueInv
    <3>6. CASE streamed' # <<>>
      <4>1. Len(streamed') >= 1
        <5>1. \A q \in Seq(Encoded) : q # <<>> => Len(q) >= 1
          BY Front
        <5> QED
          BY <3>2, <3>6, <5>1
      <4>2. \A i \in 1 .. Len(streamed') :
              streamed'[i] = streamed[i + 1] /\ i \in Int /\ i + 1 \in 1 .. Len(streamed)
        BY <1>0, <3>2
      <4>3. streamed'[1] = streamed[2] /\ 2 \in 1 .. Len(streamed)
        BY <1>0, <3>2, <4>1, <4>2
      <4>4. streamed'[1].gen = streamed[1].gen /\ streamed'[1].frame = streamed[1].frame + 1
        BY <3>3, <3>4, <4>3
      <4>5. ASSUME NEW i \in 1 .. Len(streamed')
            PROVE  /\ streamed'[i].session = session /\ streamed'[i].gen = streamed[1].gen
                   /\ streamed'[i].frame = (streamed[1].frame + 1) + (i - 1)
        <5>1. /\ streamed'[i].session = session /\ streamed'[i].gen = streamed[1].gen
              /\ streamed'[i].frame = streamed[1].frame + ((i + 1) - 1)
          BY <3>4, <4>2
        <5>2. i \in Int
          OBVIOUS
        <5> QED
          BY <3>3, <5>1, <5>2
      <4>6. (streamed[1].frame + 1) + Len(streamed') = streamed[1].frame + Len(streamed)
        BY <1>0, <3>2, <3>3
      <4> QED
        BY <3>1, <3>4, <3>6, <4>4, <4>5, <4>6 DEF QueueInv
    <3> QED
      BY <3>5, <3>6
  <2> QED
    BY <2>1, <2>2
<1>11. CASE WorkerDecode \/ WorkerCheckGeneration \/ WorkerPush
  BY <1>11 DEF WorkerDecode, WorkerCheckGeneration, WorkerPush, queueVars, flagVars, callerVars
<1>12. CASE UNCHANGED vars
  BY <1>12 DEF vars, queueVars, flagVars, callerVars
<1> QED
  BY <1>1, <1>2, <1>3, <1>4, <1>5, <1>6, <1>7, <1>8, <1>9, <1>10, <1>11, <1>12
     DEF Next, Reset, Worker

LEMMA JobStep ==
  TypeInv /\ ThreadsInv /\ QueueInv /\ JobInv /\ [Next]_vars => JobInv'
<1> SUFFICES ASSUME TypeInv, ThreadsInv, QueueInv, JobInv, [Next]_vars PROVE JobInv'
  OBVIOUS
<1> USE DEF JobInv, Holding, Undecoded
<1>0. /\ streamed \in Seq(Encoded) /\ Len(streamed) \in Nat /\ Len(<<>>) = 0
      /\ generation \in Nat /\ next \in Nat
      /\ Holding => job.gen \in Nat /\ job.frame \in Nat
  BY LenProperties, Bounds, SampleNumbers DEF TypeInv, TypeOK, HoldsSample
<1>1. CASE Open
  BY <1>1 DEF Open, workerVars, ThreadsInv
<1>2. CASE Start \/ MarkEndOfStream
  BY <1>2 DEF Start, MarkEndOfStream, queueVars, workerVars
<1>3. CASE Submit
  <2> DEFINE sample == [session |-> session, gen |-> generation, frame |-> next]
  <2>1. /\ cpc = "idle" /\ next \in Frame
        /\ streamed' = Append(streamed, sample)
        /\ UNCHANGED <<generation, cpc, session, wpc, job>>
    BY <1>3, Bounds DEF Submit, CanAccept, flagVars, workerVars, Frame, TypeInv, TypeOK
  <2>2. sample \in Encoded
    BY <2>1 DEF Encoded, TypeInv, TypeOK
  <2>3. /\ Len(streamed') = Len(streamed) + 1 /\ streamed' # <<>>
        /\ streamed'[1] = IF streamed = <<>> THEN sample ELSE streamed[1]
    BY <1>0, <2>1, <2>2, AppendBack, EmptySeq
  <2> QED
    BY <1>0, <2>1, <2>3
<1>4. ASSUME NEW t \in Frame, Match(t) PROVE JobInv'
  BY <1>4 DEF Match, flagVars, workerVars
<1>5. ASSUME NEW f \in Frame, ResetStore(f) PROVE JobInv'
  BY <1>0, <1>5 DEF ResetStore, NextGeneration, queueVars, workerVars
<1>6. CASE ResetClearStreamed
  BY <1>0, <1>6 DEF ResetClearStreamed, flagVars, workerVars
<1>7. CASE ResetClearDecoded
  BY <1>7 DEF ResetClearDecoded, flagVars, workerVars
<1>8. ASSUME NEW then \in {"join_stop", "join_close"}, Stop(then) PROVE JobInv'
  BY <1>8 DEF Stop, queueVars, flagVars, workerVars
<1>9. CASE Joined
  BY <1>9 DEF Joined, queueVars, flagVars, workerVars
<1>10. CASE WorkerStore \/ WorkerTest \/ WorkerMark \/ WorkerFinish
  BY <1>10 DEF WorkerStore, WorkerTest, WorkerMark, WorkerFinish, queueVars, flagVars, callerVars
<1>11. CASE WorkerPop
  <2>1. CASE wpc' = "test"
    BY <1>11, <2>1 DEF WorkerPop, flagVars, callerVars
  <2>2. CASE wpc' # "test"
    <3>1. /\ streamed # <<>> /\ streamed' = Tail(streamed) /\ job' = streamed[1]
          /\ wpc' = "mark" /\ UNCHANGED <<generation, cpc, session, next>>
      BY <1>0, <1>11, <2>2, TakeFront DEF WorkerPop, AfterIdle, flagVars, callerVars
    <3>2. /\ Len(streamed') = Len(streamed) - 1 /\ streamed' \in Seq(Encoded)
          /\ \A i \in 1 .. Len(streamed) - 1 : streamed'[i] = streamed[i + 1]
      BY <1>0, <3>1, TakeFront
    <3>3. Len(streamed) >= 1 /\ streamed[1].frame \in Nat
      BY <1>0, <3>1, Front, SampleNumbers
    <3>4. job'.session = session /\ job'.gen <= generation
          /\ (cpc = "clear_streamed" => job'.gen < generation)
      <4>1. streamed[1].session = session
        BY <1>0, <3>3 DEF QueueInv
      <4>2. streamed[1].gen \in Nat
        BY <1>0, <3>1, Front, SampleNumbers
      <4> QED
        BY <1>0, <3>1, <4>1, <4>2 DEF QueueInv
    <3>5. CASE Len(streamed) = 1
      <4>1. streamed' = <<>>
        BY <1>0, <3>2, <3>5, EmptySeq
      <4>2. cpc # "clear_streamed" => next = streamed[1].frame + 1
        BY <1>0, <3>1, <3>3, <3>5 DEF QueueInv
      <4> QED
        BY <1>0, <3>1, <3>4, <4>1, <4>2
    <3>6. CASE Len(streamed) # 1
      <4>1. /\ streamed'[1] = streamed[2] /\ streamed[2].frame = streamed[1].frame + 1
            /\ streamed[2].gen = streamed[1].gen /\ streamed' # <<>>
        BY <1>0, <3>2, <3>3, <3>6 DEF QueueInv
      <4> QED
        BY <3>1, <3>4, <4>1
    <3> QED
      BY <3>5, <3>6
  <2> QED
    BY <2>1, <2>2
<1>12. CASE WorkerDecode \/ WorkerCheckGeneration \/ WorkerPush
  BY <1>12 DEF WorkerDecode, WorkerCheckGeneration, WorkerPush, queueVars, flagVars, callerVars
<1>13. CASE UNCHANGED vars
  BY <1>13 DEF vars, queueVars, flagVars, workerVars, callerVars
<1> QED
  BY <1>1, <1>2, <1>3, <1>4, <1>5, <1>6, <1>7, <1>8, <1>9, <1>10, <1>11, <1>12, <1>13
     DEF Next, Reset, Worker

\* The numbers of the sample that is due.
LEMMA DueNumbers ==
  ASSUME TypeInv
  PROVE  Due.gen \in Nat /\ Due.frame \in Nat
<1>1. CASE Undecoded
  <2>1. job \in Encoded
    BY <1>1 DEF TypeInv, HoldsSample, Holding, Undecoded
  <2> QED
    BY <1>1, <2>1, SampleNumbers DEF Due
<1>2. CASE ~Undecoded /\ streamed # <<>>
  <2>1. streamed[1] \in Encoded
    BY <1>2, Front DEF TypeInv, TypeOK
  <2> QED
    BY <1>2, <2>1, SampleNumbers DEF Due
<1>3. CASE ~Undecoded /\ streamed = <<>>
  BY <1>3, Bounds DEF Due, TypeInv, TypeOK
<1> QED
  BY <1>1, <1>2, <1>3

\* A step that leaves the sample that is due and the cache where they are.
LEMMA CacheKept ==
  ASSUME CacheInv, Due' = Due, UNCHANGED <<topology, session>>,
         lifecycle' # "closed" => lifecycle # "closed"
  PROVE  CacheInv'
BY DEF CacheInv

\* The samples are due in order: after the one that is decoded the next of its
\* generation, or one of a later generation.
LEMMA DueAfter ==
  ASSUME TypeInv, JobInv, WorkerDecode
  PROVE  /\ Due = [gen |-> job.gen, frame |-> job.frame]
         /\ Due'.gen \in Nat /\ Due'.frame \in Nat
         /\ \/ job.gen < Due'.gen
            \/ job.gen = Due'.gen /\ Due'.frame = job.frame + 1
<1>1. /\ wpc = "work" /\ wpc' \in {"check", "test"}
      /\ UNCHANGED <<streamed, generation, next, job>>
  BY DEF WorkerDecode, queueVars, callerVars
<1>2. job.gen \in Nat /\ generation \in Nat /\ job.gen <= generation
  BY <1>1, SampleNumbers, Bounds DEF TypeInv, TypeOK, HoldsSample, Holding, JobInv
<1>3. CASE streamed # <<>>
  <2>1. streamed[1].gen \in Nat /\ streamed[1].frame \in Nat
    BY <1>3, Front, SampleNumbers DEF TypeInv, TypeOK
  <2>2. Due'.gen = streamed[1].gen /\ Due'.frame = streamed[1].frame
    BY <1>1, <1>3 DEF Due, Undecoded
  <2>3. \/ job.gen < streamed[1].gen
        \/ job.gen = streamed[1].gen /\ streamed[1].frame = job.frame + 1
    BY <1>1, <1>3 DEF Undecoded, JobInv
  <2> QED
    BY <1>1, <2>1, <2>2, <2>3 DEF Due, Undecoded
<1>4. CASE streamed = <<>>
  <2>1. Due'.gen = generation /\ Due'.frame = next
    BY <1>1, <1>4 DEF Due, Undecoded
  <2>2. job.gen = generation => next = job.frame + 1
    BY <1>1, <1>4 DEF Undecoded, JobInv
  <2>3. next \in Nat
    BY Bounds DEF TypeInv, TypeOK
  <2> QED
    BY <1>1, <1>2, <2>1, <2>2, <2>3 DEF Due, Undecoded
<1> QED
  BY <1>3, <1>4

LEMMA CacheStep ==
  TypeInv /\ ThreadsInv /\ QueueInv /\ JobInv /\ CacheInv /\ [Next]_vars => CacheInv'
<1> SUFFICES ASSUME TypeInv, ThreadsInv, QueueInv, JobInv, CacheInv, [Next]_vars
             PROVE  CacheInv'
  OBVIOUS
<1>0. /\ streamed \in Seq(Encoded) /\ generation \in Nat /\ next \in Nat
      /\ topology.gen \in Nat /\ topology.session \in Nat /\ session \in Nat
  <2>1. topology.gen \in Generation /\ topology.session \in Session
    BY DEF TypeInv, TypeOK, Topology
  <2>2. generation \in Generation /\ session \in Session /\ next \in 1 .. LastFrame + 1
    BY DEF TypeInv, TypeOK
  <2>3. streamed \in Seq(Encoded)
    BY DEF TypeInv, TypeOK
  <2>4. generation \in Nat /\ session \in Nat /\ topology.gen \in Nat /\ topology.session \in Nat
    BY <2>1, <2>2, Bounds
  <2>5. next \in Nat
    BY <2>2, Bounds
  <2> QED
    BY <2>3, <2>4, <2>5
<1>1. CASE Open
  <2>1. ~Undecoded /\ streamed = <<>> /\ Due.gen = generation
    BY <1>1 DEF Open, ThreadsInv, QueueInv, Due, Undecoded
  <2>2. Due' = [gen |-> generation, frame |-> 1] /\ session' = session + 1 /\ topology' = topology
    BY <1>1, <2>1 DEF Open, Due, Undecoded, flagVars, workerVars
  <2> QED
    BY <1>0, <2>1, <2>2 DEF CacheInv
<1>2. CASE Start
  <2>1. Due' = Due
    BY <1>2 DEF Start, ThreadsInv, Due, Undecoded, queueVars, flagVars
  <2> QED
    BY <1>2, <2>1, CacheKept DEF Start
<1>3. CASE Submit
  <2> DEFINE sample == [session |-> session, gen |-> generation, frame |-> next]
  <2>1. /\ cpc = "idle" /\ next \in Frame /\ streamed' = Append(streamed, sample)
        /\ UNCHANGED <<generation, wpc, job, topology, session, lifecycle>>
    BY <1>3, Bounds DEF Submit, CanAccept, flagVars, workerVars, Frame, TypeInv, TypeOK
  <2>2. sample \in Encoded
    BY <2>1 DEF Encoded, TypeInv, TypeOK
  <2>3. streamed' # <<>> /\ streamed'[1] = IF streamed = <<>> THEN sample ELSE streamed[1]
    BY <1>0, <2>1, <2>2, AppendBack, LenProperties, EmptySeq, Front
  <2>4. Due' = Due
    BY <2>1, <2>3 DEF Due, Undecoded
  <2> QED
    BY <2>1, <2>4, CacheKept
<1>4. CASE \/ MarkEndOfStream \/ ResetClearDecoded \/ WorkerStore \/ WorkerTest
           \/ WorkerMark \/ WorkerFinish
  <2>1. Due' = Due
    BY <1>4 DEF MarkEndOfStream, ResetClearDecoded, WorkerStore, WorkerTest, WorkerMark,
                WorkerFinish, Due, Undecoded, queueVars, flagVars, workerVars, callerVars
  <2>2. UNCHANGED <<topology, session, lifecycle>>
    BY <1>4 DEF MarkEndOfStream, ResetClearDecoded, WorkerStore, WorkerTest, WorkerMark,
                WorkerFinish, workerVars, callerVars
  <2> QED
    BY <2>1, <2>2, CacheKept
<1>5. ASSUME NEW t \in Frame, Match(t) PROVE CacheInv'
  <2>1. Due' = Due /\ UNCHANGED <<topology, session, lifecycle>>
    BY <1>5 DEF Match, Due, Undecoded, flagVars, workerVars
  <2> QED
    BY <2>1, CacheKept
<1>6. ASSUME NEW f \in Frame, ResetStore(f) PROVE CacheInv'
  <2>1. /\ generation' = generation + 1 /\ cpc = "idle"
        /\ UNCHANGED <<streamed, wpc, job, topology, session, lifecycle>>
    BY <1>6 DEF ResetStore, NextGeneration, queueVars, workerVars
  <2>2. CASE Undecoded \/ streamed # <<>>
    <3>1. Due' = Due
      BY <2>1, <2>2 DEF Due, Undecoded
    <3> QED
      BY <2>1, <3>1, CacheKept
  <2>3. CASE ~Undecoded /\ streamed = <<>>
    <3>1. Due.gen = generation /\ Due'.gen = generation + 1
      BY <2>1, <2>3 DEF Due, Undecoded
    <3> QED
      BY <1>0, <2>1, <3>1 DEF CacheInv
  <2> QED
    BY <2>2, <2>3
<1>7. CASE ResetClearStreamed
  <2>1. /\ cpc = "clear_streamed" /\ streamed' = <<>>
        /\ UNCHANGED <<generation, next, wpc, job, topology, session, lifecycle>>
    BY <1>7 DEF ResetClearStreamed, flagVars, workerVars
  <2>2. CASE Undecoded \/ streamed = <<>>
    <3>1. Due' = Due
      BY <2>1, <2>2 DEF Due, Undecoded
    <3> QED
      BY <2>1, <3>1, CacheKept
  <2>3. CASE ~Undecoded /\ streamed # <<>>
    <3>1. Due.gen < generation /\ Due.gen \in Nat
      BY <2>1, <2>3, DueNumbers DEF Due, QueueInv
    <3>2. Due'.gen = generation
      BY <2>1, <2>3 DEF Due, Undecoded
    <3> QED
      BY <1>0, <2>1, <3>1, <3>2 DEF CacheInv
  <2> QED
    BY <2>2, <2>3
<1>8. ASSUME NEW then \in {"join_stop", "join_close"}, Stop(then) PROVE CacheInv'
  <2>1. Due' = Due /\ UNCHANGED <<topology, session, lifecycle>>
    BY <1>8 DEF Stop, Due, Undecoded, queueVars, flagVars, workerVars
  <2> QED
    BY <2>1, CacheKept
<1>9. CASE Joined
  <2>1. ~Undecoded /\ UNCHANGED <<generation, next, wpc, topology, session>>
    BY <1>9 DEF Joined, Undecoded, flagVars, workerVars
  <2>2. CASE cpc = "join_close"
    <3>1. Due.gen = generation
      BY <2>1, <2>2 DEF Due, QueueInv
    <3>2. Due'.gen = generation /\ lifecycle' = "closed"
      BY <1>9, <2>1, <2>2 DEF Joined, Due, Undecoded
    <3> QED
      BY <2>1, <3>1, <3>2 DEF CacheInv
  <2>3. CASE cpc = "join_stop"
    <3>1. Due' = Due
      BY <1>9, <2>1, <2>3 DEF Joined, Due, Undecoded, queueVars
    <3>2. lifecycle # "closed"
      BY <2>3 DEF QueueInv
    <3> QED
      BY <2>1, <3>1, <3>2, CacheKept
  <2> QED
    BY <1>9, <2>2, <2>3 DEF Joined
<1>10. CASE WorkerPop
  <2>1. UNCHANGED <<generation, next, topology, session, lifecycle>> /\ ~Undecoded
    BY <1>10 DEF WorkerPop, Undecoded, flagVars, callerVars
  <2>2. CASE wpc' = "mark"
    <3>1. streamed # <<>> /\ job' = streamed[1]
      BY <1>0, <1>10, <2>2, TakeFront DEF WorkerPop, AfterIdle
    <3>2. Due' = Due
      BY <2>1, <2>2, <3>1 DEF Due, Undecoded
    <3> QED
      BY <2>1, <3>2, CacheKept
  <2>3. CASE wpc' # "mark"
    <3>1. Due' = Due
      BY <1>10, <2>1, <2>3 DEF WorkerPop, AfterIdle, Due, Undecoded
    <3> QED
      BY <2>1, <3>1, CacheKept
  <2> QED
    BY <2>2, <2>3
<1>11. CASE WorkerDecode
  <2>1. /\ job \in Encoded /\ lifecycle = "started" /\ job.session = session
        /\ UNCHANGED <<session, lifecycle, job>>
    BY <1>11 DEF WorkerDecode, callerVars, ThreadsInv, JobInv, TypeInv, HoldsSample, Holding
  <2>2. job.gen \in Nat /\ job.frame \in Frame /\ KeyOf[job.frame] \in Frame /\ job.frame \in Nat
    BY <2>1, Bounds DEF Encoded
  <2>3. /\ Due = [gen |-> job.gen, frame |-> job.frame] /\ Due'.gen \in Nat /\ Due'.frame \in Nat
        /\ \/ job.gen < Due'.gen
           \/ job.gen = Due'.gen /\ Due'.frame = job.frame + 1
    BY <1>11, DueAfter
  <2>4. \A c \in Corrupt : c \in Nat /\ KeyOf[c] \in Nat /\ KeyOf[c] <= c
    BY StreamAssumption, Bounds
  <2>5. KeyOf[1] = 1
    BY StreamAssumption, Bounds DEF Frame
  <2>6. CASE topology' = [session |-> job.session, gen |-> job.gen, key |-> job.frame]
             /\ job.frame \notin Corrupt
    <3>1. topology'.key = job.frame /\ topology'.gen = job.gen /\ topology'.session = session'
      BY <2>1, <2>6
    <3>2. \A c \in Corrupt : KeyOf[c] = job.frame => c >= job.frame + 1
      BY <2>2, <2>4, <2>6
    <3> QED
      BY <1>0, <2>1, <2>2, <2>3, <3>1, <3>2 DEF CacheInv
  <2>7. CASE topology' = NoTopology
    BY <2>7 DEF CacheInv, NoTopology
  <2>8. CASE topology' = topology /\ ~Independent(job.frame)
             /\ (job.frame \in Corrupt => ~TopologyMatches)
    <3>1. job.frame # 1
      BY <2>5, <2>8 DEF Independent
    <3>2. CASE job.gen < Due'.gen
      BY <1>0, <2>1, <2>2, <2>3, <2>8, <3>2 DEF CacheInv
    <3>3. CASE job.gen = Due'.gen /\ Due'.frame = job.frame + 1
      BY <1>0, <2>1, <2>2, <2>3, <2>4, <2>8, <3>1, <3>3 DEF CacheInv, TopologyMatches
    <3> QED
      BY <2>3, <3>2, <3>3
  <2> QED
    BY <1>11, <2>6, <2>7, <2>8 DEF WorkerDecode
<1>12. CASE WorkerCheckGeneration \/ WorkerPush
  <2>1. Due' = Due /\ UNCHANGED <<topology, session, lifecycle>>
    BY <1>12 DEF WorkerCheckGeneration, WorkerPush, Due, Undecoded, queueVars, callerVars
  <2> QED
    BY <2>1, CacheKept
<1>13. CASE UNCHANGED vars
  <2>1. Due' = Due /\ UNCHANGED <<topology, session, lifecycle>>
    BY <1>13 DEF vars, Due, Undecoded, queueVars, flagVars, workerVars, callerVars
  <2> QED
    BY <2>1, CacheKept
<1> QED
  BY <1>1, <1>2, <1>3, <1>4, <1>5, <1>6, <1>7, <1>8, <1>9, <1>10, <1>11, <1>12, <1>13
     DEF Next, Reset, Worker

\* What the decoder turns into a mesh is built on its own window.
LEMMA BuiltByDecoder ==
  ASSUME TypeInv, ThreadsInv, JobInv, CacheInv, WorkerDecode, wpc' = "check"
  PROVE  BuiltInv'
<1>1. /\ job.frame \notin Corrupt /\ (Independent(job.frame) \/ TopologyMatches)
      /\ topology' = IF Independent(job.frame)
                     THEN [session |-> job.session, gen |-> job.gen, key |-> job.frame]
                     ELSE topology
      /\ wpc = "work" /\ UNCHANGED <<session, lifecycle, job>>
  BY DEF WorkerDecode, callerVars
<1>2. job \in Encoded /\ lifecycle = "started" /\ job.session = session
  BY <1>1 DEF ThreadsInv, JobInv, TypeInv, HoldsSample, Holding
<1>3. /\ job.frame \in Frame /\ KeyOf[job.frame] \in Frame /\ job.frame \in Nat
      /\ KeyOf[job.frame] \in Nat /\ KeyOf[job.frame] # 0
      /\ topology \in Topology
  BY <1>2, Bounds, SMTT(30) DEF Encoded, Frame, TypeInv, TypeOK
<1>4. \A c \in Corrupt : c \in Nat /\ KeyOf[c] \in Nat /\ KeyOf[c] <= c
  BY StreamAssumption, Bounds
<1>5. Due = [gen |-> job.gen, frame |-> job.frame]
  BY DueAfter
<1>6. CASE Independent(job.frame)
  <2>1. KeyOf[job.frame] = job.frame
    BY <1>6 DEF Independent
  <2>2. \A c \in Corrupt : KeyOf[c] = job.frame => c > job.frame
    BY <1>1, <1>3, <1>4
  <2>3. \A c \in Corrupt : ~(KeyOf[c] = KeyOf[job.frame] /\ c <= job.frame)
    BY <1>3, <1>4, <2>1, <2>2
  <2> QED
    BY <1>1, <1>6, <2>1, <2>3 DEF BuiltInv
<1>7. CASE ~Independent(job.frame)
  <2>1. topology.gen = job.gen /\ topology.key = KeyOf[job.frame] /\ topology' = topology
    BY <1>1, <1>7 DEF TopologyMatches
  <2>2. IF topology.session = session
        THEN \A c \in Corrupt : KeyOf[c] = topology.key => c >= job.frame
        ELSE job.frame = 1
    BY <1>2, <1>3, <1>5, <2>1 DEF CacheInv
  <2>3. KeyOf[1] = 1
    BY StreamAssumption, Bounds DEF Frame
  <2>4. topology.session = session
    BY <1>7, <2>2, <2>3 DEF Independent
  <2>5. topology = [session |-> job.session, gen |-> job.gen, key |-> KeyOf[job.frame]]
    BY <1>2, <1>3, <2>1, <2>4 DEF Topology
  <2>6. \A c \in Corrupt : KeyOf[c] = KeyOf[job.frame] => c >= job.frame /\ c # job.frame
    BY <1>1, <2>1, <2>2, <2>4
  <2>7. \A c \in Corrupt : ~(KeyOf[c] = KeyOf[job.frame] /\ c <= job.frame)
    BY <1>3, <1>4, <2>6
  <2> QED
    BY <1>1, <2>1, <2>5, <2>7 DEF BuiltInv
<1> QED
  BY <1>6, <1>7

LEMMA BuiltStep ==
  TypeInv /\ ThreadsInv /\ JobInv /\ CacheInv /\ BuiltInv /\ [Next]_vars => BuiltInv'
<1> SUFFICES ASSUME TypeInv, ThreadsInv, JobInv, CacheInv, BuiltInv, [Next]_vars
             PROVE  BuiltInv'
  OBVIOUS
<1>1. CASE WorkerDecode
  <2>1. CASE wpc' = "check"
    BY <1>1, <2>1, BuiltByDecoder
  <2>2. CASE wpc' # "check"
    BY <1>1, <2>2 DEF WorkerDecode, BuiltInv
  <2> QED
    BY <2>1, <2>2
<1>2. CASE \/ Start \/ WorkerStore \/ WorkerTest \/ WorkerPop \/ WorkerMark
           \/ WorkerPush \/ WorkerFinish
  BY <1>2 DEF Start, WorkerStore, WorkerTest, WorkerPop, AfterIdle, WorkerMark, WorkerPush,
              WorkerFinish, BuiltInv
<1>3. CASE WorkerCheckGeneration
  BY <1>3 DEF WorkerCheckGeneration, BuiltInv
<1>4. ASSUME UNCHANGED workerVars PROVE BuiltInv'
  BY <1>4 DEF workerVars, BuiltInv
<1>5. CASE Open \/ Submit \/ MarkEndOfStream \/ Reset \/ Joined
  BY <1>4, <1>5 DEF Open, Submit, MarkEndOfStream, Reset, ResetClearStreamed,
                    ResetClearDecoded, Joined
<1>6. ASSUME NEW t \in Frame, Match(t) PROVE BuiltInv'
  BY <1>4, <1>6 DEF Match
<1>7. ASSUME NEW f \in Frame, ResetStore(f) PROVE BuiltInv'
  BY <1>4, <1>7 DEF ResetStore
<1>8. ASSUME NEW then \in {"join_stop", "join_close"}, Stop(then) PROVE BuiltInv'
  BY <1>4, <1>8 DEF Stop
<1>9. CASE UNCHANGED vars
  BY <1>4, <1>9 DEF vars
<1> QED
  BY <1>1, <1>2, <1>3, <1>5, <1>6, <1>7, <1>8, <1>9 DEF Next, Worker

\* The meshes in the queue keep what they were built on.
LEMMA BuiltMeshes ==
  TypeInv /\ BuiltInv /\ BuiltOnOwnWindow /\ [Next]_vars => BuiltOnOwnWindow'
<1> SUFFICES ASSUME TypeInv, BuiltInv, BuiltOnOwnWindow, [Next]_vars
             PROVE  BuiltOnOwnWindow'
  OBVIOUS
<1> DEFINE Good(m) == /\ m.base = [session |-> m.session, gen |-> m.gen, key |-> KeyOf[m.frame]]
                      /\ \A g \in Corrupt : ~(KeyOf[g] = KeyOf[m.frame] /\ g <= m.frame)
<1>0. decoded \in Seq(DecodedMesh) /\ \A i \in 1 .. Len(decoded) : Good(decoded[i])
  BY DEF TypeInv, TypeOK, BuiltOnOwnWindow
<1>1. ASSUME \A i \in 1 .. Len(decoded') : Good(decoded'[i]) PROVE BuiltOnOwnWindow'
  BY <1>1 DEF BuiltOnOwnWindow
<1> HIDE DEF Good
<1>2. CASE decoded' = decoded
  BY <1>0, <1>1, <1>2
<1>3. CASE decoded' = <<>>
  BY <1>1, <1>3
<1>4. ASSUME NEW t \in Frame, Match(t) PROVE BuiltOnOwnWindow'
  <2>1. PICK k \in 0 .. Len(decoded) : decoded' = SubSeq(decoded, k + 1, Len(decoded))
    BY <1>4, MatchDrops
  <2>2. /\ Len(decoded') = Len(decoded) - k
        /\ \A i \in 1 .. Len(decoded) - k : decoded'[i] = decoded[i + k]
    BY <1>0, <2>1, DropFront
  <2>3. Len(decoded) \in Nat
    BY <1>0, LenProperties
  <2>4. \A i \in 1 .. Len(decoded) - k : i + k \in 1 .. Len(decoded)
    BY <2>3
  <2> QED
    BY <1>0, <1>1, <2>2, <2>4
<1>5. CASE WorkerPush /\ decoded' # decoded
  <2> DEFINE mesh == [session |-> job.session, gen |-> job.gen, frame |-> job.frame,
                      base |-> topology]
  <2>1. wpc = "push" /\ decoded' = Append(decoded, mesh)
    BY <1>5 DEF WorkerPush
  <2>2. job \in Encoded /\ topology \in Topology
    BY <2>1 DEF TypeInv, TypeOK, HoldsSample, Holding
  <2>3. mesh \in DecodedMesh
    BY <2>2 DEF Encoded, DecodedMesh
  <2>4. /\ Len(decoded') = Len(decoded) + 1 /\ decoded'[Len(decoded) + 1] = mesh
        /\ \A i \in 1 .. Len(decoded) : decoded'[i] = decoded[i]
    BY <1>0, <2>1, <2>3, AppendBack
  <2>5. Good(mesh)
    BY <2>1 DEF BuiltInv, Good
  <2>6. Len(decoded) \in Nat
    BY <1>0, LenProperties
  <2>7. \A i \in 1 .. Len(decoded') : i \in 1 .. Len(decoded) \/ i = Len(decoded) + 1
    BY <2>4, <2>6
  <2> QED
    BY <1>0, <1>1, <2>4, <2>5, <2>7
<1>6. ASSUME NEW f \in Frame, ResetStore(f) PROVE BuiltOnOwnWindow'
  BY <1>2, <1>6 DEF ResetStore, queueVars
<1>7. ASSUME NEW then \in {"join_stop", "join_close"}, Stop(then) PROVE BuiltOnOwnWindow'
  BY <1>2, <1>7 DEF Stop, queueVars
<1>8. CASE Open \/ Joined \/ Reset
  BY <1>2, <1>3, <1>8 DEF Open, Joined, Reset, ResetClearStreamed, ResetClearDecoded,
                          ClearDecoded, queueVars
<1>9. CASE \/ Start \/ Submit \/ MarkEndOfStream
           \/ WorkerStore \/ WorkerTest \/ WorkerPop \/ WorkerMark \/ WorkerDecode
           \/ WorkerCheckGeneration \/ WorkerFinish \/ UNCHANGED vars
  BY <1>2, <1>9 DEF Start, Submit, MarkEndOfStream, WorkerStore, WorkerTest, WorkerPop,
       WorkerMark, WorkerDecode, WorkerCheckGeneration, WorkerFinish, vars, queueVars
<1> QED
  BY <1>2, <1>4, <1>5, <1>6, <1>7, <1>8, <1>9 DEF Next, Worker

\* A decoded mesh stands on the keyframe of its own window, generation and file,
\* with no rejected sample of the window up to it, in every stream and whatever
\* is reset, closed and opened again meanwhile.
THEOREM BuiltOnOwn == Spec => []BuiltOnOwnWindow
<1>1. Init => WindowInv
  <2> SUFFICES ASSUME Init PROVE WindowInv
    OBVIOUS
  <2>1. Len(streamed) = 0 /\ Len(decoded) = 0 /\ streamed = <<>>
    BY DEF Init
  <2>2. 1 .. Len(streamed) = {} /\ 1 .. Len(decoded) = {}
    BY <2>1
  <2>3. QueueInv
    BY <2>1, <2>2 DEF Init, QueueInv
  <2>4. JobInv /\ CacheInv /\ BuiltInv
    BY DEF Init, JobInv, Holding, Undecoded, CacheInv, NoTopology, BuiltInv
  <2>5. BuiltOnOwnWindow
    BY <2>2 DEF BuiltOnOwnWindow
  <2> QED
    BY <2>3, <2>4, <2>5 DEF WindowInv
<1>2. TypeInv /\ ThreadsInv /\ WindowInv /\ [Next]_vars => WindowInv'
  BY QueueStep, JobStep, CacheStep, BuiltStep, BuiltMeshes DEF WindowInv
<1>3. Init => ThreadsInv
  BY DEF Init, ThreadsInv
<1>4. WindowInv => BuiltOnOwnWindow
  BY DEF WindowInv
<1> QED
  BY <1>1, <1>2, <1>3, <1>4, TypeInit, TypeStep, ThreadsStep, PTL DEF Spec
=============================================================================
