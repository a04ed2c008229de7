----------------------------- MODULE PlayerProofs -----------------------------
(***************************************************************************)
(* Proofs about the player facade.  Player: for every file, capacity of    *)
(* the queues and number of seeks, to a host that calls it in turn, it is  *)
(* a stream of complete presentations.  PlayerSession: for every set of    *)
(* files, with whatever is missing from them or wrong with them, it goes   *)
(* through the abstract lifecycle and owns what that promises.             *)
(*                                                                         *)
(* The first invariant, TypeInv, needs nothing of the host.  The second,   *)
(* StreamInv, is what the calls of presentation() rely on one after        *)
(* another: between their locked steps nobody but themselves takes from    *)
(* the media queue, so the texture that was timed is the one that is       *)
(* copied, and what is queued is of the generation that plays.             *)
(***************************************************************************)
EXTENDS Player, PlayerSession, SequenceTheorems, WellFoundedInduction, TLAPS

\* In a sample that was produced, numbers that can be compared.
QueuesTyped ==
  /\ video \in Seq(Sample) /\ Len(video) <= VideoCapacity
  /\ geometry \in Seq(Sample) /\ Len(geometry) <= GeometryCapacity
  /\ streamed \in Seq(Sample) /\ Len(streamed) <= StreamedCapacity
  /\ decoded \in Seq(Sample) /\ Len(decoded) <= DecodedCapacity
DecodersTyped ==
  /\ wpc \in {"pop", "check", "push"} /\ held \in Sample \cup {NoSample}
  /\ mediaEos \in BOOLEAN /\ mediaGen \in Generation /\ geomGen \in Generation
  /\ geomEos \in Generation \cup {NoGeneration}
  /\ nextVideo \in 1 .. LastFrame + 1 /\ nextGeometry \in 1 .. LastFrame + 1
RenderTyped ==
  /\ rpc \in {"idle", "reset", "reset_clear", "submit", "push", "mark", "select",
              "frame_time", "match", "drop_video", "copy", "free_video", "free_mesh"}
  /\ rGen \in Generation /\ rTime \in Frame /\ rTarget \in Time /\ rTimeOfFrame \in Time
  /\ rHeld \in Sample \cup {NoSample} /\ rMesh \in Sample \cup {NoSample}
  /\ rVideo \in Sample \cup {NoSample}
GameTyped ==
  /\ playerGen \in Generation /\ pending \in Time \cup {Unset} /\ clock \in Frame
  /\ spc \in {"idle", "inherited", "flush", "bump", "adopt", "reset", "reset_clear", "unset"} /\ seekTo \in Frame
  /\ shown \in Shown

Typed == QueuesTyped /\ DecodersTyped /\ RenderTyped /\ GameTyped

\* What is taken from one queue has room in the next, and a seek has a generation left.
Room ==
  /\ wpc # "pop" => held \in Sample /\ Len(decoded) < DecodedCapacity
  /\ rpc = "push" => rHeld \in Sample /\ Len(streamed) < StreamedCapacity
  /\ rpc \in {"free_video", "free_mesh"} => rVideo \in Sample /\ rMesh \in Sample
  /\ rpc = "copy" => rMesh \in Sample
  /\ spc \in {"inherited", "flush", "bump"} => mediaGen < MaxGeneration

TypeInv == Typed /\ Room

-----------------------------------------------------------------------------
(* Queues.                                                                 *)

\* A set of numbers that is not empty has a least one.
LEMMA Least ==
  ASSUME NEW T, T \subseteq Nat, T # {}
  PROVE  \E n \in T : \A m \in T : n <= m
<1> DEFINE R == OpToRel(<, Nat)
<1>1. IsWellFoundedOn(R, Nat)
  BY NatLessThanWellFounded
<1>2. PICK x \in T : \A y \in T : ~(<<y, x>> \in R)
  BY <1>1, WFMin
<1>3. ASSUME NEW y \in T PROVE x <= y
  <2>1. ~(<<y, x>> \in R)
    BY <1>2
  <2>2. ~(y < x)
    BY <2>1 DEF OpToRel
  <2> QED
    BY <2>2
<1> QED
  BY <1>3

\* Samples of a queue, and what its operations make of it.
LEMMA HeadTail ==
  ASSUME NEW S, NEW q \in Seq(S), q # <<>>
  PROVE  /\ Head(q) \in S /\ Head(q) = q[1] /\ Len(q) \in Nat /\ Len(q) >= 1
         /\ Tail(q) \in Seq(S) /\ Len(Tail(q)) = Len(q) - 1
         /\ \A i \in 1 .. Len(q) - 1 : Tail(q)[i] = q[i + 1]
<1>1. Len(q) \in Nat /\ Len(q) # 0
  BY EmptySeq, LenProperties
<1>2. Len(q) >= 1
  BY <1>1
<1>3. q[1] \in S
  BY <1>1, <1>2, ElementOfSeq
<1> QED
  BY <1>1, <1>2, <1>3, HeadTailProperties

LEMMA Appended ==
  ASSUME NEW S, NEW q \in Seq(S), NEW e \in S
  PROVE  /\ Append(q, e) \in Seq(S) /\ Len(Append(q, e)) = Len(q) + 1 /\ Len(q) \in Nat
         /\ \A i \in 1 .. Len(q) : Append(q, e)[i] = q[i]
         /\ Append(q, e)[Len(q) + 1] = e
         /\ q # <<>> => Append(q, e) # <<>> /\ Head(Append(q, e)) = Head(q)
BY AppendProperties

LEMMA SampleNumbers ==
  ASSUME NEW s \in Sample
  PROVE  s.gen \in Nat /\ s.frame \in Nat /\ s.frame >= 1 /\ s.frame \in Frame /\ s.gen \in Generation
         /\ s.frame \in Time
BY StreamAssumption, CapacityAssumption DEF Sample, Frame, Generation, Time

\* How many are older than t is well defined.
LEMMA OlderCount ==
  ASSUME NEW q \in Seq(Sample), NEW t \in Time
  PROVE  /\ Older(q, t) \in 0 .. Len(q)
         /\ \A i \in 1 .. Older(q, t) : q[i].frame < t
         /\ Older(q, t) < Len(q) => q[Older(q, t) + 1].frame >= t
<1> DEFINE T == {n \in 0 .. Len(q) : n < Len(q) => q[n + 1].frame >= t}
<1>0. Len(q) \in Nat /\ t \in Nat
  BY LenProperties, StreamAssumption DEF Time
<1>1. Len(q) \in T /\ T \subseteq Nat
  BY <1>0
<1>2. PICK n \in T : \A m \in T : n <= m
  BY <1>1, Least
<1>3. ASSUME NEW i \in 1 .. n PROVE q[i].frame < t
  <2>1. i - 1 \in 0 .. Len(q) /\ i - 1 < n /\ i - 1 < Len(q) /\ (i - 1) + 1 = i /\ i \in 1 .. Len(q)
    BY <1>0, <1>2
  <2>2. ~(i - 1 \in T)
    BY <1>2, <2>1
  <2>3. ~(q[i].frame >= t)
    BY <2>1, <2>2
  <2>4. q[i] \in Sample
    BY <2>1, ElementOfSeq
  <2> QED
    BY <1>0, <2>3, <2>4, SampleNumbers
<1>4. n \in 0 .. Len(q) /\ (n < Len(q) => q[n + 1].frame >= t)
  BY <1>2
<1> HIDE DEF T
<1>5. \E k \in 0 .. Len(q) : (\A i \in 1 .. k : q[i].frame < t) /\ (k < Len(q) => q[k + 1].frame >= t)
  BY <1>3, <1>4
<1> QED
  BY <1>5 DEF Older

\* What is left of a queue when the older ones are gone.
LEMMA FromTime ==
  ASSUME NEW q \in Seq(Sample), NEW t \in Time
  PROVE  /\ From(q, t) \in Seq(Sample) /\ Len(From(q, t)) <= Len(q)
         /\ From(q, t) # <<>> => Head(From(q, t)).frame >= t /\ Head(From(q, t)) \in Sample
         /\ \E n \in Nat : \A i \in 1 .. Len(From(q, t)) :
              n + i \in 1 .. Len(q) /\ From(q, t)[i] = q[n + i]
<1> DEFINE n == Older(q, t)
           r == From(q, t)
<1>1. n \in 0 .. Len(q) /\ (n < Len(q) => q[n + 1].frame >= t) /\ Len(q) \in Nat
  BY OlderCount, LenProperties
<1>2. \A i \in 1 .. Len(q) : q[i] \in Sample
  BY ElementOfSeq
<1>3. r = SubSeq(q, n + 1, Len(q))
  BY DEF From
<1> HIDE DEF n, r
<1>4. r \in Seq(Sample) /\ Len(r) = Len(q) - n /\ \A i \in 1 .. Len(q) - n : r[i] = q[n + i]
  <2>1. \A i \in n + 1 .. Len(q) : q[i] \in Sample
    BY <1>1, <1>2
  <2>2. /\ r \in Seq(Sample)
        /\ Len(r) = IF n + 1 <= Len(q) THEN Len(q) - (n + 1) + 1 ELSE 0
        /\ \A i \in 1 .. Len(q) - (n + 1) + 1 : r[i] = q[n + 1 + i - 1]
    <3> DEFINE m == n + 1
               l == Len(q)
    <3>1. m \in Int /\ l \in Int /\ \A i \in m .. l : q[i] \in Sample
      BY <1>1, <2>1
    <3> HIDE DEF m, l
    <3>2. /\ SubSeq(q, m, l) \in Seq(Sample)
          /\ Len(SubSeq(q, m, l)) = IF m <= l THEN l - m + 1 ELSE 0
          /\ \A i \in 1 .. l - m + 1 : SubSeq(q, m, l)[i] = q[m + i - 1]
      BY <3>1, SubSeqProperties
    <3> QED
      BY <1>3, <3>2 DEF m, l
  <2>3. Len(r) = Len(q) - n
    BY <1>1, <2>2
  <2>4. ASSUME NEW i \in 1 .. Len(q) - n PROVE r[i] = q[n + i]
    <3>1. i \in 1 .. Len(q) - (n + 1) + 1 /\ n + 1 + i - 1 = n + i
      BY <1>1
    <3>2. r[i] = q[n + 1 + i - 1]
      BY <2>2, <3>1
    <3> QED
      BY <3>1, <3>2
  <2> QED
    BY <2>2, <2>3, <2>4
<1>5. ASSUME r # <<>> PROVE Head(r).frame >= t /\ Head(r) \in Sample
  <2>1. Head(r) = r[1] /\ Len(r) >= 1 /\ Head(r) \in Sample
    BY <1>4, <1>5, HeadTail
  <2>2. n < Len(q) /\ r[1] = q[n + 1]
    BY <1>1, <1>4, <2>1
  <2> QED
    BY <1>1, <2>1, <2>2
<1>6. \A i \in 1 .. Len(r) : n + i \in 1 .. Len(q) /\ r[i] = q[n + i]
  BY <1>1, <1>4
<1>7. n \in Nat /\ Len(r) <= Len(q)
  BY <1>1, <1>4
<1>8. \E k \in Nat : \A i \in 1 .. Len(r) : k + i \in 1 .. Len(q) /\ r[i] = q[k + i]
  BY <1>6, <1>7
<1>9. r \in Seq(Sample)
  BY <1>4
<1> QED
  BY <1>5, <1>7, <1>8, <1>9 DEF r

-----------------------------------------------------------------------------
(* The types.                                                              *)

LEMMA Numbers ==
  /\ 0 \in Time /\ Frame \subseteq Time /\ 1 \in Frame /\ 0 \in Generation
  /\ NoSample.gen = 0 /\ NoSample.frame = 0
  /\ 1 \in 1 .. LastFrame + 1 /\ Unset \notin Time
  /\ \A n \in 1 .. LastFrame + 1 : n <= LastFrame => n \in Frame /\ n + 1 \in 1 .. LastFrame + 1
  /\ \A n \in Frame : n \in 1 .. LastFrame + 1 /\ (n < LastFrame => n + 1 \in Frame)
  /\ \A g \in Generation : g \in Nat /\ (g < MaxGeneration => g + 1 \in Generation)
  /\ \A g \in Generation, f \in Frame : [gen |-> g, frame |-> f] \in Sample
BY StreamAssumption, CapacityAssumption DEF Time, Frame, Generation, NoSample, Unset, Sample

LEMMA TypeInit == Init => TypeInv
<1> SUFFICES ASSUME Init PROVE TypeInv
  OBVIOUS
<1>1. <<>> \in Seq(Sample) /\ Len(<<>>) = 0
  OBVIOUS
<1>2. QueuesTyped
  BY <1>1, CapacityAssumption DEF Init, QueuesTyped
<1>3. DecodersTyped
  BY Numbers DEF Init, DecodersTyped
<1>4. RenderTyped
  BY Numbers DEF Init, RenderTyped
<1>5. GameTyped
  <2>1. shown \in Shown
    BY Numbers DEF Init, Shown
  <2> QED
    BY <2>1, Numbers DEF Init, GameTyped
<1> QED
  BY <1>2, <1>3, <1>4, <1>5 DEF TypeInv, Typed, Room, Init

LEMMA NothingHappens ==
  ASSUME TypeInv, UNCHANGED vars
  PROVE  TypeInv'
<1> USE DEF vars, mediaVars, geometryVars, workerVars, renderVars, seekVars
<1>1. QueuesTyped' /\ DecodersTyped'
  BY DEF TypeInv, Typed, QueuesTyped, DecodersTyped
<1>2. RenderTyped' /\ GameTyped'
  BY DEF TypeInv, Typed, RenderTyped, GameTyped
<1>3. Room'
  BY DEF TypeInv, Room
<1> QED
  BY <1>1, <1>2, <1>3 DEF TypeInv, Typed

\* The demux thread and the Draco worker.
LEMMA ProducersTyped ==
  ASSUME TypeInv, ProduceVideo \/ ProduceGeometry \/ ProduceEnd \/ DecodeMesh
  PROVE  TypeInv'
<1> USE DEF mediaVars, geometryVars, workerVars, renderVars, seekVars
<1>0. Typed /\ Room
  BY DEF TypeInv
<1>1. RenderTyped' /\ GameTyped' /\ UNCHANGED <<rpc, spc, mediaGen, geomGen>>
  <2>1. UNCHANGED <<renderVars, playerGen, pending, clock, seekVars, shown, mediaGen, geomGen>>
    BY DEF ProduceVideo, ProduceGeometry, ProduceEnd, DecodeMesh, WorkerPop, WorkerCheck, WorkerPush
  <2> QED
    BY <1>0, <2>1 DEF Typed, RenderTyped, GameTyped
<1>2. QueuesTyped' /\ DecodersTyped' /\ Room'
  <2> USE Numbers, CapacityAssumption
  <2>1. CASE ProduceVideo
    <3>1. /\ Len(video) < VideoCapacity /\ nextVideo <= LastFrame
          /\ video' = Append(video, [gen |-> mediaGen, frame |-> nextVideo])
          /\ nextVideo' = nextVideo + 1
          /\ UNCHANGED <<geometry, mediaEos, mediaGen, nextGeometry, geometryVars, rpc, rHeld, rMesh, rVideo, spc>>
      BY <2>1 DEF ProduceVideo
    <3>2. [gen |-> mediaGen, frame |-> nextVideo] \in Sample
      BY <1>0, <3>1 DEF Typed, DecodersTyped
    <3>3. video' \in Seq(Sample) /\ Len(video') = Len(video) + 1 /\ Len(video) \in Nat
      BY <1>0, <3>1, <3>2, Appended DEF Typed, QueuesTyped
    <3>4. QueuesTyped'
      BY <1>0, <3>1, <3>3 DEF Typed, QueuesTyped
    <3>5. DecodersTyped' /\ Room'
      BY <1>0, <1>1, <3>1 DEF Typed, DecodersTyped, Room
    <3> QED
      BY <3>4, <3>5
  <2>2. CASE ProduceGeometry
    <3>1. /\ Len(geometry) < GeometryCapacity /\ nextGeometry <= LastFrame
          /\ geometry' = Append(geometry, [gen |-> mediaGen, frame |-> nextGeometry])
          /\ nextGeometry' = nextGeometry + 1
          /\ UNCHANGED <<video, mediaEos, mediaGen, nextVideo, geometryVars, rpc, rHeld, rMesh, rVideo, spc>>
      BY <2>2 DEF ProduceGeometry
    <3>2. [gen |-> mediaGen, frame |-> nextGeometry] \in Sample
      BY <1>0, <3>1 DEF Typed, DecodersTyped
    <3>3. geometry' \in Seq(Sample) /\ Len(geometry') = Len(geometry) + 1 /\ Len(geometry) \in Nat
      BY <1>0, <3>1, <3>2, Appended DEF Typed, QueuesTyped
    <3>4. QueuesTyped'
      BY <1>0, <3>1, <3>3 DEF Typed, QueuesTyped
    <3>5. DecodersTyped' /\ Room'
      BY <1>0, <1>1, <3>1 DEF Typed, DecodersTyped, Room
    <3> QED
      BY <3>4, <3>5
  <2>3. CASE ProduceEnd
    <3>1. mediaEos' = TRUE /\ UNCHANGED <<video, geometry, mediaGen, nextVideo, nextGeometry, geometryVars,
                                          rpc, rHeld, rMesh, rVideo, spc>>
      BY <2>3 DEF ProduceEnd
    <3> QED
      BY <1>0, <3>1 DEF Typed, QueuesTyped, DecodersTyped, Room
  <2>4. CASE WorkerPop
    <3>1. /\ streamed # <<>> /\ Len(decoded) < DecodedCapacity /\ held' = Head(streamed)
          /\ streamed' = Tail(streamed) /\ wpc' = "check"
          /\ UNCHANGED <<decoded, geomGen, geomEos, mediaVars, rpc, rHeld, rMesh, rVideo, spc>>
      BY <2>4 DEF WorkerPop
    <3>2. /\ held' \in Sample /\ streamed' \in Seq(Sample) /\ Len(streamed') = Len(streamed) - 1
          /\ Len(streamed) \in Nat
      BY <1>0, <3>1, HeadTail DEF Typed, QueuesTyped
    <3>3. QueuesTyped'
      BY <1>0, <3>1, <3>2 DEF Typed, QueuesTyped
    <3>4. DecodersTyped' /\ (wpc' # "pop" => held' \in Sample /\ Len(decoded') < DecodedCapacity)
      BY <1>0, <3>1, <3>2 DEF Typed, DecodersTyped
    <3>5. rpc' = "push" => rHeld' \in Sample /\ Len(streamed') < StreamedCapacity
      BY <1>0, <3>1, <3>2 DEF Typed, QueuesTyped, Room
    <3> QED
      BY <1>0, <1>1, <3>1, <3>3, <3>4, <3>5 DEF Room
  <2>5. CASE WorkerCheck
    <3>1. /\ wpc = "check" /\ wpc' \in {"push", "pop"}
          /\ UNCHANGED <<streamed, decoded, held, geomGen, geomEos, mediaVars, rpc, rHeld, rMesh, rVideo, spc>>
      BY <2>5 DEF WorkerCheck
    <3> QED
      BY <1>0, <3>1 DEF Typed, QueuesTyped, DecodersTyped, Room
  <2>6. CASE WorkerPush
    <3>1. /\ wpc = "push" /\ decoded' = Append(decoded, held) /\ wpc' = "pop"
          /\ UNCHANGED <<streamed, held, geomGen, geomEos, mediaVars, rpc, rHeld, rMesh, rVideo, spc>>
      BY <2>6 DEF WorkerPush
    <3>2. decoded' \in Seq(Sample) /\ Len(decoded') = Len(decoded) + 1 /\ Len(decoded) \in Nat
          /\ Len(decoded) < DecodedCapacity
      BY <1>0, <3>1, Appended DEF Typed, QueuesTyped, Room
    <3>3. QueuesTyped'
      BY <1>0, <3>1, <3>2 DEF Typed, QueuesTyped
    <3>4. DecodersTyped' /\ Room'
      BY <1>0, <1>1, <3>1 DEF Typed, DecodersTyped, Room
    <3> QED
      BY <3>3, <3>4
  <2> QED
    BY <2>1, <2>2, <2>3, <2>4, <2>5, <2>6 DEF DecodeMesh
<1> QED
  BY <1>1, <1>2 DEF TypeInv, Typed

\* The game thread.
LEMMA GameKeepsTypes ==
  ASSUME TypeInv, Tick \/ (\E f \in Frame : SeekBegin(f)) \/ SeekStep
  PROVE  TypeInv'
<1> USE DEF mediaVars, geometryVars, workerVars, renderVars, seekVars
<1>0. Typed /\ Room
  BY DEF TypeInv
<1>1. RenderTyped'
  <2>1. UNCHANGED renderVars
    BY DEF Tick, SeekBegin, SeekStep, InheritedSeek, SeekFlush, SeekBump, SeekAdopt, SeekReset, SeekUnset
  <2> QED
    BY <1>0, <2>1 DEF Typed, RenderTyped
<1>2. <<>> \in Seq(Sample) /\ Len(<<>>) = 0
  OBVIOUS
<1> USE Numbers, CapacityAssumption
<1>3. CASE Tick
  <2>1. clock < LastFrame /\ clock' = clock + 1
        /\ UNCHANGED <<mediaVars, geometryVars, playerGen, pending, renderVars, seekVars, shown>>
    BY <1>3 DEF Tick
  <2>2. QueuesTyped' /\ DecodersTyped' /\ Room'
    BY <1>0, <2>1 DEF Typed, QueuesTyped, DecodersTyped, Room
  <2>3. GameTyped'
    BY <1>0, <2>1 DEF Typed, GameTyped
  <2> QED
    BY <1>1, <2>2, <2>3 DEF TypeInv, Typed
<1>4. ASSUME NEW f \in Frame, SeekBegin(f) PROVE TypeInv'
  <2>1. mediaGen < MaxGeneration /\ spc' = "flush" /\ seekTo' = f
        /\ UNCHANGED <<mediaVars, geometryVars, playerGen, pending, clock, renderVars, shown>>
    BY <1>4 DEF SeekBegin
  <2>2. QueuesTyped' /\ DecodersTyped' /\ Room'
    BY <1>0, <2>1 DEF Typed, QueuesTyped, DecodersTyped, Room
  <2>3. GameTyped'
    BY <1>0, <2>1 DEF Typed, GameTyped
  <2> QED
    BY <1>1, <2>2, <2>3 DEF TypeInv, Typed
<1>5. CASE SeekFlush
  <2>1. /\ spc = "flush" /\ video' = <<>> /\ geometry' = <<>> /\ mediaEos' = FALSE
        /\ spc' = "bump"
        /\ UNCHANGED <<mediaGen, geometryVars, playerGen, pending, clock, renderVars, seekTo, shown>>
    BY <1>5 DEF SeekFlush
  <2>2. nextVideo' \in 1 .. LastFrame + 1 /\ nextGeometry' \in 1 .. LastFrame + 1
    <3>1. PICK f \in 1 .. seekTo : nextVideo' = f /\ nextGeometry' = f
      BY <1>5 DEF SeekFlush
    <3>2. seekTo \in Frame
      BY <1>0 DEF Typed, GameTyped
    <3> QED
      BY <3>1, <3>2, StreamAssumption DEF Frame
  <2>3. QueuesTyped' /\ Room'
    BY <1>0, <1>2, <2>1 DEF Typed, QueuesTyped, Room
  <2>4. DecodersTyped' /\ GameTyped'
    BY <1>0, <2>1, <2>2 DEF Typed, DecodersTyped, GameTyped
  <2> QED
    BY <1>1, <2>3, <2>4 DEF TypeInv, Typed
<1>6. CASE SeekBump \/ SeekAdopt \/ SeekUnset
  <2>1. /\ UNCHANGED <<video, geometry, mediaEos, nextVideo, nextGeometry, geometryVars, renderVars, seekTo, shown>>
        /\ spc' \in {"adopt", "reset", "idle"}
    BY <1>6 DEF SeekBump, SeekAdopt, SeekUnset
  <2>2. mediaGen' \in Generation
    BY <1>0, <1>6 DEF SeekBump, SeekAdopt, SeekUnset, NextGeneration, Typed, DecodersTyped, Room
  <2>3. playerGen' \in Generation /\ pending' \in Time \cup {Unset} /\ clock' \in Frame
    BY <1>0, <1>6 DEF SeekBump, SeekAdopt, SeekUnset, UnsetPending, Typed, DecodersTyped, GameTyped
  <2>4. QueuesTyped' /\ Room'
    BY <1>0, <2>1 DEF Typed, QueuesTyped, Room
  <2>5. DecodersTyped' /\ GameTyped'
    BY <1>0, <2>1, <2>2, <2>3 DEF Typed, DecodersTyped, GameTyped
  <2> QED
    BY <1>1, <2>4, <2>5 DEF TypeInv, Typed
<1>7. CASE SeekReset
  <2>1. /\ UNCHANGED <<workerVars, mediaVars, playerGen, pending, clock, renderVars, seekTo, shown>>
        /\ spc' \in {"reset_clear", "unset"}
    BY <1>7 DEF SeekReset
  <2>2. /\ geomGen' \in Generation /\ geomEos' \in Generation \cup {NoGeneration}
        /\ (UNCHANGED <<streamed, decoded>> \/ (streamed' = <<>> /\ decoded' = <<>>))
    BY <1>0, <1>7 DEF SeekReset, ResetStore, ResetClear, Typed, DecodersTyped, GameTyped
  <2>3. QueuesTyped' /\ Room'
    <3>1. CASE UNCHANGED <<streamed, decoded>>
      BY <1>0, <2>1, <3>1 DEF Typed, QueuesTyped, Room
    <3>2. CASE streamed' = <<>> /\ decoded' = <<>>
      <4>1. QueuesTyped'
        BY <1>0, <1>2, <2>1, <3>2 DEF Typed, QueuesTyped
      <4>2. Room'
        BY <1>0, <1>2, <2>1, <3>2 DEF Typed, DecodersTyped, Room
      <4> QED
        BY <4>1, <4>2
    <3> QED
      BY <2>2, <3>1, <3>2
  <2>4. DecodersTyped' /\ GameTyped'
    BY <1>0, <2>1, <2>2 DEF Typed, DecodersTyped, GameTyped
  <2> QED
    BY <1>1, <2>3, <2>4 DEF TypeInv, Typed
<1>8. CASE InheritedSeek
  <2>1. /\ spc = "inherited" /\ spc' = "idle" /\ mediaGen' = mediaGen + 1
        /\ UNCHANGED <<video, geometry, mediaEos, geometryVars, playerGen, pending, clock, renderVars,
                       seekTo, shown>>
        /\ \E f \in Frame : nextVideo' = f /\ nextGeometry' = f
    BY <1>8 DEF InheritedSeek, NextGeneration
  <2>2. mediaGen' \in Generation
    BY <1>0, <2>1 DEF Typed, DecodersTyped, Room
  <2>3. nextVideo' \in 1 .. LastFrame + 1 /\ nextGeometry' \in 1 .. LastFrame + 1
    BY <2>1
  <2>4. QueuesTyped' /\ Room'
    BY <1>0, <2>1 DEF Typed, QueuesTyped, Room
  <2>5. DecodersTyped' /\ GameTyped'
    BY <1>0, <2>1, <2>2, <2>3 DEF Typed, DecodersTyped, GameTyped
  <2> QED
    BY <1>1, <2>4, <2>5 DEF TypeInv, Typed
<1> QED
  BY <1>3, <1>4, <1>5, <1>6, <1>7, <1>8 DEF SeekStep

\* The render thread.
LEMMA RenderKeepsTypes ==
  ASSUME TypeInv, Present
  PROVE  TypeInv'
<1> USE DEF mediaVars, geometryVars, workerVars, renderVars, renderLocals, seekVars
<1>0. Typed /\ Room
  BY DEF TypeInv
<1>2. <<>> \in Seq(Sample) /\ Len(<<>>) = 0
  OBVIOUS
<1> USE Numbers, CapacityAssumption
<1>3. CASE PresentBegin \/ PresentEndSubmit \/ PresentMarkEnd \/ PresentFrameTime
  <2>1. /\ UNCHANGED <<mediaVars, streamed, decoded, workerVars, geomGen, clock, rHeld, rMesh, rVideo, seekVars, shown>>
        /\ rpc' \in {"reset", "submit", "mark", "select", "idle", "match"}
    BY <1>3 DEF PresentBegin, PresentEndSubmit, PresentMarkEnd, PresentFrameTime
  <2>2. FrontTime \in Time
    <3>1. CASE video = <<>>
      BY <3>1 DEF FrontTime
    <3>2. CASE video # <<>>
      BY <1>0, <3>2, HeadTail, SampleNumbers DEF FrontTime, Typed, QueuesTyped
    <3> QED
      BY <3>1, <3>2
  <2>3. VideoTarget \in Time
    BY <1>0 DEF VideoTarget, Typed, GameTyped, RenderTyped
  <2>4. /\ geomEos' \in Generation \cup {NoGeneration} /\ playerGen' \in Generation
        /\ pending' \in Time \cup {Unset}
    BY <1>0, <1>3, <2>2 DEF PresentBegin, PresentEndSubmit, PresentMarkEnd, PresentFrameTime,
                            Typed, DecodersTyped, GameTyped, RenderTyped
  <2>5. rGen' \in Generation /\ rTime' \in Frame /\ rTarget' \in Time /\ rTimeOfFrame' \in Time
    BY <1>0, <1>3, <2>2, <2>3 DEF PresentBegin, PresentEndSubmit, PresentMarkEnd, PresentFrameTime,
                            Typed, DecodersTyped, GameTyped, RenderTyped
  <2>6. QueuesTyped' /\ Room'
    BY <1>0, <2>1 DEF Typed, QueuesTyped, Room
  <2>7. DecodersTyped' /\ GameTyped'
    BY <1>0, <2>1, <2>4 DEF Typed, DecodersTyped, GameTyped
  <2>8. RenderTyped'
    BY <1>0, <2>1, <2>5 DEF Typed, RenderTyped
  <2> QED
    BY <2>6, <2>7, <2>8 DEF TypeInv, Typed
<1>4. CASE PresentReset
  <2>1. /\ UNCHANGED <<workerVars, mediaVars, playerGen, pending, clock, renderLocals, seekVars, shown>>
        /\ rpc' \in {"reset_clear", "submit"}
    BY <1>4 DEF PresentReset
  <2>2. /\ geomGen' \in Generation /\ geomEos' \in Generation \cup {NoGeneration}
        /\ (UNCHANGED <<streamed, decoded>> \/ (streamed' = <<>> /\ decoded' = <<>>))
    BY <1>0, <1>4 DEF PresentReset, ResetStore, ResetClear, Typed, DecodersTyped, RenderTyped
  <2>3. QueuesTyped' /\ Room'
    <3>1. CASE UNCHANGED <<streamed, decoded>>
      BY <1>0, <2>1, <3>1 DEF Typed, QueuesTyped, Room
    <3>2. CASE streamed' = <<>> /\ decoded' = <<>>
      <4>1. QueuesTyped'
        BY <1>0, <1>2, <2>1, <3>2 DEF Typed, QueuesTyped
      <4>2. Room'
        BY <1>0, <1>2, <2>1, <3>2 DEF Typed, DecodersTyped, Room
      <4> QED
        BY <4>1, <4>2
    <3> QED
      BY <2>2, <3>1, <3>2
  <2>4. DecodersTyped' /\ GameTyped' /\ RenderTyped'
    BY <1>0, <2>1, <2>2 DEF Typed, DecodersTyped, GameTyped, RenderTyped
  <2> QED
    BY <2>3, <2>4 DEF TypeInv, Typed
<1>5. CASE PresentTakeGeometry
  <2>1. /\ Len(streamed) < StreamedCapacity /\ geometry # <<>> /\ rHeld' = Head(geometry)
        /\ geometry' = Tail(geometry) /\ rpc' = "push"
        /\ UNCHANGED <<video, mediaEos, mediaGen, nextVideo, nextGeometry, geometryVars, playerGen, pending,
                       clock, rGen, rTime, rTarget, rTimeOfFrame, rMesh, rVideo, seekVars, shown>>
    BY <1>5 DEF PresentTakeGeometry, CanSubmit
  <2>2. /\ rHeld' \in Sample /\ geometry' \in Seq(Sample) /\ Len(geometry') = Len(geometry) - 1
        /\ Len(geometry) \in Nat
    BY <1>0, <2>1, HeadTail DEF Typed, QueuesTyped
  <2>3. QueuesTyped' /\ Room'
    BY <1>0, <2>1, <2>2 DEF Typed, QueuesTyped, Room
  <2>4. DecodersTyped' /\ GameTyped' /\ RenderTyped'
    BY <1>0, <2>1, <2>2 DEF Typed, DecodersTyped, GameTyped, RenderTyped
  <2> QED
    BY <2>3, <2>4 DEF TypeInv, Typed
<1>6. CASE PresentPushGeometry
  <2>1. /\ rpc = "push" /\ streamed' = Append(streamed, rHeld) /\ rpc' = "submit"
        /\ UNCHANGED <<decoded, workerVars, geomGen, geomEos, mediaVars, playerGen, pending, clock,
                       renderLocals, seekVars, shown>>
    BY <1>6 DEF PresentPushGeometry
  <2>2. /\ streamed' \in Seq(Sample) /\ Len(streamed') = Len(streamed) + 1 /\ Len(streamed) \in Nat
        /\ Len(streamed) < StreamedCapacity
    BY <1>0, <2>1, Appended DEF Typed, QueuesTyped, Room
  <2>3. QueuesTyped' /\ Room'
    BY <1>0, <2>1, <2>2 DEF Typed, QueuesTyped, Room
  <2>4. DecodersTyped' /\ GameTyped' /\ RenderTyped'
    BY <1>0, <2>1 DEF Typed, DecodersTyped, GameTyped, RenderTyped
  <2> QED
    BY <2>3, <2>4 DEF TypeInv, Typed
<1>7. CASE PresentSelect
  <2>1. /\ video' = From(video, rTarget) /\ rpc' \in {"idle", "frame_time"}
        /\ UNCHANGED <<geometry, mediaEos, mediaGen, nextVideo, nextGeometry, geometryVars, playerGen,
                       pending, clock, renderLocals, seekVars, shown>>
    BY <1>7 DEF PresentSelect
  <2>2. rTarget \in Time
    BY <1>0 DEF Typed, RenderTyped
  <2>3. video' \in Seq(Sample) /\ Len(video') <= Len(video) /\ Len(video) \in Nat /\ Len(video') \in Nat
    BY <1>0, <2>1, <2>2, FromTime, LenProperties DEF Typed, QueuesTyped
  <2>4. QueuesTyped' /\ Room'
    BY <1>0, <2>1, <2>3 DEF Typed, QueuesTyped, Room
  <2>5. DecodersTyped' /\ GameTyped' /\ RenderTyped'
    BY <1>0, <2>1 DEF Typed, DecodersTyped, GameTyped, RenderTyped
  <2> QED
    BY <2>4, <2>5 DEF TypeInv, Typed
<1>8. CASE PresentMatch
  <2>1. /\ decoded' = From(decoded, rTimeOfFrame) /\ rpc' \in {"drop_video", "idle", "copy"}
        /\ UNCHANGED <<streamed, workerVars, geomGen, geomEos, mediaVars, playerGen, pending, clock, rGen,
                       rTime, rTarget, rHeld, rTimeOfFrame, rVideo, seekVars, shown>>
        /\ rpc' = "copy" => decoded' # <<>> /\ rMesh' = Head(decoded')
        /\ rpc' # "copy" => UNCHANGED rMesh
    BY <1>8 DEF PresentMatch
  <2>2. rTimeOfFrame \in Time
    BY <1>0 DEF Typed, RenderTyped
  <2>3. /\ decoded' \in Seq(Sample) /\ Len(decoded') <= Len(decoded) /\ Len(decoded) \in Nat
        /\ Len(decoded') \in Nat /\ (rpc' = "copy" => rMesh' \in Sample)
    <3>1. decoded \in Seq(Sample)
      BY <1>0 DEF Typed, QueuesTyped
    <3>2. /\ decoded' \in Seq(Sample) /\ Len(decoded') <= Len(decoded)
          /\ decoded' # <<>> => Head(decoded') \in Sample
      BY <2>1, <2>2, <3>1, FromTime
    <3> QED
      BY <2>1, <3>1, <3>2, LenProperties
  <2>4. QueuesTyped' /\ Room'
    BY <1>0, <2>1, <2>3 DEF Typed, QueuesTyped, Room
  <2>5. DecodersTyped' /\ GameTyped' /\ RenderTyped'
    BY <1>0, <2>1, <2>3 DEF Typed, DecodersTyped, GameTyped, RenderTyped
  <2> QED
    BY <2>4, <2>5 DEF TypeInv, Typed
<1>9. CASE PresentDropVideo \/ PresentFreeVideo
  <2>1. /\ FreeFrontVideo /\ rpc \in {"drop_video", "free_video"} /\ rpc' \in {"idle", "free_mesh"}
        /\ (rpc' = "free_mesh" => rpc = "free_video")
        /\ UNCHANGED <<geometry, mediaEos, mediaGen, nextVideo, nextGeometry, geometryVars, playerGen, clock,
                       renderLocals, seekVars, shown>>
        /\ pending' \in {pending, Unset}
    BY <1>9 DEF PresentDropVideo, PresentFreeVideo, UnsetPending
  <2>2. video' \in Seq(Sample) /\ Len(video') <= Len(video) /\ Len(video) \in Nat /\ Len(video') \in Nat
    <3>1. CASE video = <<>>
      BY <1>2, <2>1, <3>1 DEF FreeFrontVideo
    <3>2. CASE video # <<>>
      BY <1>0, <2>1, <3>2, HeadTail, LenProperties DEF FreeFrontVideo, Typed, QueuesTyped
    <3> QED
      BY <3>1, <3>2
  <2>3. QueuesTyped' /\ Room'
    BY <1>0, <2>1, <2>2 DEF Typed, QueuesTyped, Room
  <2>4. DecodersTyped' /\ GameTyped' /\ RenderTyped'
    BY <1>0, <2>1 DEF Typed, DecodersTyped, GameTyped, RenderTyped
  <2> QED
    BY <2>3, <2>4 DEF TypeInv, Typed
<1>10. CASE PresentCopy
  <2>1. /\ rpc = "copy" /\ rpc' \in {"idle", "free_video"}
        /\ UNCHANGED <<mediaVars, geometryVars, playerGen, pending, clock, rGen, rTime, rTarget, rHeld,
                       rTimeOfFrame, rMesh, seekVars, shown>>
        /\ rpc' = "free_video" => video # <<>> /\ rVideo' = Head(video)
        /\ rpc' # "free_video" => UNCHANGED rVideo
    BY <1>10 DEF PresentCopy
  <2>2. rpc' = "free_video" => rVideo' \in Sample
    BY <1>0, <2>1, HeadTail DEF Typed, QueuesTyped
  <2>3. QueuesTyped' /\ Room'
    BY <1>0, <2>1, <2>2 DEF Typed, QueuesTyped, Room
  <2>4. DecodersTyped' /\ GameTyped' /\ RenderTyped'
    BY <1>0, <2>1, <2>2 DEF Typed, DecodersTyped, GameTyped, RenderTyped
  <2> QED
    BY <2>3, <2>4 DEF TypeInv, Typed
<1>11. CASE PresentReady
  <2>1. /\ rpc = "free_mesh" /\ decoded' = (IF decoded = <<>> THEN <<>> ELSE Tail(decoded)) /\ pending' = Unset
        /\ shown' = [video |-> rVideo, mesh |-> rMesh, time |-> rTimeOfFrame] /\ rpc' = "idle"
        /\ UNCHANGED <<streamed, workerVars, geomGen, geomEos, mediaVars, playerGen, clock, renderLocals, seekVars>>
    BY <1>11 DEF PresentReady, UnsetPending
  <2>2. decoded' \in Seq(Sample) /\ Len(decoded') <= Len(decoded) /\ Len(decoded) \in Nat /\ Len(decoded') \in Nat
    <3>1. CASE decoded = <<>>
      BY <1>2, <2>1, <3>1
    <3>2. CASE decoded # <<>>
      BY <1>0, <2>1, <3>2, HeadTail, LenProperties DEF Typed, QueuesTyped
    <3> QED
      BY <3>1, <3>2
  <2>3. shown' \in Shown
    BY <1>0, <2>1 DEF Shown, Typed, RenderTyped
  <2>4. QueuesTyped' /\ Room'
    BY <1>0, <2>1, <2>2 DEF Typed, QueuesTyped, Room
  <2>5. DecodersTyped' /\ GameTyped' /\ RenderTyped'
    BY <1>0, <2>1, <2>3 DEF Typed, DecodersTyped, GameTyped, RenderTyped
  <2> QED
    BY <2>4, <2>5 DEF TypeInv, Typed
<1> QED
  BY <1>3, <1>4, <1>5, <1>6, <1>7, <1>8, <1>9, <1>10, <1>11 DEF Present

LEMMA TypeStep == TypeInv /\ [Next]_vars => TypeInv'
BY NothingHappens, ProducersTyped, GameKeepsTypes, RenderKeepsTypes DEF Next

LEMMA TypesHold == Spec => []TypeInv
BY TypeInit, TypeStep, PTL DEF Spec

\* Every variable of the player keeps its type: what is taken from a queue has room in
\* the next, with any capacities and however a seek empties them in between.
THEOREM TypeCorrect == Spec => []TypeOK
<1>1. TypeInv => TypeOK
  BY DEF TypeInv, Typed, QueuesTyped, DecodersTyped, RenderTyped, GameTyped, TypeOK
<1> QED
  BY <1>1, TypesHold, PTL

-----------------------------------------------------------------------------
(* The stream of presentations.                                            *)

\* A queue of one pass, in the order of time, before what is decoded next.
Line(q, g, n) ==
  /\ \A i \in 1 .. Len(q) : q[i].gen = g /\ q[i].frame < n
  /\ \A i, j \in 1 .. Len(q) : i < j => q[i].frame < q[j].frame
After(q, t) == \A i \in 1 .. Len(q) : t < q[i].frame

\* A host that calls presentation() and seek() in turn.
Serial == rpc # "idle" => ~HostSeeks

\* Before a seek that the worker inherited there is no texture to choose.
Inheriting ==
  spc = "inherited" =>
    /\ video = <<>>
    /\ rpc \notin {"frame_time", "match", "copy", "free_video", "free_mesh"}

\* The textures that wait, and what was shown of their pass before.
Playing ==
  /\ Line(video, mediaGen, nextVideo)
  /\ spc = "bump" => video = <<>>
  /\ shown.video.gen <= mediaGen
  /\ spc # "bump" /\ shown.video.gen = mediaGen => shown.time < nextVideo /\ After(video, shown.time)

\* The texture that was chosen stays at the front until it is copied.
Chosen ==
  /\ rpc = "frame_time" => video # <<>>
  /\ rpc \in {"match", "copy"} => video # <<>> /\ Head(video).frame = rTimeOfFrame
  /\ rpc = "free_video" => video # <<>> /\ rVideo = Head(video)
  /\ rpc = "free_mesh" =>
       /\ rVideo.gen = mediaGen /\ rVideo.frame < nextVideo /\ After(video, rVideo.frame)
       /\ shown.video.gen = mediaGen => shown.time < rVideo.frame

\* What is handed to the host, or about to be, is of one time.
Paired ==
  /\ rpc \in {"copy", "free_video", "free_mesh"} => rMesh.frame = rTimeOfFrame
  /\ rpc \in {"free_video", "free_mesh"} => rVideo.frame = rTimeOfFrame
  /\ shown.video.frame = shown.time /\ shown.mesh.frame = shown.time

StreamInv == Serial /\ Inheriting /\ Playing /\ Chosen /\ Paired

\* What is left of a queue is as ordered as the queue.
LEMMA LineSuffix ==
  ASSUME NEW q \in Seq(Sample), NEW r \in Seq(Sample), NEW g, NEW m, Line(q, g, m), NEW n \in Nat,
         \A i \in 1 .. Len(r) : n + i \in 1 .. Len(q) /\ r[i] = q[n + i]
  PROVE  Line(r, g, m) /\ \A t : After(q, t) => After(r, t)
<1>1. \A i \in 1 .. Len(r) : r[i].gen = g /\ r[i].frame < m
  BY DEF Line
<1>2. ASSUME NEW i \in 1 .. Len(r), NEW j \in 1 .. Len(r), i < j
      PROVE  r[i].frame < r[j].frame
  <2>1. n + i \in 1 .. Len(q) /\ n + j \in 1 .. Len(q) /\ n + i < n + j
    BY <1>2
  <2> QED
    BY <2>1 DEF Line
<1>3. ASSUME NEW t, After(q, t)
      PROVE  After(r, t)
  BY <1>3 DEF After
<1> QED
  BY <1>1, <1>2, <1>3 DEF Line

\* The front of a queue is before the rest.
LEMMA LineTail ==
  ASSUME NEW q \in Seq(Sample), q # <<>>, NEW g, NEW m, Line(q, g, m)
  PROVE  /\ Line(Tail(q), g, m) /\ After(Tail(q), Head(q).frame)
         /\ Head(q).gen = g /\ Head(q).frame < m
         /\ \A t : After(q, t) => After(Tail(q), t) /\ t < Head(q).frame
<1>1. /\ Head(q) = q[1] /\ Len(q) \in Nat /\ Len(q) >= 1 /\ Tail(q) \in Seq(Sample)
      /\ Len(Tail(q)) = Len(q) - 1 /\ \A i \in 1 .. Len(q) - 1 : Tail(q)[i] = q[i + 1]
  BY HeadTail
<1>2. \A i \in 1 .. Len(Tail(q)) : 1 + i \in 1 .. Len(q) /\ Tail(q)[i] = q[1 + i]
  BY <1>1
<1>3. Line(Tail(q), g, m) /\ \A t : After(q, t) => After(Tail(q), t)
  BY <1>1, <1>2, LineSuffix
<1>4. 1 \in 1 .. Len(q)
  BY <1>1
<1>5. ASSUME NEW i \in 1 .. Len(Tail(q)) PROVE Head(q).frame < Tail(q)[i].frame
  <2>1. 1 + i \in 1 .. Len(q) /\ 1 < 1 + i
    BY <1>2
  <2> QED
    BY <1>1, <1>2, <1>4, <2>1 DEF Line
<1>6. Head(q).gen = g /\ Head(q).frame < m
  BY <1>1, <1>4 DEF Line
<1>7. \A t : After(q, t) => t < Head(q).frame
  BY <1>1, <1>4 DEF After
<1> QED
  BY <1>3, <1>5, <1>6, <1>7 DEF After

\* What is decoded next is behind the queue.
LEMMA LineAppend ==
  ASSUME NEW q \in Seq(Sample), NEW g \in Generation, NEW m \in Frame, Line(q, g, m)
  PROVE  /\ Line(Append(q, [gen |-> g, frame |-> m]), g, m + 1)
         /\ \A t : After(q, t) /\ t < m => After(Append(q, [gen |-> g, frame |-> m]), t)
<1> DEFINE e == [gen |-> g, frame |-> m]
           r == Append(q, e)
<1>1. e \in Sample /\ e.gen = g /\ e.frame = m /\ m \in Nat
  BY Numbers, StreamAssumption DEF Frame
<1>2. /\ Len(r) = Len(q) + 1 /\ Len(q) \in Nat /\ r[Len(q) + 1] = e
      /\ \A i \in 1 .. Len(q) : r[i] = q[i]
  BY <1>1, Appended
<1>3. \A i \in 1 .. Len(q) : q[i].frame \in Nat
  BY ElementOfSeq, SampleNumbers
<1> HIDE DEF e, r
<1>4. ASSUME NEW i \in 1 .. Len(r)
      PROVE  /\ r[i].gen = g /\ r[i].frame < m + 1 /\ r[i].frame <= m
             /\ (i \in 1 .. Len(q) \/ i = Len(q) + 1)
  <2>1. CASE i \in 1 .. Len(q)
    BY <1>1, <1>2, <1>3, <2>1 DEF Line
  <2>2. CASE i = Len(q) + 1
    BY <1>1, <1>2, <2>2
  <2> QED
    BY <1>2, <2>1, <2>2
<1>5. ASSUME NEW i \in 1 .. Len(r), NEW j \in 1 .. Len(r), i < j
      PROVE  r[i].frame < r[j].frame
  <2>1. i \in 1 .. Len(q)
    BY <1>2, <1>5
  <2>2. CASE j \in 1 .. Len(q)
    BY <1>2, <1>5, <2>1, <2>2 DEF Line
  <2>3. CASE j = Len(q) + 1
    BY <1>1, <1>2, <2>1, <2>3 DEF Line
  <2> QED
    BY <1>4, <2>2, <2>3
<1>6. ASSUME NEW t, After(q, t), t < m
      PROVE  After(r, t)
  <2>1. ASSUME NEW i \in 1 .. Len(r) PROVE t < r[i].frame
    BY <1>1, <1>2, <1>4, <1>6 DEF After
  <2> QED
    BY <2>1 DEF After
<1>7. Line(r, g, m + 1)
  BY <1>4, <1>5 DEF Line
<1> QED
  BY <1>6, <1>7 DEF r, e

LEMMA StreamInit == Init => StreamInv
<1> SUFFICES ASSUME Init PROVE StreamInv
  OBVIOUS
<1>1. Len(<<>>) = 0 /\ 1 .. 0 = {}
  OBVIOUS
<1>2. video = <<>> /\ rpc = "idle" /\ spc # "bump" /\ nextVideo = 1 /\ mediaGen \in Nat
  BY Numbers DEF Init
<1>3. shown.video.gen = 0 /\ shown.video.frame = 0 /\ shown.mesh.frame = 0 /\ shown.time = 0
  BY Numbers DEF Init
<1>4. Playing
  BY <1>1, <1>2, <1>3 DEF Playing, Line, After
<1> QED
  BY <1>2, <1>3, <1>4 DEF StreamInv, Serial, Inheriting, Chosen, Paired

\* A step that leaves the textures, the presentation and the render thread's choice alone.
LEMMA StreamUntouched ==
  ASSUME StreamInv, UNCHANGED <<video, mediaGen, nextVideo, shown>>,
         rpc' = rpc /\ UNCHANGED <<rTimeOfFrame, rMesh, rVideo>>,
         spc' = spc \/ (rpc = "idle" /\ spc' \notin {"bump", "inherited"} /\ spc # "bump")
  PROVE  StreamInv'
<1>1. Serial' /\ Inheriting'
  BY DEF StreamInv, Serial, Inheriting, HostSeeks
<1>2. Playing'
  BY DEF StreamInv, Playing
<1>3. Chosen' /\ Paired'
  BY DEF StreamInv, Chosen, Paired
<1> QED
  BY <1>1, <1>2, <1>3 DEF StreamInv

LEMMA NextVideoInFrame ==
  ASSUME TypeInv, nextVideo <= LastFrame
  PROVE  nextVideo \in Frame
BY Numbers DEF TypeInv, Typed, DecodersTyped

\* The demux thread and the Draco worker.
LEMMA ProducersKeepStream ==
  ASSUME TypeInv, StreamInv, ProduceVideo \/ ProduceGeometry \/ ProduceEnd \/ DecodeMesh
  PROVE  StreamInv'
<1> USE DEF mediaVars, geometryVars, workerVars, renderVars, seekVars
<1>1. CASE ProduceGeometry \/ ProduceEnd \/ DecodeMesh
  <2>1. UNCHANGED <<video, mediaGen, nextVideo, shown, renderVars, seekVars>>
    BY <1>1 DEF ProduceGeometry, ProduceEnd, DecodeMesh, WorkerPop, WorkerCheck, WorkerPush
  <2> QED
    BY <2>1, StreamUntouched
<1>2. CASE ProduceVideo
  <2>1. /\ spc \notin {"bump", "inherited"} /\ nextVideo <= LastFrame
        /\ video' = Append(video, [gen |-> mediaGen, frame |-> nextVideo])
        /\ nextVideo' = nextVideo + 1
        /\ UNCHANGED <<mediaGen, renderVars, seekVars, shown>>
    BY <1>2 DEF ProduceVideo, Producing
  <2>2. video \in Seq(Sample) /\ mediaGen \in Generation /\ nextVideo \in Frame /\ nextVideo \in Nat
    BY <2>1, NextVideoInFrame, StreamAssumption DEF Frame, TypeInv, Typed, QueuesTyped, DecodersTyped
  <2>3. Line(video', mediaGen, nextVideo') /\ \A t : After(video, t) /\ t < nextVideo => After(video', t)
    BY <2>1, <2>2, LineAppend DEF StreamInv, Playing
  <2>4. video # <<>> => video' # <<>> /\ Head(video') = Head(video)
    BY <2>1, <2>2, Appended, Numbers
  <2>5. shown.time \in Nat
    BY StreamAssumption DEF TypeInv, Typed, GameTyped, Shown, Time
  <2>6. Playing'
    <3>1. shown.time < nextVideo => shown.time < nextVideo'
      BY <2>1, <2>2, <2>5
    <3> QED
      BY <2>1, <2>3, <3>1 DEF StreamInv, Playing
  <2>7. Chosen'
    <3>1. rpc = "free_mesh" => rVideo.frame \in Nat
      BY SampleNumbers DEF TypeInv, Room
    <3>2. rpc = "free_mesh" => rVideo.frame < nextVideo'
      BY <2>1, <2>2, <3>1 DEF StreamInv, Chosen
    <3> QED
      BY <2>1, <2>3, <2>4, <3>2 DEF StreamInv, Chosen
  <2>8. Serial' /\ Inheriting' /\ Paired'
    BY <2>1 DEF StreamInv, Serial, HostSeeks, Inheriting, Paired
  <2> QED
    BY <2>6, <2>7, <2>8 DEF StreamInv
<1> QED
  BY <1>1, <1>2

\* The game thread.
LEMMA GameKeepsStream ==
  ASSUME TypeInv, StreamInv, HostSerialises, Tick \/ (\E f \in Frame : SeekBegin(f)) \/ SeekStep
  PROVE  StreamInv'
<1> USE DEF mediaVars, geometryVars, workerVars, renderVars, seekVars
<1>1. CASE Tick
  <2>1. UNCHANGED <<mediaVars, renderVars, seekVars, shown>>
    BY <1>1 DEF Tick
  <2> QED
    BY <2>1, StreamUntouched
<1>2. ASSUME NEW f \in Frame, SeekBegin(f) PROVE StreamInv'
  <2>1. UNCHANGED <<mediaVars, renderVars, shown>> /\ spc = "idle" /\ spc' = "flush" /\ rpc = "idle"
    BY <1>2 DEF SeekBegin
  <2> QED
    BY <2>1, StreamUntouched
<1>3. CASE SeekAdopt \/ SeekReset \/ SeekUnset
  <2>1. /\ UNCHANGED <<mediaVars, renderVars, shown>>
        /\ spc \in {"adopt", "reset", "reset_clear", "unset"} /\ spc' \in {"reset", "reset_clear", "unset", "idle"}
    BY <1>3 DEF SeekAdopt, SeekReset, SeekUnset
  <2>2. rpc = "idle"
    BY <2>1 DEF StreamInv, Serial, HostSeeks
  <2> QED
    BY <2>1, <2>2, StreamUntouched
<1>4. CASE SeekFlush
  <2>1. /\ spc = "flush" /\ video' = <<>> /\ spc' = "bump" /\ UNCHANGED <<mediaGen, renderVars, shown>>
    BY <1>4 DEF SeekFlush
  <2>2. rpc = "idle"
    BY <2>1 DEF StreamInv, Serial, HostSeeks
  <2>3. Len(<<>>) = 0 /\ 1 .. 0 = {}
    OBVIOUS
  <2>4. Playing'
    BY <2>1, <2>3 DEF StreamInv, Playing, Line
  <2> QED
    BY <2>1, <2>2, <2>4 DEF StreamInv, Serial, Inheriting, Chosen, Paired
<1>5. CASE SeekBump
  <2>1. /\ spc = "bump" /\ mediaGen' = mediaGen + 1 /\ spc' = "adopt"
        /\ UNCHANGED <<video, nextVideo, renderVars, shown>>
    BY <1>5 DEF SeekBump, NextGeneration
  <2>2. rpc = "idle" /\ video = <<>>
    BY <2>1 DEF StreamInv, Serial, HostSeeks, Playing
  <2>3. Len(<<>>) = 0 /\ 1 .. 0 = {}
    OBVIOUS
  <2>4. mediaGen \in Nat /\ shown.video.gen \in Nat
    BY Numbers, SampleNumbers DEF TypeInv, Typed, DecodersTyped, GameTyped, Shown
  <2>5. shown.video.gen <= mediaGen' /\ shown.video.gen # mediaGen'
    BY <2>1, <2>4 DEF StreamInv, Playing
  <2>6. Playing'
    BY <2>1, <2>2, <2>3, <2>5 DEF Playing, Line
  <2> QED
    BY <2>1, <2>2, <2>6 DEF StreamInv, Serial, Inheriting, Chosen, Paired
<1>6. CASE InheritedSeek
  <2>1. /\ spc = "inherited" /\ mediaGen' = mediaGen + 1 /\ spc' = "idle"
        /\ UNCHANGED <<video, renderVars, shown>>
    BY <1>6 DEF InheritedSeek, NextGeneration
  <2>2. video = <<>> /\ rpc \notin {"frame_time", "match", "copy", "free_video", "free_mesh"}
    BY <2>1 DEF StreamInv, Inheriting
  <2>3. Len(<<>>) = 0 /\ 1 .. 0 = {}
    OBVIOUS
  <2>4. mediaGen \in Nat /\ shown.video.gen \in Nat
    BY Numbers, SampleNumbers DEF TypeInv, Typed, DecodersTyped, GameTyped, Shown
  <2>5. shown.video.gen <= mediaGen' /\ shown.video.gen # mediaGen'
    BY <2>1, <2>4 DEF StreamInv, Playing
  <2>6. Playing'
    BY <2>1, <2>2, <2>3, <2>5 DEF Playing, Line
  <2> QED
    BY <2>1, <2>2, <2>6 DEF StreamInv, Serial, HostSeeks, Inheriting, Chosen, Paired
<1> QED
  BY <1>1, <1>2, <1>3, <1>4, <1>5, <1>6 DEF SeekStep

\* The render thread.
LEMMA RenderKeepsStream ==
  ASSUME TypeInv, StreamInv, HostSerialises, Present
  PROVE  StreamInv'
<1> USE DEF mediaVars, geometryVars, workerVars, renderVars, renderLocals, seekVars
<1>0. ~HostSeeks /\ spc # "bump" /\ spc' = spc /\ UNCHANGED <<nextVideo, mediaGen>>
  <2>1. UNCHANGED <<nextVideo, mediaGen, seekVars>>
    BY DEF Present, PresentBegin, PresentReset, PresentTakeGeometry, PresentPushGeometry, PresentEndSubmit,
           PresentMarkEnd, PresentSelect, PresentFrameTime, PresentMatch, PresentDropVideo, PresentCopy,
           PresentFreeVideo, PresentReady
  <2>2. rpc # "idle" \/ ~HostSeeks
    BY DEF Present, PresentBegin, PresentReset, PresentTakeGeometry, PresentPushGeometry, PresentEndSubmit,
           PresentMarkEnd, PresentSelect, PresentFrameTime, PresentMatch, PresentDropVideo, PresentCopy,
           PresentFreeVideo, PresentReady
  <2> QED
    BY <2>1, <2>2 DEF StreamInv, Serial, HostSeeks
<1>1. Serial'
  BY <1>0 DEF Serial, HostSeeks
<1>2. video \in Seq(Sample) /\ decoded \in Seq(Sample) /\ rTarget \in Time /\ rTimeOfFrame \in Time
  BY DEF TypeInv, Typed, QueuesTyped, RenderTyped
<1>11. Inheriting'
  <2> SUFFICES ASSUME spc = "inherited"
               PROVE  /\ video' = <<>>
                      /\ rpc' \notin {"frame_time", "match", "copy", "free_video", "free_mesh"}
    BY <1>0 DEF Inheriting
  <2>1. video = <<>> /\ rpc \notin {"frame_time", "match", "copy", "free_video", "free_mesh"}
    BY DEF StreamInv, Inheriting
  <2>2. CASE PresentSelect
    <3>1. /\ video' = From(video, rTarget) /\ rpc' \in {"idle", "frame_time"}
          /\ rpc' = "frame_time" => video' # <<>>
      BY <2>2 DEF PresentSelect
    <3>2. video' \in Seq(Sample) /\ Len(video') <= Len(video) /\ Len(video) = 0
      BY <1>2, <2>1, <3>1, FromTime
    <3>3. video' = <<>>
      BY <3>2, EmptySeq, LenProperties
    <3> QED
      BY <3>1, <3>3
  <2>3. CASE ~PresentSelect
    BY <2>1, <2>3 DEF Present, PresentBegin, PresentReset, PresentTakeGeometry, PresentPushGeometry,
      PresentEndSubmit, PresentMarkEnd, PresentFrameTime, PresentMatch, PresentDropVideo, FreeFrontVideo,
      PresentCopy, PresentFreeVideo, PresentReady
  <2> QED
    BY <2>2, <2>3
<1>3. CASE PresentBegin \/ PresentReset \/ PresentTakeGeometry \/ PresentPushGeometry \/ PresentEndSubmit
           \/ PresentMarkEnd
  <2>1. UNCHANGED <<video, shown>> /\ rpc' \in {"reset", "reset_clear", "submit", "push", "mark", "select"}
    BY <1>3 DEF PresentBegin, PresentReset, PresentTakeGeometry, PresentPushGeometry, PresentEndSubmit,
                PresentMarkEnd
  <2> QED
    BY <1>0, <1>1, <1>11, <2>1 DEF StreamInv, Playing, Chosen, Paired
<1>4. CASE PresentSelect
  <2>1. /\ video' = From(video, rTarget) /\ rpc' \in {"idle", "frame_time"}
        /\ rpc' = "frame_time" => video' # <<>>
        /\ UNCHANGED shown
    BY <1>4 DEF PresentSelect
  <2>2. PICK n \in Nat : \A i \in 1 .. Len(video') : n + i \in 1 .. Len(video) /\ video'[i] = video[n + i]
    BY <1>2, <2>1, FromTime
  <2>3. video' \in Seq(Sample)
    BY <1>2, <2>1, FromTime
  <2>4. Line(video', mediaGen, nextVideo) /\ \A t : After(video, t) => After(video', t)
    <3>1. Line(video, mediaGen, nextVideo)
      BY DEF StreamInv, Playing
    <3> QED
      BY <1>2, <2>2, <2>3, <3>1, LineSuffix
  <2>5. Playing'
    BY <1>0, <2>1, <2>4 DEF StreamInv, Playing
  <2> QED
    BY <1>1, <1>11, <2>1, <2>5 DEF StreamInv, Chosen, Paired
<1>5. CASE PresentFrameTime
  <2>1. /\ UNCHANGED <<video, shown>> /\ rpc = "frame_time" /\ rpc' \in {"idle", "match"}
        /\ rpc' = "match" => rTimeOfFrame' = FrontTime
    BY <1>5 DEF PresentFrameTime
  <2>2. video # <<>>
    BY <2>1 DEF StreamInv, Chosen
  <2>3. rpc' = "match" => Head(video').frame = rTimeOfFrame'
    BY <2>1, <2>2 DEF FrontTime
  <2>4. Playing'
    BY <1>0, <2>1 DEF StreamInv, Playing
  <2> QED
    BY <1>1, <1>11, <2>1, <2>2, <2>3, <2>4 DEF StreamInv, Chosen, Paired
<1>6. CASE PresentMatch
  <2>1. /\ UNCHANGED <<video, shown, rTimeOfFrame>> /\ rpc = "match" /\ rpc' \in {"idle", "drop_video", "copy"}
        /\ decoded' = From(decoded, rTimeOfFrame)
        /\ rpc' = "copy" => decoded' # <<>> /\ ~TooLate(decoded', rTimeOfFrame) /\ rMesh' = Head(decoded')
    BY <1>6 DEF PresentMatch
  <2>2. rpc' = "copy" => rMesh'.frame = rTimeOfFrame
    <3>1. HAVE rpc' = "copy"
    <3>2. Head(decoded').frame >= rTimeOfFrame /\ Head(decoded') \in Sample
      BY <1>2, <2>1, <3>1, FromTime
    <3>3. Head(decoded').frame \in Nat /\ rTimeOfFrame \in Nat
      BY <1>2, <3>2, SampleNumbers, StreamAssumption DEF Time
    <3>4. ~(Head(decoded').frame > rTimeOfFrame)
      BY <2>1, <3>1 DEF TooLate
    <3> QED
      BY <2>1, <3>1, <3>2, <3>3, <3>4
  <2>3. Playing'
    BY <1>0, <2>1 DEF StreamInv, Playing
  <2> QED
    BY <1>1, <1>11, <2>1, <2>2, <2>3 DEF StreamInv, Chosen, Paired
<1>7. CASE PresentDropVideo
  <2>1. rpc' = "idle" /\ UNCHANGED shown /\ video' = IF video = <<>> THEN <<>> ELSE Tail(video)
    BY <1>7 DEF PresentDropVideo, FreeFrontVideo
  <2>2. Playing'
    <3>1. CASE video = <<>>
      BY <1>0, <2>1, <3>1 DEF StreamInv, Playing
    <3>2. CASE video # <<>>
      <4>1. Line(video', mediaGen, nextVideo) /\ \A t : After(video, t) => After(video', t)
        BY <1>2, <2>1, <3>2, LineTail DEF StreamInv, Playing
      <4> QED
        BY <1>0, <2>1, <4>1 DEF StreamInv, Playing
    <3> QED
      BY <3>1, <3>2
  <2> QED
    BY <1>1, <1>11, <2>1, <2>2 DEF StreamInv, Chosen, Paired
<1>8. CASE PresentCopy
  <2>1. /\ UNCHANGED <<video, shown, rTimeOfFrame, rMesh>> /\ rpc = "copy" /\ rpc' \in {"idle", "free_video"}
        /\ rpc' = "free_video" => video # <<>> /\ rVideo' = Head(video)
    BY <1>8 DEF PresentCopy
  <2>2. Playing'
    BY <1>0, <2>1 DEF StreamInv, Playing
  <2> QED
    BY <1>1, <1>11, <2>1, <2>2 DEF StreamInv, Chosen, Paired
<1>9. CASE PresentFreeVideo
  <2>1. /\ rpc = "free_video" /\ rpc' = "free_mesh" /\ UNCHANGED <<shown, rTimeOfFrame, rMesh, rVideo>>
        /\ video' = IF video = <<>> THEN <<>> ELSE Tail(video)
    BY <1>9 DEF PresentFreeVideo, FreeFrontVideo
  <2>2. video # <<>> /\ rVideo = Head(video)
    BY <2>1 DEF StreamInv, Chosen
  <2>3. /\ Line(video', mediaGen, nextVideo) /\ After(video', rVideo.frame)
        /\ rVideo.gen = mediaGen /\ rVideo.frame < nextVideo
        /\ \A t : After(video, t) => After(video', t) /\ t < rVideo.frame
    BY <1>2, <2>1, <2>2, LineTail DEF StreamInv, Playing
  <2>4. Playing'
    BY <1>0, <2>1, <2>3 DEF StreamInv, Playing
  <2>5. Chosen'
    BY <1>0, <2>1, <2>3 DEF StreamInv, Chosen, Playing
  <2> QED
    BY <1>1, <1>11, <2>1, <2>4, <2>5 DEF StreamInv, Paired
<1>10. CASE PresentReady
  <2>1. /\ rpc = "free_mesh" /\ rpc' = "idle" /\ UNCHANGED video
        /\ shown' = [video |-> rVideo, mesh |-> rMesh, time |-> rTimeOfFrame]
    BY <1>10 DEF PresentReady
  <2>2. shown'.video = rVideo /\ shown'.mesh = rMesh /\ shown'.time = rTimeOfFrame
    BY <2>1
  <2>3. /\ rVideo.gen = mediaGen /\ rVideo.frame < nextVideo /\ After(video, rVideo.frame)
        /\ rVideo.frame = rTimeOfFrame /\ rMesh.frame = rTimeOfFrame
    BY <2>1 DEF StreamInv, Chosen, Paired
  <2>4. mediaGen \in Nat
    BY Numbers DEF TypeInv, Typed, DecodersTyped
  <2>5. Playing'
    BY <1>0, <2>1, <2>2, <2>3, <2>4 DEF StreamInv, Playing
  <2>6. Paired' /\ Chosen'
    BY <2>1, <2>2, <2>3 DEF Paired, Chosen
  <2> QED
    BY <1>1, <1>11, <2>5, <2>6 DEF StreamInv
<1> QED
  BY <1>3, <1>4, <1>5, <1>6, <1>7, <1>8, <1>9, <1>10 DEF Present

LEMMA StreamStep ==
  ASSUME TypeInv, StreamInv, HostSerialises, [Next]_vars
  PROVE  StreamInv'
<1>1. CASE UNCHANGED vars
  BY <1>1, StreamUntouched DEF vars, mediaVars, renderVars, seekVars
<1> QED
  BY <1>1, ProducersKeepStream, GameKeepsStream, RenderKeepsStream DEF Next

\* A host that calls presentation() and seek() in turn is handed complete presentations
\* only: of whatever the queues hold, and however the Draco worker lags or leaves out
\* meshes, the texture and the mesh are of one time.
THEOREM PairsAreComplete == HostSerialises => (Spec => []CompletePairs)
<1> SUFFICES ASSUME HostSerialises PROVE Spec => []CompletePairs
  OBVIOUS
<1>1. TypeInv /\ StreamInv /\ [Next]_vars => StreamInv'
  BY StreamStep
<1>2. StreamInv => CompletePairs
  BY DEF StreamInv, Paired, CompletePairs
<1> QED
  BY <1>1, <1>2, StreamInit, TypesHold, PTL DEF Spec

\* A step of the player is a step of the stream, or none.
LEMMA StreamSteps ==
  ASSUME TypeInv, StreamInv, HostSerialises, [Next]_vars
  PROVE  [Stream!Next]_Stream!vars
<1> USE DEF mediaVars, geometryVars, workerVars, renderVars, renderLocals, seekVars
<1>1. CASE UNCHANGED <<mediaGen, shown>>
  BY <1>1 DEF Stream!vars, Presented
<1>2. CASE SeekBump \/ InheritedSeek
  <2>1. mediaGen' = mediaGen + 1 /\ UNCHANGED shown /\ spc \in {"bump", "inherited"}
    BY <1>2 DEF SeekBump, InheritedSeek, NextGeneration
  <2>2. mediaGen \in Generation /\ mediaGen < MaxGeneration
    BY <2>1 DEF TypeInv, Typed, DecodersTyped, Room
  <2>3. mediaGen' \in Generation /\ mediaGen' > mediaGen
    BY <2>1, <2>2, Numbers
  <2> QED
    BY <2>1, <2>3 DEF Stream!Next, Stream!Seek, Presented
<1>3. CASE PresentReady
  <2>1. /\ rpc = "free_mesh" /\ UNCHANGED mediaGen
        /\ shown' = [video |-> rVideo, mesh |-> rMesh, time |-> rTimeOfFrame]
    BY <1>3 DEF PresentReady
  <2>2. /\ rVideo.gen = mediaGen /\ rVideo.frame = rTimeOfFrame /\ rMesh.frame = rTimeOfFrame
        /\ shown.video.gen = mediaGen => shown.time < rTimeOfFrame
    BY <2>1 DEF StreamInv, Chosen, Paired
  <2>3. rTimeOfFrame \in Frame
    BY <2>1, <2>2, SampleNumbers DEF TypeInv, Room
  <2>4. rTimeOfFrame \in Nat /\ shown.time \in Nat
    BY <2>3, StreamAssumption DEF Frame, Time, Shown, TypeInv, Typed, GameTyped
  <2>5. Presented' = Stream!Pair(mediaGen, rTimeOfFrame)
    BY <2>1, <2>2 DEF Presented, Stream!Pair
  <2>6. Presented.pass = mediaGen => rTimeOfFrame > Presented.time
    BY <2>2, <2>4 DEF Presented
  <2> QED
    BY <2>1, <2>3, <2>5, <2>6 DEF Stream!Next, Stream!Present
<1>4. ASSUME Next, ~SeekBump, ~InheritedSeek, ~PresentReady PROVE UNCHANGED <<mediaGen, shown>>
  <2>1. CASE ProduceVideo \/ ProduceGeometry \/ ProduceEnd \/ DecodeMesh
    BY <2>1 DEF ProduceVideo, ProduceGeometry, ProduceEnd, DecodeMesh, WorkerPop, WorkerCheck, WorkerPush
  <2>2. CASE Present
    BY <1>4, <2>2 DEF Present, PresentBegin, PresentReset, PresentTakeGeometry, PresentPushGeometry,
      PresentEndSubmit, PresentMarkEnd, PresentSelect, PresentFrameTime, PresentMatch, PresentDropVideo,
      PresentCopy, PresentFreeVideo
  <2>3. CASE Tick \/ (\E f \in Frame : SeekBegin(f)) \/ SeekStep
    BY <1>4, <2>3 DEF Tick, SeekBegin, SeekStep, SeekFlush, SeekAdopt, SeekReset, SeekUnset
  <2> QED
    BY <1>4, <2>1, <2>2, <2>3 DEF Next
<1> QED
  BY <1>1, <1>2, <1>3, <1>4 DEF vars

\* To such a host the player is a stream of presentations: none is of a pass that a seek
\* has ended, and within a pass the time of each is later than that of the one before.
THEOREM PlayerImplements == HostSerialises => (Spec => ImplementsStream)
<1> SUFFICES ASSUME HostSerialises PROVE Spec => ImplementsStream
  OBVIOUS
<1>1. Init => Stream!Init
  <2> SUFFICES ASSUME Init PROVE Stream!Init
    OBVIOUS
  <2>1. mediaGen \in Generation /\ Presented = Stream!Nothing
    BY Numbers DEF Init, Presented, Stream!Nothing
  <2> QED
    BY <2>1 DEF Stream!Init
<1>2. TypeInv /\ StreamInv /\ [Next]_vars => StreamInv' /\ [Stream!Next]_Stream!vars
  BY StreamStep, StreamSteps
<1> QED
  BY <1>1, <1>2, StreamInit, TypesHold, PTL DEF Spec, ImplementsStream, Stream!Spec

-----------------------------------------------------------------------------
(* The session: opening, starting, stopping and closing.                   *)

Opening == {"source", "input", "streams", "codecs", "audio", "geometry", "failed"}
Starting == {"start", "unstart", "unjoin"}

SessionTyped ==
  /\ pc \in Opening \cup Starting \cup {"idle", "cancel", "join", "drain", "destroy", "media", "wait", "seek",
                                   "terminated"}
  /\ op \in {"open", "fail", "close", "stop", "start", "seek"}
  /\ started \in BOOLEAN /\ open \in BOOLEAN
  /\ acquired \subseteq Things

\* Where the host is tells what is started: m_impl->started is set only over an
\* open file, and neither file nor workers are touched before it is cleared.
Phases ==
  /\ started => open
  /\ pc \in Starting => open /\ ~started
  /\ pc \in {"join", "drain"} => started
  /\ pc \in Opening \cup {"destroy", "media"} => ~started
  /\ pc \in Opening => ~open
  /\ pc = "cancel" => op \in {"open", "close"}

\* A geometry worker exists only in a player that is started; a demux worker in one
\* that is open, for a start() that was broken off leaves it behind.
WorkersInPhase ==
  /\ ~started => draco = "none"
  /\ ~open => demux = "none"
  /\ pc = "start" => demux # "none"
  /\ pc = "drain" => demux = "none"

\* open() acquires the input before the codecs, and geometry last.
InOrder ==
  /\ pc \in {"input", "streams", "codecs", "audio", "geometry"} => "source" \in acquired
  /\ pc \in {"streams", "codecs", "audio", "geometry"} => "context" \in acquired
  /\ pc \in {"audio", "geometry"} => "video" \in acquired

SessionInv == SessionTyped /\ Phases /\ WorkersInPhase /\ InOrder

\* A new player satisfies the invariant.
LEMMA InitSession == SessionInit => SessionInv
  BY DEF SessionInit, SessionInv, SessionTyped, Phases, WorkersInPhase, InOrder, Opening, Starting, Things

-----------------------------------------------------------------------------
(* The invariant is kept.                                                  *)

\* open(), close(), start(), stop() and seek() find the host in none of them.
LEMMA CallsKeep ==
  ASSUME SessionInv, Calls
  PROVE  SessionInv'
<1> USE DEF SessionInv, SessionTyped, Phases, WorkersInPhase, InOrder, Opening, Starting, Things, Working,
           callVars, playerVars, decoderVars, threadVars
<1>1. CASE Open
  BY <1>1 DEF Open, Begin
<1>2. CASE Close
  BY <1>2 DEF Close, Begin
<1>3. CASE StartMedia
  BY <1>3 DEF StartMedia, Begin
<1>4. CASE Stop
  BY <1>4 DEF Stop, Begin
<1>5. CASE Seek
  BY <1>5 DEF Seek, Begin
<1> QED
  BY <1>1, <1>2, <1>3, <1>4, <1>5 DEF Calls

\* close(): the workers are joined before what they use is released, also after
\* an open() that failed.
LEMMA ClosingKeeps ==
  ASSUME SessionInv, CloseCancel \/ StopJoin \/ StopDrain \/ DestroyGeometry \/ DestroyMedia \/ OpenFailed
  PROVE  SessionInv'
<1> USE DEF SessionInv, SessionTyped, Phases, WorkersInPhase, InOrder, Opening, Starting, Things, Working,
           callVars, playerVars, decoderVars, threadVars
<1>1. CASE CloseCancel
  BY <1>1 DEF CloseCancel
<1>2. CASE StopJoin
  BY <1>2 DEF StopJoin, Joined
<1>3. CASE DestroyGeometry
  BY <1>3 DEF DestroyGeometry, DracoJoined
<1>4. CASE DestroyMedia
  BY <1>4 DEF DestroyMedia, Joined
<1>5. CASE OpenFailed
  BY <1>5 DEF OpenFailed
<1>6. CASE StopDrain
  BY <1>6 DEF StopDrain, DracoJoined
<1> QED
  BY <1>1, <1>2, <1>3, <1>4, <1>5, <1>6

\* open() acquires a file piece by piece, and gives up whole.
LEMMA OpeningKeeps ==
  ASSUME SessionInv,
         OpenSource \/ OpenInput \/ FinishOpen \/ OpenVideo \/ NoAudio \/ OpenAudio \/ OpenGeometry
  PROVE  SessionInv'
<1> USE DEF SessionInv, SessionTyped, Phases, WorkersInPhase, InOrder, Opening, Starting, Things, Working,
           callVars, playerVars, decoderVars, threadVars
<1>1. CASE OpenSource
  BY <1>1 DEF OpenSource, OpenStep
<1>2. CASE OpenInput
  BY <1>2 DEF OpenInput, OpenStep, ContainerClosed
<1>3. CASE FinishOpen
  BY <1>3 DEF FinishOpen, OpenStep, ContainerClosed
<1>4. CASE OpenVideo
  BY <1>4 DEF OpenVideo, OpenStep
<1>5. CASE NoAudio
  BY <1>5 DEF NoAudio, OpenStep
<1>6. CASE OpenAudio
  BY <1>6 DEF OpenAudio, OpenStep
<1>7. CASE OpenGeometry
  BY <1>7 DEF OpenGeometry
<1> QED
  BY <1>1, <1>2, <1>3, <1>4, <1>5, <1>6, <1>7

\* start() adds the geometry worker or is broken off; seek() leaves the workers.
LEMMA RunningKeeps ==
  ASSUME SessionInv, StartGeometry \/ Rollback \/ RollbackJoin \/ SeekAlone \/ SeekReturn
  PROVE  SessionInv'
<1> USE DEF SessionInv, SessionTyped, Phases, WorkersInPhase, InOrder, Opening, Starting, Things, Working,
           callVars, playerVars, decoderVars, threadVars
<1>1. CASE StartGeometry
  <2>1. /\ pc = "start" /\ open /\ open' = open /\ acquired' = acquired /\ op' = op /\ demux' = demux
        /\ pc' = "idle"
        /\ \/ draco' = "fresh" /\ started' = TRUE
           \/ draco' = draco /\ started' = started
    BY <1>1 DEF StartGeometry
  <2>2. CASE draco' = "fresh" /\ started' = TRUE
    <3>1. SessionTyped'
      BY <2>1, <2>2
    <3>2. Phases'
      BY <2>1, <2>2
    <3>3. WorkersInPhase' /\ InOrder'
      BY <2>1, <2>2
    <3> QED
      BY <3>1, <3>2, <3>3
  <2>3. CASE draco' = draco /\ started' = started
    BY <2>1, <2>3
  <2> QED
    BY <2>1, <2>2, <2>3
<1>2. CASE Rollback
  BY <1>2 DEF Rollback, DracoJoined
<1>3. CASE RollbackJoin
  BY <1>3 DEF RollbackJoin, Joined
<1>4. CASE SeekAlone
  BY <1>4 DEF SeekAlone
<1>5. CASE SeekReturn
  BY <1>5 DEF SeekReturn
<1> QED
  BY <1>1, <1>2, <1>3, <1>4, <1>5

\* The workers and the other threads leave what the player owns alone: a worker
\* that ends is joinable still.
LEMMA OthersKeep ==
  ASSUME SessionInv, Demux \/ Draco \/ Cancel \/ Network \/ UNCHANGED sessionVars
  PROVE  SessionInv'
<1> USE DEF SessionInv, SessionTyped, Phases, WorkersInPhase, InOrder, Opening, Starting, Things, Working,
           callVars, playerVars, decoderVars, threadVars
<1>1. CASE Demux
  <2>1. /\ demux \in Working /\ demux' # "none"
        /\ pc' = pc /\ op' = op /\ started' = started /\ open' = open /\ acquired' = acquired /\ draco' = draco
    BY <1>1 DEF Demux, DemuxStep, DemuxEnd, DemuxTakeSeek, DemuxSeek, DemuxDecode, DemuxRead,
                DemuxFail
  <2> QED
    BY <2>1
<1>2. CASE Cancel \/ Network \/ UNCHANGED sessionVars
  <2>1. /\ pc' = pc /\ op' = op /\ started' = started /\ open' = open /\ acquired' = acquired
        /\ draco' = draco /\ demux' = demux
    BY <1>2 DEF Cancel, Network, sessionVars
  <2> QED
    BY <2>1
<1>3. CASE Draco
  <2>1. /\ pc' = pc /\ op' = op /\ started' = started /\ open' = open /\ acquired' = acquired
        /\ draco # "none" /\ demux' = demux
    BY <1>3 DEF Draco, DracoStep, DracoBegin, DracoEnd
  <2> QED
    BY <2>1
<1> QED
  BY <1>1, <1>2, <1>3

\* Every step keeps the invariant.
LEMMA NextKeeps ==
  ASSUME SessionInv, [SessionNext]_sessionVars
  PROVE  SessionInv'
  BY CallsKeep, ClosingKeeps, OpeningKeeps, RunningKeeps, OthersKeep DEF SessionNext, Host

\* The invariant holds of every session.
LEMMA SessionIsSound == SessionSpec => []SessionInv
  BY InitSession, NextKeeps, PTL DEF SessionSpec

-----------------------------------------------------------------------------
(* The refinement: what a step is, seen by the lifecycle.                  *)

\* A step that the lifecycle sees nothing of.
Unseen == State' = State /\ Owned' = Owned
Seen == [Lifecycle!Next]_(Lifecycle!vars)

\* A step that changes neither is a stutter.
LEMMA UnseenIsSeen == ASSUME Unseen PROVE Seen
  BY DEF Unseen, Seen, Lifecycle!vars

\* A new player is closed and owns nothing.
LEMMA InitRefines == SessionInit => Lifecycle!Init
  BY DEF SessionInit, Lifecycle!Init, State, AtRest, Owned

\* A call begins to close, to start or to stop, or it is a seek.
LEMMA CallsRefine ==
  ASSUME SessionInv, SessionInv', Open \/ Close \/ StartMedia \/ Stop \/ Seek
  PROVE  Seen
<1> USE DEF SessionInv, SessionTyped, Phases, WorkersInPhase, InOrder, Opening, Starting, Things, Working,
           callVars, playerVars, decoderVars, threadVars, State, AtRest, Owned
<1>1. CASE Open
  <2>1. Lifecycle!BeginClose
    BY <1>1 DEF Open, Begin, Lifecycle!BeginClose, Lifecycle!Moves
  <2> QED
    BY <2>1 DEF Seen, Lifecycle!Next
<1>2. CASE Close
  <2>1. Lifecycle!BeginClose
    BY <1>2 DEF Close, Begin, Lifecycle!BeginClose, Lifecycle!Moves
  <2> QED
    BY <2>1 DEF Seen, Lifecycle!Next
<1>3. CASE StartMedia
  <2>1. Lifecycle!BeginStart \/ Lifecycle!BeginStop \/ Lifecycle!Terminate
    BY <1>3 DEF StartMedia, Begin, Lifecycle!BeginStart, Lifecycle!BeginStop, Lifecycle!Terminate,
                Lifecycle!Moves
  <2> QED
    BY <2>1 DEF Seen, Lifecycle!Next
<1>4. CASE Stop
  <2>1. Lifecycle!BeginStop
    BY <1>4 DEF Stop, Begin, Lifecycle!BeginStop, Lifecycle!Moves
  <2> QED
    BY <2>1 DEF Seen, Lifecycle!Next
<1>5. CASE Seek
  <2>1. Unseen
    BY <1>5 DEF Seek, Begin, Unseen
  <2> QED
    BY <2>1, UnseenIsSeen
<1> QED
  BY <1>1, <1>2, <1>3, <1>4, <1>5

\* The workers go first, and a player is closed when nothing is left.
LEMMA ClosingRefines ==
  ASSUME SessionInv, SessionInv', CloseCancel \/ StopJoin \/ StopDrain \/ DestroyGeometry \/ DestroyMedia \/ OpenFailed
  PROVE  Seen
<1> USE DEF SessionInv, SessionTyped, Phases, WorkersInPhase, InOrder, Opening, Starting, Things, Working,
           callVars, playerVars, decoderVars, threadVars, State, AtRest, Owned
<1>1. CASE CloseCancel
  <2>1. Unseen
    BY <1>1 DEF CloseCancel, Unseen
  <2> QED
    BY <2>1, UnseenIsSeen
<1>2. CASE StopJoin
  <2>1. Owned' = Owned \ {"demux"} /\ State' = State /\ State \in {"stopping", "closing"}
    BY <1>2 DEF StopJoin, Joined
  <2>2. CASE State = "stopping"
    <3>1. Lifecycle!Join
      BY <2>1, <2>2, {"demux"} \in SUBSET {"demux", "draco"} DEF Lifecycle!Join, Lifecycle!Moves
    <3> QED
      BY <3>1 DEF Seen, Lifecycle!Next
  <2>3. CASE State = "closing"
    <3>1. Lifecycle!Release
      BY <2>1, <2>3 DEF Lifecycle!Release, Lifecycle!Moves, UsedBy
    <3> QED
      BY <3>1 DEF Seen, Lifecycle!Next
  <2> QED
    BY <2>1, <2>2, <2>3
<1>6. CASE StopDrain
  <2>1. Lifecycle!Stopped \/ Lifecycle!Release
    BY <1>6 DEF StopDrain, DracoJoined, Lifecycle!Stopped, Lifecycle!Release, Lifecycle!Moves, UsedBy
  <2> QED
    BY <2>1 DEF Seen, Lifecycle!Next
<1>3. CASE DestroyGeometry
  <2>1. Lifecycle!Release
    BY <1>3 DEF DestroyGeometry, DracoJoined, Lifecycle!Release, Lifecycle!Moves, UsedBy
  <2> QED
    BY <2>1 DEF Seen, Lifecycle!Next
<1>4. CASE DestroyMedia
  <2>1. Lifecycle!Reopen \/ Lifecycle!Closed
    BY <1>4 DEF DestroyMedia, Joined, Lifecycle!Reopen, Lifecycle!Closed, Lifecycle!Moves
  <2> QED
    BY <2>1 DEF Seen, Lifecycle!Next
<1>5. CASE OpenFailed
  <2>1. Lifecycle!BeginClose
    BY <1>5 DEF OpenFailed, Lifecycle!BeginClose, Lifecycle!Moves
  <2> QED
    BY <2>1 DEF Seen, Lifecycle!Next
<1> QED
  BY <1>1, <1>2, <1>3, <1>4, <1>5, <1>6

\* A player becomes ready when nothing is missing; an audio track may be.
LEMMA OpeningRefines ==
  ASSUME SessionInv, SessionInv',
         OpenSource \/ OpenInput \/ FinishOpen \/ OpenVideo \/ NoAudio \/ OpenAudio \/ OpenGeometry
  PROVE  Seen
<1> USE DEF SessionInv, SessionTyped, Phases, WorkersInPhase, InOrder, Opening, Starting, Things, Working,
           callVars, playerVars, decoderVars, threadVars, State, AtRest, Owned
<1>1. CASE OpenSource
  <2>1. Lifecycle!Acquire
    BY <1>1 DEF OpenSource, OpenStep, Lifecycle!Acquire, Lifecycle!Moves
  <2> QED
    BY <2>1 DEF Seen, Lifecycle!Next
<1>2. CASE OpenInput
  <2>1. Lifecycle!Acquire \/ Lifecycle!GiveUp
    BY <1>2 DEF OpenInput, OpenStep, ContainerClosed, Lifecycle!Acquire, Lifecycle!GiveUp,
                Lifecycle!Moves
  <2> QED
    BY <2>1 DEF Seen, Lifecycle!Next
<1>3. CASE FinishOpen
  <2>1. Lifecycle!Acquire \/ Lifecycle!GiveUp
    BY <1>3 DEF FinishOpen, OpenStep, ContainerClosed, Lifecycle!Acquire, Lifecycle!GiveUp,
                Lifecycle!Moves
  <2> QED
    BY <2>1 DEF Seen, Lifecycle!Next
<1>4. CASE OpenVideo
  <2>1. Lifecycle!Acquire
    BY <1>4 DEF OpenVideo, OpenStep, Lifecycle!Acquire, Lifecycle!Moves
  <2> QED
    BY <2>1 DEF Seen, Lifecycle!Next
<1>5. CASE NoAudio
  <2>1. Unseen
    BY <1>5 DEF NoAudio, OpenStep, Unseen
  <2> QED
    BY <2>1, UnseenIsSeen
<1>6. CASE OpenAudio
  <2>1. Lifecycle!Acquire
    BY <1>6 DEF OpenAudio, OpenStep, Lifecycle!Acquire, Lifecycle!Moves
  <2> QED
    BY <2>1 DEF Seen, Lifecycle!Next
<1>7. CASE OpenGeometry
  <2>1. Lifecycle!Opened
    BY <1>7 DEF OpenGeometry, Lifecycle!Opened, Lifecycle!Moves
  <2> QED
    BY <2>1 DEF Seen, Lifecycle!Next
<1> QED
  BY <1>1, <1>2, <1>3, <1>4, <1>5, <1>6, <1>7

\* A start adds the second worker or is broken off; one that has no first worker is
\* taken back by the joins of stop().
LEMMA RunningRefines ==
  ASSUME SessionInv, SessionInv', StartGeometry \/ Rollback \/ RollbackJoin \/ SeekAlone \/ SeekReturn
  PROVE  Seen
<1> USE DEF SessionInv, SessionTyped, Phases, WorkersInPhase, InOrder, Opening, Starting, Things, Working,
           callVars, playerVars, decoderVars, threadVars, State, AtRest, Owned
<1>1. CASE StartGeometry
  <2>1. Lifecycle!Started \/ Lifecycle!BreakOff
    BY <1>1 DEF StartGeometry, Lifecycle!Started, Lifecycle!BreakOff, Lifecycle!Moves
  <2> QED
    BY <2>1 DEF Seen, Lifecycle!Next
<1>2. CASE Rollback
  <2>1. Unseen
    BY <1>2 DEF Rollback, DracoJoined, Unseen
  <2> QED
    BY <2>1, UnseenIsSeen
<1>3. CASE RollbackJoin
  <2>1. Lifecycle!Stopped
    BY <1>3 DEF RollbackJoin, Joined, Lifecycle!Stopped, Lifecycle!Moves
  <2> QED
    BY <2>1 DEF Seen, Lifecycle!Next
<1>4. CASE SeekAlone
  <2>1. Unseen
    BY <1>4 DEF SeekAlone, Unseen
  <2> QED
    BY <2>1, UnseenIsSeen
<1>5. CASE SeekReturn
  <2>1. Unseen
    BY <1>5 DEF SeekReturn, Unseen
  <2> QED
    BY <2>1, UnseenIsSeen
<1> QED
  BY <1>1, <1>2, <1>3, <1>4, <1>5

\* The lifecycle sees neither what the workers do nor the other threads.
LEMMA OthersRefine ==
  ASSUME Demux \/ Draco \/ Cancel \/ Network \/ UNCHANGED sessionVars
  PROVE  Seen
<1>1. /\ pc' = pc /\ op' = op /\ started' = started /\ open' = open /\ acquired' = acquired
      /\ (demux' = "none") <=> (demux = "none")
      /\ (draco' = "none") <=> (draco = "none")
  <2>1. CASE Demux
    BY <2>1 DEF Demux, DemuxStep, DemuxEnd, DemuxTakeSeek, DemuxSeek, DemuxDecode, DemuxRead,
                DemuxFail, callVars, playerVars
  <2>2. CASE Cancel \/ Network \/ UNCHANGED sessionVars
    BY <2>2 DEF Cancel, Network, sessionVars, callVars, playerVars, decoderVars, threadVars
  <2>3. CASE Draco
    BY <2>3 DEF Draco, DracoStep, DracoBegin, DracoEnd, callVars, playerVars, decoderVars
  <2> QED
    BY <2>1, <2>2, <2>3
<1>2. Unseen
  BY <1>1 DEF Unseen, State, AtRest, Owned
<1> QED
  BY <1>2, UnseenIsSeen

\* Every step of the player is one of the lifecycle, or none.
LEMMA NextRefines ==
  ASSUME SessionInv, SessionInv', [SessionNext]_sessionVars
  PROVE  Seen
  BY CallsRefine, ClosingRefines, OpeningRefines, RunningRefines, OthersRefine DEF SessionNext, Calls, Host

\* PlayerSession implements PlayerLifecycle for all files: whatever is missing
\* from a file or wrong with it, whenever it is cancelled, whichever worker cannot
\* start, and whether or not the geometry worker hears that it is to stop.  A start()
\* that the second thread breaks off is one of the lifecycle's moves.
THEOREM SessionImplements == SessionSpec => ImplementsLifecycle
<1>1. SessionInv /\ SessionInv' /\ [SessionNext]_sessionVars => [Lifecycle!Next]_(Lifecycle!vars)
  BY NextRefines DEF Seen
<1> QED
  BY <1>1, InitRefines, SessionIsSound, PTL DEF SessionSpec, ImplementsLifecycle, Lifecycle!Spec

-----------------------------------------------------------------------------
(* What the lifecycle promises.                                            *)

Needed == Things \ {"audio"}
Threads == {"demux", "draco"}

\* A file is whole as long as its workers may touch it.
LifecycleInv ==
  /\ Owned \subseteq Things \cup Threads
  /\ State \in {"closed", "opening", "ready", "starting", "running", "adrift", "stopping",
               "closing", "terminated"}
  /\ State = "closed" => Owned = {}
  /\ State \in {"opening", "ready"} => Owned \cap Threads = {}
  /\ State \in {"ready", "starting", "running", "adrift", "stopping"} => Needed \subseteq Owned
  /\ State = "running" => Threads \subseteq Owned

\* Every step of the lifecycle keeps what it promises.
LEMMA LifecycleKeeps ==
  ASSUME LifecycleInv, [Lifecycle!Next]_(Lifecycle!vars)
  PROVE  LifecycleInv'
<1> USE DEF LifecycleInv, Needed, Threads, Things, Lifecycle!Moves
<1>1. CASE Lifecycle!Acquire
  BY <1>1 DEF Lifecycle!Acquire
<1>2. CASE Lifecycle!GiveUp
  BY <1>2 DEF Lifecycle!GiveUp
<1>3. CASE Lifecycle!Opened
  BY <1>3 DEF Lifecycle!Opened
<1>4. CASE Lifecycle!BeginStart
  BY <1>4 DEF Lifecycle!BeginStart
<1>5. CASE Lifecycle!Started
  BY <1>5 DEF Lifecycle!Started
<1>6. CASE Lifecycle!BeginStop
  BY <1>6 DEF Lifecycle!BeginStop
<1>7. CASE Lifecycle!Join
  BY <1>7 DEF Lifecycle!Join
<1>8. CASE Lifecycle!Stopped
  BY <1>8 DEF Lifecycle!Stopped
<1>9. CASE Lifecycle!BeginClose
  BY <1>9 DEF Lifecycle!BeginClose
<1>10. CASE Lifecycle!Release
  BY <1>10 DEF Lifecycle!Release
<1>11. CASE Lifecycle!Closed
  BY <1>11 DEF Lifecycle!Closed
<1>12. CASE Lifecycle!Reopen
  BY <1>12 DEF Lifecycle!Reopen
<1>13. CASE UNCHANGED Lifecycle!vars
  BY <1>13 DEF Lifecycle!vars
<1>14. CASE Lifecycle!BreakOff \/ Lifecycle!Terminate
  BY <1>14 DEF Lifecycle!BreakOff, Lifecycle!Terminate
<1> QED
  BY <1>1, <1>2, <1>3, <1>4, <1>5, <1>6, <1>7, <1>8, <1>9, <1>10, <1>11, <1>12, <1>13, <1>14
  DEF Lifecycle!Next

\* Between two calls a closed player owns nothing, one that is ready all that its
\* file needs and no worker, one that runs both workers as well, and one that a
\* broken start() has left adrift still all that its file needs; it follows from the
\* lifecycle.
THEOREM SessionOwns == SessionSpec => []Lifecycle!Ownership
<1>1. Lifecycle!Init => LifecycleInv
  BY DEF Lifecycle!Init, LifecycleInv, Needed, Threads, Things
<1>2. LifecycleInv /\ [Lifecycle!Next]_(Lifecycle!vars) => LifecycleInv'
  BY LifecycleKeeps
<1>3. LifecycleInv => Lifecycle!Ownership
  BY DEF LifecycleInv, Lifecycle!Ownership, Needed, Threads
<1>4. Lifecycle!Spec => []Lifecycle!Ownership
  BY <1>1, <1>2, <1>3, PTL DEF Lifecycle!Spec
<1> QED
  BY <1>4, SessionImplements, PTL DEF ImplementsLifecycle
===============================================================================
