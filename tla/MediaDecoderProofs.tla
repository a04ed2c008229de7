-------------------------- MODULE MediaDecoderProofs --------------------------
(***************************************************************************)
(* Proofs about MediaDecoder, for every file, every capacity of the queues *)
(* and every plan of seeks, stops and faults: every variable keeps its     *)
(* type, no packet of a stream is lost, repeated or overtaken between the  *)
(* file and its consumer, and a queue says that its stream has ended only  *)
(* when nothing is left on the way.                                        *)
(*                                                                         *)
(* A packet on its way is in one of up to four sequences that follow each  *)
(* other; the lemmas about these say what taking from one and putting into *)
(* the next does to their concatenation (FlowInv).                         *)
(***************************************************************************)
EXTENDS MediaDecoder, TLAPS, SequenceTheorems, WellFoundedInduction

\* TypeOK, one group of variables at a time.
PlanTyped == plan \in Plans /\ cursor \in 1 .. Len(File) + 1 /\ eof \in BOOLEAN
ParkedTyped ==
  /\ pending \in [Stream -> Seq(Packets)] /\ \A k \in Stream : Len(pending[k]) <= Pending[k]
  /\ deferred \in Seq(Packets) /\ Len(deferred) <= 1
OutputTyped ==
  /\ out \in [Stream -> Seq(Packets)] /\ \A k \in Stream : Len(out[k]) <= Capacity[k]
  /\ codec \in Seq(Packets) /\ Len(codec) <= Delay /\ drained \in BOOLEAN
  /\ state \in [Queue -> {"open", "end", "error"}]
ThreadTyped ==
  /\ decoder \in {"init", "decoding", "eof", "stop"}
  /\ wpc \in {"new", "top", "request", "seek", "complete", "decode", "deferred", "read",
              "exit", "notify", "gone"} \cup Stream
  /\ running \in BOOLEAN /\ stop \in BOOLEAN /\ joining \in BOOLEAN
SeekTyped ==
  /\ requested \in Landings \cup {NoSeek} /\ result \in BOOLEAN
  /\ requestId \in 0 .. plan.seeks /\ completedId \in 0 .. plan.seeks /\ request \in 0 .. plan.seeks
  /\ taken \in [id : 0 .. plan.seeks, to : Landings \cup {NoSeek}, ok : BOOLEAN]
  /\ seeker \in {"idle", "lock", "test", "checked", "blocked"}
DueTyped == due \in [Stream -> 1 .. Len(File) + 1]

Typed == PlanTyped /\ ParkedTyped /\ OutputTyped /\ ThreadTyped /\ SeekTyped /\ DueTyped

\* Where a thread has something to work with.
AtWork ==
  /\ seeker = "lock" => requestId < plan.seeks
  /\ wpc = "seek" => taken.to \in Landings

TypeInv == Typed /\ AtWork

\* Parked packets are parked with their own stream.
Sorted == \A k \in Stream : \A i \in DOMAIN pending[k] : File[pending[k][i]] = k

\* The packet that waits at the demuxer is read from there before the next.
Settled ==
  /\ wpc = "read" => deferred = <<>>
  /\ drained => /\ cursor = Len(File) + 1 /\ codec = <<>> /\ deferred = <<>>
                /\ \A k \in Stream : pending[k] = <<>>
  /\ \A k \in Queue : state[k] = "end" => drained

\* Of a stream that is unharmed the packets on their way are whole, and there is none of
\* it between the file's position and the packet that is due.
Whole(k) ==
  Unharmed(k) =>
    IsRun(InFlight(k), k, due[k], cursor) /\ \A n \in cursor .. due[k] - 1 : File[n] # k

FlowInv == Settled /\ \A k \in Stream : Whole(k)
-----------------------------------------------------------------------------
(* Sequences, and the first packet of a stream.                            *)

\* A set of numbers has a least one.
LEMMA Least ==
  ASSUME NEW S \in SUBSET Nat, S # {}
  PROVE  \E n \in S : \A m \in S : n <= m
<1> DEFINE R == OpToRel(<, Nat)
<1>1. IsWellFoundedOn(R, Nat)
  BY NatLessThanWellFounded
<1>2. \E n \in S : \A m \in S : ~ (<<m, n>> \in R)
  <2> HIDE DEF R
  <2> QED
    BY <1>1, WFMin
<1>3. PICK n \in S : \A m \in S : ~ (<<m, n>> \in R)
  BY <1>2
<1>4. ASSUME NEW m \in S PROVE n <= m
  <2>1. R = {ss \in Nat \X Nat : ss[1] < ss[2]}
    BY DEF OpToRel
  <2>2. ~(m < n)
    BY <1>3, <2>1
  <2> QED
    BY <2>2
<1> QED
  BY <1>3, <1>4

LEMMA FirstIsFirst ==
  ASSUME NEW k \in Stream, NEW n \in 1 .. Len(File) + 1
  PROVE  /\ FirstFrom(k, n) \in n .. Len(File) + 1
         /\ \A m \in n .. FirstFrom(k, n) - 1 : File[m] # k
<1>0. Len(File) \in Nat
  BY MediaAssumption
<1> DEFINE Kind == {i \in n .. Len(File) : File[i] = k}
<1>1. CASE Kind = {}
  <2>1. FirstFrom(k, n) = Len(File) + 1
    BY <1>1 DEF FirstFrom
  <2> QED
    BY <1>0, <1>1, <2>1
<1>2. CASE Kind # {}
  <2>1. Kind \in SUBSET Nat
    BY <1>0
  <2>2. PICK i \in Kind : \A j \in Kind : i <= j
    BY <1>2, <2>1, Least
  <2>3. \A j \in n .. i - 1 : File[j] # k
    BY <1>0, <2>1, <2>2
  <2>4. \E j \in n .. Len(File) : File[j] = k /\ \A m \in n .. j - 1 : File[m] # k
    BY <2>2, <2>3
  <2>5. FirstFrom(k, n) = CHOOSE j \in n .. Len(File) : File[j] = k /\ \A m \in n .. j - 1 : File[m] # k
    BY <1>2 DEF FirstFrom
  <2> DEFINE f == FirstFrom(k, n)
  <2>6. f \in n .. Len(File) /\ \A m \in n .. f - 1 : File[m] # k
    BY <2>4, <2>5
  <2> QED
    BY <1>0, <2>6
<1> QED
  BY <1>1, <1>2

\* Moving the first of one sequence behind another does not change what they are together.
LEMMA MoveHead ==
  ASSUME NEW S, NEW q \in Seq(S), NEW r \in Seq(S), r # <<>>
  PROVE  /\ Append(q, Head(r)) \o Tail(r) = q \o r
         /\ Head(r) \in S /\ Tail(r) \in Seq(S)
<1>1. Head(r) \in S /\ Tail(r) \in Seq(S) /\ r = <<Head(r)>> \o Tail(r)
  BY HeadTailProperties, ConcatProperties
<1>2. Append(q, Head(r)) = q \o <<Head(r)>>
  BY <1>1, AppendIsConcat
<1>3. <<Head(r)>> \in Seq(S)
  BY <1>1
<1>4. (q \o <<Head(r)>>) \o Tail(r) = q \o (<<Head(r)>> \o Tail(r))
  BY <1>1, <1>3, ConcatAssociative
<1> QED
  BY <1>1, <1>2, <1>4

-----------------------------------------------------------------------------
(* What decoding and routing a packet do.                                  *)

\* Kinds and lengths.
LEMMA Kinds ==
  /\ Len(File) \in Nat /\ Packets \subseteq Nat /\ Landings \subseteq Packets
  /\ \A i \in Packets : File[i] \in Stream
  /\ "video" \in Queue /\ "geometry" \in Queue /\ "audio" \notin Queue
  /\ \A k \in Queue : k \in Stream
  /\ \A k \in Stream : Capacity[k] \in Nat /\ Capacity[k] > 0 /\ Pending[k] \in Nat
  /\ Delay \in Nat
BY MediaAssumption DEF Packets, Stream, Queue

\* A packet whose decoding fails is damaged or harms its queue; otherwise it goes to
\* the output, into the codec, or into the codec with another to the output.
Failed(i) ==
  /\ Fails({File[i]} \cap Queue, eof) /\ UNCHANGED <<codec, out>>
  /\ i \in plan.damaged \/ File[i] \in Queue

Through(i) ==
  /\ File[i] # "video" /\ codec' = codec
  /\ out' = [out EXCEPT ![File[i]] = Append(@, i)]

Entered(i) ==
  /\ File[i] = "video" /\ Len(codec) < Delay
  /\ out' = out /\ codec' = Append(codec, i)

Shifted(i) ==
  /\ File[i] = "video" /\ codec' = Tail(Append(codec, i))
  /\ out' = [out EXCEPT !["video"] = Append(@, Head(Append(codec, i)))]

Decoded(i, next) ==
  /\ wpc' = next /\ UNCHANGED <<state, decoder, stop>>
  /\ Through(i) \/ Entered(i) \/ Shifted(i)

LEMMA DecodeEffect ==
  ASSUME OutputTyped, NEW i \in Packets, NEW next, Decode(i, next)
  PROVE  Failed(i) \/ Decoded(i, next)
<1> DEFINE frames == IF File[i] = "video" THEN Append(codec, i) ELSE <<i>>
           leaves == File[i] # "video" \/ Len(frames) > Delay
           refused == File[i] \in Queue /\ (state[File[i]] # "open" \/ Len(out[File[i]]) >= Capacity[File[i]])
<1>1. CASE i \in plan.damaged \/ (leaves /\ refused)
  BY <1>1 DEF Decode, Failed
<1>2. CASE ~(i \in plan.damaged \/ (leaves /\ refused))
  <2>1. /\ out' = IF leaves THEN [out EXCEPT ![File[i]] = Append(@, Head(frames))] ELSE out
        /\ codec' = IF File[i] # "video" THEN codec ELSE IF leaves THEN Tail(frames) ELSE frames
        /\ wpc' = next /\ UNCHANGED <<state, decoder, stop>>
    BY <1>2 DEF Decode
  <2>2. CASE File[i] # "video"
    <3>1. Head(frames) = i
      BY <2>2
    <3> QED
      BY <2>1, <2>2, <3>1 DEF Decoded, Through
  <2>3. CASE File[i] = "video" /\ leaves
    BY <2>1, <2>3 DEF Decoded, Shifted
  <2>4. CASE File[i] = "video" /\ ~leaves
    <3>1. Len(Append(codec, i)) = Len(codec) + 1 /\ Len(codec) \in Nat
      BY Kinds DEF OutputTyped
    <3> QED
      BY <2>1, <2>4, <3>1, Kinds DEF Decoded, Entered
  <2> QED
    BY <2>2, <2>3, <2>4
<1> QED
  BY <1>1, <1>2

\* Where a packet of stream k is that waits behind the demuxer.
Held(k) == out[k] \o (IF k = "video" THEN codec ELSE <<>>)
Line(k) == Held(k) \o pending[k]

LEMMA DecodeMoves ==
  ASSUME OutputTyped, NEW i \in Packets, NEW next, Decoded(i, next), NEW k \in Stream
  PROVE  Held(k)' = IF k = File[i] THEN Append(Held(k), i) ELSE Held(k)
<1>0. out[k] \in Seq(Packets) /\ codec \in Seq(Packets) /\ out \in [Stream -> Seq(Packets)]
      /\ <<>> \in Seq(Packets)
  BY DEF OutputTyped
<1>1. CASE Through(i)
  <2>1. k # "video" => out[k] \o <<>> = out[k] /\ Append(out[k], i) \o <<>> = Append(out[k], i)
    BY <1>0
  <2>2. out'[k] = IF k = File[i] THEN Append(out[k], i) ELSE out[k]
    BY <1>0, <1>1 DEF Through
  <2>3. k # "video" => Held(k) = out[k] /\ Held(k)' = out'[k]
    BY <2>1, <2>2 DEF Held
  <2>4. k = "video" => k # File[i] /\ Held(k)' = Held(k)
    BY <1>1, <2>2 DEF Through, Held
  <2> QED
    BY <2>2, <2>3, <2>4
<1>2. CASE Entered(i)
  <2>1. k # "video" => k # File[i] /\ Held(k)' = Held(k)
    BY <1>2 DEF Entered, Held
  <2>2. k = "video" => Held(k)' = out[k] \o Append(codec, i) /\ Held(k) = out[k] \o codec /\ k = File[i]
    BY <1>2 DEF Entered, Held
  <2>3. out[k] \o Append(codec, i) = Append(out[k] \o codec, i)
    <3>1. Append(codec, i) = codec \o <<i>> /\ <<i>> \in Seq(Packets) /\ out[k] \o codec \in Seq(Packets)
      BY <1>0, AppendIsConcat, ConcatProperties
    <3>2. out[k] \o (codec \o <<i>>) = (out[k] \o codec) \o <<i>>
      BY <1>0, <3>1, ConcatAssociative
    <3>3. Append(out[k] \o codec, i) = (out[k] \o codec) \o <<i>>
      BY <3>1, AppendIsConcat
    <3> QED
      BY <3>1, <3>2, <3>3
  <2> QED
    BY <2>1, <2>2, <2>3
<1>3. CASE Shifted(i)
  <2>1. k # "video" => k # File[i] /\ Held(k)' = Held(k)
    BY <1>0, <1>3 DEF Shifted, Held
  <2>2. CASE k = "video"
    <3> DEFINE frames == Append(codec, i)
    <3>1. frames \in Seq(Packets) /\ frames # <<>>
      BY <1>0
    <3>2. out'[k] = Append(out[k], Head(frames)) /\ codec' = Tail(frames) /\ k = File[i]
      BY <1>0, <1>3, <2>2 DEF Shifted
    <3>3. Held(k)' = Append(out[k], Head(frames)) \o Tail(frames) /\ Held(k) = out[k] \o codec
      BY <2>2, <3>2 DEF Held
    <3>4. Append(out[k], Head(frames)) \o Tail(frames) = out[k] \o frames
      <4> HIDE DEF frames
      <4> QED
        BY <1>0, <3>1, MoveHead
    <3>5. out[k] \o frames = Append(out[k] \o codec, i)
      <4>1. frames = codec \o <<i>> /\ <<i>> \in Seq(Packets) /\ out[k] \o codec \in Seq(Packets)
        BY <1>0, AppendIsConcat, ConcatProperties
      <4>2. out[k] \o (codec \o <<i>>) = (out[k] \o codec) \o <<i>>
        BY <1>0, <4>1, ConcatAssociative
      <4>3. Append(out[k] \o codec, i) = (out[k] \o codec) \o <<i>>
        BY <4>1, AppendIsConcat
      <4> QED
        BY <4>1, <4>2, <4>3
    <3> QED
      BY <3>2, <3>3, <3>4, <3>5
  <2> QED
    BY <2>1, <2>2
<1> QED
  BY <1>1, <1>2, <1>3 DEF Decoded

\* What route_packet() does: the packet is decoded, fails to be, or has to wait.
Passed(i, afterwards) ==
  /\ Decoded(i, afterwards) /\ deferred' = <<>> /\ UNCHANGED pending /\ pending[File[i]] = <<>>

Lost(i) == Failed(i) /\ deferred' = <<>> /\ UNCHANGED pending

ParkedIt(i, afterwards) ==
  /\ Len(pending[File[i]]) < Pending[File[i]]
  /\ pending' = [pending EXCEPT ![File[i]] = Append(@, i)] /\ deferred' = <<>>
  /\ wpc' = afterwards /\ UNCHANGED <<codec, out, state, decoder, stop>>

Deferred(i, whenDeferred) ==
  /\ deferred' = <<i>> /\ wpc' = whenDeferred
  /\ UNCHANGED <<pending, codec, out, state, decoder, stop>>

LEMMA RouteEffect ==
  ASSUME OutputTyped, NEW i \in Packets, NEW afterwards, NEW whenDeferred,
         Route(i, afterwards, whenDeferred)
  PROVE  \/ (Passed(i, afterwards) \/ Lost(i)) /\ Len(out[File[i]]) < Capacity[File[i]]
         \/ ParkedIt(i, afterwards) \/ Deferred(i, whenDeferred)
<1>1. CASE ~Blocked(File[i])
  <2>1. Decode(i, afterwards) /\ deferred' = <<>> /\ UNCHANGED pending
    BY <1>1 DEF Route
  <2>2. Failed(i) \/ Decoded(i, afterwards)
    BY <2>1, DecodeEffect
  <2>3. pending[File[i]] = <<>> /\ Len(out[File[i]]) < Capacity[File[i]]
    BY <1>1 DEF Blocked, Room
  <2> QED
    BY <2>1, <2>2, <2>3 DEF Passed, Lost
<1>2. CASE Blocked(File[i])
  BY <1>2 DEF Route, Parks, ParkedIt, Deferred
<1> QED
  BY <1>1, <1>2

-----------------------------------------------------------------------------
(* The types.                                                              *)

Places == {"new", "top", "request", "seek", "complete", "decode", "deferred", "read",
           "exit", "notify", "gone"} \cup Stream

LEMMA FailsKeepsTypes ==
  ASSUME OutputTyped, ThreadTyped, PlanTyped, NEW broken, Fails(broken, eof),
         UNCHANGED <<codec, out, drained, running, joining>>
  PROVE  OutputTyped' /\ ThreadTyped' /\ wpc' = "top"
<1>1. state' \in [Queue -> {"open", "end", "error"}]
  BY DEF Fails, OutputTyped
<1>2. decoder' \in {"init", "decoding", "eof", "stop"} /\ stop' \in BOOLEAN /\ wpc' = "top"
  BY DEF Fails, ThreadTyped, PlanTyped
<1>3. OutputTyped'
  BY <1>1 DEF OutputTyped
<1>4. ThreadTyped'
  BY <1>2 DEF ThreadTyped
<1> QED
  BY <1>2, <1>3, <1>4

LEMMA DecodedKeepsTypes ==
  ASSUME OutputTyped, ThreadTyped, NEW i \in Packets, NEW next \in Places, Decoded(i, next),
         Len(out[File[i]]) < Capacity[File[i]], UNCHANGED <<drained, running, joining>>
  PROVE  OutputTyped' /\ ThreadTyped' /\ wpc' = next
<1>1. ThreadTyped' /\ wpc' = next /\ state' = state
  BY DEF Decoded, ThreadTyped, Places
<1>2. /\ out' \in [Stream -> Seq(Packets)] /\ \A k \in Stream : Len(out'[k]) <= Capacity[k]
      /\ codec' \in Seq(Packets) /\ Len(codec') <= Delay
  <2>0. /\ out \in [Stream -> Seq(Packets)] /\ \A k \in Stream : Len(out[k]) <= Capacity[k]
        /\ codec \in Seq(Packets) /\ Len(codec) <= Delay /\ File[i] \in Stream
        /\ Capacity[File[i]] \in Nat /\ Len(codec) \in Nat
    BY Kinds DEF OutputTyped
  <2>1. ASSUME NEW p \in Packets
        PROVE  LET o == [out EXCEPT ![File[i]] = Append(@, p)]
               IN  o \in [Stream -> Seq(Packets)] /\ \A k \in Stream : Len(o[k]) <= Capacity[k]
    <3> DEFINE o == [out EXCEPT ![File[i]] = Append(@, p)]
    <3>1. out[File[i]] \in Seq(Packets)
      BY <2>0
    <3>2. Append(out[File[i]], p) \in Seq(Packets) /\ Len(Append(out[File[i]], p)) = Len(out[File[i]]) + 1
          /\ Len(out[File[i]]) \in Nat
      BY <3>1
    <3>3. o \in [Stream -> Seq(Packets)]
      BY <2>0, <3>2
    <3>4. ASSUME NEW k \in Stream PROVE Len(o[k]) <= Capacity[k]
      <4>1. CASE k = File[i]
        BY <2>0, <3>2, <4>1
      <4>2. CASE k # File[i]
        BY <2>0, <4>2
      <4> QED
        BY <4>1, <4>2
    <3> QED
      BY <3>3, <3>4
  <2>2. CASE Through(i)
    BY <2>0, <2>1, <2>2 DEF Through
  <2>3. CASE Entered(i)
    <3>1. Append(codec, i) \in Seq(Packets) /\ Len(Append(codec, i)) = Len(codec) + 1
      BY <2>0
    <3> QED
      BY <2>0, <2>3, <3>1, Kinds DEF Entered
  <2>4. CASE Shifted(i)
    <3>1. Append(codec, i) \in Seq(Packets) /\ Len(Append(codec, i)) = Len(codec) + 1 /\ Append(codec, i) # <<>>
      BY <2>0
    <3>2. /\ Head(Append(codec, i)) \in Packets /\ Tail(Append(codec, i)) \in Seq(Packets)
          /\ Len(Tail(Append(codec, i))) = Len(codec)
      BY <2>0, <3>1, HeadTailProperties
    <3> QED
      BY <2>0, <2>1, <2>4, <3>2 DEF Shifted
  <2> QED
    BY <2>2, <2>3, <2>4 DEF Decoded
<1> QED
  BY <1>1, <1>2 DEF OutputTyped

LEMMA DecodeKeepsTypes ==
  ASSUME OutputTyped, ThreadTyped, PlanTyped, NEW i \in Packets, NEW next \in Places,
         Failed(i) \/ Decoded(i, next), Len(out[File[i]]) < Capacity[File[i]],
         UNCHANGED <<drained, running, joining>>
  PROVE  OutputTyped' /\ ThreadTyped' /\ wpc' \in {next, "top"}
<1>1. CASE Failed(i)
  BY <1>1, FailsKeepsTypes DEF Failed
<1>2. CASE Decoded(i, next)
  BY <1>2, DecodedKeepsTypes
<1> QED
  BY <1>1, <1>2

LEMMA RouteKeepsTypes ==
  ASSUME OutputTyped, ThreadTyped, PlanTyped, ParkedTyped, NEW i \in Packets,
         NEW afterwards \in Places, NEW whenDeferred \in Places,
         Route(i, afterwards, whenDeferred), UNCHANGED <<drained, running, joining>>
  PROVE  /\ OutputTyped' /\ ThreadTyped' /\ ParkedTyped'
         /\ wpc' \in {afterwards, whenDeferred, "top"}
<1>0. /\ <<>> \in Seq(Packets) /\ Len(<<>>) <= 1 /\ <<i>> \in Seq(Packets) /\ Len(<<i>>) <= 1
      /\ File[i] \in Stream
  BY Kinds
<1>1. CASE (Passed(i, afterwards) \/ Lost(i)) /\ Len(out[File[i]]) < Capacity[File[i]]
  <2>1. Failed(i) \/ Decoded(i, afterwards)
    BY <1>1 DEF Passed, Lost
  <2>2. UNCHANGED pending /\ deferred' = <<>>
    BY <1>1 DEF Passed, Lost
  <2>3. ParkedTyped'
    BY <1>0, <2>2 DEF ParkedTyped
  <2>4. OutputTyped' /\ ThreadTyped' /\ wpc' \in {afterwards, "top"}
    BY <1>1, <2>1, DecodeKeepsTypes
  <2> QED
    BY <2>3, <2>4
<1>2. CASE ParkedIt(i, afterwards)
  <2>1. OutputTyped' /\ ThreadTyped' /\ wpc' = afterwards
    BY <1>2 DEF ParkedIt, OutputTyped, ThreadTyped, Places
  <2>2. pending[File[i]] \in Seq(Packets) /\ Pending[File[i]] \in Nat
    BY <1>0, Kinds DEF ParkedTyped
  <2>3. /\ Append(pending[File[i]], i) \in Seq(Packets)
        /\ Len(Append(pending[File[i]], i)) <= Pending[File[i]]
    BY <1>2, <2>2 DEF ParkedIt
  <2>4. pending' \in [Stream -> Seq(Packets)]
    BY <1>2, <2>3 DEF ParkedIt, ParkedTyped
  <2>5. ASSUME NEW k \in Stream PROVE Len(pending'[k]) <= Pending[k]
    <3>1. CASE k = File[i]
      BY <1>2, <2>3, <3>1 DEF ParkedIt, ParkedTyped
    <3>2. CASE k # File[i]
      BY <1>2, <3>2 DEF ParkedIt, ParkedTyped
    <3> QED
      BY <3>1, <3>2
  <2>6. ParkedTyped'
    BY <1>0, <1>2, <2>4, <2>5 DEF ParkedTyped, ParkedIt
  <2> QED
    BY <2>1, <2>6
<1>3. CASE Deferred(i, whenDeferred)
  <2>1. OutputTyped' /\ ThreadTyped' /\ wpc' = whenDeferred
    BY <1>3 DEF Deferred, OutputTyped, ThreadTyped, Places
  <2>2. ParkedTyped'
    BY <1>0, <1>3 DEF Deferred, ParkedTyped
  <2> QED
    BY <2>1, <2>2
<1> QED
  BY <1>1, <1>2, <1>3, RouteEffect

LEMMA TypeInit == Init => TypeInv
<1> SUFFICES ASSUME Init PROVE TypeInv
  OBVIOUS
<1>1. <<>> \in Seq(Packets) /\ Len(<<>>) = 0
  OBVIOUS
<1>2. plan.seeks \in Nat
  BY MediaAssumption DEF Init
<1>3. PlanTyped
  <2>1. 1 \in 1 .. Len(File) + 1
    BY Kinds
  <2> QED
    BY <2>1 DEF Init, PlanTyped
<1>4. ParkedTyped
  BY <1>1, Kinds DEF Init, ParkedTyped
<1>5. OutputTyped
  <2>1. 0 <= Delay /\ \A k \in Stream : 0 <= Capacity[k]
    BY Kinds
  <2> QED
    BY <1>1, <2>1 DEF Init, OutputTyped
<1>6. ThreadTyped
  BY DEF Init, ThreadTyped
<1>7. SeekTyped
  <2>1. 0 \in 0 .. plan.seeks
    BY <1>2
  <2> QED
    BY <2>1 DEF Init, SeekTyped
<1>8. DueTyped
  BY Kinds DEF Init, DueTyped
<1>9. AtWork
  BY DEF Init, AtWork
<1> QED
  BY <1>3, <1>4, <1>5, <1>6, <1>7, <1>8, <1>9 DEF TypeInv, Typed

\* A container seek empties everything.
LEMMA SeekKeepsTypes ==
  ASSUME TypeInv, NEW t \in Landings, Seek(t)
  PROVE  PlanTyped' /\ ParkedTyped' /\ OutputTyped' /\ DueTyped' /\ decoder' = "decoding"
<1>1. <<>> \in Seq(Packets) /\ Len(<<>>) = 0
  OBVIOUS
<1>2. t \in 1 .. Len(File) + 1
  BY Kinds DEF Packets
<1>3. PlanTyped'
  BY <1>2 DEF Seek, TypeInv, Typed, PlanTyped
<1>4. ParkedTyped'
  BY <1>1, Kinds DEF Seek, DeferredAfterSeek, ParkedTyped
<1>5. OutputTyped'
  <2>1. 0 <= Delay /\ \A k \in Stream : 0 <= Capacity[k]
    BY Kinds
  <2> QED
    BY <1>1, <2>1 DEF Seek, OutputTyped
<1>6. DueTyped'
  <2>1. ASSUME NEW k \in Stream PROVE FirstFrom(k, t) \in 1 .. Len(File) + 1
    BY <1>2, FirstIsFirst, Kinds
  <2> QED
    BY <2>1 DEF Seek, DueTyped
<1> QED
  BY <1>3, <1>4, <1>5, <1>6 DEF Seek

\* The demux thread, with its packets,
LEMMA FlowKeepsTypes ==
  ASSUME TypeInv, Sorted,
         \/ \E k \in Stream : DrainPending(k)
         \/ RouteDeferred \/ ReadPacket \/ ReadError \/ EndWithParked \/ DrainVideo \/ MarkEnd
  PROVE  TypeInv'
<1> USE DEF TypeInv, Typed
<1>a. /\ {"top", "read", "deferred", "video", "audio", "geometry"} \subseteq Places
      /\ \A k \in Stream : After(k) \in Places /\ After(k) # "seek"
  BY DEF Places, Stream, Queue, After
<1>1. ASSUME NEW k \in Stream, DrainPending(k) PROVE TypeInv'
  <2>1. PlanTyped' /\ SeekTyped' /\ DueTyped' /\ UNCHANGED <<seeker, requestId, plan>>
    BY <1>1 DEF DrainPending, PlanTyped, SeekTyped, DueTyped, file, handshake
  <2>2. CASE Room(k) /\ pending[k] # <<>>
    <3>1. /\ Decode(Head(pending[k]), After(k)) /\ pending' = [pending EXCEPT ![k] = Tail(@)]
          /\ UNCHANGED <<deferred, drained, running, joining>>
      BY <1>1, <2>2 DEF DrainPending
    <3>2. pending[k] \in Seq(Packets) /\ Len(pending[k]) <= Pending[k]
      BY DEF ParkedTyped
    <3>3. /\ Head(pending[k]) \in Packets /\ Tail(pending[k]) \in Seq(Packets)
          /\ Len(Tail(pending[k])) = Len(pending[k]) - 1 /\ Len(pending[k]) \in Nat
      BY <2>2, <3>2, HeadTailProperties
    <3>4. pending' \in [Stream -> Seq(Packets)]
      BY <3>1, <3>3 DEF ParkedTyped
    <3>5. ASSUME NEW j \in Stream PROVE Len(pending'[j]) <= Pending[j]
      <4>1. CASE j = k
        BY <3>1, <3>2, <3>3, <4>1, Kinds DEF ParkedTyped
      <4>2. CASE j # k
        BY <3>1, <4>2 DEF ParkedTyped
      <4> QED
        BY <4>1, <4>2
    <3>6. ParkedTyped'
      BY <3>1, <3>4, <3>5 DEF ParkedTyped
    <3>7. Failed(Head(pending[k])) \/ Decoded(Head(pending[k]), After(k))
      BY <3>1, <3>3, DecodeEffect
    <3>8. CASE Failed(Head(pending[k]))
      <4>1. OutputTyped' /\ ThreadTyped' /\ wpc' = "top"
        BY <3>1, <3>8, FailsKeepsTypes DEF Failed
      <4>2. AtWork'
        BY <2>1, <4>1 DEF AtWork
      <4> QED
        BY <2>1, <3>6, <4>1, <4>2
    <3>9. CASE Decoded(Head(pending[k]), After(k))
      <4>0. Len(out[File[Head(pending[k])]]) < Capacity[File[Head(pending[k])]]
        <5>1. 1 \in DOMAIN pending[k] /\ pending[k][1] = Head(pending[k])
          BY <2>2, <3>2
        <5>2. File[Head(pending[k])] = k
          BY <5>1 DEF Sorted
        <5> QED
          BY <2>2, <5>2 DEF Room
      <4>1. OutputTyped' /\ ThreadTyped' /\ wpc' = After(k)
        BY <1>a, <3>1, <3>3, <3>9, <4>0, DecodedKeepsTypes
      <4>2. AtWork'
        BY <1>a, <2>1, <4>1 DEF AtWork
      <4> QED
        BY <2>1, <3>6, <4>1, <4>2
    <3> QED
      BY <3>7, <3>8, <3>9
  <2>3. CASE ~(Room(k) /\ pending[k] # <<>>)
    <3>1. /\ wpc' = After(k)
          /\ UNCHANGED <<pending, codec, out, state, decoder, stop, deferred, drained, running, joining>>
      BY <1>1, <2>3 DEF DrainPending
    <3>2. ParkedTyped' /\ OutputTyped'
      BY <3>1 DEF ParkedTyped, OutputTyped
    <3>3. ThreadTyped'
      BY <1>a, <3>1 DEF ThreadTyped, Places
    <3>4. AtWork'
      BY <1>a, <2>1, <3>1 DEF AtWork
    <3> QED
      BY <2>1, <3>2, <3>3, <3>4
  <2> QED
    BY <2>2, <2>3
<1>2. CASE RouteDeferred
  <2>1. /\ PlanTyped' /\ SeekTyped' /\ DueTyped'
        /\ UNCHANGED <<seeker, requestId, plan, drained, running, joining>>
    BY <1>2 DEF RouteDeferred, PlanTyped, SeekTyped, DueTyped, file, handshake
  <2>2. CASE deferred = <<>>
    <3>1. wpc' = "read" /\ UNCHANGED <<pending, deferred, codec, out, state, decoder, stop>>
      BY <1>2, <2>2 DEF RouteDeferred
    <3>2. ParkedTyped' /\ OutputTyped'
      BY <2>1, <3>1 DEF ParkedTyped, OutputTyped
    <3>3. ThreadTyped'
      BY <2>1, <3>1 DEF ThreadTyped
    <3>4. AtWork'
      BY <2>1, <3>1 DEF AtWork
    <3> QED
      BY <2>1, <3>2, <3>3, <3>4
  <2>3. CASE deferred # <<>>
    <3>1. Route(deferred[1], "read", "top")
      BY <1>2, <2>3 DEF RouteDeferred
    <3>2. deferred[1] \in Packets
      BY <2>3 DEF ParkedTyped
    <3>3. OutputTyped' /\ ThreadTyped' /\ ParkedTyped' /\ wpc' \in {"read", "top"}
      BY <1>a, <2>1, <3>1, <3>2, RouteKeepsTypes
    <3>4. AtWork'
      BY <2>1, <3>3 DEF AtWork
    <3> QED
      BY <2>1, <3>3, <3>4
  <2> QED
    BY <2>2, <2>3
<1>3. CASE ReadPacket
  <2>1. /\ SeekTyped' /\ DueTyped' /\ UNCHANGED <<seeker, requestId, plan, eof, drained, running, joining>>
        /\ Route(cursor, "top", "top") /\ cursor <= Len(File) /\ cursor' = cursor + 1
    BY <1>3 DEF ReadPacket, SeekTyped, DueTyped, handshake
  <2>2. cursor \in Packets /\ PlanTyped'
    BY <2>1, Kinds DEF Packets, PlanTyped
  <2>3. OutputTyped' /\ ThreadTyped' /\ ParkedTyped' /\ wpc' = "top"
    BY <1>a, <2>1, <2>2, RouteKeepsTypes
  <2>4. AtWork'
    BY <2>1, <2>3 DEF AtWork
  <2> QED
    BY <2>1, <2>2, <2>3, <2>4
<1>4. CASE ReadError
  <2>1. /\ PlanTyped' /\ ParkedTyped' /\ SeekTyped' /\ DueTyped' /\ UNCHANGED <<seeker, requestId, plan>>
        /\ Fails(Queue, eof) /\ UNCHANGED <<codec, out, drained, running, joining>>
    BY <1>4 DEF ReadError, PlanTyped, ParkedTyped, SeekTyped, DueTyped, file, handshake
  <2>2. OutputTyped' /\ ThreadTyped' /\ wpc' = "top"
    BY <2>1, FailsKeepsTypes
  <2>3. AtWork'
    BY <2>1, <2>2 DEF AtWork
  <2> QED
    BY <2>1, <2>2, <2>3
<1>5. CASE EndWithParked
  <2>1. PlanTyped' /\ ParkedTyped' /\ OutputTyped'
    BY <1>5 DEF EndWithParked, PlanTyped, ParkedTyped, OutputTyped, flow
  <2>2. ThreadTyped' /\ SeekTyped' /\ DueTyped'
    BY <1>5 DEF EndWithParked, ThreadTyped, SeekTyped, DueTyped, threads, handshake
  <2>3. AtWork'
    BY <1>5 DEF EndWithParked, AtWork, handshake
  <2> QED
    BY <2>1, <2>2, <2>3
<1>6. CASE DrainVideo
  <2>1. PlanTyped' /\ ParkedTyped' /\ SeekTyped' /\ DueTyped'
        /\ UNCHANGED <<seeker, requestId, plan, running, joining>>
    BY <1>6 DEF DrainVideo, PlanTyped, ParkedTyped, SeekTyped, DueTyped, handshake
  <2> DEFINE fit == IF state["video"] = "open" THEN Capacity["video"] - Len(out["video"]) ELSE 0
  <2>2. /\ out["video"] \in Seq(Packets) /\ Len(out["video"]) \in Nat /\ Len(out["video"]) <= Capacity["video"]
        /\ codec \in Seq(Packets) /\ Len(codec) \in Nat /\ Len(codec) <= Delay /\ drained \in BOOLEAN
        /\ out \in [Stream -> Seq(Packets)] /\ "video" \in Stream
        /\ \A k \in Stream : Len(out[k]) <= Capacity[k]
    BY Kinds DEF OutputTyped
  <2>3. fit \in Nat /\ (fit = 0 \/ fit = Capacity["video"] - Len(out["video"]))
    BY <2>2, Kinds
  <2>4. ASSUME NEW q \in Seq(Packets), Len(q) <= fit, out' = [out EXCEPT !["video"] = @ \o q]
        PROVE  out' \in [Stream -> Seq(Packets)] /\ \A k \in Stream : Len(out'[k]) <= Capacity[k]
    <3>1. out["video"] \o q \in Seq(Packets) /\ Len(out["video"] \o q) = Len(out["video"]) + Len(q) /\ Len(q) \in Nat
      BY <2>2, ConcatProperties
    <3>2. Len(out["video"] \o q) <= Capacity["video"]
      <4> HIDE DEF fit
      <4> QED
        BY <2>2, <2>3, <2>4, <3>1, Kinds
    <3>3. out' \in [Stream -> Seq(Packets)]
      BY <2>2, <2>4, <3>1
    <3>4. ASSUME NEW k \in Stream PROVE Len(out'[k]) <= Capacity[k]
      <4>1. CASE k = "video"
        BY <2>2, <2>4, <3>2, <4>1
      <4>2. CASE k # "video"
        BY <2>2, <2>4, <4>2
      <4> QED
        BY <4>1, <4>2
    <3> QED
      BY <3>3, <3>4
  <2>5. CASE Len(codec) <= fit
    <3>1. /\ out' = [out EXCEPT !["video"] = @ \o codec] /\ codec' = <<>> /\ drained' = TRUE
          /\ wpc' = "top" /\ UNCHANGED <<state, decoder, stop>>
      BY <1>6, <2>5 DEF DrainVideo
    <3>2. out' \in [Stream -> Seq(Packets)] /\ \A k \in Stream : Len(out'[k]) <= Capacity[k]
      <4> HIDE DEF fit
      <4> QED
        BY <2>2, <2>4, <2>5, <3>1
    <3>3. codec' \in Seq(Packets) /\ Len(codec') <= Delay /\ drained' \in BOOLEAN
          /\ state' \in [Queue -> {"open", "end", "error"}]
      BY <3>1, Kinds DEF OutputTyped
    <3>4. OutputTyped'
      BY <3>2, <3>3 DEF OutputTyped
    <3>5. ThreadTyped' /\ AtWork'
      BY <2>1, <3>1 DEF ThreadTyped, AtWork
    <3> QED
      BY <2>1, <3>4, <3>5
  <2>6. CASE ~(Len(codec) <= fit)
    <3>1. /\ out' = [out EXCEPT !["video"] = @ \o SubSeq(codec, 1, fit)]
          /\ codec' = SubSeq(codec, fit + 2, Len(codec))
          /\ Fails({"video"}, TRUE) /\ UNCHANGED drained
      BY <1>6, <2>6 DEF DrainVideo
    <3>2. /\ SubSeq(codec, 1, fit) \in Seq(Packets) /\ Len(SubSeq(codec, 1, fit)) = fit
          /\ codec' \in Seq(Packets) /\ Len(codec') <= Len(codec)
      <4> HIDE DEF fit
      <4>1. \A m, n \in Int : (\A i \in m .. n : codec[i] \in Packets) => SubSeq(codec, m, n) \in Seq(Packets)
        BY SubSeqProperties
      <4>2. \A i \in 1 .. fit : codec[i] \in Packets
        BY <2>2, <2>3, <2>6
      <4>3. \A i \in fit + 2 .. Len(codec) : codec[i] \in Packets
        BY <2>2, <2>3, <2>6
      <4> QED
        BY <2>2, <2>3, <2>6, <3>1, <4>1, <4>2, <4>3
    <3>3. out' \in [Stream -> Seq(Packets)] /\ \A k \in Stream : Len(out'[k]) <= Capacity[k]
      <4> HIDE DEF fit
      <4>1. Len(SubSeq(codec, 1, fit)) <= fit
        BY <2>3, <3>2
      <4> QED
        BY <2>4, <3>1, <3>2, <4>1
    <3>4. state' \in [Queue -> {"open", "end", "error"}]
      BY <3>1 DEF Fails, OutputTyped
    <3>5. Len(codec') <= Delay
      <4>1. Len(codec') \in Nat
        BY <3>2
      <4> QED
        BY <2>2, <3>2, <4>1, Kinds
    <3>6. OutputTyped'
      BY <2>2, <3>1, <3>2, <3>3, <3>4, <3>5 DEF OutputTyped
    <3>7. ThreadTyped' /\ AtWork'
      BY <2>1, <3>1 DEF ThreadTyped, AtWork, Fails
    <3> QED
      BY <2>1, <3>6, <3>7
  <2> QED
    BY <2>5, <2>6
<1>7. CASE MarkEnd
  <2>1. PlanTyped' /\ ParkedTyped'
    BY <1>7 DEF MarkEnd, PlanTyped, ParkedTyped
  <2>2. state' \in [Queue -> {"open", "end", "error"}]
    BY <1>7 DEF MarkEnd
  <2>3. OutputTyped'
    BY <1>7, <2>2 DEF MarkEnd, OutputTyped
  <2>4. ThreadTyped' /\ SeekTyped' /\ DueTyped'
    BY <1>7 DEF MarkEnd, ThreadTyped, SeekTyped, DueTyped, threads, handshake
  <2>5. AtWork'
    BY <1>7 DEF MarkEnd, AtWork, handshake
  <2> QED
    BY <2>1, <2>3, <2>4, <2>5
<1> QED
  BY <1>1, <1>2, <1>3, <1>4, <1>5, <1>6, <1>7

\* the rest of its loop, the other threads, and the consumers.
LEMMA LoopKeepsTypes ==
  ASSUME TypeInv,
         \/ Start \/ Loop \/ TakeRequest \/ ExecuteSeek \/ RefuseSeek \/ CompleteSeek \/ Dispatch
         \/ Exit \/ NotifyExit
  PROVE  TypeInv'
<1> USE DEF TypeInv, Typed
<1>1. CASE ExecuteSeek
  <2>1. /\ taken.to \in Landings /\ Seek(taken.to)
        /\ taken' = [taken EXCEPT !.ok = TRUE] /\ wpc' = "complete"
        /\ UNCHANGED <<threads, requested, requestId, completedId, result, seeker, request>>
        /\ UNCHANGED plan
    BY <1>1 DEF ExecuteSeek, AtWork, Seek
  <2>2. PlanTyped' /\ ParkedTyped' /\ OutputTyped' /\ DueTyped' /\ decoder' = "decoding"
    BY <2>1, SeekKeepsTypes
  <2>3. ThreadTyped'
    BY <2>1, <2>2 DEF ThreadTyped, threads
  <2>4. SeekTyped'
    BY <2>1 DEF SeekTyped
  <2>5. AtWork'
    BY <2>1 DEF AtWork
  <2> QED
    BY <2>2, <2>3, <2>4, <2>5
<1>2. CASE Start \/ Loop \/ TakeRequest \/ RefuseSeek \/ CompleteSeek \/ Dispatch \/ Exit \/ NotifyExit
  <2>1. UNCHANGED <<file, flow, due>>
    BY <1>2 DEF Start, Loop, TakeRequest, RefuseSeek, CompleteSeek, Dispatch, Exit, NotifyExit
  <2>2. PlanTyped' /\ DueTyped'
    BY <2>1 DEF file, PlanTyped, DueTyped
  <2>3. ParkedTyped' /\ OutputTyped'
    BY <2>1 DEF flow, ParkedTyped, OutputTyped
  <2>4. ThreadTyped'
    <3>1. CASE Start
      BY <3>1 DEF Start, ThreadTyped
    <3>2. CASE Loop \/ TakeRequest \/ RefuseSeek
      BY <3>2 DEF Loop, TakeRequest, RefuseSeek, ThreadTyped, threads
    <3>3. CASE CompleteSeek \/ Exit \/ NotifyExit
      BY <3>3 DEF CompleteSeek, Exit, NotifyExit, ThreadTyped, threads
    <3>4. CASE Dispatch
      BY <3>4 DEF Dispatch, ThreadTyped, threads, Stream
    <3> QED
      BY <1>2, <3>1, <3>2, <3>3, <3>4
  <2>5. SeekTyped'
    <3>0. UNCHANGED plan
      BY <2>1 DEF file
    <3>1. CASE Start \/ Loop \/ RefuseSeek \/ Dispatch \/ Exit
      BY <3>0, <3>1 DEF Start, Loop, RefuseSeek, Dispatch, Exit, SeekTyped, handshake
    <3>2. CASE TakeRequest
      <4>1. requestId \in 0 .. plan.seeks /\ requested \in Landings \cup {NoSeek}
        BY DEF SeekTyped
      <4>2. taken' = taken \/ taken' = [id |-> requestId, to |-> requested, ok |-> FALSE]
        BY <3>2 DEF TakeRequest
      <4>3. taken' \in [id : 0 .. plan.seeks, to : Landings \cup {NoSeek}, ok : BOOLEAN]
        <5>1. ASSUME NEW Ids, NEW Targets, NEW i \in Ids, NEW t \in Targets
              PROVE  [id |-> i, to |-> t, ok |-> FALSE] \in [id : Ids, to : Targets, ok : BOOLEAN]
          OBVIOUS
        <5>2. [id |-> requestId, to |-> requested, ok |-> FALSE]
                \in [id : 0 .. plan.seeks, to : Landings \cup {NoSeek}, ok : BOOLEAN]
          BY <4>1, <5>1
        <5> QED
          BY <4>2, <5>2 DEF SeekTyped
      <4>4. requested' \in Landings \cup {NoSeek}
        BY <3>2 DEF TakeRequest
      <4>5. UNCHANGED <<plan, requestId, completedId, result, seeker, request>>
        BY <3>0, <3>2 DEF TakeRequest
      <4> QED
        BY <4>3, <4>4, <4>5 DEF SeekTyped
    <3>3. CASE CompleteSeek
      BY <3>0, <3>3 DEF CompleteSeek, Completed, Notified, SeekTyped
    <3>4. CASE NotifyExit
      BY <3>0, <3>4 DEF NotifyExit, Notified, SeekTyped
    <3> QED
      BY <1>2, <3>1, <3>2, <3>3, <3>4
  <2>6. AtWork'
    <3>0. UNCHANGED plan
      BY <2>1 DEF file
    <3>1. CASE Start \/ Loop \/ RefuseSeek \/ Dispatch \/ Exit
      BY <3>0, <3>1 DEF Start, Loop, RefuseSeek, Dispatch, Exit, AtWork, handshake
    <3>2. CASE TakeRequest
      BY <3>0, <3>2 DEF TakeRequest, SeekTyped, AtWork
    <3>3. CASE CompleteSeek \/ NotifyExit
      BY <3>0, <3>3 DEF CompleteSeek, NotifyExit, Completed, Notified, AtWork
    <3> QED
      BY <1>2, <3>1, <3>2, <3>3
  <2> QED
    BY <2>2, <2>3, <2>4, <2>5, <2>6
<1> QED
  BY <1>1, <1>2

LEMMA HostKeepsTypes ==
  ASSUME TypeInv, Seeker \/ Host
  PROVE  TypeInv'
<1> USE DEF TypeInv, Typed
<1>1. ASSUME NEW t \in Landings, SeekAlone(t) PROVE TypeInv'
  <2>1. Seek(t) /\ UNCHANGED <<wpc, threads, handshake, plan>> /\ wpc # "seek"
    BY <1>1 DEF SeekAlone, Seek
  <2>2. PlanTyped' /\ ParkedTyped' /\ OutputTyped' /\ DueTyped' /\ decoder' = "decoding"
    BY <2>1, SeekKeepsTypes
  <2>3. ThreadTyped'
    BY <2>1, <2>2 DEF ThreadTyped, threads
  <2>4. SeekTyped'
    BY <2>1 DEF SeekTyped, handshake
  <2>5. AtWork'
    BY <2>1 DEF AtWork, handshake
  <2> QED
    BY <2>2, <2>3, <2>4, <2>5
<1>2. CASE (\E t \in Landings : SeekRequest(t)) \/ SeekBlock \/ SeekTest \/ SeekCall \/ Stop \/ Join
  <2>1. UNCHANGED <<file, flow, due>>
    BY <1>2 DEF SeekRequest, SeekBlock, SeekTest, SeekCall, Stop, Join
  <2>2. PlanTyped' /\ DueTyped'
    BY <2>1 DEF file, PlanTyped, DueTyped
  <2>3. ParkedTyped' /\ OutputTyped' /\ UNCHANGED plan
    BY <2>1 DEF flow, ParkedTyped, OutputTyped, file
  <2>4. ThreadTyped' /\ SeekTyped' /\ AtWork'
    <3>1. ASSUME NEW t \in Landings, SeekRequest(t) PROVE ThreadTyped' /\ SeekTyped' /\ AtWork'
      <4>1. plan.seeks \in Nat
        BY MediaAssumption DEF PlanTyped
      <4>2. requestId + 1 \in 0 .. plan.seeks
        BY <3>1, <4>1 DEF SeekRequest, AtWork, SeekTyped
      <4>3. ThreadTyped' /\ AtWork'
        BY <2>3, <3>1 DEF SeekRequest, ThreadTyped, AtWork, threads
      <4>4. SeekTyped'
        BY <2>3, <3>1, <4>2 DEF SeekRequest, SeekTyped
      <4> QED
        BY <4>3, <4>4
    <3>2. CASE SeekBlock
      BY <2>3, <3>2 DEF SeekBlock, ThreadTyped, SeekTyped, AtWork, threads
    <3>3. CASE SeekTest
      BY <2>3, <3>3 DEF SeekTest, ThreadTyped, SeekTyped, AtWork, threads
    <3>4. CASE SeekCall
      BY <2>3, <3>4 DEF SeekCall, ThreadTyped, SeekTyped, AtWork, threads
    <3>5. CASE Stop
      BY <2>3, <3>5 DEF Stop, Notified, ThreadTyped, SeekTyped, AtWork, threads
    <3>6. CASE Join
      BY <2>3, <3>6 DEF Join, ThreadTyped, SeekTyped, AtWork, handshake
    <3> QED
      BY <1>2, <3>1, <3>2, <3>3, <3>4, <3>5, <3>6
  <2> QED
    BY <2>2, <2>3, <2>4
<1> QED
  BY <1>1, <1>2 DEF Seeker, Host

LEMMA ConsumerKeepsTypes ==
  ASSUME TypeInv, Consumer
  PROVE  TypeInv'
<1>1. PICK K \in SUBSET Stream : Popped(K) /\ \A k \in K : out[k] # <<>>
  <2>1. Queue \in SUBSET Stream /\ {"audio"} \in SUBSET Stream /\ \A k \in Queue : {k} \in SUBSET Stream
    BY DEF Stream
  <2>2. CASE TakePair
    BY <2>1, <2>2 DEF TakePair
  <2>3. CASE TakeRest
    BY <2>1, <2>3 DEF TakeRest
  <2>4. CASE TakeAudio
    BY <2>1, <2>4 DEF TakeAudio
  <2> QED
    BY <2>2, <2>3, <2>4 DEF Consumer
<1>2. /\ UNCHANGED <<file, pending, deferred, codec, drained, state, decoder, wpc, threads, handshake>>
      /\ out' = [j \in Stream |-> IF j \in K THEN Tail(out[j]) ELSE out[j]]
      /\ due' = [j \in Stream |-> IF j \in K THEN FirstFrom(j, Head(out[j]) + 1) ELSE due[j]]
  BY <1>1 DEF Popped
<1>3. ASSUME NEW k \in K
      PROVE  /\ Tail(out[k]) \in Seq(Packets) /\ Len(Tail(out[k])) <= Capacity[k]
             /\ FirstFrom(k, Head(out[k]) + 1) \in 1 .. Len(File) + 1
  <2>1. out[k] \in Seq(Packets) /\ Len(out[k]) <= Capacity[k] /\ out[k] # <<>> /\ k \in Stream
    BY <1>1 DEF TypeInv, Typed, OutputTyped
  <2>2. Tail(out[k]) \in Seq(Packets) /\ Len(Tail(out[k])) = Len(out[k]) - 1 /\ Head(out[k]) \in Packets
        /\ Len(out[k]) \in Nat
    BY <2>1, HeadTailProperties
  <2>3. Head(out[k]) + 1 \in 1 .. Len(File) + 1
    BY <2>2, Kinds DEF Packets
  <2>4. FirstFrom(k, Head(out[k]) + 1) \in Head(out[k]) + 1 .. Len(File) + 1
    BY <2>1, <2>3, FirstIsFirst
  <2> QED
    BY <2>1, <2>2, <2>3, <2>4, Kinds
<1>4. out' \in [Stream -> Seq(Packets)] /\ \A k \in Stream : Len(out'[k]) <= Capacity[k]
  BY <1>2, <1>3 DEF TypeInv, Typed, OutputTyped
<1>5. OutputTyped'
  BY <1>2, <1>4 DEF TypeInv, Typed, OutputTyped
<1>6. DueTyped'
  BY <1>2, <1>3 DEF TypeInv, Typed, DueTyped
<1>7. PlanTyped' /\ ParkedTyped'
  BY <1>2 DEF TypeInv, Typed, PlanTyped, ParkedTyped, file
<1>8. ThreadTyped'
  BY <1>2 DEF TypeInv, Typed, ThreadTyped, threads
<1>9. SeekTyped' /\ AtWork'
  BY <1>2 DEF TypeInv, Typed, SeekTyped, AtWork, handshake, file
<1> QED
  BY <1>5, <1>6, <1>7, <1>8, <1>9 DEF TypeInv, Typed

LEMMA StutterKeepsTypes == ASSUME TypeInv, UNCHANGED vars PROVE TypeInv'
<1>1. UNCHANGED <<file, flow, due, threads, handshake, decoder, wpc>>
  BY DEF vars
<1>2. PlanTyped' /\ DueTyped'
  BY <1>1 DEF TypeInv, Typed, file, PlanTyped, DueTyped
<1>3. ParkedTyped' /\ OutputTyped'
  BY <1>1 DEF TypeInv, Typed, flow, ParkedTyped, OutputTyped
<1>4. ThreadTyped'
  BY <1>1 DEF TypeInv, Typed, ThreadTyped, threads
<1>5. SeekTyped' /\ AtWork'
  BY <1>1 DEF TypeInv, Typed, SeekTyped, AtWork, handshake, file
<1> QED
  BY <1>2, <1>3, <1>4, <1>5 DEF TypeInv, Typed

\* Parked packets stay with their stream.
LEMMA SortedKept ==
  ASSUME TypeInv, Sorted, [Next]_vars
  PROVE  Sorted'
<1>0. pending \in [Stream -> Seq(Packets)] /\ cursor \in Nat
  BY Kinds DEF TypeInv, Typed, ParkedTyped, PlanTyped
<1>1. CASE UNCHANGED pending
  BY <1>1 DEF Sorted
<1>2. CASE pending' = [k \in Stream |-> <<>>]
  BY <1>2 DEF Sorted
<1>3. ASSUME NEW k \in Stream, pending' = [pending EXCEPT ![k] = Tail(@)], pending[k] # <<>>
      PROVE  Sorted'
  <2>1. ASSUME NEW j \in Stream, NEW i \in DOMAIN pending'[j] PROVE File[pending'[j][i]] = j
    <3>1. CASE j = k
      <4>1. pending'[j] = Tail(pending[j]) /\ pending[j] \in Seq(Packets) /\ pending[j] # <<>>
        BY <1>0, <1>3, <3>1
      <4>2. i \in 1 .. Len(pending[j]) - 1 /\ pending'[j][i] = pending[j][i + 1]
        BY <4>1
      <4>3. i + 1 \in DOMAIN pending[j]
        BY <4>1, <4>2
      <4> QED
        BY <4>2, <4>3 DEF Sorted
    <3>2. CASE j # k
      BY <1>0, <1>3, <3>2 DEF Sorted
    <3> QED
      BY <3>1, <3>2
  <2> QED
    BY <2>1 DEF Sorted
<1>4. ASSUME NEW p, pending' = [pending EXCEPT ![File[p]] = Append(@, p)]
      PROVE  Sorted'
  <2>1. ASSUME NEW j \in Stream, NEW i \in DOMAIN pending'[j] PROVE File[pending'[j][i]] = j
    <3>1. CASE j = File[p]
      <4>1. pending'[j] = Append(pending[j], p) /\ pending[j] \in Seq(Packets)
        BY <1>0, <1>4, <3>1
      <4>2. i \in 1 .. Len(pending[j]) + 1 /\ pending'[j][i] = IF i <= Len(pending[j]) THEN pending[j][i] ELSE p
        BY <4>1
      <4>3. i <= Len(pending[j]) => i \in DOMAIN pending[j]
        BY <4>1, <4>2
      <4> QED
        BY <3>1, <4>2, <4>3 DEF Sorted
    <3>2. CASE j # File[p]
      BY <1>0, <1>4, <3>2 DEF Sorted
    <3> QED
      BY <3>1, <3>2
  <2> QED
    BY <2>1 DEF Sorted
<1>5. ASSUME NEW i, NEW afterwards, NEW whenDeferred, Route(i, afterwards, whenDeferred)
      PROVE  UNCHANGED pending \/ pending' = [pending EXCEPT ![File[i]] = Append(@, i)]
  BY <1>5 DEF Route
<1>6. CASE RouteDeferred \/ ReadPacket
  BY <1>1, <1>4, <1>5, <1>6 DEF RouteDeferred, ReadPacket
<1>7. CASE \E k \in Stream : DrainPending(k)
  BY <1>1, <1>3, <1>7 DEF DrainPending
<1>8. CASE \/ Start \/ Loop \/ TakeRequest \/ RefuseSeek \/ CompleteSeek \/ Dispatch \/ ReadError
           \/ EndWithParked \/ DrainVideo \/ MarkEnd \/ Exit \/ NotifyExit
  BY <1>1, <1>8 DEF Start, Loop, TakeRequest, RefuseSeek, CompleteSeek, Dispatch, ReadError,
     EndWithParked, DrainVideo, MarkEnd, Exit, NotifyExit, flow
<1>9. CASE Seeker \/ SeekCall \/ Stop \/ Join \/ Consumer \/ UNCHANGED vars
  BY <1>1, <1>9 DEF Seeker, SeekRequest, SeekBlock, SeekTest, SeekCall, Stop, Join, Consumer,
     TakePair, TakeRest, TakeAudio, Popped, flow, vars
<1>10. CASE ExecuteSeek \/ \E t \in Landings : SeekAlone(t)
  BY <1>2, <1>10 DEF ExecuteSeek, SeekAlone, Seek
<1> QED
  BY <1>6, <1>7, <1>8, <1>9, <1>10 DEF Next, Demux, Host

LEMMA TypeStep ==
  ASSUME TypeInv, Sorted, [Next]_vars
  PROVE  TypeInv'
BY FlowKeepsTypes, LoopKeepsTypes, HostKeepsTypes, ConsumerKeepsTypes, StutterKeepsTypes
   DEF Next, Demux

\* Every variable of the decoder keeps its type: no queue, ring or pending queue grows
\* past its limit, the codec keeps no more frames than its delay, and a seek that is
\* executed has a place to go.
THEOREM TypeCorrect == Spec => []TypeOK
<1>1. Init => TypeInv /\ Sorted
  BY TypeInit DEF Init, Sorted
<1>2. TypeInv /\ Sorted /\ [Next]_vars => (TypeInv /\ Sorted)'
  BY TypeStep, SortedKept
<1>3. TypeInv => TypeOK
  <2> SUFFICES ASSUME TypeInv PROVE TypeOK
    OBVIOUS
  <2>1. {eof, drained, running, stop, joining, result} \subseteq BOOLEAN
    BY DEF TypeInv, Typed, PlanTyped, OutputTyped, ThreadTyped, SeekTyped
  <2>2. {deferred, codec} \subseteq Seq(Packets) /\ {requestId, completedId, request} \subseteq 0 .. plan.seeks
    BY DEF TypeInv, Typed, ParkedTyped, OutputTyped, SeekTyped
  <2> QED
    BY <2>1, <2>2 DEF TypeOK, TypeInv, Typed, PlanTyped, ParkedTyped, OutputTyped, ThreadTyped,
       SeekTyped, DueTyped
<1> QED
  BY <1>1, <1>2, <1>3, PTL DEF Spec

-----------------------------------------------------------------------------
(* Runs of packets.                                                        *)

LEMMA TailOfConcat ==
  ASSUME NEW S, NEW q \in Seq(S), NEW r \in Seq(S), q # <<>>
  PROVE  /\ Tail(q \o r) = Tail(q) \o r /\ Head(q \o r) = Head(q)
         /\ q \o r \in Seq(S) /\ q \o r # <<>>
<1>1. /\ Tail(q) \in Seq(S) /\ Len(Tail(q)) = Len(q) - 1 /\ Len(q) \in Nat /\ Len(r) \in Nat
      /\ \A i \in 1 .. Len(Tail(q)) : Tail(q)[i] = q[i + 1]
  BY HeadTailProperties
<1>2. q \o r \in Seq(S) /\ Len(q \o r) = Len(q) + Len(r) /\ Len(q) > 0
  BY <1>1, ConcatProperties
<1>3. q \o r # <<>>
  BY <1>1, <1>2
<1>4. Head(q \o r) = Head(q)
  BY <1>1, <1>2
<1>5. /\ Tail(q \o r) \in Seq(S) /\ Len(Tail(q \o r)) = Len(q) + Len(r) - 1
      /\ Tail(q) \o r \in Seq(S) /\ Len(Tail(q) \o r) = Len(q) + Len(r) - 1
  BY <1>1, <1>2, <1>3, HeadTailProperties, ConcatProperties
<1>6. ASSUME NEW i \in 1 .. Len(q) + Len(r) - 1
      PROVE  Tail(q \o r)[i] = (Tail(q) \o r)[i]
  <2>1. Tail(q \o r)[i] = (q \o r)[i + 1]
    BY <1>2, <1>3, <1>5
  <2>2. (q \o r)[i + 1] = IF i + 1 <= Len(q) THEN q[i + 1] ELSE r[i + 1 - Len(q)]
    BY <1>1, <1>2
  <2>3. (Tail(q) \o r)[i] = IF i <= Len(Tail(q)) THEN Tail(q)[i] ELSE r[i - Len(Tail(q))]
    BY <1>1, <1>5
  <2>4. i - Len(Tail(q)) = i + 1 - Len(q)
    BY <1>1
  <2> QED
    BY <1>1, <2>1, <2>2, <2>3, <2>4
<1>7. Tail(q \o r) = Tail(q) \o r
  BY <1>5, <1>6, SeqEqual
<1> QED
  BY <1>2, <1>3, <1>4, <1>7

\* The next packet of the file joins the run of its stream,
LEMMA RunExtended ==
  ASSUME NEW q \in Seq(Packets), NEW k, NEW a \in Nat, NEW c \in Packets,
         IsRun(q, k, a, c), File[c] = k, a <= c
  PROVE  IsRun(Append(q, c), k, a, c + 1)
<1>0. c \in Nat /\ Len(q) \in Nat /\ Packets \subseteq Nat
  BY Kinds
<1> DEFINE p == Append(q, c)
<1>1. /\ DOMAIN p = 1 .. Len(q) + 1 /\ DOMAIN q = 1 .. Len(q)
      /\ \A i \in DOMAIN q : p[i] = q[i] /\ q[i] \in Packets
      /\ p[Len(q) + 1] = c
  OBVIOUS
<1> HIDE DEF p
<1>2. ASSUME NEW i \in DOMAIN p PROVE p[i] \in a .. (c + 1) - 1 /\ File[p[i]] = k
  <2>1. CASE i \in DOMAIN q
    BY <1>0, <1>1, <2>1 DEF IsRun
  <2>2. CASE i = Len(q) + 1
    BY <1>0, <1>1, <2>2
  <2> QED
    BY <1>0, <1>1, <2>1, <2>2
<1>3. ASSUME NEW i \in DOMAIN p, NEW j \in DOMAIN p, i < j PROVE p[i] < p[j]
  <2>1. i \in DOMAIN q
    BY <1>0, <1>1, <1>3
  <2>2. CASE j \in DOMAIN q
    BY <1>1, <1>3, <2>1, <2>2 DEF IsRun
  <2>3. CASE j = Len(q) + 1
    BY <1>0, <1>1, <2>1, <2>3 DEF IsRun
  <2> QED
    BY <1>0, <1>1, <2>2, <2>3
<1>4. ASSUME NEW n \in a .. (c + 1) - 1, File[n] = k PROVE \E i \in DOMAIN p : p[i] = n
  <2>1. CASE n = c
    <3>1. Len(q) + 1 \in DOMAIN p
      BY <1>0, <1>1
    <3> QED
      BY <1>1, <2>1, <3>1
  <2>2. CASE n # c
    <3>1. n \in a .. c - 1
      BY <1>0, <2>2
    <3>2. PICK i \in DOMAIN q : q[i] = n
      BY <1>4, <3>1 DEF IsRun
    <3>3. i \in DOMAIN p
      BY <1>0, <1>1
    <3> QED
      BY <1>1, <3>2, <3>3
  <2> QED
    BY <2>1, <2>2
<1>6. IsRun(p, k, a, c + 1)
  BY <1>2, <1>3, <1>4 DEF IsRun
<1> QED
  BY <1>6 DEF p

\* a packet of another stream leaves it as it is,
LEMMA RunSkipped ==
  ASSUME NEW q \in Seq(Packets), NEW k, NEW a \in Nat, NEW c \in Packets,
         IsRun(q, k, a, c), File[c] # k
  PROVE  IsRun(q, k, a, c + 1)
<1>0. c \in Nat /\ Packets \subseteq Nat /\ \A i \in DOMAIN q : q[i] \in Packets
  BY Kinds
<1>1. \A i \in DOMAIN q : q[i] \in a .. (c + 1) - 1 /\ File[q[i]] = k
  BY <1>0 DEF IsRun
<1>3. \A i, j \in DOMAIN q : i < j => q[i] < q[j]
  BY DEF IsRun
<1>2. ASSUME NEW n \in a .. (c + 1) - 1, File[n] = k PROVE \E i \in DOMAIN q : q[i] = n
  <2>1. n \in a .. c - 1
    BY <1>0, <1>2
  <2> QED
    BY <1>2, <2>1 DEF IsRun
<1> QED
  BY <1>1, <1>2, <1>3 DEF IsRun

\* and without its first packet it is the run from the next packet of the stream.
LEMMA RunTaken ==
  ASSUME NEW q \in Seq(Packets), NEW k \in Stream, NEW a \in Nat, NEW c \in 1 .. Len(File) + 1,
         IsRun(q, k, a, c), q # <<>>
  PROVE  LET f == FirstFrom(k, Head(q) + 1)
         IN  IsRun(Tail(q), k, f, c) /\ \A n \in c .. f - 1 : File[n] # k
<1> DEFINE h == Head(q)
           f == FirstFrom(k, h + 1)
           r == Tail(q)
<1>0. Len(q) \in Nat /\ Len(q) > 0 /\ Packets \subseteq Nat /\ c \in Nat /\ Len(File) \in Nat
  BY Kinds
<1>1. h = q[1] /\ 1 \in DOMAIN q /\ h \in Packets /\ h \in Nat
  <2>1. DOMAIN q = 1 .. Len(q) /\ h = q[1]
    OBVIOUS
  <2>2. 1 \in DOMAIN q
    BY <1>0, <2>1
  <2>3. q[1] \in Packets
    BY <2>1, <2>2, ElementOfSeq
  <2> QED
    BY <1>0, <2>1, <2>2, <2>3
<1>2. h \in a .. c - 1 /\ \A i \in DOMAIN q : i # 1 => h < q[i]
  BY <1>0, <1>1 DEF IsRun
<1>3. h + 1 \in 1 .. Len(File) + 1
  BY <1>0, <1>1 DEF Packets
<1>4. f \in h + 1 .. Len(File) + 1 /\ \A m \in h + 1 .. f - 1 : File[m] # k
  BY <1>3, FirstIsFirst
<1>5. /\ DOMAIN r = 1 .. Len(q) - 1 /\ DOMAIN q = 1 .. Len(q)
      /\ \A i \in DOMAIN r : r[i] = q[i + 1] /\ i + 1 \in DOMAIN q /\ i + 1 # 1
  BY <1>0
<1>a. \A i \in DOMAIN q : q[i] \in Packets /\ q[i] \in Nat
  <2>1. q \in [DOMAIN q -> Packets]
    OBVIOUS
  <2> QED
    BY <1>0, <2>1
<1> HIDE DEF h, f, r
<1>6. ASSUME NEW i \in DOMAIN r PROVE r[i] \in f .. c - 1 /\ File[r[i]] = k
  <2>1. r[i] = q[i + 1] /\ i + 1 \in DOMAIN q /\ h < q[i + 1]
    BY <1>2, <1>5
  <2>2. r[i] \in a .. c - 1 /\ File[r[i]] = k /\ r[i] \in Nat
    BY <1>a, <2>1 DEF IsRun
  <2>3. ~(r[i] \in h + 1 .. f - 1)
    BY <1>4, <2>2
  <2> QED
    BY <1>0, <1>1, <1>4, <2>1, <2>2, <2>3
<1>7. ASSUME NEW i \in DOMAIN r, NEW j \in DOMAIN r, i < j PROVE r[i] < r[j]
  <2>1. i + 1 < j + 1 /\ i + 1 \in DOMAIN q /\ j + 1 \in DOMAIN q
    BY <1>5, <1>7
  <2> QED
    BY <1>5, <2>1 DEF IsRun
<1>8. ASSUME NEW n \in f .. c - 1, File[n] = k PROVE \E i \in DOMAIN r : r[i] = n
  <2>1. n \in a .. c - 1 /\ n # h
    BY <1>0, <1>1, <1>2, <1>4
  <2>2. PICK i \in DOMAIN q : q[i] = n
    BY <1>8, <2>1 DEF IsRun
  <2>3. i # 1 /\ i \in 1 .. Len(q)
    BY <1>1, <1>5, <2>1, <2>2
  <2>4. i - 1 \in DOMAIN r /\ i - 1 + 1 = i
    BY <1>0, <1>5, <2>3
  <2> QED
    BY <1>5, <2>2, <2>4
<1>9. \A n \in c .. f - 1 : File[n] # k
  BY <1>0, <1>1, <1>2, <1>4
<1>10. IsRun(r, k, f, c)
  BY <1>6, <1>7, <1>8 DEF IsRun
<1> QED
  BY <1>9, <1>10 DEF h, f, r

-----------------------------------------------------------------------------
(* The flow: no packet is lost.                                            *)

LEMMA FlowParts ==
  ASSUME TypeInv, NEW k \in Stream
  PROVE  /\ out[k] \in Seq(Packets) /\ codec \in Seq(Packets) /\ pending[k] \in Seq(Packets)
         /\ Held(k) \in Seq(Packets) /\ Line(k) \in Seq(Packets) /\ DeferredOf(k) \in Seq(Packets)
         /\ InFlight(k) \in Seq(Packets) /\ InFlight(k) = Line(k) \o DeferredOf(k)
<1>1. out[k] \in Seq(Packets) /\ codec \in Seq(Packets) /\ pending[k] \in Seq(Packets)
      /\ deferred \in Seq(Packets) /\ <<>> \in Seq(Packets)
  BY DEF TypeInv, Typed, OutputTyped, ParkedTyped
<1>2. Held(k) \in Seq(Packets)
  BY <1>1, ConcatProperties DEF Held
<1>3. Line(k) \in Seq(Packets)
  BY <1>1, <1>2, ConcatProperties DEF Line
<1>4. DeferredOf(k) \in Seq(Packets)
  BY <1>1 DEF DeferredOf
<1>5. InFlight(k) = Line(k) \o DeferredOf(k)
  BY DEF InFlight, Line, Held
<1> QED
  BY <1>1, <1>2, <1>3, <1>4, <1>5, ConcatProperties

\* A step that moves nothing on from the file and takes nothing away.
LEMMA WholeUnchanged ==
  ASSUME NEW k \in Stream, Whole(k), InFlight(k)' = InFlight(k), UNCHANGED cursor,
         due'[k] = due[k], Unharmed(k)' => Unharmed(k)
  PROVE  Whole(k)'
<1>1. CASE Unharmed(k)'
  <2>1. IsRun(InFlight(k), k, due[k], cursor) /\ \A n \in cursor .. due[k] - 1 : File[n] # k
    BY <1>1 DEF Whole
  <2>2. IsRun(InFlight(k), k, due[k], cursor)'
    BY <2>1 DEF IsRun
  <2> QED
    BY <2>1, <2>2 DEF Whole
<1>2. CASE ~Unharmed(k)'
  BY <1>2 DEF Whole
<1> QED
  BY <1>1, <1>2

\* A packet that is routed is on its way, or its stream is harmed.
LEMMA RouteFlow ==
  ASSUME TypeInv, NEW i \in Packets, NEW afterwards, NEW whenDeferred,
         Route(i, afterwards, whenDeferred), UNCHANGED plan, NEW k \in Stream
  PROVE  /\ Unharmed(k)' => Unharmed(k)
         /\ Unharmed(k)' =>
              InFlight(k)' = IF k = File[i] THEN Append(Line(k), i) ELSE Line(k)
<1>0. /\ OutputTyped /\ Line(k) \in Seq(Packets) /\ Held(k) \in Seq(Packets)
      /\ pending[k] \in Seq(Packets) /\ pending \in [Stream -> Seq(Packets)]
      /\ Line(k) \o <<>> = Line(k) /\ File[i] \in Stream /\ state \in [Queue -> {"open", "end", "error"}]
  BY FlowParts, Kinds, ConcatEmptySeq DEF TypeInv, Typed, OutputTyped, ParkedTyped
<1>a. Append(Line(k), i) = Line(k) \o <<i>> /\ <<i>> \in Seq(Packets)
      /\ Append(Line(k), i) \in Seq(Packets) /\ Append(Line(k), i) \o <<>> = Append(Line(k), i)
  BY <1>0, AppendIsConcat, ConcatEmptySeq
<1>b. InFlight(k)' = Line(k)' \o DeferredOf(k)'
  BY DEF InFlight, Line, Held
<1>1. CASE Lost(i)
  <2>1. Fails({File[i]} \cap Queue, eof) /\ UNCHANGED <<codec, out, pending>> /\ deferred' = <<>>
        /\ (i \in plan.damaged \/ File[i] \in Queue)
    BY <1>1 DEF Lost, Failed
  <2>2. Line(k)' = Line(k) /\ DeferredOf(k)' = <<>>
    BY <2>1 DEF Line, Held, DeferredOf
  <2>3. Unharmed(k)' => Unharmed(k) /\ k # File[i]
    <3>1. CASE k \in Queue
      BY <1>0, <2>1, <3>1 DEF Unharmed, Fails
    <3>2. CASE k \notin Queue
      BY <1>0, <2>1, <3>2 DEF Unharmed
    <3> QED
      BY <3>1, <3>2
  <2> QED
    BY <1>0, <1>b, <2>2, <2>3
<1>2. CASE Passed(i, afterwards)
  <2>1. Decoded(i, afterwards) /\ deferred' = <<>> /\ pending' = pending /\ pending[File[i]] = <<>>
        /\ state' = state
    BY <1>2 DEF Passed, Decoded
  <2>2. Held(k)' = IF k = File[i] THEN Append(Held(k), i) ELSE Held(k)
    BY <1>0, <2>1, DecodeMoves
  <2>3. Line(k)' = Held(k)' \o pending[k] /\ Line(k) = Held(k) \o pending[k] /\ DeferredOf(k)' = <<>>
    BY <2>1 DEF Line, DeferredOf
  <2>4. CASE k = File[i]
    <3>1. Line(k) = Held(k)
      BY <1>0, <2>1, <2>3, <2>4, ConcatEmptySeq
    <3>2. Append(Held(k), i) \in Seq(Packets)
      BY <1>0
    <3>3. Line(k)' = Append(Line(k), i)
      BY <2>1, <2>2, <2>3, <2>4, <3>1, <3>2, ConcatEmptySeq
    <3> QED
      BY <1>a, <1>b, <2>1, <2>3, <2>4, <3>3 DEF Unharmed
  <2>5. CASE k # File[i]
    BY <1>0, <1>b, <2>1, <2>2, <2>3, <2>5 DEF Unharmed
  <2> QED
    BY <2>4, <2>5
<1>3. CASE ParkedIt(i, afterwards)
  <2>1. /\ pending' = [pending EXCEPT ![File[i]] = Append(@, i)] /\ deferred' = <<>>
        /\ UNCHANGED <<codec, out, state>>
    BY <1>3 DEF ParkedIt
  <2>2. Held(k)' = Held(k) /\ Line(k) = Held(k) \o pending[k] /\ Line(k)' = Held(k)' \o pending'[k]
        /\ DeferredOf(k)' = <<>>
    BY <2>1 DEF Held, Line, DeferredOf
  <2>3. CASE k = File[i]
    <3>1. pending'[k] = Append(pending[k], i)
      BY <1>0, <2>1, <2>3
    <3>2. Append(pending[k], i) = pending[k] \o <<i>>
      BY <1>0, AppendIsConcat
    <3>3. Held(k) \o (pending[k] \o <<i>>) = (Held(k) \o pending[k]) \o <<i>>
      BY <1>0, <1>a, ConcatAssociative
    <3>4. Line(k)' = Append(Line(k), i)
      BY <1>a, <2>2, <3>1, <3>2, <3>3
    <3> QED
      BY <1>a, <1>b, <2>1, <2>2, <2>3, <3>4 DEF Unharmed
  <2>4. CASE k # File[i]
    <3>1. pending'[k] = pending[k]
      BY <1>0, <2>1, <2>4
    <3> QED
      BY <1>0, <1>b, <2>1, <2>2, <2>4, <3>1 DEF Unharmed
  <2> QED
    BY <2>3, <2>4
<1>4. CASE Deferred(i, whenDeferred)
  <2>1. deferred' = <<i>> /\ UNCHANGED <<pending, codec, out, state>>
    BY <1>4 DEF Deferred
  <2>2. Line(k)' = Line(k) /\ DeferredOf(k)' = IF k = File[i] THEN <<i>> ELSE <<>>
    BY <2>1 DEF Held, Line, DeferredOf
  <2> QED
    BY <1>0, <1>a, <1>b, <2>1, <2>2 DEF Unharmed
<1> QED
  BY <1>0, <1>1, <1>2, <1>3, <1>4, RouteEffect

\* The demuxer's own steps,
LEMMA RouteKeepsWhole ==
  ASSUME TypeInv, FlowInv, RouteDeferred \/ ReadPacket, NEW k \in Stream
  PROVE  Whole(k)'
<1>0. Whole(k) /\ Line(k) \in Seq(Packets) /\ InFlight(k) = Line(k) \o DeferredOf(k)
      /\ due \in [Stream -> 1 .. Len(File) + 1] /\ deferred \in Seq(Packets) /\ Len(deferred) <= 1
      /\ InFlight(k) \in Seq(Packets)
  BY FlowParts DEF FlowInv, TypeInv, Typed, DueTyped, ParkedTyped
<1>1. CASE RouteDeferred /\ deferred = <<>>
  <2>1. UNCHANGED <<pending, deferred, codec, out, state, cursor, plan, due>>
    BY <1>1 DEF RouteDeferred, file
  <2>2. InFlight(k)' = InFlight(k) /\ (Unharmed(k)' => Unharmed(k))
    BY <2>1 DEF InFlight, DeferredOf, Unharmed
  <2> QED
    BY <1>0, <2>1, <2>2, WholeUnchanged
<1>2. CASE RouteDeferred /\ deferred # <<>>
  <2>1. Route(deferred[1], "read", "top") /\ UNCHANGED <<cursor, plan, due>>
    BY <1>2 DEF RouteDeferred, file
  <2>2. deferred[1] \in Packets /\ deferred = <<deferred[1]>>
    <3>1. Len(deferred) = 1 /\ 1 \in 1 .. Len(deferred)
      <4>1. deferred \in Seq(Packets) /\ deferred # <<>> /\ Len(deferred) <= 1
        BY <1>0, <1>2
      <4>2. Len(deferred) \in Nat /\ Len(deferred) # 0
        BY <4>1, EmptySeq, LenProperties
      <4> QED
        BY <4>1, <4>2
    <3>2. deferred[1] \in Packets
      BY <1>0, <3>1, ElementOfSeq
    <3> QED
      BY <1>0, <3>1, <3>2
  <2>3. InFlight(k) = IF k = File[deferred[1]] THEN Append(Line(k), deferred[1]) ELSE Line(k)
    <3>1. Append(Line(k), deferred[1]) = Line(k) \o <<deferred[1]>>
      BY <1>0, <2>2, AppendIsConcat
    <3>2. Line(k) \o <<>> = Line(k)
      BY <1>0, ConcatEmptySeq
    <3>3. DeferredOf(k) = IF k = File[deferred[1]] THEN <<deferred[1]>> ELSE <<>>
      BY <1>2, <2>2 DEF DeferredOf
    <3> QED
      BY <1>0, <3>1, <3>2, <3>3
  <2>4. Unharmed(k)' => InFlight(k)' = InFlight(k) /\ Unharmed(k)
    BY <2>1, <2>2, <2>3, RouteFlow
  <2>5. CASE Unharmed(k)'
    BY <1>0, <2>1, <2>4, <2>5, WholeUnchanged
  <2>6. CASE ~Unharmed(k)'
    BY <2>6 DEF Whole
  <2> QED
    BY <2>5, <2>6
<1>3. CASE ReadPacket
  <2>1. Route(cursor, "top", "top") /\ cursor' = cursor + 1 /\ UNCHANGED <<plan, due>>
        /\ cursor <= Len(File) /\ wpc = "read"
    BY <1>3 DEF ReadPacket
  <2>2. cursor \in Packets /\ cursor \in Nat /\ due[k] \in Nat /\ due'[k] = due[k]
    BY <1>0, <2>1, Kinds DEF TypeInv, Typed, PlanTyped, Packets
  <2>3. deferred = <<>> /\ InFlight(k) = Line(k)
    <3>1. deferred = <<>>
      BY <2>1 DEF FlowInv, Settled
    <3>2. DeferredOf(k) = <<>> /\ Line(k) \o <<>> = Line(k)
      BY <1>0, <3>1, ConcatEmptySeq DEF DeferredOf
    <3> QED
      BY <1>0, <3>1, <3>2
  <2>4. CASE Unharmed(k)'
    <3>1. Unharmed(k) /\ InFlight(k)' = IF k = File[cursor] THEN Append(InFlight(k), cursor) ELSE InFlight(k)
      BY <2>1, <2>2, <2>3, <2>4, RouteFlow
    <3>2. IsRun(InFlight(k), k, due[k], cursor) /\ \A n \in cursor .. due[k] - 1 : File[n] # k
      BY <1>0, <3>1 DEF Whole
    <3>3. \A n \in cursor + 1 .. due[k] - 1 : File[n] # k
      BY <2>2, <3>2
    <3>4. CASE k = File[cursor]
      <4>1. due[k] <= cursor
        BY <2>2, <3>2, <3>4
      <4>2. IsRun(Append(InFlight(k), cursor), k, due[k], cursor + 1)
        BY <1>0, <2>2, <3>2, <3>4, <4>1, RunExtended
      <4>3. IsRun(InFlight(k), k, due[k], cursor)'
        <5> DEFINE q == Append(InFlight(k), cursor)
        <5>1. IsRun(q, k, due[k], cursor + 1) /\ InFlight(k)' = q
          BY <3>1, <3>4, <4>2
        <5> HIDE DEF q
        <5> QED
          BY <2>1, <2>2, <5>1 DEF IsRun
      <4> QED
        BY <2>1, <2>2, <3>3, <4>3 DEF Whole
    <3>5. CASE k # File[cursor]
      <4>1. IsRun(InFlight(k), k, due[k], cursor + 1)
        BY <1>0, <2>2, <3>2, <3>5, RunSkipped
      <4>2. IsRun(InFlight(k), k, due[k], cursor)'
        BY <2>1, <2>2, <3>1, <3>5, <4>1 DEF IsRun
      <4> QED
        BY <2>1, <2>2, <3>3, <4>2 DEF Whole
    <3> QED
      BY <3>4, <3>5
  <2>5. CASE ~Unharmed(k)'
    BY <2>5 DEF Whole
  <2> QED
    BY <2>4, <2>5
<1> QED
  BY <1>1, <1>2, <1>3

LEMMA DrainKeepsWhole ==
  ASSUME TypeInv, Sorted, FlowInv, NEW j \in Stream, DrainPending(j), NEW k \in Stream
  PROVE  Whole(k)'
<1>0. /\ Whole(k) /\ OutputTyped /\ pending \in [Stream -> Seq(Packets)] /\ pending[j] \in Seq(Packets)
      /\ Held(k) \in Seq(Packets) /\ state \in [Queue -> {"open", "end", "error"}]
      /\ UNCHANGED <<cursor, plan, due, deferred>>
      /\ InFlight(k) = (Held(k) \o pending[k]) \o DeferredOf(k)
      /\ InFlight(k)' = (Held(k)' \o pending'[k]) \o DeferredOf(k)'
      /\ DeferredOf(k)' = DeferredOf(k)
  BY FlowParts DEF FlowInv, TypeInv, Typed, OutputTyped, ParkedTyped, DrainPending, file, InFlight,
     Held, DeferredOf
<1>1. CASE ~(Room(j) /\ pending[j] # <<>>)
  <2>1. UNCHANGED <<pending, codec, out, state>>
    BY <1>1 DEF DrainPending
  <2>2. Held(k)' = Held(k) /\ (Unharmed(k)' => Unharmed(k))
    BY <1>0, <2>1 DEF Held, Unharmed
  <2> QED
    BY <1>0, <2>1, <2>2, WholeUnchanged
<1>2. CASE Room(j) /\ pending[j] # <<>>
  <2> DEFINE i == Head(pending[j])
  <2>1. Decode(i, After(j)) /\ pending' = [pending EXCEPT ![j] = Tail(@)]
    BY <1>2 DEF DrainPending
  <2>2. i \in Packets /\ Tail(pending[j]) \in Seq(Packets) /\ File[i] = j
    <3>1. 1 \in DOMAIN pending[j] /\ i = pending[j][1]
      BY <1>0, <1>2
    <3>2. i \in Packets /\ Tail(pending[j]) \in Seq(Packets)
      BY <1>0, <1>2, HeadTailProperties
    <3> QED
      BY <3>1, <3>2 DEF Sorted
  <2> HIDE DEF i
  <2>3. Failed(i) \/ Decoded(i, After(j))
    BY <1>0, <2>1, <2>2, DecodeEffect
  <2>4. CASE Failed(i)
    <3>1. /\ Fails({j} \cap Queue, eof) /\ UNCHANGED <<codec, out>>
          /\ (i \in plan.damaged \/ j \in Queue)
      BY <2>2, <2>4 DEF Failed
    <3>2. Unharmed(k)' => Unharmed(k) /\ k # j
      <4>1. CASE k \in Queue
        BY <1>0, <3>1, <4>1 DEF Unharmed, Fails
      <4>2. CASE k \notin Queue
        BY <1>0, <2>2, <3>1, <4>2 DEF Unharmed
      <4> QED
        BY <4>1, <4>2
    <3>3. CASE k # j
      <4>1. pending'[k] = pending[k] /\ Held(k)' = Held(k)
        BY <1>0, <2>1, <3>1, <3>3 DEF Held
      <4> QED
        BY <1>0, <3>2, <4>1, WholeUnchanged
    <3>4. CASE k = j
      BY <3>2, <3>4 DEF Whole
    <3> QED
      BY <3>3, <3>4
  <2>5. CASE Decoded(i, After(j))
    <3>1. Held(k)' = (IF k = j THEN Append(Held(k), i) ELSE Held(k)) /\ (Unharmed(k)' => Unharmed(k))
      BY <1>0, <2>2, <2>5, DecodeMoves DEF Decoded, Unharmed
    <3>2. Held(k)' \o pending'[k] = Held(k) \o pending[k]
      <4>1. CASE k = j
        <5>1. pending'[k] = Tail(pending[k]) /\ Held(k)' = Append(Held(k), Head(pending[k]))
          BY <1>0, <2>1, <3>1, <4>1 DEF i
        <5> QED
          BY <1>0, <1>2, <4>1, <5>1, MoveHead
      <4>2. CASE k # j
        BY <1>0, <2>1, <3>1, <4>2
      <4> QED
        BY <4>1, <4>2
    <3>3. InFlight(k)' = InFlight(k)
      BY <1>0, <3>2
    <3> QED
      BY <1>0, <3>1, <3>3, WholeUnchanged
  <2> QED
    BY <2>3, <2>4, <2>5
<1> QED
  BY <1>1, <1>2

LEMMA EndKeepsWhole ==
  ASSUME TypeInv, FlowInv, ReadError \/ EndWithParked \/ DrainVideo \/ MarkEnd, NEW k \in Stream
  PROVE  Whole(k)'
<1>0. /\ Whole(k) /\ out \in [Stream -> Seq(Packets)] /\ state \in [Queue -> {"open", "end", "error"}]
      /\ out[k] \in Seq(Packets) /\ codec \in Seq(Packets) /\ "video" \in Queue
  BY FlowParts, Kinds DEF FlowInv, TypeInv, Typed, OutputTyped
<1>1. UNCHANGED <<cursor, plan, due, deferred, pending>>
  BY DEF ReadError, EndWithParked, DrainVideo, MarkEnd, file, flow
<1>2. Held(k)' = Held(k) => InFlight(k)' = InFlight(k)
  BY <1>1 DEF InFlight, Held, DeferredOf
<1>3. Unharmed(k)' => Unharmed(k) /\ Held(k)' = Held(k)
  <2>1. CASE ReadError
    <3>1. UNCHANGED <<codec, out, plan>> /\ Fails(Queue, eof)
      BY <1>1, <2>1 DEF ReadError
    <3> QED
      BY <1>0, <3>1 DEF Fails, Unharmed, Held
  <2>2. CASE EndWithParked
    BY <1>1, <2>2 DEF EndWithParked, flow, Unharmed, Held
  <2>3. CASE DrainVideo
    <3> DEFINE fit == IF state["video"] = "open" THEN Capacity["video"] - Len(out["video"]) ELSE 0
    <3>1. CASE Len(codec) <= fit
      <4>1. out' = [out EXCEPT !["video"] = @ \o codec] /\ codec' = <<>> /\ UNCHANGED <<state, plan>>
        BY <1>1, <2>3, <3>1 DEF DrainVideo
      <4>2. CASE k = "video"
        <5>1. Held(k) = out[k] \o codec /\ Held(k)' = (out[k] \o codec) \o <<>>
          BY <1>0, <4>1, <4>2 DEF Held
        <5>2. out[k] \o codec \in Seq(Packets)
          BY <1>0, ConcatProperties
        <5> QED
          BY <4>1, <5>1, <5>2, ConcatEmptySeq DEF Unharmed
      <4>3. CASE k # "video"
        BY <1>0, <4>1, <4>3 DEF Held, Unharmed
      <4> QED
        BY <4>2, <4>3
    <3>2. CASE ~(Len(codec) <= fit)
      <4>1. out' = [out EXCEPT !["video"] = @ \o SubSeq(codec, 1, fit)] /\ Fails({"video"}, TRUE)
            /\ UNCHANGED plan
        BY <1>1, <2>3, <3>2 DEF DrainVideo
      <4> HIDE DEF fit
      <4>2. Unharmed(k)' => Unharmed(k) /\ k # "video"
        BY <1>0, <4>1 DEF Unharmed, Fails
      <4>3. k # "video" => Held(k)' = Held(k)
        BY <1>0, <4>1 DEF Held
      <4> QED
        BY <4>2, <4>3
    <3> QED
      BY <3>1, <3>2
  <2>4. CASE MarkEnd
    <3>1. UNCHANGED <<codec, out, plan>> /\ state' = [q \in Queue |-> IF state[q] = "error" THEN "error" ELSE "end"]
      BY <1>1, <2>4 DEF MarkEnd
    <3> QED
      BY <1>0, <3>1 DEF Unharmed, Held
  <2> QED
    BY <2>1, <2>2, <2>3, <2>4
<1>4. CASE Unharmed(k)'
  BY <1>0, <1>1, <1>2, <1>3, <1>4, WholeUnchanged
<1>5. CASE ~Unharmed(k)'
  BY <1>5 DEF Whole
<1> QED
  BY <1>4, <1>5

\* a seek, which starts every stream anew from where the container lands,
LEMMA SeekMakesWhole ==
  ASSUME TypeInv, NEW t \in Landings, Seek(t), NEW k \in Stream
  PROVE  Whole(k)'
<1>1. t \in 1 .. Len(File) + 1 /\ t \in Nat
  BY Kinds DEF Packets
<1>2. FirstFrom(k, t) \in t .. Len(File) + 1 /\ \A n \in t .. FirstFrom(k, t) - 1 : File[n] # k
  BY <1>1, FirstIsFirst
<1>3. cursor' = t /\ due'[k] = FirstFrom(k, t)
  BY DEF Seek
<1>4. InFlight(k)' = <<>>
  <2>1. out'[k] = <<>> /\ codec' = <<>> /\ pending'[k] = <<>> /\ deferred' = <<>>
    BY DEF Seek, DeferredAfterSeek
  <2>2. InFlight(k)' = ((<<>> \o <<>>) \o <<>>) \o <<>>
    BY <2>1 DEF InFlight, DeferredOf
  <2> QED
    BY <2>2
<1>5. IsRun(<<>>, k, FirstFrom(k, t), t)
  <2>1. \A n \in FirstFrom(k, t) .. t - 1 : FALSE
    BY <1>1, <1>2, Kinds
  <2> QED
    BY <2>1 DEF IsRun
<1>6. IsRun(InFlight(k), k, due[k], cursor)'
  BY <1>3, <1>4, <1>5 DEF IsRun
<1> QED
  BY <1>2, <1>3, <1>6 DEF Whole

\* and the consumers, who take the packet that is due.
LEMMA ConsumerKeepsWhole ==
  ASSUME TypeInv, FlowInv, Consumer, NEW k \in Stream
  PROVE  Whole(k)'
<1>0. /\ Whole(k) /\ InFlight(k) \in Seq(Packets) /\ out[k] \in Seq(Packets) /\ codec \in Seq(Packets)
      /\ pending[k] \in Seq(Packets) /\ DeferredOf(k) \in Seq(Packets)
      /\ cursor \in 1 .. Len(File) + 1 /\ due[k] \in Nat
  BY FlowParts, Kinds DEF FlowInv, TypeInv, Typed, PlanTyped, DueTyped
<1>1. PICK K \in SUBSET Stream : Popped(K) /\ \A j \in K : out[j] # <<>>
  <2>1. Queue \in SUBSET Stream /\ {"audio"} \in SUBSET Stream /\ \A j \in Queue : {j} \in SUBSET Stream
    BY DEF Stream
  <2>2. CASE TakePair
    BY <2>1, <2>2 DEF TakePair
  <2>3. CASE TakeRest
    BY <2>1, <2>3 DEF TakeRest
  <2>4. CASE TakeAudio
    BY <2>1, <2>4 DEF TakeAudio
  <2> QED
    BY <2>2, <2>3, <2>4 DEF Consumer
<1>2. /\ UNCHANGED <<cursor, plan, pending, deferred, codec, state>>
      /\ out'[k] = (IF k \in K THEN Tail(out[k]) ELSE out[k])
      /\ due'[k] = IF k \in K THEN FirstFrom(k, Head(out[k]) + 1) ELSE due[k]
  BY <1>1 DEF Popped, file
<1>3. (Unharmed(k)' <=> Unharmed(k)) /\ DeferredOf(k)' = DeferredOf(k)
  BY <1>2 DEF Unharmed, DeferredOf
<1>4. CASE k \notin K
  <2>1. InFlight(k)' = InFlight(k) /\ due'[k] = due[k]
    BY <1>2, <1>3, <1>4 DEF InFlight
  <2> QED
    BY <1>0, <1>2, <1>3, <2>1, WholeUnchanged
<1>5. CASE k \in K
  <2> DEFINE kept == IF k = "video" THEN codec ELSE <<>>
  <2>1. kept \in Seq(Packets) /\ out[k] # <<>>
    BY <1>0, <1>1, <1>5
  <2>2. InFlight(k) = ((out[k] \o kept) \o pending[k]) \o DeferredOf(k)
        /\ InFlight(k)' = ((Tail(out[k]) \o kept) \o pending[k]) \o DeferredOf(k)
    BY <1>2, <1>3, <1>5 DEF InFlight
  <2> HIDE DEF kept
  <2>3. /\ Tail(out[k] \o kept) = Tail(out[k]) \o kept /\ Head(out[k] \o kept) = Head(out[k])
        /\ out[k] \o kept \in Seq(Packets) /\ out[k] \o kept # <<>>
    BY <1>0, <2>1, TailOfConcat
  <2> DEFINE a == out[k] \o kept
             b == a \o pending[k]
  <2>4. Tail(b) = Tail(a) \o pending[k] /\ Head(b) = Head(a) /\ b \in Seq(Packets) /\ b # <<>>
    <3> HIDE DEF a
    <3>1. a \in Seq(Packets) /\ a # <<>>
      BY <2>3 DEF a
    <3> QED
      BY <1>0, <3>1, TailOfConcat, ZenonT(30)
  <2>5. Tail(b \o DeferredOf(k)) = Tail(b) \o DeferredOf(k) /\ Head(b \o DeferredOf(k)) = Head(b)
        /\ b \o DeferredOf(k) # <<>>
    <3> HIDE DEF b
    <3> QED
      BY <1>0, <2>4, TailOfConcat, SMTT(30)
  <2>6. InFlight(k) # <<>> /\ Head(InFlight(k)) = Head(out[k]) /\ InFlight(k)' = Tail(InFlight(k))
    BY <2>2, <2>3, <2>4, <2>5
  <2>7. CASE Unharmed(k)
    <3> DEFINE f == FirstFrom(k, Head(InFlight(k)) + 1)
    <3>1. IsRun(InFlight(k), k, due[k], cursor)
      BY <1>0, <2>7 DEF Whole
    <3>2. IsRun(Tail(InFlight(k)), k, f, cursor) /\ \A n \in cursor .. f - 1 : File[n] # k
      BY <1>0, <2>6, <3>1, RunTaken
    <3>3. due'[k] = f
      BY <1>2, <1>5, <2>6
    <3> HIDE DEF f
    <3> DEFINE q == Tail(InFlight(k))
    <3>4. InFlight(k)' = q /\ IsRun(q, k, f, cursor)
      BY <2>6, <3>2
    <3> HIDE DEF q
    <3>5. IsRun(InFlight(k), k, due[k], cursor)'
      BY <1>2, <3>3, <3>4 DEF IsRun
    <3> QED
      BY <1>2, <3>2, <3>3, <3>5 DEF Whole
  <2>8. CASE ~Unharmed(k)
    BY <1>3, <2>8 DEF Whole
  <2> QED
    BY <2>7, <2>8
<1> QED
  BY <1>4, <1>5

LEMMA WholeStep ==
  ASSUME TypeInv, Sorted, FlowInv, [Next]_vars, NEW k \in Stream
  PROVE  Whole(k)'
<1>1. CASE ReadError \/ EndWithParked \/ DrainVideo \/ MarkEnd
  BY <1>1, EndKeepsWhole
<1>2. CASE RouteDeferred \/ ReadPacket
  BY <1>2, RouteKeepsWhole
<1>3. CASE \E j \in Stream : DrainPending(j)
  BY <1>3, DrainKeepsWhole
<1>4. CASE Consumer
  BY <1>4, ConsumerKeepsWhole
<1>5. CASE ExecuteSeek \/ \E t \in Landings : SeekAlone(t)
  <2>1. PICK t \in Landings : Seek(t)
    BY <1>5 DEF ExecuteSeek, SeekAlone, TypeInv, AtWork
  <2> QED
    BY <2>1, SeekMakesWhole
<1>6. CASE \/ Start \/ Loop \/ TakeRequest \/ RefuseSeek \/ CompleteSeek \/ Dispatch \/ Exit
           \/ NotifyExit \/ Seeker \/ SeekCall \/ Stop \/ Join \/ UNCHANGED vars
  <2>1. UNCHANGED <<file, flow, due>>
    BY <1>6 DEF Start, Loop, TakeRequest, RefuseSeek, CompleteSeek, Dispatch, Exit, NotifyExit,
       Seeker, SeekRequest, SeekBlock, SeekTest, SeekCall, Stop, Join, vars
  <2>2. UNCHANGED <<cursor, plan, pending, deferred, codec, out, state, due>>
    BY <2>1 DEF file, flow
  <2>3. InFlight(k)' = InFlight(k) /\ (Unharmed(k)' => Unharmed(k))
    BY <2>2 DEF InFlight, DeferredOf, Unharmed
  <2> QED
    BY <2>2, <2>3, WholeUnchanged DEF FlowInv
<1> QED
  BY <1>1, <1>2, <1>3, <1>4, <1>5, <1>6 DEF Next, Demux, Host

\* The end of the file is told when all has been passed on.
LEMMA SettledStep ==
  ASSUME TypeInv, Settled, [Next]_vars
  PROVE  Settled'
<1>0. state \in [Queue -> {"open", "end", "error"}] /\ cursor \in 1 .. Len(File) + 1 /\ Len(File) \in Nat
      /\ pending \in [Stream -> Seq(Packets)] /\ drained \in BOOLEAN
  BY Kinds DEF TypeInv, Typed, OutputTyped, PlanTyped, ParkedTyped
<1> DEFINE Ended == UNCHANGED state \/ \E broken : state' = [k \in Queue |-> IF k \in broken THEN "error" ELSE state[k]]
<1>1. ASSUME Ended, UNCHANGED <<cursor, codec, deferred, pending, drained>>, wpc' # "read" \/ deferred = <<>>
      PROVE  Settled'
  <2>1. ASSUME NEW k \in Queue, state'[k] = "end" PROVE drained'
    BY <1>0, <1>1, <2>1 DEF Settled
  <2> QED
    BY <1>1, <2>1 DEF Settled
<1>2. ASSUME Ended, ~drained, ~drained', wpc' # "read" \/ deferred' = <<>> PROVE Settled'
  <2>1. ASSUME NEW k \in Queue, state'[k] = "end" PROVE FALSE
    BY <1>0, <1>2, <2>1 DEF Settled
  <2> QED
    BY <1>2, <2>1 DEF Settled
<1> HIDE DEF Ended
<1>3. ASSUME NEW i, NEW next, Decode(i, next) PROVE Ended /\ wpc' \in {next, "top"}
  BY <1>3 DEF Decode, Fails, Ended
<1>4. ASSUME NEW j \in Stream, DrainPending(j) PROVE Settled'
  <2>1. UNCHANGED <<cursor, deferred, drained>> /\ After(j) # "read"
    BY <1>4 DEF DrainPending, file, After, Stream, Queue
  <2>2. CASE Room(j) /\ pending[j] # <<>>
    <3>1. Decode(Head(pending[j]), After(j))
      BY <1>4, <2>2 DEF DrainPending
    <3>2. ~drained
      BY <2>2 DEF Settled
    <3> QED
      BY <1>2, <1>3, <2>1, <3>1, <3>2
  <2>3. CASE ~(Room(j) /\ pending[j] # <<>>)
    <3>1. UNCHANGED <<pending, codec, state>> /\ wpc' = After(j)
      BY <1>4, <2>3 DEF DrainPending
    <3> QED
      BY <1>1, <2>1, <3>1 DEF Ended
  <2> QED
    BY <2>2, <2>3
<1>5. CASE RouteDeferred \/ ReadPacket
  <2>1. UNCHANGED drained
    BY <1>5 DEF RouteDeferred, ReadPacket
  <2>2. CASE RouteDeferred /\ deferred = <<>>
    <3>1. UNCHANGED <<cursor, pending, deferred, codec, drained, state>>
      BY <2>2 DEF RouteDeferred, file
    <3> QED
      BY <1>1, <2>2, <3>1 DEF Ended
  <2>3. ASSUME NEW i, NEW after, Route(i, after, "top"), after \in {"read", "top"}
        PROVE  Ended /\ (wpc' # "read" \/ deferred' = <<>>)
    <3>1. CASE ~Blocked(File[i])
      BY <1>3, <2>3, <3>1 DEF Route
    <3>2. CASE Blocked(File[i])
      BY <2>3, <3>2 DEF Route, Ended
    <3> QED
      BY <3>1, <3>2
  <2>4. CASE RouteDeferred /\ deferred # <<>>
    <3>1. Route(deferred[1], "read", "top") /\ ~drained
      BY <2>4 DEF RouteDeferred, Settled
    <3> QED
      BY <1>2, <2>1, <2>3, <3>1
  <2>5. CASE ReadPacket
    <3>1. Route(cursor, "top", "top") /\ ~drained
      <4>1. cursor <= Len(File) /\ Route(cursor, "top", "top")
        BY <2>5 DEF ReadPacket
      <4>2. cursor # Len(File) + 1
        BY <1>0, <4>1
      <4> QED
        BY <4>1, <4>2 DEF Settled
    <3> QED
      BY <1>2, <2>1, <2>3, <3>1
  <2> QED
    BY <1>5, <2>2, <2>4, <2>5
<1>6. CASE ReadError
  BY <1>1, <1>6 DEF ReadError, Fails, Ended, file
<1>7. CASE EndWithParked
  BY <1>1, <1>7 DEF EndWithParked, flow, Ended
<1>8. CASE DrainVideo
  <2> DEFINE fit == IF state["video"] = "open" THEN Capacity["video"] - Len(out["video"]) ELSE 0
  <2>0. wpc = "read" /\ cursor > Len(File) /\ ~Parked /\ ~drained
        /\ UNCHANGED <<cursor, pending, deferred>>
    BY <1>8 DEF DrainVideo
  <2>1. CASE Len(codec) <= fit
    <3>1. codec' = <<>> /\ wpc' = "top" /\ drained' = TRUE /\ UNCHANGED state
      BY <1>8, <2>1 DEF DrainVideo
    <3>2. cursor = Len(File) + 1
      BY <1>0, <2>0
    <3>3. deferred' = <<>> /\ \A k \in Stream : pending'[k] = <<>>
      BY <2>0 DEF Settled, Parked
    <3>4. ~(\E k \in Queue : state[k] = "end")
      BY <2>0 DEF Settled
    <3> QED
      BY <2>0, <3>1, <3>2, <3>3, <3>4 DEF Settled
  <2>2. CASE ~(Len(codec) <= fit)
    <3>1. Fails({"video"}, TRUE) /\ UNCHANGED drained
      BY <1>8, <2>2 DEF DrainVideo
    <3> QED
      BY <1>2, <2>0, <3>1 DEF Fails, Ended
  <2> QED
    BY <2>1, <2>2
<1>9. CASE MarkEnd
  <2>1. drained /\ wpc' = "top" /\ UNCHANGED <<cursor, pending, deferred, codec, drained>>
    BY <1>9 DEF MarkEnd
  <2> QED
    BY <2>1 DEF Settled
<1>10. CASE ExecuteSeek \/ \E t \in Landings : SeekAlone(t)
  <2>1. PICK t \in Landings : Seek(t)
    BY <1>10 DEF ExecuteSeek, SeekAlone, TypeInv, AtWork
  <2>2. deferred' = <<>> /\ drained' = FALSE /\ \A k \in Queue : state'[k] = "open"
    BY <2>1 DEF Seek, DeferredAfterSeek
  <2> QED
    BY <2>2 DEF Settled
<1>11. CASE \/ Start \/ Loop \/ TakeRequest \/ RefuseSeek \/ CompleteSeek \/ Dispatch \/ Exit
            \/ NotifyExit \/ Join
  <2>1. UNCHANGED <<file, flow>> /\ wpc' # "read"
    BY <1>11 DEF Start, Loop, TakeRequest, RefuseSeek, CompleteSeek, Dispatch, Exit, NotifyExit, Join
  <2> QED
    BY <1>1, <2>1 DEF file, flow, Ended
<1>12. CASE Seeker \/ SeekCall \/ Stop \/ Consumer \/ UNCHANGED vars
  <2>1. UNCHANGED <<wpc, cursor, pending, deferred, codec, drained, state>>
    BY <1>12 DEF Seeker, SeekRequest, SeekBlock, SeekTest, SeekCall, Stop, Consumer, TakePair,
       TakeRest, TakeAudio, Popped, file, flow, vars
  <2> QED
    BY <2>1 DEF Settled
<1> QED
  BY <1>4, <1>5, <1>6, <1>7, <1>8, <1>9, <1>10, <1>11, <1>12 DEF Next, Demux, Host

LEMMA FlowInit == Init => FlowInv
<1> SUFFICES ASSUME Init PROVE FlowInv
  OBVIOUS
<1>1. ASSUME NEW k \in Stream PROVE Whole(k)
  <2>1. out[k] = <<>> /\ codec = <<>> /\ pending[k] = <<>> /\ deferred = <<>>
        /\ cursor = 1 /\ due[k] = 1
    BY <1>1 DEF Init
  <2>2. InFlight(k) = ((<<>> \o <<>>) \o <<>>) \o <<>>
    BY <2>1 DEF InFlight, DeferredOf
  <2>3. InFlight(k) = <<>>
    BY <2>2
  <2> QED
    BY <2>1, <2>3 DEF Whole, IsRun
<1>2. Settled
  BY DEF Init, Settled
<1> QED
  BY <1>1, <1>2 DEF FlowInv

LEMMA FlowHolds == Spec => [](TypeInv /\ Sorted /\ FlowInv)
<1>1. Init => TypeInv /\ Sorted /\ FlowInv
  BY TypeInit, FlowInit DEF Init, Sorted
<1>2. TypeInv /\ Sorted /\ FlowInv /\ [Next]_vars => (TypeInv /\ Sorted /\ FlowInv)'
  <2> SUFFICES ASSUME TypeInv, Sorted, FlowInv, [Next]_vars
               PROVE  TypeInv' /\ Sorted' /\ FlowInv'
    OBVIOUS
  <2>1. Settled'
    BY SettledStep DEF FlowInv
  <2>2. \A k \in Stream : Whole(k)'
    BY WholeStep
  <2> QED
    BY <2>1, <2>2, TypeStep, SortedKept DEF FlowInv
<1> QED
  BY <1>1, <1>2, PTL DEF Spec

\* However full the outputs are, whatever is parked or deferred, and wherever and by
\* whom the file is sought: between the file's position and the packet that its consumer
\* is due, a stream that is unharmed has every packet, once and in file order
\* (route_packet(), drain_pending_packets(), drain_video_decoder(), perform_seek()).
THEOREM NoPacketLost == Spec => []NothingLost
<1>1. FlowInv => NothingLost
  BY DEF FlowInv, Whole, NothingLost
<1> QED
  BY <1>1, FlowHolds, PTL

\* A queue whose state is the end of the stream has everything of the file behind it
\* (mark_stream_complete()): the demuxer is at the end, and nothing waits or is kept.
THEOREM EndIsLast == Spec => []EndIsTheEnd
<1>1. FlowInv => EndIsTheEnd
  BY DEF FlowInv, Settled, EndIsTheEnd
<1> QED
  BY <1>1, FlowHolds, PTL
=============================================================================
