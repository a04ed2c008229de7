-------------------------- MODULE UnrealPlaybackProofs --------------------------
(***************************************************************************)
(* Proofs about UnrealPlayback, for every file, representation ladder,     *)
(* number of upload slots and length of a run: pixels are not overwritten  *)
(* while the render thread may read them; no sound of an earlier timeline, *)
(* or during a rebuffering, is queued; a pending switch stays near the     *)
(* playhead (NearInv); a downgrade waits for its dwell time (DwellInv).    *)
(***************************************************************************)
EXTENDS UnrealPlayback, WellFoundedInduction, TLAPS

\* A record with these fields, whatever they hold.
HasFields(r, F) == DOMAIN r = F /\ r = [f \in F |-> r[f]]

-----------------------------------------------------------------------------
(* The upload ring.                                                        *)

Command == [slot : Slots, frame : Nat]

\* A slot in flight holds the picture its command will copy, and each slot is in
\* flight once.
InFlight(bytes, queue) ==
  /\ bytes \in [Slots -> Int] /\ queue \in Seq(Command)
  /\ \A i \in 1 .. Len(queue) : bytes[queue[i].slot] = queue[i].frame
  /\ \A i, j \in 1 .. Len(queue) : i # j => queue[i].slot # queue[j].slot

Ring(g) ==
  HasFields(g, {"next", "bytes", "queue"}) /\ g.next \in Slots /\ InFlight(g.bytes, g.queue)

\* Of the slots that are free one comes first.
LEMMA FirstFree ==
  ASSUME NEW T, T \subseteq Nat, T # {}
  PROVE  \E i \in T : \A j \in 0 .. i - 1 : j \notin T
<1>1. PICK i \in T : \A j \in T : ~(<<j, i>> \in OpToRel(<, Nat))
  BY NatLessThanWellFounded, WFMin
<1>2. \A j \in T : ~(j < i)
  BY <1>1 DEF OpToRel
<1> QED
  BY <1>2

\* A slot that is not in flight may be written.
LEMMA WriteFreeSlot ==
  ASSUME NEW bytes, NEW queue, InFlight(bytes, queue),
         NEW slot \in Slots, bytes[slot] = None, NEW frame \in Nat,
         NEW more, more = Append(queue, [slot |-> slot, frame |-> frame])
  PROVE  InFlight([bytes EXCEPT ![slot] = frame], more)
<1> DEFINE command == [slot |-> slot, frame |-> frame]
<1>1. command \in Command /\ command.slot = slot /\ command.frame = frame
  BY DEF Command
<1>2. queue \in Seq(Command) /\ bytes \in [Slots -> Int]
  BY DEF InFlight
<1> HIDE DEF command
<1>3. /\ more \in Seq(Command) /\ Len(more) = Len(queue) + 1 /\ Len(queue) \in Nat
      /\ more[Len(queue) + 1] = command
      /\ \A i \in 1 .. Len(queue) : more[i] = queue[i] /\ queue[i] \in Command
  BY <1>1, <1>2 DEF command
<1>4. \A i \in 1 .. Len(queue) : queue[i].slot \in Slots /\ queue[i].frame \in Nat
  BY <1>3 DEF Command
<1>5. \A i \in 1 .. Len(queue) : queue[i].slot # slot
  BY <1>4, SMTT(30) DEF InFlight, None
<1>6. [bytes EXCEPT ![slot] = frame] \in [Slots -> Int]
  BY <1>2
<1>7. \A i \in 1 .. Len(more) : [bytes EXCEPT ![slot] = frame][more[i].slot] = more[i].frame
  BY <1>1, <1>2, <1>3, <1>4, <1>5 DEF InFlight
<1>8. \A i, j \in 1 .. Len(more) : i # j => more[i].slot # more[j].slot
  BY <1>1, <1>3, <1>5 DEF InFlight
<1> QED
  BY <1>3, <1>6, <1>7, <1>8 DEF InFlight

\* One upload: the pixels are written and the command is queued.
LEMMA SubmitKeepsRing ==
  ASSUME NEW g, Ring(g), NEW slot \in Slots, g.bytes[slot] = None, NEW frame \in Nat
  PROVE  Ring(Submit(g, slot, frame))
<1>1. (slot + 1) % UploadSlots \in Slots
  BY UnrealAssumption DEF Slots
<1>2. InFlight([g.bytes EXCEPT ![slot] = frame], Append(g.queue, [slot |-> slot, frame |-> frame]))
  BY WriteFreeSlot DEF Ring
<1> QED
  BY <1>1, <1>2 DEF Ring, Submit, HasFields

\* UpdateTexture() takes the first slot that is free, or none.
LEMMA UploadKeepsRing ==
  ASSUME NEW g, Ring(g), NEW frame \in Nat
  PROVE  Ring(Upload(g, frame))
<1>1. CASE ~left.slow \/ \A i \in Slots : ~Free(g, i)
  BY <1>1 DEF Upload
<1>2. CASE left.slow /\ \E i \in Slots : Free(g, i)
  <2> DEFINE T == {i \in Slots : Free(g, i)}
             IsFirst(i) == Free(g, i) /\ \A j \in 0 .. i - 1 : ~Free(g, j)
             first == CHOOSE i \in Slots : IsFirst(i)
  <2>1. T \subseteq Nat /\ T # {}
    BY <1>2, UnrealAssumption DEF Slots
  <2> HIDE DEF T
  <2>2. PICK i \in T : \A j \in 0 .. i - 1 : j \notin T
    BY <2>1, FirstFree
  <2>3. i \in Slots /\ IsFirst(i)
    BY <2>2, UnrealAssumption DEF Slots, T
  <2>4. first \in Slots /\ Free(g, first)
    BY <2>3
  <2>5. (g.next + first) % UploadSlots \in Slots
    BY <2>4, UnrealAssumption DEF Ring, Slots
  <2>6. Ring(Submit(g, (g.next + first) % UploadSlots, frame))
    BY <2>4, <2>5, SubmitKeepsRing DEF Free
  <2> QED
    BY <1>2, <2>6 DEF Upload
<1> QED
  BY <1>1, <1>2

\* The render thread frees the slot of the command it runs, and no other.
LEMMA FreeFirst ==
  ASSUME NEW bytes, NEW queue, InFlight(bytes, queue), queue # <<>>,
         NEW rest, rest = Tail(queue), NEW slot, slot = Head(queue).slot
  PROVE  InFlight([bytes EXCEPT ![slot] = None], rest)
<1>1. queue \in Seq(Command) /\ bytes \in [Slots -> Int]
  BY DEF InFlight
<1>2. /\ rest \in Seq(Command) /\ Len(rest) = Len(queue) - 1 /\ Len(queue) \in Nat /\ Len(queue) > 0
      /\ Head(queue) = queue[1]
      /\ \A i \in 1 .. Len(rest) : rest[i] = queue[i + 1]
      /\ \A i \in 1 .. Len(queue) : queue[i] \in Command
  BY <1>1
<1>3. \A i \in 1 .. Len(queue) : queue[i].slot \in Slots /\ queue[i].frame \in Nat
  BY <1>2 DEF Command
<1>4. \A i \in 1 .. Len(rest) : i + 1 \in 1 .. Len(queue) /\ i + 1 # 1 /\ 1 \in 1 .. Len(queue)
  BY <1>2
<1>5. \A i \in 1 .. Len(rest) : rest[i].slot # slot
  BY <1>2, <1>4 DEF InFlight
<1>6. [bytes EXCEPT ![slot] = None] \in [Slots -> Int]
  <2>1. None \in Int
    BY DEF None
  <2> HIDE DEF None
  <2> QED
    BY <1>1, <2>1
<1>7. \A i \in 1 .. Len(rest) : [bytes EXCEPT ![slot] = None][rest[i].slot] = rest[i].frame
  BY <1>1, <1>2, <1>3, <1>4, <1>5 DEF InFlight
<1>8. \A i, j \in 1 .. Len(rest) : i # j => rest[i].slot # rest[j].slot
  BY <1>2, <1>4 DEF InFlight
<1> QED
  BY <1>2, <1>6, <1>7, <1>8 DEF InFlight

\* The same of the ring.
LEMMA RenderKeepsRing ==
  ASSUME NEW g, Ring(g), g.queue # <<>>
  PROVE  Ring([g EXCEPT !.bytes[Head(g.queue).slot] = None, !.queue = Tail(@)])
<1>1. InFlight([g.bytes EXCEPT ![Head(g.queue).slot] = None], Tail(g.queue))
  BY FreeFirst DEF Ring
<1> QED
  BY <1>1 DEF Ring, HasFields

-----------------------------------------------------------------------------
(* The component.                                                          *)

Fields == {"state", "time", "presented", "native", "wave", "input", "rebuffering", "resume", "target"}
Bounds == {"audio", "remote", "adaptive", "loop", "slow", "calls", "outages", "faults"}

Formed(x) ==
  /\ HasFields(x, Fields) /\ x.time \in Nat /\ x.target \in Nat /\ x.presented \in Int
  /\ x.rebuffering \in BOOLEAN

\* Sound is of the player's timeline, and none waits with the component.
Sounds(x) == x.state # "Error" => x.wave # "stale" /\ (x.rebuffering => x.wave = "empty")

\* Only a remote input that was opened is waited for; a component that waits is
\* not ticked past its recovery.
Waits(x, at, remote) ==
  (x.rebuffering => remote /\ x.input # "Opening") /\ (x.input # "Opening" => at # "Opening")
WaitsForInput == Waits(u, source, left.remote)

UnrealInv ==
  Formed(u) /\ Sounds(u) /\ WaitsForInput /\ HasFields(left, Bounds) /\ Ring(gpu)

\* A component that was created is closed and has nothing to upload.
LEMMA UnrealInit == Init => UnrealInv
<1> SUFFICES ASSUME Init PROVE UnrealInv
  OBVIOUS
<1>1. Formed(u) /\ Sounds(u) /\ WaitsForInput
  BY DEF Init, Closed, Formed, HasFields, Fields, Sounds, WaitsForInput, Waits, None
<1>2. HasFields(left, Bounds)
  BY UnrealAssumption DEF Init, HasFields, Bounds
<1>3. Ring(gpu)
  <2>1. 0 \in Slots /\ None \in Int
    BY UnrealAssumption DEF Slots, None
  <2> HIDE DEF None
  <2> QED
    BY <2>1 DEF Init, NoUploads, Ring, InFlight, HasFields
<1> QED
  BY <1>1, <1>2, <1>3 DEF UnrealInv

\* What the methods do to a component.
LEMMA Methods ==
  ASSUME NEW x, Formed(x)
  PROVE  /\ Formed(ResetAudio(x)) /\ Sounds(ResetAudio(x))
         /\ ResetAudio(x).rebuffering = x.rebuffering /\ ResetAudio(x).input = x.input
         /\ Formed(Failed(x)) /\ Sounds(Failed(x))
         /\ Failed(x).rebuffering = x.rebuffering /\ Failed(x).input = x.input
         /\ Formed(Sought(x))
         /\ Sought(x).rebuffering = x.rebuffering /\ Sought(x).input = x.input
  BY DEF Formed, HasFields, Fields, Sought, ResetAudio, Failed, Sounds

\* To move the time is not to queue sound.
LEMMA TimeMoved ==
  ASSUME NEW x, Formed(x), NEW t \in Nat
  PROVE  /\ Formed([x EXCEPT !.time = t]) /\ [x EXCEPT !.time = t].rebuffering = x.rebuffering
         /\ [x EXCEPT !.time = t].input = x.input
  BY DEF Formed, HasFields, Fields

\* The times of the picture that was shown are recorded.
LEMMA PictureShown ==
  ASSUME NEW x, Formed(x), Sounds(x), NEW t \in Nat, NEW y,
         y = [x EXCEPT !.presented = t, !.native = t]
  PROVE  Formed(y) /\ Sounds(y) /\ y.rebuffering = x.rebuffering /\ y.input = x.input
<1>1. y.state = x.state /\ y.wave = x.wave /\ y.rebuffering = x.rebuffering /\ y.input = x.input
  BY DEF Formed, HasFields, Fields
<1>2. Formed(y)
  <2>1. HasFields(y, Fields)
    BY DEF Formed, HasFields, Fields
  <2>2. y.time = x.time /\ y.target = x.target /\ y.presented = t
    BY DEF Formed, HasFields, Fields
  <2> QED
    BY <1>1, <2>1, <2>2 DEF Formed
<1> QED
  BY <1>1, <1>2 DEF Sounds

\* Nor is entering a state.
LEMMA StateMoved ==
  ASSUME NEW x, Formed(x), NEW to, NEW y, y = [x EXCEPT !.state = to],
         x.wave = "empty" \/ (Sounds(x) /\ x.state # "Error")
  PROVE  Formed(y) /\ Sounds(y) /\ y.rebuffering = x.rebuffering /\ y.input = x.input
<1>1. y.wave = x.wave /\ y.rebuffering = x.rebuffering /\ y.input = x.input
  BY DEF Formed, HasFields, Fields
<1>2. Formed(y)
  <2>1. HasFields(y, Fields)
    BY DEF Formed, HasFields, Fields
  <2>2. y.time = x.time /\ y.target = x.target /\ y.presented = x.presented
    BY DEF Formed, HasFields, Fields
  <2> QED
    BY <1>1, <2>1, <2>2 DEF Formed
<1> QED
  BY <1>1, <1>2 DEF Sounds

\* A seek makes stale what is queued; every caller that goes on empties it.
LEMMA SeeksEmpty ==
  ASSUME NEW x, Formed(x), NEW ok \in BOOLEAN
  PROVE  /\ Formed(StartAgain(x, ok)) /\ Sounds(StartAgain(x, ok))
         /\ StartAgain(x, ok).rebuffering = x.rebuffering /\ StartAgain(x, ok).input = x.input
         /\ ok => StartAgain(x, ok).wave = "empty"
<1>1. Formed(Sought(x)) /\ Formed([Sought(x) EXCEPT !.time = 0])
     /\ Sought(x).rebuffering = x.rebuffering /\ Sought(x).input = x.input
     /\ [Sought(x) EXCEPT !.time = 0].rebuffering = x.rebuffering
     /\ [Sought(x) EXCEPT !.time = 0].input = x.input
  BY Methods, TimeMoved
<1> DEFINE y == [Sought(x) EXCEPT !.time = 0]
<1>2. /\ Formed(ResetAudio(y)) /\ Sounds(ResetAudio(y)) /\ ResetAudio(y).wave = "empty"
      /\ ResetAudio(y).rebuffering = x.rebuffering /\ ResetAudio(y).input = x.input
  <2> HIDE DEF y
  <2>1. Formed(y) /\ y.rebuffering = x.rebuffering /\ y.input = x.input
    BY <1>1 DEF y
  <2>2. ResetAudio(y).wave = "empty"
    BY <2>1 DEF ResetAudio, Formed, HasFields, Fields
  <2> QED
    BY <2>1, <2>2, Methods
<1> QED
  BY <1>1, <1>2, Methods DEF StartAgain

\* The application's calls: Play() after the end, and Seek(), empty the queue.
LEMMA CallKeeps ==
  ASSUME UnrealInv, Open \/ Close \/ Play \/ Pause \/ Seek \/ RequestAdaptiveHigh
  PROVE  UnrealInv'
<1>0. Duration \in Nat /\ None \in Int
  BY PolicyAssumption DEF None
<1> USE <1>0
<1>1. CASE Open
  <2>1. HasFields(left', Bounds) /\ left'.remote = left.remote /\ gpu' = gpu
    BY <1>1 DEF UnrealInv, HasFields, Bounds, Open, Call
  <2>2. Formed(u') /\ Sounds(u') /\ Waits(u', source', left.remote)
    <3>1. u'.rebuffering = FALSE /\ u'.wave = "empty" /\ Formed(u')
      <4>1. Formed(Closed) /\ Closed.wave = "empty" /\ Closed.rebuffering = FALSE
        BY DEF Closed, Formed, HasFields, Fields
      <4>2. PICK to, at : u' = [Closed EXCEPT !.state = to] \/ u' = [Closed EXCEPT !.state = to, !.input = at]
        BY <1>1 DEF Open
      <4> HIDE DEF Closed
      <4> QED
        BY <4>1, <4>2 DEF Formed, HasFields, Fields
    <3> QED
      BY <1>1, <3>1 DEF Sounds, Waits, Open, Closed
  <2> QED
    BY <2>1, <2>2 DEF UnrealInv, WaitsForInput, Waits
<1>2. CASE Close
  <2>1. HasFields(left', Bounds) /\ left'.remote = left.remote /\ gpu' = gpu
    BY <1>2 DEF UnrealInv, HasFields, Bounds, Close, Call
  <2>2. Formed(u') /\ Sounds(u') /\ Waits(u', source', left.remote)
    BY <1>2 DEF UnrealInv, WaitsForInput, Waits, Formed, HasFields, Fields, Sounds, Close, Closed
  <2> QED
    BY <2>1, <2>2 DEF UnrealInv, WaitsForInput, Waits
<1>3. CASE Play
  <2>1. HasFields(left', Bounds) /\ left'.remote = left.remote /\ gpu' = gpu
    BY <1>3 DEF UnrealInv, HasFields, Bounds, Play, Call
  <2>2. Formed(u') /\ Sounds(u') /\ Waits(u', source', left.remote)
    <3>1. Formed(u) /\ Sounds(u) /\ Waits(u, source, left.remote)
      BY DEF UnrealInv, WaitsForInput, Waits
    <3>2. source # "Opening" => source' # "Opening"
      BY <1>3 DEF Play, SeekSource
    <3>3. CASE u.state \in {"Ready", "Paused"}
      <4>1. u' = [u EXCEPT !.state = "Playing"] \/ u' = Failed(u)
        BY <1>3, <3>3 DEF Play
      <4> QED
        BY <3>1, <3>2, <3>3, <4>1, StateMoved, Methods DEF Waits
    <3>4. CASE u.state = "Ended"
      <4>1. u' = [StartAgain(u, TRUE) EXCEPT !.state = "Playing"] \/ u' = Failed(Sought(u))
        BY <1>3, <3>4 DEF Play
      <4>2. Formed(StartAgain(u, TRUE)) /\ StartAgain(u, TRUE).wave = "empty"
            /\ StartAgain(u, TRUE).rebuffering = u.rebuffering /\ StartAgain(u, TRUE).input = u.input
        BY <3>1, SeeksEmpty
      <4>3. Formed(Sought(u)) /\ Sought(u).rebuffering = u.rebuffering /\ Sought(u).input = u.input
        BY <3>1, Methods
      <4> QED
        <5>1. CASE u' = [StartAgain(u, TRUE) EXCEPT !.state = "Playing"]
          <6> DEFINE z == StartAgain(u, TRUE)
          <6> HIDE DEF z
          <6>1. Formed(z) /\ z.wave = "empty" /\ z.rebuffering = u.rebuffering /\ z.input = u.input
            BY <4>2 DEF z
          <6>2. u' = [z EXCEPT !.state = "Playing"]
            BY <5>1 DEF z
          <6> QED
            BY <3>1, <3>2, <6>1, <6>2, StateMoved DEF Waits
        <5>2. CASE u' = Failed(Sought(u))
          BY <3>1, <3>2, <4>3, <5>2, Methods DEF Waits
        <5> QED
          BY <4>1, <5>1, <5>2
    <3> QED
      BY <1>3, <3>3, <3>4 DEF Play
  <2> QED
    BY <2>1, <2>2 DEF UnrealInv, WaitsForInput, Waits
<1>4. CASE Pause
  <2>1. HasFields(left', Bounds) /\ left'.remote = left.remote /\ gpu' = gpu
    BY <1>4 DEF UnrealInv, HasFields, Bounds, Pause, Call
  <2>2. Formed(u') /\ Sounds(u') /\ Waits(u', source', left.remote)
    BY <1>4 DEF UnrealInv, WaitsForInput, Waits, Formed, HasFields, Fields, Sounds, Pause
  <2> QED
    BY <2>1, <2>2 DEF UnrealInv, WaitsForInput, Waits
<1>5. CASE Seek
  <2>1. HasFields(left', Bounds) /\ left'.remote = left.remote /\ gpu' = gpu
    BY <1>5 DEF UnrealInv, HasFields, Bounds, Seek, Call
  <2>2. Formed(u') /\ Sounds(u') /\ Waits(u', source', left.remote)
    <3>1. Formed(u) /\ Waits(u, source, left.remote)
      BY DEF UnrealInv, WaitsForInput, Waits
    <3>2. source # "Opening" => source' # "Opening"
      BY <1>5 DEF Seek, SeekSource
    <3>3. PICK t \in 0 .. Duration :
            u' = ResetAudio([Sought(u) EXCEPT !.time = t]) \/ u' = Failed([Sought(u) EXCEPT !.time = t])
      BY <1>5 DEF Seek
    <3>4. Formed(Sought(u)) /\ Sought(u).rebuffering = u.rebuffering /\ Sought(u).input = u.input
      BY <3>1, Methods
    <3>5. /\ Formed([Sought(u) EXCEPT !.time = t])
          /\ [Sought(u) EXCEPT !.time = t].rebuffering = u.rebuffering
          /\ [Sought(u) EXCEPT !.time = t].input = u.input
      BY <3>4, TimeMoved
    <3> QED
      BY <3>1, <3>2, <3>3, <3>5, Methods, ZenonT(30) DEF Waits
  <2> QED
    BY <2>1, <2>2 DEF UnrealInv, WaitsForInput, Waits
<1>6. CASE RequestAdaptiveHigh
  <2>1. HasFields(left', Bounds) /\ left'.remote = left.remote /\ gpu' = gpu
    BY <1>6 DEF UnrealInv, HasFields, Bounds, RequestAdaptiveHigh, Call
  <2>2. Formed(u') /\ Sounds(u') /\ Waits(u', source', left.remote)
    BY <1>6 DEF UnrealInv, WaitsForInput, Waits, Formed, HasFields, Fields, Sounds,
                RequestAdaptiveHigh
  <2> QED
    BY <2>1, <2>2 DEF UnrealInv, WaitsForInput, Waits
<1> QED
  BY <1>1, <1>2, <1>3, <1>4, <1>5, <1>6

\* The recovery empties the queue when it begins, when it fails and when it ends.
LEMMA RecoveryKeeps ==
  ASSUME UnrealInv, TickObserves \/ BeginRebuffer \/ Wait \/ FailInput \/ Resume
  PROVE  UnrealInv'
<1>1. CASE TickObserves
  <2>1. HasFields(left', Bounds) /\ left'.remote = left.remote /\ gpu' = gpu
    BY <1>1 DEF UnrealInv, HasFields, Bounds, TickObserves
  <2>2. Formed(u') /\ Sounds(u') /\ Waits(u', source', left.remote)
    BY <1>1 DEF UnrealInv, WaitsForInput, Waits, Formed, HasFields, Fields, Sounds, TickObserves
  <2> QED
    BY <2>1, <2>2 DEF UnrealInv, WaitsForInput, Waits
<1>2. CASE BeginRebuffer
  <2>1. HasFields(left', Bounds) /\ left'.remote = left.remote /\ gpu' = gpu
    BY <1>2 DEF UnrealInv, HasFields, Bounds, BeginRebuffer, Recovers, Untouched
  <2>2. Formed(u') /\ Sounds(u') /\ Waits(u', source', left.remote)
    <3>1. /\ left.remote /\ u.input = "Rebuffering" /\ source' = source
          /\ \E at : at \in {u.presented, u.time} /\ (at = u.presented => at >= 0 \/ at = u.time)
               /\ u' = ResetAudio([u EXCEPT !.rebuffering = TRUE, !.resume = u.state = "Playing",
                                            !.target = at, !.time = at, !.state = "Paused"])
      BY <1>2 DEF BeginRebuffer, Recovers, Remote, Untouched
    <3>2. PICK at :
            /\ at \in {u.presented, u.time} /\ (at = u.presented => at >= 0 \/ at = u.time)
            /\ u' = ResetAudio([u EXCEPT !.rebuffering = TRUE, !.resume = u.state = "Playing",
                                         !.target = at, !.time = at, !.state = "Paused"])
      BY <3>1
    <3>3. at \in Nat
      BY <3>2 DEF UnrealInv, Formed
    <3>4. /\ Formed([u EXCEPT !.rebuffering = TRUE, !.resume = u.state = "Playing",
                               !.target = at, !.time = at, !.state = "Paused"])
          /\ [u EXCEPT !.rebuffering = TRUE, !.resume = u.state = "Playing",
                        !.target = at, !.time = at, !.state = "Paused"].input = u.input
      BY <3>3 DEF UnrealInv, Formed, HasFields, Fields
    <3>5. source # "Opening"
      BY <3>1 DEF UnrealInv, WaitsForInput, Waits
    <3> QED
      BY <3>1, <3>2, <3>4, <3>5, Methods DEF Waits
  <2> QED
    BY <2>1, <2>2 DEF UnrealInv, WaitsForInput, Waits
<1>3. CASE Wait
  <2>1. HasFields(left', Bounds) /\ left'.remote = left.remote /\ gpu' = gpu
    BY <1>3 DEF UnrealInv, HasFields, Bounds, Wait, Recovers, Untouched
  <2>2. Formed(u') /\ Sounds(u') /\ Waits(u', source', left.remote)
    BY <1>3 DEF UnrealInv, WaitsForInput, Waits, Formed, HasFields, Fields, Sounds, Wait, Recovers,
                Untouched
  <2> QED
    BY <2>1, <2>2 DEF UnrealInv, WaitsForInput, Waits
<1>4. CASE FailInput
  <2>1. HasFields(left', Bounds) /\ left'.remote = left.remote /\ gpu' = gpu
    BY <1>4 DEF UnrealInv, HasFields, Bounds, FailInput, Recovers, Untouched
  <2>2. Formed(u') /\ Sounds(u') /\ Waits(u', source', left.remote)
    BY <1>4 DEF UnrealInv, WaitsForInput, Waits, Formed, HasFields, Fields, Sounds, FailInput,
                Recovers, Remote, Untouched, ResetAudio
  <2> QED
    BY <2>1, <2>2 DEF UnrealInv, WaitsForInput, Waits
<1>5. CASE Resume
  <2>1. HasFields(left', Bounds) /\ left'.remote = left.remote /\ gpu' = gpu
    BY <1>5 DEF UnrealInv, HasFields, Bounds, Resume, Recovers, Spend
  <2>2. Formed(u') /\ Sounds(u') /\ Waits(u', source', left.remote)
    BY <1>5, ZenonT(30) DEF UnrealInv, WaitsForInput, Waits, Formed, HasFields, Fields, Sounds, Resume,
                Recovers, Remote, SeekSource, Sought, ResetAudio, Failed
  <2> QED
    BY <2>1, <2>2 DEF UnrealInv, WaitsForInput, Waits
<1> QED
  BY <1>1, <1>2, <1>3, <1>4, <1>5

\* A picture that is shown is uploaded.
LEMMA ShowsKeeps ==
  ASSUME Ring(gpu), NEW x, Formed(x), Sounds(x), NEW s, Shows(x, s)
  PROVE  /\ Formed(u') /\ Sounds(u') /\ Ring(gpu')
         /\ u'.rebuffering = x.rebuffering /\ u'.input = x.input
<1>1. PICK picture \in Pictures(x, s) :
        IF picture.shown = None THEN u' = x /\ UNCHANGED gpu
        ELSE /\ u' = [x EXCEPT !.presented = picture.shown, !.native = picture.shown]
             /\ gpu' = Upload(gpu, picture.shown)
  BY DEF Shows
<1>2. picture.shown \in {None, x.time}
  BY DEF Pictures
<1>3. CASE picture.shown = None
  BY <1>1, <1>3
<1>4. CASE picture.shown # None
  <2>1. picture.shown \in Nat
    BY <1>2, <1>4 DEF Formed
  <2>2. Ring(gpu')
    BY <1>1, <1>4, <2>1, UploadKeepsRing
  <2>3. u' = [x EXCEPT !.presented = picture.shown, !.native = picture.shown]
    BY <1>1, <1>4
  <2> QED
    BY <2>1, <2>2, <2>3, PictureShown
<1> QED
  BY <1>3, <1>4

\* The rest of a tick runs only if nothing is waited for.
LEMMA RunsKeeps ==
  ASSUME UnrealInv, Runs
  PROVE  UnrealInv'
<1>1. ~u.rebuffering
  BY DEF Runs, Remote, UnrealInv, WaitsForInput, Waits
<1>2. PICK step \in PolicySteps :
        IF u.state = "Playing" THEN Plays(step.switch)
        ELSE u' = u /\ UNCHANGED <<source, gpu, left>>
  BY DEF Runs
<1>3. CASE u.state # "Playing"
  BY <1>1, <1>2, <1>3 DEF UnrealInv, WaitsForInput, Waits
<1>4. CASE u.state = "Playing"
  <2> DEFINE x == [u EXCEPT !.time = Least(@ + 1, Duration)]
  <2>1. PICK wave \in IF left.audio /\ u.wave = "empty" THEN {"empty", "fresh"} ELSE {u.wave},
             t \in AudioSwitches(step.switch, x.time) :
          IF x.time < Duration THEN Shows([x EXCEPT !.wave = wave], t) /\ UNCHANGED <<source, left>>
          ELSE IF ~left.loop
            THEN u' = [[x EXCEPT !.wave = wave] EXCEPT !.state = "Ended"] /\ UNCHANGED <<source, gpu, left>>
          ELSE \E ok \in Seekable :
                 /\ SeekSource /\ Spend(ok)
                 /\ IF ok THEN Shows(StartAgain([x EXCEPT !.wave = wave], TRUE), CancelPending(t))
                    ELSE u' = StartAgain([x EXCEPT !.wave = wave], FALSE) /\ UNCHANGED gpu
    BY <1>2, <1>4 DEF Plays
  <2> DEFINE y == [x EXCEPT !.wave = wave]
  <2>2. Formed(y) /\ Sounds(y) /\ ~y.rebuffering /\ y.input = u.input /\ y.state = "Playing"
    <3>1. Duration \in Nat
      BY PolicyAssumption
    <3>2. Least(u.time + 1, Duration) \in Nat
      BY <3>1 DEF Least, UnrealInv, Formed
    <3>3. wave \in {"empty", "fresh", u.wave}
      BY <2>1
    <3>4. /\ Formed([u EXCEPT !.time = Least(@ + 1, Duration), !.wave = wave])
          /\ [u EXCEPT !.time = Least(@ + 1, Duration), !.wave = wave].rebuffering = u.rebuffering
          /\ [u EXCEPT !.time = Least(@ + 1, Duration), !.wave = wave].wave = wave
          /\ [u EXCEPT !.time = Least(@ + 1, Duration), !.wave = wave].state = u.state
          /\ [u EXCEPT !.time = Least(@ + 1, Duration), !.wave = wave].input = u.input
      BY <3>2 DEF UnrealInv, Formed, HasFields, Fields
    <3> QED
      BY <1>1, <1>4, <3>3, <3>4 DEF UnrealInv, Sounds
  <2> HIDE DEF y
  <2>3. CASE x.time < Duration
    BY <2>1, <2>2, <2>3, ShowsKeeps DEF UnrealInv, WaitsForInput, Waits, y
  <2>4. CASE ~(x.time < Duration) /\ ~left.loop
    <3>1. u' = [y EXCEPT !.state = "Ended"] /\ UNCHANGED <<source, gpu, left>>
      BY <2>1, <2>4 DEF y
    <3> QED
      BY <2>2, <3>1, StateMoved DEF UnrealInv, WaitsForInput, Waits
  <2>5. CASE ~(x.time < Duration) /\ left.loop
    <3>1. PICK ok \in Seekable :
            /\ SeekSource /\ Spend(ok)
            /\ IF ok THEN Shows(StartAgain(y, TRUE), CancelPending(t))
               ELSE u' = StartAgain(y, FALSE) /\ UNCHANGED gpu
      BY <2>1, <2>5 DEF y
    <3>2. HasFields(left', Bounds)
      BY <3>1 DEF Spend, UnrealInv, HasFields, Bounds
    <3>3. ok \in BOOLEAN
      BY DEF Seekable
    <3>4. /\ Formed(StartAgain(y, ok)) /\ Sounds(StartAgain(y, ok)) /\ ~StartAgain(y, ok).rebuffering
          /\ StartAgain(y, ok).input = u.input /\ (source # "Opening" => source' # "Opening")
      BY <2>2, <3>1, <3>3, SeeksEmpty DEF SeekSource
    <3>5. CASE ok
      BY <3>1, <3>2, <3>4, <3>5, ShowsKeeps DEF UnrealInv, WaitsForInput, Waits
    <3>6. CASE ~ok
      BY <3>1, <3>2, <3>3, <3>4, <3>6 DEF UnrealInv, WaitsForInput, Waits
    <3> QED
      BY <3>5, <3>6
  <2> QED
    BY <2>3, <2>4, <2>5
<1> QED
  BY <1>3, <1>4

\* The other threads: sound is played, and commands of the render thread run.
LEMMA OthersKeep ==
  ASSUME UnrealInv, Prepare \/ Drain \/ Render \/ Outage \/ Restored \/ ReadToEnd \/ UNCHANGED vars
  PROVE  UnrealInv'
<1> USE PolicyAssumption DEF UnrealInv, WaitsForInput, Waits, Formed, HasFields, Fields, Bounds,
         Sounds
<1>1. CASE Prepare
  BY <1>1 DEF Prepare
<1>2. CASE Drain
  BY <1>2 DEF Drain, ResetAudio
<1>3. CASE Render
  BY <1>3, RenderKeepsRing DEF Render
<1>4. CASE Outage
  BY <1>4 DEF Outage
<1>5. CASE Restored
  BY <1>5 DEF Restored
<1>6. CASE ReadToEnd
  BY <1>6 DEF ReadToEnd
<1>7. CASE UNCHANGED vars
  BY <1>7 DEF vars
<1> QED
  BY <1>1, <1>2, <1>3, <1>4, <1>5, <1>6, <1>7

\* The invariant holds of every run.
LEMMA UnrealIsSound == Spec => []UnrealInv
<1>1. UnrealInv /\ [Next]_vars => UnrealInv'
  BY CallKeeps, RecoveryKeeps, RunsKeeps, OthersKeep DEF Next, Tick
<1> QED
  BY <1>1, UnrealInit, PTL DEF Spec

\* For every number of slots: UpdateTexture() writes no pixels that a command has
\* yet to copy.
THEOREM UploadsAreWhole == Spec => []NoTornUpload
<1>1. UnrealInv => NoTornUpload
  BY DEF UnrealInv, Ring, InFlight, NoTornUpload
<1> QED
  BY <1>1, UnrealIsSound, PTL

\* However calls, loops, outages and failures follow each other: what is queued is
\* of the timeline that plays, and nothing while the input is waited for.
THEOREM SoundIsFresh == Spec => []NoStaleSound
<1>1. UnrealInv => NoStaleSound
  BY DEF UnrealInv, Sounds, NoStaleSound
<1> QED
  BY <1>1, UnrealIsSound, PTL

-----------------------------------------------------------------------------
(* The pending switch.                                                     *)

\* How far ahead of the time a boundary is set.
Reach == (Lead + 1) * Segment

\* A switch with its fields, and the component's times within the file.
SwitchFields == {"state", "active", "target", "boundary", "committed"}
Switches(s) == HasFields(s, SwitchFields) /\ s.boundary \in Nat
Placed(x) == x.time <= Duration /\ x.presented <= Duration /\ x.target <= Duration

\* What is left of PendingIsNear when the time moves on.
Near(x, s) ==
  s.state \in {"Preparing", "Ready"} /\ ~x.rebuffering /\ x.state # "Error" =>
    s.boundary < x.time + Reach

NearInv == Switches(switch) /\ Placed(u) /\ Near(u, switch)

\* Segments are counted up from the time, and not further than one.
LEMMA BoundaryIsNear ==
  ASSUME NEW t \in Nat
  PROVE  Boundary(t) \in Nat /\ Boundary(t) < t + Reach
<1>1. Segment \in Nat /\ Segment > 0 /\ Lead \in Nat
  BY PolicyAssumption
<1>2. PICK l \in Nat : l = Lead * Segment
  BY <1>1
<1>3. Reach = l + Segment
  BY <1>1, <1>2 DEF Reach
<1>4. PICK a \in Nat : a = t + l + Segment - 1
  BY <1>1, <1>2
<1>5. a \div Segment \in Nat
  BY <1>1, <1>4
<1>6. (a \div Segment) * Segment \in Nat /\ (a \div Segment) * Segment <= a
  BY <1>1, <1>4, <1>5
<1>7. Boundary(t) = (a \div Segment) * Segment
  BY <1>2, <1>4 DEF Boundary
<1> QED
  BY <1>1, <1>2, <1>3, <1>4, <1>6, <1>7

\* What the coordinator does to a switch.
LEMMA SwitchMoves ==
  ASSUME NEW s, Switches(s)
  PROVE  /\ Switches(CancelPending(s)) /\ CancelPending(s).state = "Stable"
         /\ CancelPending(s).active = s.active
         /\ Switches(Commit(s)) /\ Commit(s).state = "Stable"
         /\ Switches(Miss(s)) /\ Miss(s).state = "Failed"
BY DEF Switches, HasFields, SwitchFields, CancelPending, Commit, Miss

LEMMA SwitchRequested ==
  ASSUME NEW s, Switches(s), NEW target, NEW at \in Nat, NEW r, r = RequestSwitch(s, target, at)
  PROVE  /\ Switches(r) /\ r.boundary = at /\ r.state = "Preparing"
         /\ r.target = target /\ r.active = s.active
BY DEF Switches, HasFields, SwitchFields, RequestSwitch

\* The methods keep the component's times within the file.
LEMMA TimesKept ==
  ASSUME NEW x, Formed(x), Placed(x)
  PROVE  /\ Placed(ResetAudio(x)) /\ Placed(Failed(x)) /\ Placed(Sought(x))
         /\ \A t \in 0 .. Duration : Placed([x EXCEPT !.time = t])
         /\ \A to : Placed([x EXCEPT !.state = to])
BY DEF Placed, ResetAudio, Failed, Sought, Formed, HasFields, Fields

LEMMA StartKeepsTimes ==
  ASSUME NEW x, Formed(x), Placed(x), NEW ok \in BOOLEAN
  PROVE  Placed(StartAgain(x, ok))
<1>1. 0 \in 0 .. Duration /\ 0 \in Nat
  BY PolicyAssumption
<1>2. Formed(Sought(x)) /\ Placed(Sought(x))
  BY Methods, TimesKept
<1>3. Formed([Sought(x) EXCEPT !.time = 0]) /\ Placed([Sought(x) EXCEPT !.time = 0])
  BY <1>1, <1>2, TimeMoved, TimesKept
<1> QED
  BY <1>2, <1>3, TimesKept DEF StartAgain

\* A decision to switch is one to switch at the boundary ahead of the time.
SwitchesAt(d, time) == d.action = "Switch" => d.boundary = Boundary(time)

LEMMA SwitchToAhead ==
  ASSUME NEW p, NEW target, NEW time, NEW force
  PROVE  SwitchesAt(SwitchTo(p, target, time, force), time)
BY DEF SwitchesAt, SwitchTo, Stay, RetryLater

LEMMA UpdateAhead ==
  ASSUME NEW p, NEW o
  PROVE  SwitchesAt(UpdatePolicy(p, o), o.time)
<1>1. \A q : SwitchesAt(Stay(q), o.time) /\ SwitchesAt(RetryLater(q), o.time)
  BY DEF SwitchesAt, Stay, RetryLater
<1>2. \A q : SwitchesAt([policy |-> q, action |-> "Cancel"], o.time)
  BY DEF SwitchesAt
<1>3. \A q, target, force : SwitchesAt(SwitchTo(q, target, o.time, force), o.time)
  BY SwitchToAhead
<1>4. \A q : SwitchesAt(WithDowngrade(q, o), o.time) /\ SwitchesAt(WithUpgrade(q, o), o.time)
  BY <1>1, <1>3 DEF WithDowngrade, WithUpgrade
<1>5. \A q : SwitchesAt(Decide(q, o), o.time)
  BY <1>1, <1>4 DEF Decide
<1> QED
  BY <1>1, <1>2, <1>5 DEF UpdatePolicy

\* A step of the policy leaves a pending switch near, or requests one that is.
LEMMA PolicyNear ==
  ASSUME UnrealInv, NearInv, NEW step \in PolicySteps
  PROVE  Switches(step.switch) /\ Near(u, step.switch)
<1>1. CASE ~Live
  BY <1>1 DEF PolicySteps, NearInv
<1>2. CASE Live
  <2>1. PICK transfer \in Transfers, downloaded \in Downloads : step = PolicyStep(transfer, downloaded)
    BY <1>2 DEF PolicySteps
  <2> DEFINE seen == [switch EXCEPT !.committed = FALSE]
             o == Observation(transfer, downloaded)
             d == UpdatePolicy(Elapse(policy), o)
  <2>2. o.time = u.time
    BY DEF Observation
  <2> HIDE DEF o
  <2>3. d.action = "Switch" => d.boundary = Boundary(u.time)
    BY <2>2, UpdateAhead DEF SwitchesAt
  <2> HIDE DEF d
  <2>4. step.switch = IF d.action = "Cancel" THEN CancelPending(seen)
                      ELSE IF d.action = "Switch"
                        THEN RequestSwitch(CancelPending(seen), d.target, d.boundary)
                      ELSE seen
    BY <2>1 DEF PolicyStep, d, o
  <2>5. Switches(seen) /\ seen.state = switch.state /\ seen.boundary = switch.boundary
    BY DEF NearInv, Switches, HasFields, SwitchFields
  <2> HIDE DEF seen
  <2>6. Switches(CancelPending(seen)) /\ CancelPending(seen).state = "Stable"
    BY <2>5, SwitchMoves
  <2>7. CASE d.action = "Cancel"
    BY <2>4, <2>6, <2>7 DEF Near
  <2>8. CASE d.action = "Switch"
    <3>1. Boundary(u.time) \in Nat /\ Boundary(u.time) < u.time + Reach
      BY BoundaryIsNear DEF UnrealInv, Formed
    <3>2. step.switch = RequestSwitch(CancelPending(seen), d.target, d.boundary)
      BY <2>4, <2>8
    <3>3. Switches(step.switch) /\ step.switch.boundary = Boundary(u.time)
      BY <2>3, <2>6, <2>8, <3>1, <3>2, SwitchRequested
    <3> QED
      BY <3>1, <3>3 DEF Near
  <2>9. CASE d.action \notin {"Cancel", "Switch"}
    BY <2>4, <2>5, <2>9 DEF Near, NearInv
  <2> QED
    BY <2>7, <2>8, <2>9
<1> QED
  BY <1>1, <1>2

\* The application's calls: each that moves the time back cancels the switch.
LEMMA CallNear ==
  ASSUME UnrealInv, NearInv, Open \/ Close \/ Play \/ Pause \/ Seek \/ RequestAdaptiveHigh
  PROVE  NearInv'
<1>0. Duration \in Nat /\ Formed(u)
  BY PolicyAssumption DEF UnrealInv
<1>1. ASSUME Switches(switch'), switch'.state = "Stable", Placed(u') PROVE NearInv'
  BY <1>1 DEF NearInv, Near
<1>2. Switches(CancelPending(switch)) /\ CancelPending(switch).state = "Stable"
  BY SwitchMoves DEF NearInv
<1>3. Switches(NewSwitch) /\ NewSwitch.state = "Stable" /\ Placed(Closed)
  BY <1>0 DEF Switches, HasFields, SwitchFields, NewSwitch, Placed, Closed, None
<1>4. /\ Formed(Closed)
      /\ \A to, at : Placed([Closed EXCEPT !.state = to, !.input = at]) /\ Placed([Closed EXCEPT !.state = to])
  BY <1>0 DEF Closed, Formed, HasFields, Fields, Placed, None
<1>5. CASE Open \/ Close
  <2>1. Placed(u')
    <3>1. PICK to, at : \/ u' = Closed \/ u' = [Closed EXCEPT !.state = to]
                       \/ u' = [Closed EXCEPT !.state = to, !.input = at]
      BY <1>5 DEF Open, Close
    <3>2. CASE u' = Closed
      BY <1>3, <3>2
    <3>3. CASE u' = [Closed EXCEPT !.state = to]
      BY <1>4, <3>3
    <3>4. CASE u' = [Closed EXCEPT !.state = to, !.input = at]
      BY <1>4, <3>4
    <3> QED
      BY <3>1, <3>2, <3>3, <3>4
  <2>2. Switches(switch') /\ switch'.state = "Stable"
    <3>1. PICK first : switch' = NewSwitch \/ switch' = [NewSwitch EXCEPT !.active = first]
      BY <1>5 DEF Open, Close
    <3> QED
      BY <3>1 DEF Switches, HasFields, SwitchFields, NewSwitch
  <2> QED
    BY <1>1, <2>1, <2>2
<1>6. CASE Play
  <2>1. CASE u.state \in {"Ready", "Paused"}
    <3>1. switch' = switch /\ (u' = [u EXCEPT !.state = "Playing"] \/ u' = [u EXCEPT !.state = "Error"])
      BY <1>6, <2>1 DEF Play, Failed
    <3>2. Placed(u') /\ Near(u', switch)
      BY <1>0, <2>1, <3>1 DEF NearInv, Near, Placed, Formed, HasFields, Fields
    <3> QED
      BY <3>1, <3>2 DEF NearInv
  <2>2. CASE u.state = "Ended"
    <3>1. switch' = CancelPending(switch)
          /\ (u' = [StartAgain(u, TRUE) EXCEPT !.state = "Playing"] \/ u' = Failed(Sought(u)))
      BY <1>6, <2>2 DEF Play
    <3>2. Placed(u')
      <4>1. Formed(StartAgain(u, TRUE)) /\ Placed(StartAgain(u, TRUE))
        BY <1>0, SeeksEmpty, StartKeepsTimes DEF NearInv
      <4>2. Formed(Sought(u)) /\ Placed(Sought(u))
        BY <1>0, Methods, TimesKept DEF NearInv
      <4>3. CASE u' = [StartAgain(u, TRUE) EXCEPT !.state = "Playing"]
        BY <4>1, <4>3, TimesKept
      <4>4. CASE u' = Failed(Sought(u))
        BY <4>2, <4>4, TimesKept
      <4> QED
        BY <3>1, <4>3, <4>4
    <3> QED
      BY <1>1, <1>2, <3>1, <3>2
  <2> QED
    BY <1>6, <2>1, <2>2 DEF Play
<1>7. CASE Pause
  <2>1. switch' = switch /\ u.state = "Playing" /\ u' = [u EXCEPT !.state = "Paused"]
    BY <1>7 DEF Pause
  <2> QED
    BY <1>0, <2>1 DEF NearInv, Near, Placed, Formed, HasFields, Fields
<1>8. CASE Seek
  <2>1. PICK t \in 0 .. Duration :
          u' = ResetAudio([Sought(u) EXCEPT !.time = t]) \/ u' = Failed([Sought(u) EXCEPT !.time = t])
    BY <1>8 DEF Seek
  <2>2. Formed([Sought(u) EXCEPT !.time = t]) /\ Placed([Sought(u) EXCEPT !.time = t])
    <3>1. Formed(Sought(u)) /\ Placed(Sought(u))
      BY <1>0, Methods, TimesKept DEF NearInv
    <3>2. t \in Nat
      BY <1>0
    <3> QED
      BY <3>1, <3>2, TimeMoved, TimesKept
  <2>3. Placed(u')
    BY <2>1, <2>2, TimesKept
  <2> QED
    BY <1>1, <1>2, <1>8, <2>3 DEF Seek
<1>9. CASE RequestAdaptiveHigh
  <2>1. PICK target : Decided(Request(policy, target, Observation(0, 0)))
    BY <1>9 DEF RequestAdaptiveHigh
  <2> DEFINE d == Request(policy, target, Observation(0, 0))
  <2>2. Observation(0, 0).time = u.time
    BY DEF Observation
  <2>3. SwitchesAt(d, u.time)
    <3>1. SwitchesAt(Stay(policy), u.time)
      BY DEF SwitchesAt, Stay
    <3> QED
      BY <2>2, <3>1, SwitchToAhead DEF Request
  <2> HIDE DEF d
  <2>4. Decided(d)
    BY <2>1 DEF d
  <2>5. u' = u
    BY <1>9 DEF RequestAdaptiveHigh
  <2>6. CASE d.action = "Switch"
    <3>1. Boundary(u.time) \in Nat /\ Boundary(u.time) < u.time + Reach
      BY <1>0, BoundaryIsNear DEF Formed
    <3>2. switch' = RequestSwitch(CancelPending(switch), d.target, Boundary(u.time))
      BY <2>3, <2>4, <2>6 DEF Decided, SwitchesAt
    <3>3. Switches(switch') /\ switch'.boundary = Boundary(u.time)
      BY <1>2, <3>1, <3>2, SwitchRequested
    <3> QED
      BY <2>5, <3>1, <3>3 DEF NearInv, Near
  <2>7. CASE d.action # "Switch"
    BY <2>4, <2>5, <2>7 DEF Decided, NearInv
  <2> QED
    BY <2>6, <2>7
<1> QED
  BY <1>5, <1>6, <1>7, <1>8, <1>9

\* While an outage is recovered the switch may be far; a recovery that ends has cancelled it.
LEMMA RecoveryNear ==
  ASSUME UnrealInv, NearInv, TickObserves \/ BeginRebuffer \/ Wait \/ FailInput \/ Resume
  PROVE  NearInv'
<1>0. Duration \in Nat /\ Formed(u)
  BY PolicyAssumption DEF UnrealInv
<1>1. CASE TickObserves
  <2>1. switch' = switch /\ u' = [u EXCEPT !.input = source]
    BY <1>1 DEF TickObserves
  <2> QED
    BY <1>0, <2>1 DEF NearInv, Near, Placed, Formed, HasFields, Fields
<1>2. CASE BeginRebuffer
  <2>1. PICK at \in {u.presented, u.time} :
          u' = ResetAudio([u EXCEPT !.rebuffering = TRUE, !.resume = u.state = "Playing",
                                    !.target = at, !.time = at, !.state = "Paused"])
    BY <1>2 DEF BeginRebuffer, Recovers
  <2>2. switch' = switch
    BY <1>2 DEF BeginRebuffer, Untouched
  <2>3. Placed(u') /\ u'.rebuffering
    BY <1>0, <2>1 DEF NearInv, Placed, Formed, HasFields, Fields, ResetAudio
  <2> QED
    BY <2>2, <2>3 DEF NearInv, Near
<1>3. CASE Wait
  <2>1. switch' = switch /\ u' = u
    BY <1>3 DEF Wait, Recovers, Untouched
  <2> QED
    BY <2>1 DEF NearInv
<1>4. CASE FailInput
  <2>1. switch' = switch /\ u' = ResetAudio([u EXCEPT !.state = "Error", !.rebuffering = FALSE])
    BY <1>4 DEF FailInput, Recovers, Untouched
  <2> QED
    BY <1>0, <2>1 DEF NearInv, Near, Placed, Formed, HasFields, Fields, ResetAudio
<1>5. CASE Resume
  <2>1. switch' = CancelPending(switch)
    BY <1>5 DEF Resume
  <2>2. PICK ok \in BOOLEAN :
          LET x == [Sought(u) EXCEPT !.rebuffering = FALSE]
          IN u' = IF ok THEN ResetAudio([x EXCEPT !.time = u.target,
                                                  !.state = IF u.resume THEN "Playing" ELSE "Paused"])
                  ELSE Failed(x)
    BY <1>5 DEF Resume, Recovers, Seekable
  <2>3. u.target <= Duration
    BY DEF NearInv, Placed
  <2>4. Placed(u')
    BY <1>0, <2>2, <2>3 DEF NearInv, Placed, Failed, Sought, ResetAudio, Formed, HasFields, Fields
  <2>5. Switches(switch') /\ switch'.state = "Stable"
    BY <2>1, SwitchMoves DEF NearInv
  <2> QED
    BY <2>4, <2>5 DEF NearInv, Near
<1> QED
  BY <1>1, <1>2, <1>3, <1>4, <1>5

\* A picture is of the time that plays, and a switch that it commits is not pending.
LEMMA ShowsNear ==
  ASSUME NEW x, Formed(x), Placed(x), NEW s, Switches(s), Near(x, s), Shows(x, s)
  PROVE  NearInv'
<1>1. PICK picture \in Pictures(x, s) :
        /\ switch' = picture.switch
        /\ IF picture.shown = None THEN u' = x
           ELSE u' = [x EXCEPT !.presented = picture.shown, !.native = picture.shown]
  BY DEF Shows
<1>2. picture.shown \in {None, x.time} /\ picture.switch \in {s, Miss(s), Commit(s)}
  BY DEF Pictures
<1>3. Switches(switch') /\ Near(x, switch')
  BY <1>1, <1>2, SwitchMoves DEF Near
<1>4. /\ Placed(u') /\ u'.time = x.time /\ u'.state = x.state /\ u'.rebuffering = x.rebuffering
  BY <1>1, <1>2 DEF Placed, Formed, HasFields, Fields
<1> QED
  BY <1>3, <1>4 DEF NearInv, Near

\* The clock goes on, or the timeline starts again and the switch is cancelled.
LEMMA RunsNear ==
  ASSUME UnrealInv, NearInv, Runs
  PROVE  NearInv'
<1>0. Duration \in Nat /\ Formed(u)
  BY PolicyAssumption DEF UnrealInv
<1>1. PICK step \in PolicySteps :
        IF u.state = "Playing" THEN Plays(step.switch) ELSE u' = u /\ switch' = step.switch
  BY DEF Runs
<1>2. Switches(step.switch) /\ Near(u, step.switch)
  BY PolicyNear
<1>3. CASE u.state # "Playing"
  BY <1>1, <1>2, <1>3 DEF NearInv
<1>4. CASE u.state = "Playing"
  <2> DEFINE x == [u EXCEPT !.time = Least(@ + 1, Duration)]
  <2>1. PICK wave \in IF left.audio /\ u.wave = "empty" THEN {"empty", "fresh"} ELSE {u.wave},
             t \in AudioSwitches(step.switch, x.time) :
          IF x.time < Duration THEN Shows([x EXCEPT !.wave = wave], t)
          ELSE IF ~left.loop
            THEN u' = [[x EXCEPT !.wave = wave] EXCEPT !.state = "Ended"] /\ switch' = t
          ELSE \E ok \in Seekable :
                 IF ok THEN Shows(StartAgain([x EXCEPT !.wave = wave], TRUE), CancelPending(t))
                 ELSE u' = StartAgain([x EXCEPT !.wave = wave], FALSE) /\ switch' = CancelPending(t)
    BY <1>1, <1>4 DEF Plays
  <2> DEFINE y == [x EXCEPT !.wave = wave]
  <2>2. /\ Formed(y) /\ Placed(y) /\ u.time <= y.time
        /\ y.state = u.state /\ y.rebuffering = u.rebuffering
    <3>1. Least(u.time + 1, Duration) \in Nat /\ u.time <= Least(u.time + 1, Duration)
          /\ Least(u.time + 1, Duration) <= Duration
      BY <1>0 DEF Least, Formed, NearInv, Placed
    <3> HIDE DEF Least
    <3> QED
      BY <1>0, <3>1 DEF Formed, HasFields, Fields, NearInv, Placed
  <2> HIDE DEF y
  <2>3. t \in {step.switch, Commit(step.switch), Miss(step.switch)}
    BY DEF AudioSwitches
  <2>4. Switches(t) /\ Near(u, t)
    BY <1>2, <2>3, SwitchMoves DEF Near
  <2>5. Near(y, t)
    <3>0. Reach \in Int
      <4>1. Lead + 1 \in Int /\ Segment \in Int
        BY PolicyAssumption
      <4> QED
        BY <4>1 DEF Reach
    <3>1. Reach \in Int /\ y.time \in Int /\ u.time \in Int /\ t.boundary \in Int
      BY <1>0, <2>2, <2>4, <3>0 DEF Formed, Switches
    <3> HIDE DEF Reach
    <3> QED
      BY <2>2, <2>4, <3>1 DEF Near
  <2>6. Switches(CancelPending(t)) /\ CancelPending(t).state = "Stable"
    BY <2>4, SwitchMoves
  <2>7. CASE x.time < Duration
    BY <2>1, <2>2, <2>4, <2>5, <2>7, ShowsNear DEF y
  <2>8. CASE ~(x.time < Duration) /\ ~left.loop
    <3>1. u' = [y EXCEPT !.state = "Ended"] /\ switch' = t
      BY <2>1, <2>8 DEF y
    <3>2. y.state = "Playing"
      BY <1>4, <2>2
    <3> QED
      BY <2>2, <2>4, <2>5, <3>1, <3>2 DEF NearInv, Near, Placed, Formed, HasFields, Fields
  <2>9. CASE ~(x.time < Duration) /\ left.loop
    <3>1. PICK ok \in Seekable :
            IF ok THEN Shows(StartAgain(y, TRUE), CancelPending(t))
            ELSE u' = StartAgain(y, FALSE) /\ switch' = CancelPending(t)
      BY <2>1, <2>9 DEF y
    <3>2. \A good \in BOOLEAN : Formed(StartAgain(y, good)) /\ Placed(StartAgain(y, good))
      BY <2>2, SeeksEmpty, StartKeepsTimes
    <3>3. \A z : Near(z, CancelPending(t))
      BY <2>6 DEF Near
    <3> QED
      BY <2>6, <3>1, <3>2, <3>3, ShowsNear DEF NearInv
  <2> QED
    BY <2>7, <2>8, <2>9
<1> QED
  BY <1>3, <1>4

LEMMA SwitchStaysNear == Spec => []NearInv
<1>1. Init => NearInv
  BY PolicyAssumption DEF Init, NearInv, Near, Placed, Closed, None, Switches, HasFields, SwitchFields, NewSwitch
<1>2. UnrealInv /\ NearInv /\ [Next]_vars => NearInv'
  <2> SUFFICES ASSUME UnrealInv, NearInv, [Next]_vars PROVE NearInv'
    OBVIOUS
  <2>1. CASE Prepare
    <3>1. u' = u /\ switch' \in {[switch EXCEPT !.state = "Ready"], Miss(switch)} /\ switch.state = "Preparing"
      BY <2>1 DEF Prepare
    <3> QED
      BY <3>1 DEF NearInv, Near, Switches, HasFields, SwitchFields, Miss
  <2>2. CASE Drain
    <3>1. switch' = switch /\ u' = ResetAudio(u)
      BY <2>2 DEF Drain
    <3> QED
      BY <3>1 DEF NearInv, Near, Placed, UnrealInv, Formed, HasFields, Fields, ResetAudio
  <2>3. CASE Render \/ Outage \/ Restored \/ ReadToEnd \/ UNCHANGED vars
    <3>1. switch' = switch /\ u' = u
      BY <2>3 DEF Render, Outage, Restored, ReadToEnd, vars
    <3> QED
      BY <3>1 DEF NearInv
  <2> QED
    BY <2>1, <2>2, <2>3, CallNear, RecoveryNear, RunsNear DEF Next, Tick
<1> QED
  BY <1>1, <1>2, UnrealIsSound, PTL DEF Spec

\* For every ladder and lead, and however the calls, loops and outages fall: outside a
\* recovery a pending switch is no further ahead than the policy sets one.
THEOREM SwitchIsNear == Spec => []PendingIsNear
<1>1. NearInv => PendingIsNear
  BY DEF NearInv, Near, Reach, PendingIsNear
<1> QED
  BY <1>1, SwitchStaysNear, PTL

-----------------------------------------------------------------------------
(* The dwell before a downgrade.                                           *)

PolicyFields == {"rate", "sampled", "down", "up", "retry", "failures"}
Timer(t) == t \in Int /\ t >= Off
Policied(p) == HasFields(p, PolicyFields) /\ Timer(p.down)

\* What the policy takes the age of its timer for.
Since(p) == IF p.down = Off THEN 0 ELSE p.down

Ranked(s) == s.active \in Int /\ s.target \in Int

\* The policy's timer runs only while every update finds too little throughput: it is
\* never older than the history `low', no switch is pending and no backoff is left.
\* (After Close() it goes on by itself; Open() stops it.)
DwellInv ==
  /\ Policied(policy) /\ Timer(low) /\ Ranked(switch)
  /\ ticking /\ u.input = "Opening" => source = "Opening"
  /\ policy.down # Off =>
       /\ ~(policy.retry > 0) /\ left.adaptive /\ left.remote /\ switch.state = "Stable"
       /\ source # "Opening" => low >= policy.down

\* Of two timers that grow together the older one stays the older.
LEMMA TimersGrow ==
  ASSUME NEW a, Timer(a), NEW b, Timer(b), NEW dwell \in Nat
  PROVE  /\ Timer(Aged(a, dwell)) /\ (Aged(a, dwell) = Off <=> a = Off)
         /\ (a # Off => Aged(a, dwell) >= 0)
         /\ (a # Off /\ b >= a => Aged(b, dwell) >= Aged(a, dwell))
         /\ Aged(a, dwell) <= dwell
BY DEF Timer, Aged, Least, Off

LEMMA PolicyAges ==
  ASSUME NEW p, Policied(p), NEW q, q = Elapse(p)
  PROVE  /\ Policied(q) /\ q.down = Aged(p.down, DowngradeDwell)
         /\ ~(p.retry > 0) => ~(q.retry > 0)
<1>1. /\ HasFields(q, PolicyFields) /\ q.down = Aged(p.down, DowngradeDwell)
      /\ q.retry = IF p.retry > 0 THEN p.retry - 1 ELSE 0
  BY DEF Policied, HasFields, PolicyFields, Elapse
<1>2. Timer(q.down)
  BY <1>1, TimersGrow, PolicyAssumption DEF Policied
<1> QED
  BY <1>1, <1>2 DEF Policied

\* A policy whose fields are set is one still.
SetTimers(p, t, v) == [p EXCEPT !.down = t, !.up = v]
SetRate(p, v) == [p EXCEPT !.rate = v]
SetSample(p, v) == [p EXCEPT !.rate = v, !.sampled = TRUE]
SetBackoff(p, v, w) == [p EXCEPT !.failures = v, !.retry = w]
SetCommitted(p) == [p EXCEPT !.retry = 0, !.failures = 0, !.sampled = TRUE]

LEMMA OffIsTimer == Timer(Off) /\ Timer(0)
BY DEF Timer, Off

LEMMA TimersSet ==
  ASSUME NEW p, Policied(p), NEW t, Timer(t), NEW v
  PROVE  /\ Policied(SetTimers(p, t, v)) /\ SetTimers(p, t, v).down = t
         /\ SetTimers(p, t, v).retry = p.retry
BY DEF SetTimers, Policied, HasFields, PolicyFields

LEMMA FieldsSet ==
  ASSUME NEW p, Policied(p), NEW v, NEW w
  PROVE  /\ Policied(SetRate(p, v)) /\ SetRate(p, v).down = p.down /\ SetRate(p, v).retry = p.retry
         /\ Policied(SetSample(p, v)) /\ SetSample(p, v).down = p.down
         /\ SetSample(p, v).retry = p.retry
         /\ Policied(SetBackoff(p, v, w)) /\ SetBackoff(p, v, w).down = p.down
         /\ Policied(SetCommitted(p)) /\ SetCommitted(p).down = p.down
BY DEF SetRate, SetSample, SetBackoff, SetCommitted, Policied, HasFields, PolicyFields

LEMMA TimersStop ==
  ASSUME NEW p, Policied(p)
  PROVE  Policied(TimersOff(p)) /\ TimersOff(p).down = Off
<1>1. TimersOff(p) = SetTimers(p, Off, Off)
  BY DEF TimersOff, SetTimers
<1> QED
  BY <1>1, OffIsTimer, TimersSet

\* A decision: one that leaves the timer running waits, and one to go down is due.
LEMMA SwitchToStops ==
  ASSUME NEW p, Policied(p), NEW target, NEW time, NEW force, NEW d,
         d = SwitchTo(p, target, time, force), ~(p.retry > 0)
  PROVE  \/ d = Stay(p)
         \/ /\ d.action = "Switch" /\ d.target = target
            /\ Policied(d.policy) /\ d.policy.down = Off
<1>1. Policied(TimersOff(p)) /\ TimersOff(p).down = Off
  BY TimersStop
<1> QED
  BY <1>1 DEF SwitchTo, Stay

LEMMA DecisionWaits ==
  ASSUME NEW r, Policied(r), NEW o, o.active \in Int, NEW d, d = Decide(r, o), ~(r.retry > 0)
  PROVE  /\ Policied(d.policy)
         /\ d.action \in {"Stay", "Switch"} /\ (d.action = "Switch" => d.target \in Int)
         /\ d.policy.down # Off =>
              /\ ~(d.policy.retry > 0) /\ d.action = "Stay" /\ Insufficient(r, o)
              /\ d.policy.down = Since(r)
         /\ d.action = "Switch" /\ d.target < o.active =>
              Insufficient(r, o) /\ (o.rebuffering \/ Since(r) >= DowngradeDwell)
<1>1. \A p : Stay(p).action = "Stay" /\ Stay(p).policy = p
  BY DEF Stay
<1>2. CASE Insufficient(r, o)
  <2> DEFINE q == [r EXCEPT !.down = Since(r)]
  <2>1. Policied(q) /\ q.down = Since(r) /\ q.retry = r.retry
    BY DEF Policied, HasFields, PolicyFields, Timer, Since, Off
  <2>2. d = IF o.rebuffering \/ Since(r) >= DowngradeDwell
            THEN SwitchTo(q, o.active - 1, o.time, FALSE) ELSE Stay(q)
    BY <1>2 DEF Decide, WithDowngrade, Since
  <2> HIDE DEF q
  <2>3. CASE d = Stay(q)
    BY <1>1, <1>2, <2>1, <2>3
  <2>4. CASE d # Stay(q)
    <3>1. d = SwitchTo(q, o.active - 1, o.time, FALSE) /\ (o.rebuffering \/ Since(r) >= DowngradeDwell)
      BY <2>2, <2>4
    <3>2. /\ d.action = "Switch" /\ d.target = o.active - 1
          /\ Policied(d.policy) /\ d.policy.down = Off
      <4>1. ~(q.retry > 0) /\ Policied(q)
        BY <2>1
      <4>2. PICK target, time, force :
              d = SwitchTo(q, target, time, force) /\ target = o.active - 1
        BY <3>1
      <4> QED
        BY <2>4, <4>1, <4>2, SwitchToStops
    <3>3. d.target \in Int /\ d.action # "Stay"
      BY <3>2
    <3> QED
      BY <1>2, <3>1, <3>2, <3>3
  <2> QED
    BY <2>3, <2>4
<1>3. CASE ~Insufficient(r, o) /\ Headroom(r, o)
  <2> DEFINE since == IF r.up = Off THEN 0 ELSE r.up
             q == [r EXCEPT !.down = Off, !.up = since]
  <2>1. Policied(q) /\ q.down = Off /\ q.retry = r.retry
    <3>1. q = SetTimers(r, Off, since)
      BY DEF SetTimers
    <3> HIDE DEF q, since
    <3> QED
      BY <3>1, OffIsTimer, TimersSet
  <2>2. d = IF since >= UpgradeDwell THEN SwitchTo(q, o.active + 1, o.time, FALSE) ELSE Stay(q)
    BY <1>3 DEF Decide, WithUpgrade
  <2> HIDE DEF q
  <2>3. CASE d = Stay(q)
    BY <1>1, <2>1, <2>3
  <2>4. CASE d # Stay(q)
    <3>1. d = SwitchTo(q, o.active + 1, o.time, FALSE)
      BY <2>2, <2>4
    <3>2. /\ d.action = "Switch" /\ d.target = o.active + 1
          /\ Policied(d.policy) /\ d.policy.down = Off
      <4>1. ~(q.retry > 0) /\ Policied(q)
        BY <2>1
      <4>2. PICK target, time, force :
              d = SwitchTo(q, target, time, force) /\ target = o.active + 1
        BY <3>1
      <4> QED
        BY <2>4, <4>1, <4>2, SwitchToStops
    <3>3. d.target \in Int /\ ~(d.target < o.active)
      BY <3>2
    <3> QED
      BY <3>2, <3>3
  <2> QED
    BY <2>3, <2>4
<1>4. CASE ~Insufficient(r, o) /\ ~Headroom(r, o)
  <2> DEFINE q == [r EXCEPT !.down = Off, !.up = IF o.active < Len(Bandwidth) THEN Off ELSE @]
  <2>1. Policied(q) /\ q.down = Off
    <3> DEFINE up == IF o.active < Len(Bandwidth) THEN Off ELSE r.up
    <3>1. q = SetTimers(r, Off, up)
      BY DEF SetTimers
    <3> HIDE DEF q, up
    <3> QED
      BY <3>1, OffIsTimer, TimersSet
  <2>2. d = Stay(q)
    BY <1>4 DEF Decide
  <2> HIDE DEF q
  <2> QED
    BY <1>1, <2>1, <2>2
<1> QED
  BY <1>2, <1>3, <1>4

\* The same of update(), before which a commit stops the timers and a failure too.
LEMMA UpdateWaits ==
  ASSUME NEW p, Policied(p), NEW o, o.active \in Int, NEW d, d = UpdatePolicy(p, o),
         p.down # Off => ~(p.retry > 0) /\ o.state = "Stable"
  PROVE  /\ Policied(d.policy) /\ (d.action = "Switch" => d.target \in Int)
         /\ d.policy.down # Off =>
              /\ ~(d.policy.retry > 0) /\ d.action = "Stay"
              /\ o.state = "Stable" /\ Insufficient(Observed(p, o), o)
              /\ d.policy.down <= Since(p)
         /\ d.action = "Switch" /\ d.target < o.active =>
              /\ o.state = "Stable" /\ Insufficient(Observed(p, o), o)
              /\ o.rebuffering \/ Since(p) >= DowngradeDwell
<1> DEFINE q == AfterCommit(p, o)
           r == Observed(p, o)
<1>1. Policied(q) /\ (q.down = Off \/ (q.down = p.down /\ q.retry = p.retry))
  <2>1. CASE ~o.committed
    BY <2>1 DEF AfterCommit
  <2>2. CASE o.committed
    <3> DEFINE z == TimersOff(p)
    <3>1. Policied(z) /\ z.down = Off
      BY TimersStop
    <3>2. q = SetCommitted(z)
      BY <2>2 DEF AfterCommit, SetCommitted
    <3> HIDE DEF z, q
    <3> QED
      BY <3>1, <3>2, FieldsSet
  <2> QED
    BY <2>1, <2>2
<1>2. Policied(r) /\ r.down = q.down /\ r.retry = q.retry
  <2>1. \A x, y : Policied(x) => /\ Policied(Observe(x, y)) /\ Observe(x, y).down = x.down
                                 /\ Observe(x, y).retry = x.retry
    <3> SUFFICES ASSUME NEW x, Policied(x), NEW y
                 PROVE  /\ Policied(Observe(x, y)) /\ Observe(x, y).down = x.down
                        /\ Observe(x, y).retry = x.retry
      OBVIOUS
    <3> DEFINE rate == IF y.transfer > 0 THEN y.transfer ELSE x.rate
               now == SetSample(x, rate)
               mean == IF x.rate = 0 THEN y.downloaded ELSE (3 * x.rate + y.downloaded) \div 4
    <3>1. Policied(now) /\ now.down = x.down /\ now.retry = x.retry
      BY FieldsSet
    <3>2. Observe(x, y) = now \/ Observe(x, y) = SetRate(now, mean)
      BY DEF Observe, SetSample, SetRate
    <3> HIDE DEF now, mean
    <3> QED
      BY <3>1, <3>2, FieldsSet
  <2> QED
    BY <1>1, <2>1 DEF Observed
<1>3. d = IF o.state = "Failed" THEN [policy |-> AfterFailure(q), action |-> "Cancel"]
          ELSE IF o.state # "Stable" THEN Stay(q)
          ELSE IF q.retry > 0 THEN RetryLater(r)
          ELSE Decide(r, o)
  BY DEF UpdatePolicy
<1>4. Since(r) <= Since(p) /\ Since(p) \in Int /\ Since(r) \in Int
  BY <1>1, <1>2 DEF Since, Policied, Timer, Off
<1>5. DowngradeDwell \in Nat
  BY PolicyAssumption
<1> HIDE DEF q, r
<1>6. CASE o.state = "Failed"
  <2>1. Policied(AfterFailure(q)) /\ AfterFailure(q).down = Off
    <3> DEFINE z == TimersOff(q)
    <3>1. Policied(z) /\ z.down = Off
      BY <1>1, TimersStop
    <3>2. AfterFailure(q) = SetBackoff(z, Least(z.failures + 1, 4), Backoff(q.failures + 1))
      BY DEF AfterFailure, SetBackoff
    <3> HIDE DEF z
    <3> QED
      BY <3>1, <3>2, FieldsSet
  <2> QED
    BY <1>3, <1>6, <2>1
<1>7. CASE o.state \notin {"Failed", "Stable"}
  <2>1. d.policy = q /\ d.action = "Stay" /\ q.down = Off
    BY <1>1, <1>3, <1>7 DEF Stay
  <2> QED
    BY <1>1, <2>1
<1>8. CASE o.state = "Stable" /\ q.retry > 0
  <2>1. d.policy = r /\ d.action = "RetryLater" /\ q.down = Off
    BY <1>1, <1>3, <1>8 DEF RetryLater
  <2> QED
    BY <1>2, <2>1
<1>9. CASE o.state = "Stable" /\ ~(q.retry > 0)
  <2>1. d = Decide(r, o) /\ ~(r.retry > 0)
    BY <1>2, <1>3, <1>9
  <2>2. /\ Policied(d.policy)
        /\ d.action \in {"Stay", "Switch"} /\ (d.action = "Switch" => d.target \in Int)
        /\ d.policy.down # Off =>
             /\ ~(d.policy.retry > 0) /\ d.action = "Stay" /\ Insufficient(r, o)
             /\ d.policy.down = Since(r)
        /\ d.action = "Switch" /\ d.target < o.active =>
             Insufficient(r, o) /\ (o.rebuffering \/ Since(r) >= DowngradeDwell)
    BY <1>2, <2>1, DecisionWaits
  <2> QED
    BY <1>4, <1>5, <1>9, <2>2 DEF r
<1> QED
  BY <1>6, <1>7, <1>8, <1>9

\* A step of the policy, and what the history records of it.
LEMMA PolicyDwells ==
  ASSUME UnrealInv, NearInv, DwellInv, ticking, NEW step \in PolicySteps
  PROVE  /\ Policied(step.policy) /\ Timer(step.low) /\ Ranked(step.switch)
         /\ step.policy.down # Off =>
              /\ ~(step.policy.retry > 0) /\ left.adaptive /\ left.remote
              /\ step.switch.state = "Stable"
              /\ source # "Opening" => step.low >= step.policy.down
         /\ /\ step.switch.state = "Preparing" /\ switch.state = "Stable"
            /\ step.switch.target < step.switch.active
            => source = "Rebuffering" \/ step.low = DowngradeDwell
<1> DEFINE p == Elapse(policy)
<1>1. DowngradeDwell \in Nat
  BY PolicyAssumption
<1>2. /\ Policied(p) /\ p.down = Aged(policy.down, DowngradeDwell)
      /\ ~(policy.retry > 0) => ~(p.retry > 0)
  BY PolicyAges DEF DwellInv
<1>3. Timer(policy.down) /\ Timer(low)
  BY DEF DwellInv, Policied
<1>4. /\ p.down # Off <=> policy.down # Off
      /\ p.down \in Int /\ p.down >= Off /\ p.down <= DowngradeDwell
      /\ p.down # Off => p.down >= 0
  BY <1>1, <1>2, <1>3, TimersGrow DEF Timer
<1>5. CASE ~Live
  <2>1. step.policy = p /\ step.switch = switch /\ step.low = Off
    BY <1>5 DEF PolicySteps
  <2>2. p.down # Off => source = "Opening"
    BY <1>4, <1>5 DEF DwellInv, Live
  <2> QED
    BY <1>2, <1>4, <2>1, <2>2, OffIsTimer DEF DwellInv
<1>6. CASE Live
  <2>1. PICK transfer \in Transfers, downloaded \in Downloads : step = PolicyStep(transfer, downloaded)
    BY <1>6 DEF PolicySteps
  <2> DEFINE o == Observation(transfer, downloaded)
             d == UpdatePolicy(p, o)
             seen == [switch EXCEPT !.committed = FALSE]
             short == o.state = "Stable" /\ d.action # "RetryLater" /\ Insufficient(Observed(p, o), o)
  <2>2. o.active = switch.active /\ o.state = switch.state /\ (o.rebuffering <=> source = "Rebuffering")
    BY DEF Observation
  <2>3. source # "Opening" /\ left.adaptive /\ left.remote
    BY <1>6 DEF Live, UnrealInv, WaitsForInput, Waits
  <2>4. p.down # Off => ~(p.retry > 0) /\ o.state = "Stable" /\ low >= policy.down
    BY <1>2, <1>4, <2>2, <2>3 DEF DwellInv
  <2>5. /\ Policied(d.policy) /\ (d.action = "Switch" => d.target \in Int)
        /\ d.policy.down # Off =>
             /\ ~(d.policy.retry > 0) /\ d.action = "Stay"
             /\ o.state = "Stable" /\ Insufficient(Observed(p, o), o)
             /\ d.policy.down <= Since(p)
        /\ d.action = "Switch" /\ d.target < o.active =>
             /\ o.state = "Stable" /\ Insufficient(Observed(p, o), o)
             /\ o.rebuffering \/ Since(p) >= DowngradeDwell
    <3>1. o.active \in Int
      BY <2>2 DEF DwellInv, Ranked
    <3> HIDE DEF o, p
    <3>2. \E e : e = d /\ e = UpdatePolicy(p, o)
      OBVIOUS
    <3> HIDE DEF d
    <3> QED
      BY <1>2, <2>4, <3>1, <3>2, UpdateWaits
  <2>6. /\ step.policy = d.policy
        /\ step.switch = IF d.action = "Cancel" THEN CancelPending(seen)
                         ELSE IF d.action = "Switch"
                           THEN RequestSwitch(CancelPending(seen), d.target, d.boundary)
                         ELSE seen
        /\ step.low = IF ~short THEN Off ELSE IF low = Off THEN 0 ELSE Aged(low, DowngradeDwell)
    <3> HIDE DEF d, o, p
    <3> QED
      BY <2>1 DEF PolicyStep, d, o, p
  <2> HIDE DEF o, d, p
  <2>7. Switches(seen) /\ Ranked(seen) /\ seen.state = switch.state /\ seen.active = switch.active
    BY DEF NearInv, Switches, HasFields, SwitchFields, DwellInv, Ranked
  <2> HIDE DEF seen
  <2>8. /\ Ranked(CancelPending(seen)) /\ CancelPending(seen).state = "Stable"
        /\ Switches(CancelPending(seen)) /\ CancelPending(seen).active = switch.active
    BY <2>7 DEF Switches, HasFields, SwitchFields, CancelPending, Ranked
  <2>9. d.action = "Switch" =>
          /\ step.switch.target = d.target /\ step.switch.active = switch.active
          /\ step.switch.active \in Int
    BY <2>6, <2>8 DEF RequestSwitch, Switches, HasFields, SwitchFields, Ranked
  <2>10. Ranked(step.switch)
    BY <2>5, <2>6, <2>7, <2>8, <2>9 DEF Ranked
  <2>11. Timer(step.low)
    BY <1>1, <1>3, <2>6, OffIsTimer, TimersGrow
  \* What the update found too little is recorded, as old as the policy takes it for.
  <2>12. short => step.low >= Since(p)
    <3>1. step.low = IF ~short THEN Off ELSE IF low = Off THEN 0 ELSE Aged(low, DowngradeDwell)
      BY <2>6
    <3> HIDE DEF short
    <3>2. CASE p.down = Off
      <4>1. low # Off => Aged(low, DowngradeDwell) >= 0
        BY <1>1, <1>3, TimersGrow
      <4> QED
        BY <3>1, <3>2, <4>1 DEF Since
    <3>3. CASE p.down # Off
      <4>1. policy.down # Off /\ low >= policy.down
        BY <1>4, <2>4, <3>3
      <4>2. Aged(low, DowngradeDwell) >= p.down /\ low # Off
        <5>1. Aged(low, DowngradeDwell) >= Aged(policy.down, DowngradeDwell)
          BY <1>1, <1>3, <4>1, TimersGrow
        <5>2. low # Off
          BY <1>3, <4>1 DEF Timer, Off
        <5> QED
          BY <1>2, <5>1, <5>2
      <4> QED
        BY <3>1, <3>3, <4>2 DEF Since
    <3> QED
      BY <3>2, <3>3
  <2>13. ASSUME step.policy.down # Off
         PROVE  /\ ~(step.policy.retry > 0) /\ step.switch.state = "Stable"
                /\ step.low >= step.policy.down
    <3>1. /\ ~(d.policy.retry > 0) /\ d.action = "Stay" /\ o.state = "Stable"
          /\ Insufficient(Observed(p, o), o) /\ d.policy.down <= Since(p)
      BY <2>5, <2>6, <2>13
    <3>2. step.low >= Since(p)
      BY <2>12, <3>1
    <3>3. step.low \in Int /\ d.policy.down \in Int /\ Since(p) \in Int
      BY <1>4, <2>5, <2>11 DEF Timer, Policied, Since
    <3>4. step.switch = seen
      BY <2>6, <3>1
    <3> QED
      BY <2>2, <2>6, <2>7, <3>1, <3>2, <3>3, <3>4
  <2>14. ASSUME step.switch.state = "Preparing", switch.state = "Stable",
                step.switch.target < step.switch.active
         PROVE  source = "Rebuffering" \/ step.low = DowngradeDwell
    <3>1. d.action = "Switch"
      BY <2>6, <2>7, <2>8, <2>14
    <3>2. d.target < o.active
      BY <2>2, <2>9, <2>14, <3>1
    <3>3. o.state = "Stable" /\ Insufficient(Observed(p, o), o)
          /\ (o.rebuffering \/ Since(p) >= DowngradeDwell)
      BY <2>5, <3>1, <3>2
    <3>4. step.low >= Since(p) /\ step.low <= DowngradeDwell /\ step.low \in Int
      <4>1. Aged(low, DowngradeDwell) <= DowngradeDwell
        BY <1>1, <1>3, TimersGrow
      <4>2. step.low <= DowngradeDwell
        BY <1>1, <2>6, <3>1, <3>3, <4>1
      <4> QED
        BY <2>11, <2>12, <3>1, <3>3, <4>2 DEF Timer
    <3>5. Since(p) \in Int
      BY <1>4 DEF Since
    <3> QED
      BY <1>1, <2>2, <3>3, <3>4, <3>5
  <2> QED
    BY <2>3, <2>5, <2>6, <2>10, <2>11, <2>13, <2>14
<1> QED
  BY <1>5, <1>6

\* What may become of a switch while a picture is shown: it is as it was, or no longer
\* in preparation.
Follows(s, r) ==
  /\ Switches(r) /\ Ranked(r) /\ (r = s \/ r.state # "Preparing")
  /\ s.state = "Stable" => r.state = "Stable"

LEMMA SwitchFollows ==
  ASSUME NEW s, Switches(s), Ranked(s)
  PROVE  /\ Follows(s, s) /\ Follows(s, CancelPending(s))
         /\ s.state = "Ready" => Follows(s, Commit(s)) /\ Follows(s, Miss(s))
<1>1. Ranked(CancelPending(s)) /\ Ranked(Commit(s)) /\ Ranked(Miss(s))
  BY DEF Ranked, Switches, HasFields, SwitchFields, CancelPending, Commit, Miss
<1> QED
  BY <1>1, SwitchMoves DEF Follows

LEMMA FollowsOn ==
  ASSUME NEW s, NEW t, NEW r, Follows(s, t), Follows(t, r)
  PROVE  Follows(s, r)
BY DEF Follows

LEMMA ShowsFollows ==
  ASSUME NEW x, NEW s, Switches(s), Ranked(s), Shows(x, s)
  PROVE  Follows(s, switch')
<1>1. PICK picture \in Pictures(x, s) : switch' = picture.switch
  BY DEF Shows
<1>2. picture.switch = s \/ (s.state = "Ready" /\ picture.switch \in {Miss(s), Commit(s)})
  BY DEF Pictures
<1> QED
  BY <1>1, <1>2, SwitchFollows

LEMMA PlaysFollows ==
  ASSUME NEW s, Switches(s), Ranked(s), Plays(s)
  PROVE  /\ Follows(s, switch') /\ (source' = "Opening" <=> source = "Opening")
         /\ HasFields(left, Bounds) => left'.adaptive = left.adaptive /\ left'.remote = left.remote
<1> DEFINE x == [u EXCEPT !.time = Least(@ + 1, Duration)]
<1>1. PICK wave \in IF left.audio /\ u.wave = "empty" THEN {"empty", "fresh"} ELSE {u.wave},
           t \in AudioSwitches(s, x.time) :
        IF x.time < Duration THEN Shows([x EXCEPT !.wave = wave], t) /\ UNCHANGED <<source, left>>
        ELSE IF ~left.loop THEN switch' = t /\ UNCHANGED <<source, left>>
        ELSE \E ok \in Seekable :
               /\ SeekSource /\ Spend(ok)
               /\ IF ok THEN Shows(StartAgain([x EXCEPT !.wave = wave], TRUE), CancelPending(t))
                  ELSE switch' = CancelPending(t)
  BY DEF Plays
<1>2. t = s \/ (s.state = "Ready" /\ t \in {Commit(s), Miss(s)})
  BY DEF AudioSwitches
<1>3. Follows(s, t) /\ Switches(t) /\ Ranked(t)
  BY <1>2, SwitchFollows DEF Follows
<1>4. Follows(t, CancelPending(t)) /\ Switches(CancelPending(t)) /\ Ranked(CancelPending(t))
  BY <1>3, SwitchFollows DEF Follows
<1>5. CASE x.time < Duration
  BY <1>1, <1>3, <1>5, ShowsFollows, FollowsOn
<1>6. CASE ~(x.time < Duration) /\ ~left.loop
  BY <1>1, <1>3, <1>6
<1>7. CASE ~(x.time < Duration) /\ left.loop
  <2>1. PICK ok \in Seekable :
          /\ SeekSource /\ Spend(ok)
          /\ \/ switch' = CancelPending(t)
             \/ Shows(StartAgain([x EXCEPT !.wave = wave], TRUE), CancelPending(t))
    BY <1>1, <1>7
  <2>2. Follows(t, switch')
    <3>1. CASE switch' = CancelPending(t)
      BY <1>4, <3>1
    <3>2. ASSUME NEW z, Shows(z, CancelPending(t)) PROVE Follows(t, switch')
      <4>1. Follows(CancelPending(t), switch')
        BY <1>4, <3>2, ShowsFollows
      <4> QED
        BY <1>4, <4>1, FollowsOn
    <3> QED
      BY <2>1, <3>1, <3>2
  <2>3. HasFields(left, Bounds) => left'.adaptive = left.adaptive /\ left'.remote = left.remote
    BY <2>1 DEF Spend, HasFields, Bounds
  <2> QED
    BY <1>3, <2>1, <2>2, <2>3, FollowsOn DEF SeekSource
<1> QED
  BY <1>5, <1>6, <1>7

LEMMA DwellStep == UnrealInv /\ NearInv /\ DwellInv /\ [Next]_vars => DwellInv'
<1> SUFFICES ASSUME UnrealInv, NearInv, DwellInv, [Next]_vars PROVE DwellInv'
  OBVIOUS
<1>1. DowngradeDwell \in Nat /\ HasFields(left, Bounds) /\ Switches(switch) /\ Ranked(switch)
  BY PolicyAssumption DEF UnrealInv, NearInv, DwellInv
<1>2. /\ Ranked(CancelPending(switch)) /\ CancelPending(switch).state = "Stable"
      /\ Switches(CancelPending(switch))
  BY <1>1, SwitchFollows, SwitchMoves DEF Follows
<1>3. Policied(NewPolicy) /\ NewPolicy.down = Off
  BY OffIsTimer DEF NewPolicy, Policied, HasFields, PolicyFields
<1>4. CASE Open
  <2>1. Ranked(switch')
    <3>1. \A first \in DOMAIN Bandwidth \cup {1} : first \in Int
      BY PolicyAssumption
    <3>2. PICK first \in DOMAIN Bandwidth \cup {1} :
            switch' = NewSwitch \/ switch' = [NewSwitch EXCEPT !.active = first]
      BY <1>4 DEF Open
    <3> QED
      BY <3>1, <3>2 DEF Ranked, NewSwitch
  <2> QED
    BY <1>3, <1>4, <2>1 DEF Open, Call, DwellInv
<1>5. CASE Close
  <2>1. /\ source' = "Opening" /\ switch' = NewSwitch /\ UNCHANGED <<policy, ticking, low>>
        /\ left'.adaptive = left.adaptive /\ left'.remote = left.remote
    BY <1>1, <1>5 DEF Close, Call, HasFields, Bounds
  <2> QED
    BY <2>1 DEF DwellInv, Ranked, NewSwitch
<1>6. CASE Play \/ Pause \/ Seek
  <2>1. /\ UNCHANGED <<policy, ticking, low>> /\ ~ticking
        /\ left'.adaptive = left.adaptive /\ left'.remote = left.remote
        /\ switch' \in {switch, CancelPending(switch)}
        /\ source' = "Opening" <=> source = "Opening"
    BY <1>1, <1>6 DEF Play, Pause, Seek, Call, SeekSource, HasFields, Bounds
  <2> QED
    BY <1>2, <2>1 DEF DwellInv
<1>7. CASE RequestAdaptiveHigh
  <2>1. /\ UNCHANGED <<source, ticking, low>> /\ ~ticking
        /\ left'.adaptive = left.adaptive /\ left'.remote = left.remote
    BY <1>1, <1>7 DEF RequestAdaptiveHigh, Call, HasFields, Bounds
  <2>2. PICK target \in {1, Len(Bandwidth)} : Decided(Request(policy, target, Observation(0, 0)))
    BY <1>7 DEF RequestAdaptiveHigh
  <2> DEFINE d == Request(policy, target, Observation(0, 0))
  <2>3. \/ d.action # "Switch" /\ d.policy = policy
        \/ d.action = "Switch" /\ d.target = target /\ d.policy = TimersOff(policy)
    BY DEF Request, SwitchTo, Stay
  <2>4. target \in Int
    BY PolicyAssumption
  <2> HIDE DEF d
  <2>5. Decided(d)
    BY <2>2 DEF d
  <2>6. CASE d.action # "Switch"
    BY <2>1, <2>3, <2>5, <2>6 DEF Decided, DwellInv
  <2>7. CASE d.action = "Switch"
    <3>1. Policied(policy') /\ policy'.down = Off
      BY <2>3, <2>5, <2>7, TimersStop DEF Decided, DwellInv
    <3>2. switch' = RequestSwitch(CancelPending(switch), target, d.boundary)
      BY <2>3, <2>5, <2>7 DEF Decided
    <3>3. Ranked(switch')
      BY <1>2, <2>4, <3>2 DEF RequestSwitch, Switches, HasFields, SwitchFields, Ranked
    <3> QED
      BY <2>1, <3>1, <3>3 DEF DwellInv
  <2> QED
    BY <2>6, <2>7
<1>8. CASE TickObserves
  <2>1. u'.input = source /\ UNCHANGED <<source, policy, switch, low, left>>
    BY <1>8 DEF TickObserves, UnrealInv, Formed, HasFields, Fields
  <2> QED
    BY <2>1 DEF DwellInv
<1>9. CASE BeginRebuffer \/ Wait \/ FailInput \/ Resume
  <2>1. /\ ~ticking' /\ policy' = Elapse(policy) /\ low' = Aged(low, DowngradeDwell)
        /\ switch' \in {switch, CancelPending(switch)}
        /\ left'.adaptive = left.adaptive /\ left'.remote = left.remote
        /\ source' = "Opening" <=> source = "Opening"
    BY <1>1, <1>9 DEF BeginRebuffer, Wait, FailInput, Resume, Recovers, Untouched, SeekSource,
                      Spend, HasFields, Bounds
  <2>2. /\ Policied(policy') /\ policy'.down = Aged(policy.down, DowngradeDwell)
        /\ ~(policy.retry > 0) => ~(policy'.retry > 0)
    BY <2>1, PolicyAges DEF DwellInv
  <2>3. Timer(low) /\ Timer(policy.down)
    BY DEF DwellInv, Policied
  <2>4. /\ Timer(low') /\ (policy'.down # Off => policy.down # Off)
        /\ policy.down # Off /\ low >= policy.down => low' >= policy'.down
    BY <1>1, <2>1, <2>2, <2>3, TimersGrow
  <2> QED
    BY <1>2, <2>1, <2>2, <2>4 DEF DwellInv
<1>10. CASE Runs
  <2>1. PICK step \in PolicySteps :
          /\ policy' = step.policy /\ low' = step.low
          /\ IF u.state = "Playing" THEN Plays(step.switch)
             ELSE switch' = step.switch /\ UNCHANGED <<source, left>>
    BY <1>10 DEF Runs
  <2>2. ticking /\ ~ticking'
    BY <1>10 DEF Runs
  <2>3. /\ Policied(step.policy) /\ Timer(step.low) /\ Ranked(step.switch)
        /\ step.policy.down # Off =>
             /\ ~(step.policy.retry > 0) /\ left.adaptive /\ left.remote
             /\ step.switch.state = "Stable"
             /\ source # "Opening" => step.low >= step.policy.down
    BY <2>2, PolicyDwells
  <2>4. Switches(step.switch)
    BY PolicyNear
  <2>5. /\ Follows(step.switch, switch') /\ (source' = "Opening" <=> source = "Opening")
        /\ left'.adaptive = left.adaptive /\ left'.remote = left.remote
    BY <1>1, <2>1, <2>3, <2>4, PlaysFollows, SwitchFollows
  <2> QED
    BY <2>1, <2>2, <2>3, <2>5 DEF DwellInv, Follows
<1>11. CASE Prepare
  <2>1. /\ UNCHANGED <<u, ticking, source, policy, low, left>> /\ switch.state = "Preparing"
        /\ switch' \in {[switch EXCEPT !.state = "Ready"], Miss(switch)}
    BY <1>11 DEF Prepare
  <2>2. Ranked(switch')
    BY <1>1, <2>1 DEF Ranked, Switches, HasFields, SwitchFields, Miss
  <2> QED
    BY <2>1, <2>2 DEF DwellInv
<1>12. CASE Drain
  BY <1>12 DEF Drain, DwellInv
<1>13. CASE Outage \/ Restored \/ ReadToEnd
  <2>1. /\ source # "Opening" /\ source' # "Opening"
        /\ UNCHANGED <<u, ticking, policy, switch, low>>
        /\ left'.adaptive = left.adaptive /\ left'.remote = left.remote
    BY <1>1, <1>13 DEF Outage, Restored, ReadToEnd, HasFields, Bounds
  <2> QED
    BY <2>1 DEF DwellInv
<1>14. CASE Render \/ UNCHANGED vars
  BY <1>14 DEF Render, vars, DwellInv
<1> QED
  BY <1>4, <1>5, <1>6, <1>7, <1>8, <1>9, <1>10, <1>11, <1>12, <1>13, <1>14 DEF Next, Tick

\* A tick that begins to go down does so after a stall or a full dwell.
LEMMA DowngradeStep ==
  UnrealInv /\ NearInv /\ DwellInv /\ [Next]_vars =>
    [ticking /\ switch'.state = "Preparing" /\ switch.state = "Stable" /\ switch'.target < switch'.active
       => source = "Rebuffering" \/ low' = DowngradeDwell]_vars
<1> SUFFICES ASSUME UnrealInv, NearInv, DwellInv, Next, ticking,
                    switch'.state = "Preparing", switch.state = "Stable",
                    switch'.target < switch'.active
             PROVE  source = "Rebuffering" \/ low' = DowngradeDwell
  OBVIOUS
<1>1. switch' # switch /\ switch' # CancelPending(switch)
  BY SwitchMoves DEF NearInv
<1>2. Runs
  BY <1>1 DEF Next, Open, Close, Play, Pause, Seek, RequestAdaptiveHigh, Call, Tick, TickObserves,
     BeginRebuffer, Wait, FailInput, Resume, Untouched, Prepare, Drain, Render, Outage, Restored,
     ReadToEnd
<1>3. PICK step \in PolicySteps :
        low' = step.low /\ IF u.state = "Playing" THEN Plays(step.switch) ELSE switch' = step.switch
  BY <1>2 DEF Runs
<1>4. Switches(step.switch) /\ Ranked(step.switch)
  BY PolicyNear, PolicyDwells
<1>5. switch' = step.switch
  BY <1>3, <1>4, PlaysFollows DEF Follows
<1> QED
  BY <1>3, <1>5, PolicyDwells

\* For every ladder, dwell and back-off, whatever throughput the ticks observe: a lower
\* representation is prepared only after a stall, or when every update of a whole dwell
\* found too little.
THEOREM DowngradesWait == Spec => DowngradeIsSustained
<1>1. Init => DwellInv
  BY OffIsTimer DEF Init, DwellInv, NewPolicy, Policied, HasFields, PolicyFields, NewSwitch, Ranked
<1>2. Spec => []NearInv
  BY SwitchStaysNear
<1> QED
  BY <1>1, <1>2, DwellStep, DowngradeStep, UnrealIsSound, PTL DEF Spec, DowngradeIsSustained
=============================================================================
