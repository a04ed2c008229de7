------------------------------ MODULE UnityProofs ------------------------------
(***************************************************************************)
(* Proofs about the two halves of the Unity integration.                   *)
(*                                                                         *)
(* UnityBridge, for any number of players, calls, blocks of sound and      *)
(* pictures: nobody works on a player that was deleted, the resampler is   *)
(* reset in quiet, a centroid is read whole, and the clock counts the      *)
(* sound that was heard.  The first two rest on g_active, g_player and     *)
(* g_readers (SoundInv), the third on the sequence counter of the centroid *)
(* (PictureInv), the last on the tick up to which the blocks have read     *)
(* (ClockInv).                                                             *)
(*                                                                         *)
(* UnityPlayback, whatever the length of the file, the speed of the clock  *)
(* and the number of calls and outages: the component is silent while its  *)
(* timeline is held, provided that the application does not call while an  *)
(* outage lasts (a call then may start sound over it).  The methods of the *)
(* class are operators on the component, so a lemma says of each what it   *)
(* does to a component that is sound, and the step of an update follows    *)
(* from those of the methods it calls.  And nobody's timeline wraps to the *)
(* beginning unless the file is to loop: of all that an update calls, only *)
(* a tick asks for a picture that may lie beyond the end (Counted).        *)
(***************************************************************************)
EXTENDS UnityBridge, UnityPlayback, TLAPS

\* A record with these fields, whatever they hold.
HasFields(r, F) == r = [f \in F |-> r[f]]

-----------------------------------------------------------------------------
(* The registry and the sound.                                             *)

\* From the moment the block counts itself in g_readers to the moment it does not.
Inside == {"reader", "gate", "read", "publish", "leave"}

\* The main thread has seen g_readers at zero and not raised g_active again.
Drained == {"reset", "unpause", "unpause2", "arm", "activate"}
Stopping == {"off", "forget", "drain", "reset", "unpause", "unpause2"}

Registry ==
  /\ Registered \subseteq Players
  /\ alive \in [Registered -> Nat]
  /\ pc # "idle" => target \in Registered
  /\ player # Nobody => player \in Registered

\* A player is destroyed under the mutex alone, and is not heard any more.
Destroying ==
  /\ op = "destroy" => locked
  /\ locked => render.at = "idle"
  /\ pc = "erase" => op = "destroy" /\ player # target
  /\ pc \in Stopping => op \in {"schedule", "stop", "destroy"}
  /\ pc \in Stopping \ {"off", "forget"} /\ op = "destroy" => player # target

\* The block has loaded a player, and no schedule has replaced it since.
Loaded == audio \in {"gate", "read"} /\ block.who # Nobody /\ ~block.overtaken

Sound ==
  /\ active \in BOOLEAN
  /\ readers = IF audio \in Inside THEN 1 ELSE 0
  /\ pc \in Drained \cup {"forget", "drain"} => ~active
  /\ pc \in Drained => audio # "read"
  /\ audio = "read" => block.who # Nobody
  /\ Loaded => block.who \in Registered /\ (block.who = player \/ pc = "drain")

Rendered == HasFields(render, {"at", "who", "shows", "seq"}) /\ (Rendering => render.who \in Registered)
SoundInv == Registry /\ Destroying /\ Sound /\ HasFields(block, {"tick", "start", "who", "overtaken"}) /\ Rendered

\* A new plugin has no player and plays nothing.
LEMMA SoundInit == Init => SoundInv
<1> USE DEF SoundInv, Registry, Destroying, Sound, Rendered, HasFields, Inside, Loaded, Drained, Stopping,
            Rendering, Registered, mainVars, registryVars, dspVars, audioVars, renderVars,
            pictureVars
<1>1. alive = <<>> => Registered = {} /\ alive \in [Registered -> Nat]
  OBVIOUS
<1>2. Init => Registry
  BY <1>1 DEF Init
<1>3. Init => Destroying /\ Sound
  BY DEF Init
<1>4. Init => HasFields(block, {"tick", "start", "who", "overtaken"}) /\ Rendered
  BY DEF Init, NoBlock, NoRender
<1> QED
  BY <1>2, <1>3, <1>4

\* A call finds the main thread idle, and takes the mutex alone to create or destroy.
LEMMA CallKeepsSound ==
  ASSUME SoundInv, NEW p \in Players,
         Create(p) \/ Destroy(p) \/ Schedule(p) \/ StopSound(p) \/ Open(p) \/ Seek(p)
           \/ IssueEvent(p) \/ CentroidBegin(p)
  PROVE  SoundInv'
<1> USE DEF SoundInv, Registry, Destroying, Sound, Rendered, HasFields, Inside, Loaded, Drained, Stopping,
            Rendering, Registered, mainVars, registryVars, dspVars, audioVars, renderVars,
            pictureVars
<1>1. CASE Create(p)
  BY <1>1, BridgeAssumption DEF Create
<1>2. CASE Destroy(p)
  BY <1>2, BridgeAssumption DEF Destroy, Enter
<1>3. CASE Schedule(p)
  BY <1>3, BridgeAssumption DEF Schedule, Enter
<1>4. CASE StopSound(p)
  BY <1>4, BridgeAssumption DEF StopSound, Enter
<1>5. CASE Open(p)
  BY <1>5, BridgeAssumption DEF Open, Enter, PlayerStep
<1>6. CASE Seek(p)
  BY <1>6, BridgeAssumption DEF Seek, Enter, PlayerStep
<1>7. CASE IssueEvent(p)
  BY <1>7, BridgeAssumption DEF IssueEvent
<1>8. CASE CentroidBegin(p)
  BY <1>8, BridgeAssumption DEF CentroidBegin, Enter
<1> QED
  BY <1>1, <1>2, <1>3, <1>4, <1>5, <1>6, <1>7, <1>8

\* The wait for g_readers comes between g_active and everything that a block uses.
LEMMA MainKeepsSound ==
  ASSUME SoundInv,
         Erase \/ Deactivate \/ Forget \/ Drain \/ ResetClock \/ Unpause \/ ForgetPause \/ Arm \/ Activate
  PROVE  SoundInv'
<1> USE DEF SoundInv, Registry, Destroying, Sound, Rendered, HasFields, Inside, Loaded, Drained, Stopping,
            Rendering, Registered, mainVars, registryVars, dspVars, audioVars, renderVars,
            pictureVars
<1>1. CASE Erase
  BY <1>1, BridgeAssumption DEF Erase, Go
<1>2. CASE Deactivate
  BY <1>2, BridgeAssumption DEF Deactivate, Go, DspStep
<1>3. CASE Forget
  BY <1>3, BridgeAssumption DEF Forget, Go, DspStep
<1>4. CASE Drain
  BY <1>4, BridgeAssumption DEF Drain, Go, DspStep
<1>5. CASE ResetClock
  BY <1>5, BridgeAssumption DEF ResetClock, Go, DspStep
<1>6. CASE Unpause
  BY <1>6, BridgeAssumption DEF Unpause, Go, DspStep
<1>7. CASE ForgetPause
  BY <1>7, BridgeAssumption DEF ForgetPause, Go, DspStep
<1>8. CASE Arm
  BY <1>8, BridgeAssumption DEF Arm, Go, DspStep
<1>9. CASE Activate
  BY <1>9, BridgeAssumption DEF Activate, Go
<1> QED
  BY <1>1, <1>2, <1>3, <1>4, <1>5, <1>6, <1>7, <1>8, <1>9

\* Calls about pictures leave the sound alone.
LEMMA PictureCallKeepsSound ==
  ASSUME SoundInv,
         ForgetTime \/ ForgetCentroid \/ CentroidBefore \/ CentroidX \/ CentroidY \/ CentroidAfter
           \/ CentroidReturn
  PROVE  SoundInv'
<1> USE DEF SoundInv, Registry, Destroying, Sound, Rendered, HasFields, Inside, Loaded, Drained, Stopping,
            Rendering, Registered, mainVars, registryVars, dspVars, audioVars, renderVars,
            pictureVars
<1>1. CASE ForgetTime \/ ForgetCentroid
  BY <1>1, BridgeAssumption DEF ForgetTime, ForgetCentroid, Go, PlayerStep
<1>2. CASE CentroidBefore \/ CentroidX \/ CentroidY \/ CentroidAfter \/ CentroidReturn
  BY <1>2, BridgeAssumption DEF CentroidBefore, CentroidX, CentroidY, CentroidAfter, CentroidReturn,
                                Go, ReadStep
<1> QED
  BY <1>1, <1>2

\* A block looks at g_active once more after it has counted itself.
LEMMA BlockKeepsSound ==
  ASSUME SoundInv, BlockBegin \/ Audio
  PROVE  SoundInv'
<1> USE DEF SoundInv, Registry, Destroying, Sound, Rendered, HasFields, Inside, Loaded, Drained, Stopping,
            Rendering, Registered, mainVars, registryVars, dspVars, audioVars, renderVars,
            pictureVars
<1>1. CASE BlockBegin
  BY <1>1, BridgeAssumption DEF BlockBegin, NoBlock
<1>2. CASE BlockPaused
  BY <1>2, BridgeAssumption DEF BlockPaused, AudioStep, NoBlock
<1>3. CASE BlockMark
  BY <1>3, BridgeAssumption DEF BlockMark, AudioStep, NoBlock
<1>4. CASE BlockResumed
  BY <1>4, BridgeAssumption DEF BlockResumed, AudioStep
<1>5. CASE BlockShift
  BY <1>5, BridgeAssumption DEF BlockShift, AudioStep
<1>6. CASE BlockStart
  BY <1>6, BridgeAssumption DEF BlockStart, AudioStep, NoBlock
<1>7. CASE BlockEnter
  BY <1>7, BridgeAssumption DEF BlockEnter, AudioStep
<1>8. CASE BlockPlayer
  BY <1>8, BridgeAssumption DEF BlockPlayer, AudioStep
<1>8a. CASE BlockGate
  BY <1>8a, BridgeAssumption DEF BlockGate, AudioStep
<1>9. CASE BlockRead
  BY <1>9, BridgeAssumption DEF BlockRead, AudioStep
<1>10. CASE BlockPublish
  BY <1>10, BridgeAssumption DEF BlockPublish, AudioStep
<1>11. CASE BlockLeave
  BY <1>11, BridgeAssumption DEF BlockLeave, AudioStep, NoBlock
<1> QED
  BY <1>1, <1>2, <1>3, <1>4, <1>5, <1>6, <1>7, <1>8, <1>8a, <1>9, <1>10, <1>11 DEF Audio

\* A render event finds its player under the shared mutex.
LEMMA RenderKeepsSound ==
  ASSUME SoundInv, Render
  PROVE  SoundInv'
<1> USE DEF SoundInv, Registry, Destroying, Sound, Rendered, HasFields, Inside, Loaded, Drained, Stopping,
            Rendering, Registered, mainVars, registryVars, dspVars, audioVars, renderVars,
            pictureVars
<1>1. CASE RenderTake
  BY <1>1, BridgeAssumption DEF RenderTake, NoRender
<1>2. CASE RenderNothing
  BY <1>2, BridgeAssumption DEF RenderNothing, NoRender
<1>3. CASE RenderPresent
  BY <1>3, BridgeAssumption DEF RenderPresent
<1>4. CASE RenderLoad
  BY <1>4, BridgeAssumption DEF RenderLoad
<1>5. CASE RenderOdd \/ RenderX \/ RenderY \/ RenderEven
  BY <1>5, BridgeAssumption DEF RenderOdd, RenderX, RenderY, RenderEven, RenderStep
<1>6. CASE RenderPublish
  BY <1>6, BridgeAssumption DEF RenderPublish, NoRender
<1> QED
  BY <1>1, <1>2, <1>3, <1>4, <1>5, <1>6 DEF Render

\* However many players there are, and whenever they are destroyed.
LEMMA SoundIsSound == Spec => []SoundInv
<1>1. SoundInv /\ [Next]_vars => SoundInv'
  <2>1. ASSUME SoundInv, UNCHANGED vars PROVE SoundInv'
    BY <2>1 DEF vars, SoundInv, Registry, Destroying, Sound, Rendered, HasFields, Inside, Loaded, Drained,
                Stopping, Rendering, Registered, mainVars, registryVars, dspVars, audioVars,
                renderVars, pictureVars
  <2> QED
    BY <2>1, CallKeepsSound, MainKeepsSound, PictureCallKeepsSound, BlockKeepsSound,
       RenderKeepsSound
    DEF Next, Calls, Main
<1> QED
  BY <1>1, SoundInit, PTL DEF Spec

\* No render event works on a player that was deleted, and no block of sound does, though
\* the audio thread takes no lock, but for a block that loaded g_player while a schedule
\* was between its wait and its store of another player.
THEOREM NobodyUsesDestroyed == Spec => []NoUseAfterDestroy
<1>1. SoundInv => NoUseAfterDestroy
  BY DEF SoundInv, Sound, Loaded, Rendered, NoUseAfterDestroy
<1> QED
  BY <1>1, SoundIsSound, PTL

\* The resampler is reset while no block reads through it.
THEOREM QuietReset == Spec => []ResamplerIsQuiet
<1>1. SoundInv => ResamplerIsQuiet
  BY DEF SoundInv, Sound, Drained, ResamplerIsQuiet
<1> QED
  BY <1>1, SoundIsSound, PTL

-----------------------------------------------------------------------------
(* The centroid: one writer, the render thread; one reader, the main       *)
(* thread, which is also the one that resets the sequence.                 *)

Even(n) == n % 2 = 0

\* Two steps of the sequence are one picture.
LEMMA Parity ==
  \A n \in Nat : (Even(n) => ~Even(n + 1) /\ Even(n + 2)) /\ (~Unstable(n) => Even(n) /\ n # 0)
  BY DEF Even, Unstable

\* Storing one part of a centroid.
LEMMA StorePart ==
  ASSUME NEW m \in [Players -> Int \X Int], NEW p \in Players, NEW i \in {1, 2}, NEW v \in Int
  PROVE  /\ [m EXCEPT ![p][i] = v] \in [Players -> Int \X Int]
         /\ [m EXCEPT ![p][i] = v][p][i] = v
         /\ [m EXCEPT ![p][i] = v][p][3 - i] = m[p][3 - i]
         /\ \A q \in Players \ {p} : [m EXCEPT ![p][i] = v][q] = m[q]
<1>1. [m[p] EXCEPT ![i] = v] \in Int \X Int
  OBVIOUS
<1>2. [m EXCEPT ![p][i] = v] = [m EXCEPT ![p] = [m[p] EXCEPT ![i] = v]]
  OBVIOUS
<1>3. [m[p] EXCEPT ![i] = v][i] = v /\ [m[p] EXCEPT ![i] = v][3 - i] = m[p][3 - i]
  OBVIOUS
<1> QED
  BY <1>1, <1>2, <1>3

Counters == [blocks : Nat, schedules : Nat, seeks : Nat, events : Nat]

PictureTyped ==
  /\ sequence \in [Players -> Nat] /\ centroid \in [Players -> Int \X Int]
  /\ events \in Seq(Nat) /\ left \in Counters
  /\ render.seq \in Nat
  /\ HasFields(reader, {"before", "x", "y", "tries"}) /\ reader.before \in Nat

Writing(p) == render.at \in {"x", "y", "even"} /\ render.who = p

\* The sequence is odd while a centroid is written, or zero if a seek reset it
\* meanwhile: a reader takes neither.
Writer ==
  /\ render.at \in {"odd", "x", "y", "even"} => Even(render.seq)
  /\ render.at = "odd" => sequence[render.who] \in {render.seq, 0}
  /\ render.at \in {"x", "y", "even"} => sequence[render.who] \in {render.seq + 1, 0}
  /\ \A p \in Players : Even(sequence[p]) \/ Writing(p)

\* Parts of two pictures are there only between the two stores.
Parts ==
  /\ \A p \in Players : centroid[p][1] = centroid[p][2] \/ (render.at = "y" /\ render.who = p)
  /\ render.at = "y" => centroid[render.who][1] = left.events + Len(events)

\* A sequence that was taken is the present one, and so are the values, or it will
\* never be seen again.
Reader ==
  /\ pc \in {"x", "y", "after"} =>
       /\ Even(reader.before) /\ reader.before # 0
       /\ \/ sequence[target] > reader.before
          \/ /\ sequence[target] = reader.before
             /\ pc \in {"y", "after"} => reader.x = centroid[target][1]
             /\ pc = "after" => reader.y = centroid[target][2]
  /\ pc = "whole" => reader.x = reader.y

PictureInv == PictureTyped /\ Writer /\ Parts /\ Reader

\* Nothing has been shown.
LEMMA PictureInit == Init => PictureInv
<1> USE DEF Init, PictureTyped, Writer, Parts, Reader, Writing, HasFields, NoRender, NoRead, None
<1>1. Even(0)
  BY DEF Even
<1>2. Init => PictureTyped
  BY BridgeAssumption DEF Counters
<1>3. Init => Writer
  BY <1>1
<1>4. Init => Parts /\ Reader
  OBVIOUS
<1> QED
  BY <1>2, <1>3, <1>4 DEF PictureInv

\* What neither shows a picture nor reads a centroid leaves the invariant alone.
LEMMA ElsewhereKeepsPicture ==
  ASSUME PictureInv, UNCHANGED <<sequence, centroid, render>>,
         left' \in Counters, events' \in Seq(Nat),
         left'.events + Len(events') = left.events + Len(events),
         \/ UNCHANGED <<pc, target, reader>>
         \/ pc' \notin {"x", "y", "after", "whole"} /\ reader' \in {reader, NoRead}
  PROVE  PictureInv'
  BY DEF PictureInv, PictureTyped, Writer, Parts, Reader, Writing, HasFields, NoRead

\* A budget that is spent stays a budget, and an event that is issued waits.
LEMMA Spending ==
  ASSUME left \in Counters
  PROVE  /\ left.schedules > 0 => /\ [left EXCEPT !.schedules = @ - 1] \in Counters
                                  /\ [left EXCEPT !.schedules = @ - 1].events = left.events
         /\ left.seeks > 0 => /\ [left EXCEPT !.seeks = @ - 1] \in Counters
                              /\ [left EXCEPT !.seeks = @ - 1].events = left.events
         /\ left.blocks > 0 => /\ [left EXCEPT !.blocks = @ - 1] \in Counters
                               /\ [left EXCEPT !.blocks = @ - 1].events = left.events
         /\ left.events > 0 => /\ [left EXCEPT !.events = @ - 1] \in Counters
                               /\ [left EXCEPT !.events = @ - 1].events = left.events - 1
  BY DEF Counters

\* A call to issue an event moves one from the budget to the queue; no other touches
\* a picture.
LEMMA CallKeepsPicture ==
  ASSUME SoundInv, PictureInv, NEW p \in Players,
         Create(p) \/ Destroy(p) \/ Schedule(p) \/ StopSound(p) \/ Open(p) \/ Seek(p)
           \/ IssueEvent(p) \/ CentroidBegin(p)
  PROVE  PictureInv'
<1> USE DEF PictureInv, PictureTyped, mainVars, registryVars, dspVars, audioVars, renderVars,
            pictureVars
<1> DEFINE Elsewhere ==
      /\ UNCHANGED <<sequence, centroid, render>> /\ left' \in Counters /\ events' \in Seq(Nat)
      /\ left'.events + Len(events') = left.events + Len(events)
      /\ \/ UNCHANGED <<pc, target, reader>>
         \/ pc' \notin {"x", "y", "after", "whole"} /\ reader' \in {reader, NoRead}
<1>1. CASE Create(p)
  <2> Elsewhere
    BY <1>1 DEF Create
  <2> QED
    BY ElsewhereKeepsPicture
<1>2. CASE Destroy(p)
  <2> Elsewhere
    BY <1>2 DEF Destroy, Enter
  <2> QED
    BY ElsewhereKeepsPicture
<1>3. CASE Schedule(p)
  <2> Elsewhere
    BY <1>3, Spending DEF Schedule, Enter
  <2> QED
    BY ElsewhereKeepsPicture
<1>4. CASE StopSound(p)
  <2> Elsewhere
    BY <1>4 DEF StopSound, Enter
  <2> QED
    BY ElsewhereKeepsPicture
<1>5. CASE Open(p)
  <2> Elsewhere
    BY <1>5, Spending DEF Open, Enter, PlayerStep
  <2> QED
    BY ElsewhereKeepsPicture
<1>6. CASE Seek(p)
  <2> Elsewhere
    BY <1>6, Spending DEF Seek, Enter, PlayerStep
  <2> QED
    BY ElsewhereKeepsPicture
<1>7. CASE IssueEvent(p)
  <2> Elsewhere
    BY <1>7, Spending DEF IssueEvent, SoundInv, Registry, Counters
  <2> QED
    BY ElsewhereKeepsPicture
<1>8. CASE CentroidBegin(p)
  <2> Elsewhere
    BY <1>8 DEF CentroidBegin, Enter
  <2> QED
    BY ElsewhereKeepsPicture
<1> QED
  BY <1>1, <1>2, <1>3, <1>4, <1>5, <1>6, <1>7, <1>8

\* Sound leaves pictures alone.
LEMMA SoundKeepsPicture ==
  ASSUME SoundInv, PictureInv,
         Erase \/ Deactivate \/ Forget \/ Drain \/ ResetClock \/ Unpause \/ ForgetPause \/ Arm \/ Activate
           \/ BlockBegin \/ Audio
  PROVE  PictureInv'
<1> USE DEF PictureInv, PictureTyped, mainVars, registryVars, dspVars, audioVars, renderVars,
            pictureVars
<1> DEFINE Elsewhere ==
      /\ UNCHANGED <<sequence, centroid, render>> /\ left' \in Counters /\ events' \in Seq(Nat)
      /\ left'.events + Len(events') = left.events + Len(events)
      /\ \/ UNCHANGED <<pc, target, reader>>
         \/ pc' \notin {"x", "y", "after", "whole"} /\ reader' \in {reader, NoRead}
<1>1. CASE Erase \/ Activate
  <2> Elsewhere
    BY <1>1 DEF Erase, Activate, Go
  <2> QED
    BY ElsewhereKeepsPicture
<1>2. CASE Deactivate
  <2> Elsewhere
    BY <1>2 DEF Deactivate, Go, DspStep
  <2> QED
    BY ElsewhereKeepsPicture
<1>3. CASE Forget
  <2> Elsewhere
    BY <1>3 DEF Forget, Go, DspStep
  <2> QED
    BY ElsewhereKeepsPicture
<1>4. CASE Drain
  <2> Elsewhere
    BY <1>4 DEF Drain, Go, DspStep
  <2> QED
    BY ElsewhereKeepsPicture
<1>5. CASE ResetClock
  <2> Elsewhere
    BY <1>5 DEF ResetClock, Go, DspStep
  <2> QED
    BY ElsewhereKeepsPicture
<1>6. CASE Unpause
  <2> Elsewhere
    BY <1>6 DEF Unpause, Go, DspStep
  <2> QED
    BY ElsewhereKeepsPicture
<1>7. CASE ForgetPause
  <2> Elsewhere
    BY <1>7 DEF ForgetPause, Go, DspStep
  <2> QED
    BY ElsewhereKeepsPicture
<1>8. CASE Arm
  <2> Elsewhere
    BY <1>8 DEF Arm, Go, DspStep
  <2> QED
    BY ElsewhereKeepsPicture
<1>9. CASE BlockBegin
  <2> Elsewhere
    BY <1>9, Spending DEF BlockBegin
  <2> QED
    BY ElsewhereKeepsPicture
<1>10. CASE Audio
  <2> Elsewhere
    BY <1>10 DEF Audio, AudioStep, BlockPaused, BlockMark, BlockResumed, BlockShift, BlockStart,
                 BlockEnter, BlockPlayer, BlockGate, BlockRead, BlockPublish, BlockLeave
  <2> QED
    BY ElsewhereKeepsPicture
<1> QED
  BY <1>1, <1>2, <1>3, <1>4, <1>5, <1>6, <1>7, <1>8, <1>9, <1>10

\* The reader, and a seek that resets the sequence under the writer.
LEMMA ReaderKeepsPicture ==
  ASSUME SoundInv, PictureInv,
         ForgetTime \/ ForgetCentroid \/ CentroidBefore \/ CentroidX \/ CentroidY \/ CentroidAfter
           \/ CentroidReturn
  PROVE  PictureInv'
<1> USE DEF SoundInv, Registry, Rendered, HasFields, Rendering, Registered, PictureInv,
            PictureTyped, Writer, Parts, Reader, Writing, mainVars, registryVars, dspVars,
            audioVars, renderVars, pictureVars
<1>1. CASE ForgetTime
  BY <1>1 DEF ForgetTime, Go, PlayerStep
<1>2. CASE ForgetCentroid
  BY <1>2 DEF ForgetCentroid, Go, PlayerStep, Even
<1>3. CASE CentroidBefore
  BY <1>3, Parity DEF CentroidBefore, Go, ReadStep
<1>4. CASE CentroidX
  BY <1>4 DEF CentroidX, Go, ReadStep
<1>5. CASE CentroidY
  BY <1>5 DEF CentroidY, Go, ReadStep
<1>6. CASE CentroidAfter
  BY <1>6, Parity DEF CentroidAfter, Go, ReadStep
<1>7. CASE CentroidReturn
  BY <1>7 DEF CentroidReturn, Go, ReadStep, NoRead
<1> QED
  BY <1>1, <1>2, <1>3, <1>4, <1>5, <1>6, <1>7

\* The writer passes through an odd sequence.
LEMMA WriterKeepsPicture ==
  ASSUME SoundInv, PictureInv, Render
  PROVE  PictureInv'
<1> USE DEF SoundInv, Registry, Rendered, HasFields, Rendering, Registered, PictureInv,
            PictureTyped, Writer, Parts, Reader, Writing, mainVars, registryVars, dspVars,
            audioVars, renderVars, pictureVars
<1>1. CASE RenderTake
  BY <1>1, SMTT(30) DEF RenderTake, NoRender
<1>2. CASE RenderNothing
  BY <1>2 DEF RenderNothing, NoRender
<1>3. CASE RenderPresent
  BY <1>3 DEF RenderPresent
<1>4. CASE RenderLoad
  BY <1>4 DEF RenderLoad
<1>5. CASE RenderOdd
  BY <1>5, Parity, SMTT(30) DEF RenderOdd, RenderStep
<1>6. CASE RenderX
  <2> DEFINE w == render.who
             v == left.events + Len(events)
  <2>1. /\ render.at = "x" /\ w \in Players /\ v \in Int
        /\ UNCHANGED <<pc, target, reader, events, left, sequence>>
        /\ centroid' = [centroid EXCEPT ![w][1] = v]
        /\ centroid \in [Players -> Int \X Int]
    BY <1>6 DEF RenderX, RenderStep, Counters
  <2>2. HasFields(render', {"at", "who", "shows", "seq"}) /\ render'.at = "y" /\ render'.who = w
        /\ render'.seq = render.seq
    BY <1>6 DEF RenderX, RenderStep
  <2>3. /\ centroid' \in [Players -> Int \X Int]
        /\ centroid'[w][1] = v /\ centroid'[w][2] = centroid[w][2]
        /\ \A q \in Players \ {w} : centroid'[q] = centroid[q]
    <3> HIDE DEF w, v
    <3> QED
      BY <2>1, StorePart, 3 - 1 = 2, SMTT(30)
  <2>4. PictureTyped' /\ Writer'
    BY <2>1, <2>2, <2>3
  <2>5. Parts'
    BY <2>1, <2>2, <2>3
  <2>6. Reader'
    <3>1. target = w /\ pc \in {"x", "y", "after"} => sequence[w] > reader.before
      BY <2>1, Parity
    <3> QED
      BY <2>1, <2>2, <2>3, <3>1
  <2> QED
    BY <2>4, <2>5, <2>6
<1>7. CASE RenderY
  <2> DEFINE w == render.who
             v == left.events + Len(events)
  <2>1. /\ render.at = "y" /\ w \in Players /\ v \in Int
        /\ UNCHANGED <<pc, target, reader, events, left, sequence>>
        /\ centroid' = [centroid EXCEPT ![w][2] = v]
        /\ centroid \in [Players -> Int \X Int]
    BY <1>7 DEF RenderY, RenderStep, Counters
  <2>2. HasFields(render', {"at", "who", "shows", "seq"}) /\ render'.at = "even" /\ render'.who = w
        /\ render'.seq = render.seq
    BY <1>7 DEF RenderY, RenderStep
  <2>3. /\ centroid' \in [Players -> Int \X Int]
        /\ centroid'[w][2] = v /\ centroid'[w][1] = centroid[w][1]
        /\ \A q \in Players \ {w} : centroid'[q] = centroid[q]
    <3> HIDE DEF w, v
    <3> QED
      BY <2>1, StorePart, 3 - 2 = 1
  <2>4. PictureTyped' /\ Writer'
    BY <2>1, <2>2, <2>3
  <2>5. Parts'
    BY <2>1, <2>2, <2>3
  <2>6. Reader'
    <3>1. target = w /\ pc \in {"x", "y", "after"} => sequence[w] > reader.before
      BY <2>1, Parity
    <3> QED
      BY <2>1, <2>2, <2>3, <3>1
  <2> QED
    BY <2>4, <2>5, <2>6
<1>8. CASE RenderEven
  <2> DEFINE w == render.who
  <2>1. /\ render.at = "even" /\ w \in Players
        /\ UNCHANGED <<pc, target, reader, events, left, centroid>>
        /\ sequence' = [sequence EXCEPT ![w] = render.seq + 2]
    BY <1>8 DEF RenderEven, RenderStep
  <2>2. HasFields(render', {"at", "who", "shows", "seq"}) /\ render'.at = "publish" /\ render'.who = w
        /\ render'.seq = render.seq
    BY <1>8 DEF RenderEven, RenderStep
  <2>3. Even(render.seq + 2) /\ ~Even(render.seq + 1)
    BY <2>1, Parity
  <2>4. PictureTyped' /\ Writer'
    BY <2>1, <2>2, <2>3, SMTT(30)
  <2>5. Parts'
    BY <2>1, <2>2
  <2>6. Reader'
    <3>1. target = w /\ pc \in {"x", "y", "after"} => sequence'[w] > reader.before
      BY <2>1, <2>3
    <3> QED
      BY <2>1, <2>2, <3>1
  <2> QED
    BY <2>4, <2>5, <2>6
<1>9. CASE RenderPublish
  BY <1>9 DEF RenderPublish, NoRender
<1> QED
  BY <1>1, <1>2, <1>3, <1>4, <1>5, <1>6, <1>7, <1>8, <1>9 DEF Render

\* However many pictures are shown while a centroid is read, and whenever a seek
\* falls between them.
LEMMA PictureIsSound == Spec => []PictureInv
<1>1. SoundInv /\ PictureInv /\ [Next]_vars => PictureInv'
  <2>1. ASSUME PictureInv, UNCHANGED vars PROVE PictureInv'
    BY <2>1 DEF vars, HasFields, PictureInv, PictureTyped, Writer, Parts, Reader, Writing,
                mainVars, renderVars, pictureVars
  <2> QED
    BY <2>1, CallKeepsPicture, SoundKeepsPicture, ReaderKeepsPicture, WriterKeepsPicture
    DEF Next, Calls, Main
<1> QED
  BY <1>1, PictureInit, SoundIsSound, PTL DEF Spec

\* geometry_centroid() returns the parts of one picture, without a lock.
THEOREM WholeCentroid == Spec => []CentroidIsWhole
<1>1. PictureInv => CentroidIsWhole
  BY DEF PictureInv, Reader, CentroidIsWhole
<1> QED
  BY <1>1, PictureIsSound, PTL

-----------------------------------------------------------------------------
(* The clock.                                                              *)

\* Up to which tick sound was read: of a block that has not read, up to its own.
ReadTo ==
  CASE audio = "idle" -> IF paused THEN pauseStart ELSE now
    [] audio \in {"resumed", "paused"} -> IF paused THEN pauseStart ELSE block.tick
    [] audio = "shift" -> pauseStart
    [] audio \in {"publish", "leave"} -> now
    [] OTHER -> block.tick

\* Where the block is in the pause that it begins or ends, and in its copy of the start.
InPause ==
  /\ audio = "mark" => paused
  /\ audio \notin {"idle", "resumed", "paused", "mark"} => ~paused
  /\ paused /\ audio = "idle" => pauseStart <= now
  /\ (paused /\ audio \in {"resumed", "paused"}) \/ audio = "shift" => pauseStart <= block.tick
  /\ audio = "gate" => block.who # Nobody
  /\ audio \in {"enter", "reader", "gate", "read"} => block.start = startTick /\ startTick < block.tick + Block

Ticks ==
  /\ now \in Int /\ startTick \in Int /\ pauseStart \in Int /\ consumed \in Int
  /\ block.tick \in Int /\ block.start \in Int /\ paused \in BOOLEAN

\* A schedule that found the mixer idle keeps it idle until it raises g_active; from
\* then on a player is heard, and what was consumed is accounted for.
ClockInv ==
  /\ Ticks
  /\ audio # "idle" => now = block.tick + Block
  /\ pc \in {"arm", "activate"} => op = "schedule"
  /\ op = "schedule" => ~active
  /\ active \/ pc = "activate" => player # Nobody
  /\ clean /\ op = "schedule" =>
       audio = "idle" /\ (pc \in {"unpause2", "arm", "activate"} => ~paused)
  /\ clean /\ active => InPause /\ consumed = Larger(0, ReadTo - startTick)

LEMMA ClockInit == Init => ClockInv
<1> SUFFICES ASSUME Init PROVE ClockInv
  OBVIOUS
<1>1. Ticks
  <2>1. block.tick = 0 /\ block.start = 0
    BY DEF Init, NoBlock
  <2>2. now = Block /\ startTick = 0 /\ pauseStart = 0 /\ consumed = 0 /\ paused = FALSE
    BY DEF Init
  <2>3. Block \in Nat
    BY BridgeAssumption
  <2>4. now \in Int /\ startTick \in Int /\ pauseStart \in Int /\ consumed \in Int
    BY <2>2, <2>3
  <2>5. paused \in BOOLEAN
    BY <2>2
  <2>6. block.tick \in Int /\ block.start \in Int
    BY <2>1
  <2> QED
    BY <2>4, <2>5, <2>6 DEF Ticks
<1>2. audio = "idle" /\ pc = "idle" /\ op = "none" /\ ~active /\ ~clean
  BY DEF Init
<1> QED
  BY <1>1, <1>2 DEF ClockInv

\* Whatever leaves the sound's variables alone leaves the clock alone.
LEMMA ElsewhereKeepsClock ==
  ASSUME ClockInv, UNCHANGED <<dspVars, audioVars, clean>>,
         op' # "schedule" \/ (op' = op /\ pc' = pc),
         pc' \in {"arm", "activate"} => pc' = pc /\ op' = op
  PROVE  ClockInv'
BY DEF ClockInv, Ticks, InPause, ReadTo, dspVars, audioVars

\* The main thread: calls on pictures, and calls on sound until they raise g_active.
LEMMA CallKeepsClock ==
  ASSUME SoundInv, ClockInv, Calls
  PROVE  ClockInv'
<1>1. PICK p \in Players :
        \/ Create(p) \/ Destroy(p) \/ Schedule(p) \/ StopSound(p) \/ Open(p) \/ Seek(p)
        \/ IssueEvent(p) \/ CentroidBegin(p)
  BY DEF Calls
<1>2. CASE Create(p) \/ IssueEvent(p)
  BY <1>2, ElsewhereKeepsClock DEF Create, IssueEvent, mainVars
<1>3. CASE Destroy(p) \/ StopSound(p) \/ Open(p) \/ Seek(p) \/ CentroidBegin(p)
  BY <1>3, ElsewhereKeepsClock DEF Destroy, StopSound, Open, Seek, CentroidBegin, Enter, PlayerStep
<1>4. CASE Schedule(p)
  BY <1>4 DEF Schedule, Enter, ClockInv, Ticks, audioVars
<1> QED
  BY <1>1, <1>2, <1>3, <1>4

LEMMA MainKeepsClock ==
  ASSUME SoundInv, ClockInv, Main
  PROVE  ClockInv'
<1>0. Block \in Int /\ Leads \subseteq Int
  BY BridgeAssumption
<1> USE DEF DspStep, audioVars
<1>1. CASE Erase \/ ForgetTime \/ ForgetCentroid \/ CentroidBefore \/ CentroidX \/ CentroidY
           \/ CentroidAfter \/ CentroidReturn
  <2>1. UNCHANGED <<dspVars, audioVars, clean>>
    BY <1>1 DEF Erase, ForgetTime, ForgetCentroid, CentroidBefore, CentroidX, CentroidY,
                CentroidAfter, CentroidReturn, PlayerStep, ReadStep
  <2>2. /\ pc' \in {"idle", "forgetCentroid", "before", "x", "y", "after", "whole"}
        /\ op' = op \/ op' = "none"
    BY <1>1 DEF Erase, ForgetTime, ForgetCentroid, CentroidBefore, CentroidX, CentroidY,
                CentroidAfter, CentroidReturn, Go
  <2> QED
    BY <2>1, <2>2 DEF ClockInv, Ticks, InPause, ReadTo, dspVars
<1>2. CASE Deactivate \/ Forget
  <2>1. ~active' /\ op' = op /\ pc' \in {"forget", "drain"} /\ clean' = clean
        /\ UNCHANGED <<startTick, paused, pauseStart, audioVars>>
    BY <1>2 DEF Deactivate, Forget, Go, SoundInv, Sound, Drained
  <2> QED
    BY <2>1 DEF ClockInv, Ticks
<1>3. CASE Drain
  <2>1. UNCHANGED <<dspVars, audioVars, clean, op>> /\ pc' = "reset"
    BY <1>3 DEF Drain, Go
  <2> QED
    BY <2>1 DEF ClockInv, Ticks, InPause, ReadTo, dspVars
<1>4. CASE ResetClock
  <2>1. /\ ~active /\ active' = active /\ op' = op /\ pc' = "unpause" /\ startTick' \in Int
        /\ UNCHANGED <<player, paused, pauseStart, audioVars, clean>>
    BY <1>0, <1>4 DEF ResetClock, Go, SoundInv, Sound, Drained, ClockInv, Ticks
  <2> QED
    BY <2>1 DEF ClockInv, Ticks
<1>5. CASE Unpause
  <2>1. /\ ~active /\ active' = active /\ op' = op /\ pc' = "unpause2" /\ ~paused' /\ paused' \in BOOLEAN
        /\ UNCHANGED <<player, startTick, pauseStart, audioVars, clean>>
    BY <1>5 DEF Unpause, Go, SoundInv, Sound, Drained
  <2> QED
    BY <2>1 DEF ClockInv, Ticks
<1>6. CASE ForgetPause
  <2>1. /\ ~active /\ active' = active /\ pc = "unpause2" /\ pauseStart' = 0
        /\ (op = "schedule" /\ op' = op /\ pc' = "arm") \/ (op # "schedule" /\ op' # "schedule" /\ pc' \in {"idle", "erase"})
        /\ UNCHANGED <<player, startTick, paused, audioVars, clean>>
    BY <1>6 DEF ForgetPause, Go, SoundInv, Sound, Drained
  <2> QED
    BY <2>1 DEF ClockInv, Ticks
<1>7. CASE Arm
  <2>1. /\ ~active /\ active' = active /\ pc = "arm" /\ op' = op /\ pc' = "activate" /\ player' # Nobody
        /\ UNCHANGED <<startTick, paused, pauseStart, audio, readers, now, consumed, clean>>
    BY <1>7, BridgeAssumption DEF Arm, Go, SoundInv, Sound, Drained, Registry
  <2>2. block'.tick = block.tick /\ block'.start = block.start
    BY <1>7 DEF Arm, SoundInv, HasFields
  <2> QED
    BY <2>1, <2>2 DEF ClockInv, Ticks
<1>8. CASE Activate
  <2>1. /\ pc = "activate" /\ pc' = "idle" /\ op' = "none" /\ active' /\ consumed' = 0
        /\ clean' => clean /\ startTick >= now
        /\ UNCHANGED <<player, startTick, paused, pauseStart, audio, readers, now, block>>
    BY <1>8 DEF Activate, Go
  <2>2. clean' => audio = "idle" /\ ~paused /\ startTick >= now
    BY <2>1 DEF ClockInv
  <2>3. clean' => InPause' /\ consumed' = Larger(0, ReadTo' - startTick')
    BY <2>1, <2>2 DEF ClockInv, Ticks, InPause, ReadTo, Larger
  <2> QED
    BY <2>1, <2>3 DEF ClockInv, Ticks
<1> QED
  BY <1>1, <1>2, <1>3, <1>4, <1>5, <1>6, <1>7, <1>8 DEF Main

\* A step of the audio thread keeps whole ticks, and works on one block.
LEMMA AudioTicks ==
  ASSUME SoundInv, Ticks, Audio
  PROVE  Ticks' /\ (audio' # "idle" => block'.tick = block.tick)
<1>0. Block \in Int
  BY BridgeAssumption
<1>1. HasFields(block, {"tick", "start", "who", "overtaken"})
  BY DEF SoundInv
<1>2. now' = now
  BY DEF Audio, AudioStep, BlockPaused, BlockMark, BlockResumed, BlockShift, BlockStart, BlockEnter,
         BlockPlayer, BlockGate, BlockRead, BlockPublish, BlockLeave
<1>3. NoBlock.tick = 0 /\ NoBlock.start = 0
  BY DEF NoBlock
<1> USE <1>2 DEF Ticks, AudioStep
<1>4. CASE BlockPaused
  <2>1. paused' = TRUE /\ UNCHANGED <<startTick, pauseStart, consumed>>
    BY <1>4 DEF BlockPaused
  <2>2. (block' = NoBlock /\ audio' = "idle") \/ block' = block
    BY <1>4 DEF BlockPaused
  <2> QED
    BY <1>3, <2>1, <2>2
<1>5. CASE BlockMark
  BY <1>3, <1>5 DEF BlockMark
<1>6. CASE BlockResumed \/ BlockEnter \/ BlockPublish
  BY <1>6 DEF BlockResumed, BlockEnter, BlockPublish
<1>7. CASE BlockShift
  BY <1>7 DEF BlockShift, Larger
<1>8. CASE BlockStart
  <2>1. UNCHANGED <<paused, startTick, pauseStart, consumed>>
    BY <1>8 DEF BlockStart
  <2>2. \/ block' = NoBlock /\ audio' = "idle"
        \/ block'.tick = block.tick /\ block'.start = startTick
    BY <1>1, <1>8 DEF BlockStart, HasFields
  <2> QED
    BY <1>3, <2>1, <2>2
<1>9. CASE BlockPlayer
  <2>1. UNCHANGED <<paused, startTick, pauseStart, consumed>>
    BY <1>9 DEF BlockPlayer
  <2>2. block'.tick = block.tick /\ block'.start = block.start
    BY <1>1, <1>9 DEF BlockPlayer, HasFields
  <2> QED
    BY <2>1, <2>2
<1>10. CASE BlockRead
  BY <1>0, <1>10 DEF BlockRead, Larger
<1>11. CASE BlockLeave
  BY <1>3, <1>11 DEF BlockLeave
<1>12. CASE BlockGate
  BY <1>12 DEF BlockGate
<1> QED
  BY <1>4, <1>5, <1>6, <1>7, <1>8, <1>9, <1>10, <1>11, <1>12 DEF Audio

\* A step of the audio thread while nothing is to be accounted for.
LEMMA UnheardBlock ==
  ASSUME SoundInv, ClockInv, BlockBegin \/ Audio, ~(clean /\ active)
  PROVE  ClockInv'
<1>0. Block \in Int
  BY BridgeAssumption
<1>1. CASE BlockBegin
  <2>1. /\ UNCHANGED <<pc, op, active, player, startTick, paused, pauseStart, consumed, clean>>
        /\ now' = now + Block /\ audio = "idle" /\ (~active => audio' = "idle")
        /\ audio' # "idle" => block'.tick = now
        /\ block'.tick \in Int /\ block'.start \in Int
    BY <1>1 DEF BlockBegin, mainVars, dspVars, NoBlock, ClockInv, Ticks
  <2> QED
    BY <1>0, <2>1 DEF ClockInv, Ticks
<1>2. CASE Audio
  <2>1. UNCHANGED <<pc, op, active, player, now, clean>> /\ audio # "idle"
    BY <1>2 DEF Audio, BlockPaused, BlockMark, BlockResumed, BlockShift, BlockStart, BlockEnter,
       BlockPlayer, BlockGate, BlockRead, BlockPublish, BlockLeave, AudioStep, mainVars
  <2>2. Ticks' /\ (audio' # "idle" => block'.tick = block.tick)
    BY <1>0, <1>2, AudioTicks DEF ClockInv
  <2> QED
    BY <2>1, <2>2 DEF ClockInv
<1> QED
  BY <1>1, <1>2

\* A block that is heard: each step accounts for what it reads.
LEMMA HeardBlock ==
  ASSUME SoundInv, ClockInv, BlockBegin \/ Audio, clean, active
  PROVE  ClockInv'
<1>0. Block \in Int /\ Block > 0
  BY BridgeAssumption
<1>1. Ticks /\ InPause /\ consumed = Larger(0, ReadTo - startTick) /\ player # Nobody
      /\ (audio # "idle" => now = block.tick + Block) /\ block = [f \in {"tick", "start", "who", "overtaken"} |-> block[f]]
  BY DEF ClockInv, SoundInv, HasFields
<1>2. ASSUME UNCHANGED <<pc, op, active, player, clean>>, Ticks', audio' # "idle" => now' = block'.tick + Block,
             InPause', consumed' = Larger(0, ReadTo' - startTick')
      PROVE  ClockInv'
  BY <1>2 DEF ClockInv
<1> USE DEF Ticks, InPause, ReadTo
<1>3. CASE BlockBegin
  BY <1>0, <1>1, <1>2, <1>3 DEF BlockBegin, mainVars, dspVars, NoBlock
<1>4. CASE BlockPaused
  <2>1. /\ audio = "paused" /\ paused' = TRUE
        /\ UNCHANGED <<pc, op, active, player, now, clean, startTick, pauseStart, consumed>>
    BY <1>4 DEF BlockPaused, AudioStep, mainVars
  <2>2. IF paused THEN audio' = "idle" /\ block' = NoBlock ELSE audio' = "mark" /\ block' = block
    BY <1>4 DEF BlockPaused, AudioStep
  <2>3. Ticks'
    BY <1>1, <1>4, AudioTicks DEF Audio
  <2>4. CASE paused
    <3>1. ReadTo = pauseStart /\ ReadTo' = pauseStart
      BY <2>1, <2>2, <2>4
    <3>2. pauseStart <= now
      BY <1>0, <1>1, <2>1, <2>4
    <3>3. InPause'
      BY <2>1, <2>2, <2>4, <3>2
    <3> QED
      BY <1>1, <1>2, <2>1, <2>2, <2>3, <2>4, <3>1, <3>3
  <2>5. CASE ~paused
    <3>1. ReadTo = block.tick /\ ReadTo' = block.tick
      BY <2>1, <2>2, <2>5
    <3>2. InPause'
      BY <2>1, <2>2, <2>5
    <3> QED
      BY <1>1, <1>2, <2>1, <2>2, <2>3, <2>5, <3>1, <3>2
  <2> QED
    BY <2>4, <2>5
<1>5. CASE BlockMark
  BY <1>0, <1>1, <1>2, <1>5 DEF BlockMark, AudioStep, mainVars, NoBlock
<1>6. CASE BlockResumed
  BY <1>0, <1>1, <1>2, <1>6 DEF BlockResumed, AudioStep, mainVars
<1>7. CASE BlockShift
  BY <1>0, <1>1, <1>2, <1>7 DEF BlockShift, AudioStep, mainVars, Larger
<1>8. CASE BlockStart
  <2>1. /\ audio = "start" /\ ~paused
        /\ UNCHANGED <<pc, op, active, player, now, clean, startTick, paused, pauseStart, consumed>>
    BY <1>1, <1>8 DEF BlockStart, AudioStep, mainVars
  <2>2. Ticks'
    BY <1>8, AudioTicks, <1>1 DEF Audio
  <2>3. CASE block.tick + Block <= startTick
    <3>1. audio' = "idle"
      BY <1>8, <2>3 DEF BlockStart, AudioStep
    <3>2. ReadTo = block.tick /\ ReadTo' = now
      BY <2>1, <3>1
    <3>3. consumed = Larger(0, now - startTick)
      BY <1>0, <1>1, <2>1, <2>3, <3>2 DEF Larger
    <3> QED
      BY <1>2, <2>1, <2>2, <3>1, <3>2, <3>3
  <2>4. CASE ~(block.tick + Block <= startTick)
    <3>1. audio' = "enter" /\ block' = [block EXCEPT !.start = startTick]
      BY <1>8, <2>4 DEF BlockStart, AudioStep
    <3>2. block'.tick = block.tick /\ block'.start = startTick
      BY <1>1, <3>1
    <3>3. ReadTo = block.tick /\ ReadTo' = block.tick
      BY <2>1, <3>1, <3>2
    <3>4. startTick < block.tick + Block
      BY <1>0, <1>1, <2>4
    <3> QED
      BY <1>1, <1>2, <2>1, <2>2, <3>1, <3>2, <3>3, <3>4
  <2> QED
    BY <2>3, <2>4
<1>9. CASE BlockEnter
  BY <1>0, <1>1, <1>2, <1>9 DEF BlockEnter, AudioStep, mainVars
<1>10. CASE BlockPlayer
  BY <1>0, <1>1, <1>2, <1>10 DEF BlockPlayer, AudioStep, mainVars
<1>11. CASE BlockRead
  BY <1>0, <1>1, <1>2, <1>11 DEF BlockRead, AudioStep, mainVars, Larger
<1>12. CASE BlockPublish
  BY <1>0, <1>1, <1>2, <1>12 DEF BlockPublish, AudioStep, mainVars
<1>13. CASE BlockLeave
  BY <1>0, <1>1, <1>2, <1>13 DEF BlockLeave, AudioStep, mainVars, NoBlock
<1>14. CASE BlockGate
  BY <1>0, <1>1, <1>2, <1>14 DEF BlockGate, AudioStep, mainVars
<1> QED
  BY <1>3, <1>4, <1>5, <1>6, <1>7, <1>8, <1>9, <1>10, <1>11, <1>12, <1>13, <1>14 DEF Audio

\* For every size of a block, lead and number of pauses: after a schedule that found the
\* mixer idle the clock counts exactly the sound that was read.
THEOREM ClockIsExact == Spec => []ClockCountsSound
<1>1. SoundInv /\ ClockInv /\ [Next]_vars => ClockInv'
  <2> SUFFICES ASSUME SoundInv, ClockInv, [Next]_vars PROVE ClockInv'
    OBVIOUS
  <2>1. CASE Render
    BY <2>1, ElsewhereKeepsClock DEF Render, RenderTake, RenderNothing, RenderPresent, RenderLoad,
       RenderOdd, RenderX, RenderY, RenderEven, RenderPublish, RenderStep, mainVars
  <2>2. CASE UNCHANGED vars
    BY <2>2, ElsewhereKeepsClock DEF vars, mainVars
  <2> QED
    BY <2>1, <2>2, CallKeepsClock, MainKeepsClock, UnheardBlock, HeardBlock DEF Next
<1>2. ClockInv => ClockCountsSound
  BY DEF ClockInv, ReadTo, ClockCountsSound
<1> QED
  BY <1>1, <1>2, ClockInit, SoundIsSound, PTL DEF Spec

-----------------------------------------------------------------------------
(* The component: the fields that matter.                                  *)

\* The fields that the argument is about, and that the others exist.
Fields ==
  {"state", "position", "loop", "remote", "audio", "playOnStart", "waitPicture", "waitSound",
   "recovering", "target", "settle", "rebuffering", "resume", "networkTarget", "lagging", "started",
   "asked", "fresh", "looped", "presented", "sounding", "primed"}
Formed(x) ==
  /\ DOMAIN x = Fields /\ x = [f \in Fields |-> x[f]]
  /\ x.sounding \in BOOLEAN /\ x.audio \in BOOLEAN
  /\ x.rebuffering \in BOOLEAN /\ x.remote \in BOOLEAN

\* States in which a component is silent.
Held == {"UNINITIALISED", "REBUFFERING", "PAUSED", "STOPPED", "INIT_FAIL"}
Quiet(x) == x.sounding => x.state \notin Held

\* Sound may begin only outside an outage, which only a remote file has.
Settled(x) == Formed(x) /\ ~x.rebuffering /\ Quiet(x)
Sane(x) == Formed(x) /\ Quiet(x) /\ (x.rebuffering => x.remote /\ ~x.sounding)

-----------------------------------------------------------------------------
(* The methods.                                                            *)

\* Stopping the sound, and a seek, which stops it first.
LEMMA SilentMethods ==
  ASSUME NEW x, Formed(x)
  PROVE  /\ Formed(Silent(x)) /\ ~Silent(x).sounding /\ Silent(x).rebuffering = x.rebuffering
         /\ Formed(Sought(x)) /\ ~Sought(x).sounding /\ Sought(x).rebuffering = x.rebuffering
  BY DEF Formed, Fields, Silent, Sought

\* Asking for a picture may stop the sound at the end of a pass and starts none.
LEMMA AskKeeps ==
  ASSUME NEW x, Settled(x), NEW time, NEW ok
  PROVE  Settled(Ask(x, time, ok)) /\ Ask(x, time, ok).state = x.state
  BY ZenonT(30) DEF Settled, Formed, Fields, Quiet, Ask

\* The timeline is scheduled with its sound.
LEMMA ScheduleSettles ==
  ASSUME NEW x, Formed(x), ~x.rebuffering
  PROVE  Settled(SchedulePlayback(x))
  BY DEF Settled, Formed, Fields, Quiet, Held, SchedulePlayback

\* The timeline is held for a picture.
LEMMA HoldSettles ==
  ASSUME NEW x, Formed(x), ~x.rebuffering, NEW t
  PROVE  Settled(HoldFor(x, t))
  BY DEF Settled, Formed, Fields, Quiet, Held, HoldFor

\* Playing schedules the timeline or holds it for a picture or for sound.
LEMMA PlaySettles ==
  ASSUME NEW x, Settled(x), NEW ok
  PROVE  Settled(Play(x, ok))
<1>1. CASE x.state \in {"INIT_FAIL", "UNINITIALISED"}
  BY <1>1 DEF Play
<1>2. CASE x.state \notin {"INIT_FAIL", "UNINITIALISED"} /\ AtEnd(x)
  <2> DEFINE start == [Sought(x) EXCEPT !.position = 0]
  <2>1. Formed(start) /\ ~start.rebuffering
    BY DEF Settled, Formed, Fields, Sought
  <2>2. Settled(HoldFor(start, 0))
    BY <2>1, HoldSettles
  <2>3. Settled([Silent(x) EXCEPT !.state = "INIT_FAIL"])
    BY DEF Settled, Formed, Fields, Quiet, Silent
  <2> QED
    BY <1>2, <2>2, <2>3 DEF Play
<1>3. CASE x.state \notin {"INIT_FAIL", "UNINITIALISED"} /\ ~AtEnd(x)
  <2> DEFINE ready == [x EXCEPT !.waitSound = FALSE]
  <2>1. Formed(ready) /\ ~ready.rebuffering
    BY DEF Settled, Formed, Fields
  <2>2. Settled(HoldFor(x, x.position)) /\ Settled(SchedulePlayback(ready))
    BY <2>1, HoldSettles, ScheduleSettles DEF Settled
  <2>3. Settled([Silent(x) EXCEPT !.waitSound = TRUE, !.state = "PREROLLING"])
    BY DEF Settled, Formed, Fields, Quiet, Silent
  <2> QED
    BY <1>3, <2>2, <2>3 DEF Play
<1> QED
  BY <1>1, <1>2, <1>3

\* Pausing and stopping at the end silence it.
LEMMA PauseSettles ==
  ASSUME NEW x, Settled(x)
  PROVE  Settled(PausePlayback(x)) /\ Settled(StopAtEnd(x))
<1>1. Settled(StopAtEnd(x))
  BY ZenonT(90) DEF Settled, Formed, Fields, Quiet, Silent, StopAtEnd
<1>2. CASE ~Moves(x)
  BY <1>1, <1>2 DEF PausePlayback
<1>3. CASE Moves(x)
  BY <1>1, <1>3, ZenonT(30) DEF PausePlayback, Settled, Formed, Fields, Quiet, Silent
<1> QED
  BY <1>2, <1>3

\* A seek goes on playing if it played, and pauses if it did not.
LEMMA SeekSettles ==
  ASSUME NEW x, Settled(x), NEW t, NEW ok
  PROVE  Settled(SeekTimeline(x, t, ok))
<1>1. CASE ~x.started
  BY <1>1 DEF SeekTimeline
<1>2. CASE x.started /\ ~ok
  BY <1>2 DEF SeekTimeline, Settled, Formed, Fields, Quiet, Silent
<1>3. CASE x.started /\ ok
  <2> DEFINE there == [Sought(x) EXCEPT !.position = t]
             halted == [there EXCEPT !.state = "PAUSED"]
  <2>1. Settled(there) /\ Settled(halted)
    BY ZenonT(30) DEF Settled, Formed, Fields, Quiet, Sought
  <2>2. Settled(Play(there, ok)) /\ Settled(Ask(halted, t, ok))
    BY <2>1, PlaySettles, AskKeeps
  <2> QED
    BY <1>3, <2>2 DEF SeekTimeline
<1> QED
  BY <1>1, <1>2, <1>3

\* So does a recovery from a decoder that lags.
LEMMA TryRecoverSettles ==
  ASSUME NEW x, Settled(x), NEW long
  PROVE  Settled(TryRecover(x, long))
  BY ZenonT(30) DEF TryRecover, Settled, Formed, Fields, Quiet, Silent

-----------------------------------------------------------------------------
(* The steps.                                                              *)

\* A component that is settled is sane, and one that is sane is settled unless
\* it waits for the network.
LEMMA SettledIsSane ==
  ASSUME NEW x
  PROVE  /\ Settled(x) => Sane(x)
         /\ Sane(x) /\ ~x.rebuffering => Settled(x)
  BY DEF Settled, Sane, Formed

\* What an update does at the beginning and at the end of an outage.
LEMMA NetworkStep ==
  ASSUME Sane(c), BeginRebuffering \/ RecoveryFailed \/ Recovered \/ SourceError
  PROVE  Sane(c')
<1>1. CASE BeginRebuffering
  BY <1>1, ZenonT(30) DEF BeginRebuffering, Updated, Sane, Formed, Fields, Quiet, Silent
<1>2. CASE RecoveryFailed
  BY <1>2 DEF RecoveryFailed, Updated, Sane, Formed, Fields, Quiet
<1>3. CASE SourceError
  BY <1>3 DEF SourceError, Updated, Sane, Formed, Fields, Quiet, Silent
<1>4. CASE Recovered
  <2> DEFINE there == [Sought(c) EXCEPT !.rebuffering = FALSE, !.position = c.networkTarget]
             resumed == [there EXCEPT !.recovering = TRUE, !.target = c.networkTarget,
                                      !.settle = "first", !.state = "PREROLLING"]
             halted == [there EXCEPT !.state = "PAUSED"]
             failed == [Silent(c) EXCEPT !.rebuffering = FALSE, !.state = "INIT_FAIL"]
  <2>1. Settled(resumed) /\ Settled(halted) /\ Settled(failed)
    <3>1. Settled(resumed)
      BY ZenonT(30) DEF Sane, Settled, Formed, Fields, Quiet, Sought, Silent
    <3>2. Settled(halted)
      BY ZenonT(30) DEF Sane, Settled, Formed, Fields, Quiet, Sought, Silent
    <3>3. Settled(failed)
      BY ZenonT(30) DEF Sane, Settled, Formed, Fields, Quiet, Sought, Silent
    <3> QED
      BY <3>1, <3>2, <3>3
  <2>2. PICK ok \in BOOLEAN :
          c' = IF ~ok THEN failed
               ELSE IF c.resume THEN Ask(resumed, c.networkTarget, ok)
               ELSE Ask(halted, c.networkTarget, ok)
    BY <1>4 DEF Recovered, Updated
  <2>3. Settled(Ask(resumed, c.networkTarget, ok)) /\ Settled(Ask(halted, c.networkTarget, ok))
    BY <2>1, AskKeeps
  <2>4. Settled(c')
    BY <2>1, <2>2, <2>3
  <2> QED
    BY <2>4, SettledIsSane
<1> QED
  BY <1>1, <1>2, <1>3, <1>4

\* What it does while the timeline is held for a picture, for a decoder, for sound.
LEMMA AwaitStep ==
  ASSUME Settled(c), AwaitPicture \/ AwaitRecovery \/ AwaitSound
  PROVE  Settled(c')
<1>1. CASE AwaitPicture
  <2> DEFINE x == Ask(c, 0, TRUE)
             ready == [x EXCEPT !.waitPicture = FALSE, !.position = 0, !.state = "INITIALISED"]
  <2>1. Settled(x)
    BY AskKeeps
  <2>2. Settled(ready)
    BY <2>1 DEF Settled, Formed, Fields, Quiet, Held
  <2>3. Settled(SchedulePlayback(ready))
    BY <2>2, ScheduleSettles DEF Settled
  <2>4. c' \in {x, ready, SchedulePlayback(ready)}
    BY <1>1 DEF AwaitPicture, Updated
  <2> QED
    BY <2>1, <2>2, <2>3, <2>4
<1>2. CASE AwaitRecovery
  <2>1. PICK ok \in BOOLEAN :
          LET x == Ask(c, c.target, ok)
              over == [x EXCEPT !.settle = "none", !.recovering = FALSE, !.position = c.target]
          IN c' \in {x, [x EXCEPT !.settle = "wait"], Play(over, ok)}
    BY <1>2 DEF AwaitRecovery, Updated
  <2> DEFINE x == Ask(c, c.target, ok)
             over == [x EXCEPT !.settle = "none", !.recovering = FALSE, !.position = c.target]
  <2>2. Settled(x)
    BY AskKeeps
  <2>3. Settled([x EXCEPT !.settle = "wait"]) /\ Settled(over)
    BY <2>2 DEF Settled, Formed, Fields, Quiet
  <2>4. Settled(Play(over, ok))
    BY <2>3, PlaySettles
  <2> QED
    BY <2>1, <2>2, <2>3, <2>4
<1>3. CASE AwaitSound
  <2> DEFINE x == Ask(c, c.position, TRUE)
             ready == [x EXCEPT !.waitSound = FALSE]
  <2>1. Settled(x)
    BY AskKeeps
  <2>2. Formed(ready) /\ ~ready.rebuffering
    BY <2>1 DEF Settled, Formed, Fields
  <2>3. Settled(SchedulePlayback(ready)) /\ Settled(StopAtEnd(c))
    BY <2>2, ScheduleSettles, PauseSettles
  <2>4. c' \in {x, SchedulePlayback(ready), StopAtEnd(c)}
    BY <1>3 DEF AwaitSound, Updated
  <2> QED
    BY <2>1, <2>3, <2>4
<1> QED
  BY <1>1, <1>2, <1>3

\* What it does while the timeline moves, or jumps.
LEMMA TimelineStep ==
  ASSUME Settled(c), Tick \/ Resynchronise
  PROVE  Settled(c')
<1>1. CASE Tick
  <2>1. PICK step \in Steps, ok \in BOOLEAN, long \in BOOLEAN :
          LET x == [c EXCEPT !.state = "PLAYING", !.position = c.position + step]
              asked == Ask(x, x.position, ok)
          IN c' \in {StopAtEnd(x), Play([asked EXCEPT !.looped = FALSE, !.position = 0], ok),
                     TryRecover(asked, long)}
    BY <1>1 DEF Tick, Updated
  <2> DEFINE x == [c EXCEPT !.state = "PLAYING", !.position = c.position + step]
             asked == Ask(x, x.position, ok)
             again == [asked EXCEPT !.looped = FALSE, !.position = 0]
  <2>2. Settled(x)
    BY DEF Settled, Formed, Fields, Quiet, Held
  <2>3. Settled(asked)
    BY <2>2, AskKeeps
  <2>4. Settled(again)
    BY <2>3 DEF Settled, Formed, Fields, Quiet
  <2>5. Settled(StopAtEnd(x)) /\ Settled(Play(again, ok)) /\ Settled(TryRecover(asked, long))
    BY <2>2, <2>3, <2>4, PauseSettles, PlaySettles, TryRecoverSettles
  <2> QED
    BY <2>1, <2>5
<1>2. CASE Resynchronise
  <2>1. PICK t \in 0 .. Duration - 1, ok \in BOOLEAN :
          c' = SeekTimeline([c EXCEPT !.state = "PLAYING"], t, ok)
    BY <1>2 DEF Resynchronise, Updated
  <2>2. Settled([c EXCEPT !.state = "PLAYING"])
    BY DEF Settled, Formed, Fields, Quiet, Held
  <2> QED
    BY <2>1, <2>2, SeekSettles
<1> QED
  BY <1>1, <1>2

\* The application's calls, none of which falls into an outage.
LEMMA CallStep ==
  ASSUME Sane(c), "outage" \notin CallsDuring, CallPlay \/ CallPause \/ CallSeek \/ ToggleLoop
  PROVE  Settled(c')
<1>1. Settled(c)
  BY SettledIsSane DEF Call, Hold, CallPlay, CallPause, CallSeek, ToggleLoop
<1>2. CASE CallPlay
  BY <1>1, <1>2, PlaySettles DEF CallPlay, Call
<1>3. CASE CallPause
  BY <1>1, <1>3, PauseSettles DEF CallPause, Call
<1>4. CASE CallSeek
  BY <1>1, <1>4, SeekSettles DEF CallSeek, Call
<1>5. CASE ToggleLoop
  BY <1>1, <1>5 DEF ToggleLoop, Call, Settled, Formed, Fields, Quiet
<1> QED
  BY <1>2, <1>3, <1>4, <1>5

\* What the decoder does by itself, and the beginning.
LEMMA OtherStep ==
  ASSUME Sane(c), Start \/ Present \/ Refill \/ Underrun
  PROVE  Sane(c')
<1>1. CASE Start
  <2>1. ~c.sounding
    BY <1>1 DEF Start, Sane, Quiet, Held
  <2>2. CASE c' = [c EXCEPT !.state = "INIT_FAIL"]
    BY <2>1, <2>2 DEF Sane, Formed, Fields, Quiet
  <2>3. ASSUME NEW hasSound \in {c.audio, FALSE},
               c' = [c EXCEPT !.state = "PREROLLING", !.waitPicture = TRUE, !.position = 0,
                              !.started = TRUE, !.audio = hasSound]
        PROVE  Sane(c')
    BY <2>1, <2>3 DEF Sane, Formed, Fields, Quiet
  <2> QED
    BY <1>1, <2>2, <2>3 DEF Start
<1>2. CASE Present
  BY <1>2 DEF Present, Sane, Formed, Fields, Quiet
<1>3. CASE Refill
  BY <1>3 DEF Refill, Sane, Formed, Fields, Quiet
<1>4. CASE Underrun
  BY <1>4 DEF Underrun, Sane, Formed, Fields, Quiet
<1> QED
  BY <1>1, <1>2, <1>3, <1>4

\* Every step keeps the component sane.
LEMMA NextStep ==
  ASSUME Sane(c), "outage" \notin CallsDuring, [PlaybackNext]_playbackVars
  PROVE  Sane(c')
<1>1. CASE BeginRebuffering \/ RecoveryFailed \/ Recovered \/ SourceError
  BY <1>1, NetworkStep
<1>2. CASE AwaitPicture \/ AwaitRecovery \/ AwaitSound \/ Tick \/ Resynchronise
  <2>1. Settled(c)
    BY <1>2, SettledIsSane
       DEF AwaitPicture, AwaitRecovery, AwaitSound, Tick, Resynchronise, Timeline, Online, Sane
  <2> QED
    BY <1>2, <2>1, AwaitStep, TimelineStep, SettledIsSane
<1>3. CASE CallPlay \/ CallPause \/ CallSeek \/ ToggleLoop
  BY <1>3, CallStep, SettledIsSane
<1>4. CASE Start \/ Present \/ Refill \/ Underrun
  BY <1>4, OtherStep
<1>5. CASE Outage \/ Restored \/ ReadToEnd \/ UNCHANGED playbackVars
  BY <1>5 DEF Outage, Restored, ReadToEnd, playbackVars
<1> QED
  BY <1>1, <1>2, <1>3, <1>4, <1>5 DEF PlaybackNext, Update

-----------------------------------------------------------------------------
\* For every file, clock and number of calls and outages: the component is silent
\* while it waits for the network, is halted, has ended or has failed, if the
\* application calls it only outside outages.
THEOREM SilentWhileHeld ==
  ASSUME "outage" \notin CallsDuring
  PROVE  PlaybackSpec => []HeldInSilence
<1>1. PlaybackInit => Sane(c)
  BY DEF PlaybackInit, Sane, Formed, Fields, Quiet
<1>2. Sane(c) /\ [PlaybackNext]_playbackVars => Sane(c)'
  BY NextStep
<1>3. Sane(c) => HeldInSilence
  BY DEF Sane, Quiet, Held, HeldInSilence
<1> QED
  BY <1>1, <1>2, <1>3, PTL DEF PlaybackSpec

-----------------------------------------------------------------------------
(* The loop that nobody asked for.                                         *)

\* The numbers of a component are numbers, and only a remote file has an outage.
WholeRecord(x) == DOMAIN x = Fields /\ x = [f \in Fields |-> x[f]]
Counted(x) ==
  /\ WholeRecord(x)
  /\ x.position \in Nat /\ x.asked \in Nat /\ x.target \in Nat /\ x.networkTarget \in Nat
  /\ x.presented \in Int
  /\ x.rebuffering => x.remote

\* What a method leaves: a component that is counted, with a loop only if there was one.
Uninvited(y, x) == Counted(y) /\ (y.looped => x.looped)

\* The picture of a time on the timeline.
LEMMA Remainder ==
  ASSUME NEW t \in Nat
  PROVE  t % Duration \in Nat /\ (t < Duration => t % Duration = t)
BY PlaybackAssumption

\* A question for a picture; only one that crosses the end starts the file again.
LEMMA AskCounts ==
  ASSUME NEW x, Counted(x), NEW time \in Nat, NEW ok
  PROVE  /\ Counted(Ask(x, time, ok))
         /\ ~Crosses(x, time % Duration) => Ask(x, time, ok).looped = x.looped
<1> DEFINE frame == time % Duration
           shown == [x EXCEPT !.asked = frame, !.fresh = FALSE]
           again == [shown EXCEPT !.looped = TRUE, !.sounding = FALSE, !.presented = -1, !.primed = FALSE]
           failed == [x EXCEPT !.looped = TRUE, !.sounding = FALSE]
<1>1. frame \in Nat /\ -1 \in Int
  BY Remainder
<1>2. Ask(x, time, ok) = IF ~Crosses(x, frame) THEN shown ELSE IF ok THEN again ELSE failed
  BY DEF Ask
<1> HIDE DEF frame
<1>3. Counted(shown) /\ shown.looped = x.looped
  BY <1>1 DEF Counted, WholeRecord, Fields
<1>4. Counted(again)
  <2> HIDE DEF shown
  <2> QED
    BY <1>1, <1>3 DEF Counted, WholeRecord, Fields
<1>5. Counted(failed)
  BY DEF Counted, WholeRecord, Fields
<1> HIDE DEF shown, again, failed
<1> QED
  BY <1>2, <1>3, <1>4, <1>5 DEF frame

\* The silent methods, the schedule, the end of the file and a hold.
LEMMA SmallMethods ==
  ASSUME NEW x, Counted(x)
  PROVE  /\ Uninvited(Silent(x), x) /\ Uninvited(Sought(x), x) /\ ~Sought(x).looped
         /\ Uninvited(SchedulePlayback(x), x) /\ Uninvited(StopAtEnd(x), x)
         /\ \A t \in Nat : Uninvited(HoldFor(x, t), x)
<1>0. -1 \in Int /\ Duration \in Nat
  BY PlaybackAssumption
<1> USE DEF Uninvited, Counted, WholeRecord, Fields
<1>1. Uninvited(Silent(x), x)
  BY DEF Silent
<1>2. Uninvited(Sought(x), x) /\ ~Sought(x).looped
  BY <1>0 DEF Sought
<1>3. Uninvited(SchedulePlayback(x), x)
  BY DEF SchedulePlayback
<1>4. Uninvited(StopAtEnd(x), x)
  BY <1>0, ZenonT(90) DEF StopAtEnd, Silent
<1>5. ASSUME NEW t \in Nat
      PROVE  Uninvited(HoldFor(x, t), x)
  BY <1>5, ZenonT(90) DEF HoldFor
<1> QED
  BY <1>1, <1>2, <1>3, <1>4, <1>5

\* Play: from the end it starts at the beginning, and that is not a loop.
LEMMA PlayCounts ==
  ASSUME NEW x, Counted(x), NEW ok
  PROVE  Uninvited(Play(x, ok), x)
<1> DEFINE start == [Sought(x) EXCEPT !.position = 0]
           failed == [Silent(x) EXCEPT !.state = "INIT_FAIL"]
           waiting == [Silent(x) EXCEPT !.waitSound = TRUE, !.state = "PREROLLING"]
           ready == [x EXCEPT !.waitSound = FALSE]
<1>1. Uninvited(start, x)
  <2>1. Uninvited(Sought(x), x)
    BY SmallMethods
  <2> QED
    BY <2>1 DEF Uninvited, Counted, WholeRecord, Fields
<1>2. Uninvited(failed, x) /\ Uninvited(waiting, x)
  <2>1. Uninvited(Silent(x), x)
    BY SmallMethods
  <2> QED
    BY <2>1 DEF Uninvited, Counted, WholeRecord, Fields
<1>3. Uninvited(ready, x)
  BY DEF Uninvited, Counted, WholeRecord, Fields
<1>4. Play(x, ok) \in {x, HoldFor(start, 0), failed, HoldFor(x, x.position), waiting, SchedulePlayback(ready)}
  BY DEF Play
<1> HIDE DEF start, failed, waiting, ready
<1>5. Uninvited(HoldFor(start, 0), start) /\ Uninvited(HoldFor(x, x.position), x) /\ Uninvited(SchedulePlayback(ready), ready)
  <2>1. x.position \in Nat
    BY DEF Counted
  <2> QED
    BY <1>1, <1>3, <2>1, SmallMethods DEF Uninvited
<1>6. Uninvited(HoldFor(start, 0), x) /\ Uninvited(HoldFor(x, x.position), x) /\ Uninvited(SchedulePlayback(ready), x)
      /\ Uninvited(x, x)
  BY <1>1, <1>3, <1>5 DEF Uninvited
<1> QED
  BY <1>2, <1>4, <1>6

\* Pause: the position it keeps is within the file.
LEMMA PauseCounts ==
  ASSUME NEW x, Counted(x)
  PROVE  Uninvited(PausePlayback(x), x)
<1> DEFINE at == IF x.loop THEN x.position % Duration ELSE IF x.position > Duration THEN Duration ELSE x.position
<1>1. at \in Nat
  BY Remainder, PlaybackAssumption DEF Counted
<1>2. PausePlayback(x) = IF ~Moves(x) THEN x
                         ELSE [Silent(x) EXCEPT !.position = at, !.waitSound = FALSE, !.state = "PAUSED"]
  BY DEF PausePlayback
<1> HIDE DEF at
<1>3. Uninvited(Silent(x), x)
  BY SmallMethods
<1>4. Uninvited([Silent(x) EXCEPT !.position = at, !.waitSound = FALSE, !.state = "PAUSED"], x)
  BY <1>1, <1>3 DEF Uninvited, Counted, WholeRecord, Fields
<1> QED
  BY <1>2, <1>4 DEF Uninvited

\* A seek of a timeline that moves does not ask for a picture.
LEMMA SeekCounts ==
  ASSUME NEW x, Counted(x), NEW t \in Nat, NEW ok
  PROVE  /\ Counted(SeekTimeline(x, t, ok))
         /\ Moves(x) => Uninvited(SeekTimeline(x, t, ok), x)
<1> DEFINE there == [Sought(x) EXCEPT !.position = t]
           halted == [there EXCEPT !.state = "PAUSED"]
<1>1. Uninvited(there, x)
  <2>1. Uninvited(Sought(x), x)
    BY SmallMethods
  <2> QED
    BY <2>1 DEF Uninvited, Counted, WholeRecord, Fields
<1>2. SeekTimeline(x, t, ok) = IF ~x.started THEN x ELSE IF ~ok THEN Silent(x)
                               ELSE IF Moves(x) THEN Play(there, ok) ELSE Ask(halted, t, ok)
  BY DEF SeekTimeline
<1> HIDE DEF there
<1>3. Counted(halted)
  BY <1>1 DEF Uninvited, Counted, WholeRecord, Fields
<1> HIDE DEF halted
<1>4. Uninvited(Play(there, ok), x)
  BY <1>1, PlayCounts DEF Uninvited
<1>5. Counted(Ask(halted, t, ok))
  BY <1>3, AskCounts
<1>6. Uninvited(Silent(x), x) /\ Uninvited(x, x)
  BY SmallMethods DEF Uninvited
<1> QED
  BY <1>2, <1>4, <1>5, <1>6 DEF Uninvited

\* A picture that lags behind is recovered where the timeline stands.
LEMMA TryRecoverCounts ==
  ASSUME NEW x, Counted(x), NEW long
  PROVE  Uninvited(TryRecover(x, long), x)
<1> DEFINE at == x.position % Duration
           noted(b) == [x EXCEPT !.lagging = b]
           begun == [Silent(x) EXCEPT !.lagging = FALSE, !.recovering = TRUE, !.position = at, !.target = at]
<1>1. at \in Nat
  BY Remainder DEF Counted
<1>2. TryRecover(x, long) = IF ~Lags(x) THEN noted(x.lagging /\ x.presented < 0)
                            ELSE IF ~x.lagging THEN noted(TRUE) ELSE IF ~long THEN x ELSE begun
  BY DEF TryRecover
<1> HIDE DEF at
<1>3. \A b : Uninvited(noted(b), x)
  BY DEF Uninvited, Counted, WholeRecord, Fields
<1>4. Uninvited(begun, x)
  <2>1. Uninvited(Silent(x), x)
    BY SmallMethods
  <2> QED
    BY <1>1, <2>1 DEF Uninvited, Counted, WholeRecord, Fields
<1> HIDE DEF noted, begun
<1> QED
  BY <1>2, <1>3, <1>4 DEF Uninvited

\* What stays of a component whose other fields are set.
LEMMA SetOther ==
  ASSUME NEW x, Counted(x), NEW v
  PROVE  /\ Uninvited([x EXCEPT !.state = v], x)
         /\ Uninvited([x EXCEPT !.primed = v], x)
         /\ Uninvited([x EXCEPT !.settle = v], x)
         /\ Uninvited([x EXCEPT !.waitSound = v], x)
         /\ v \in Int => Uninvited([x EXCEPT !.presented = v], x)
<1> USE DEF Uninvited, Counted, WholeRecord, Fields
<1>1. Uninvited([x EXCEPT !.state = v], x)
  OBVIOUS
<1>2. Uninvited([x EXCEPT !.primed = v], x)
  OBVIOUS
<1>3. Uninvited([x EXCEPT !.settle = v], x)
  OBVIOUS
<1>4. Uninvited([x EXCEPT !.waitSound = v], x)
  OBVIOUS
<1>5. v \in Int => Uninvited([x EXCEPT !.presented = v], x)
  OBVIOUS
<1> QED
  BY <1>1, <1>2, <1>3, <1>4, <1>5

\* An outage, its end and its failure.
LEMMA NetworkCounts ==
  ASSUME Counted(c), BeginRebuffering \/ RecoveryFailed \/ Recovered \/ SourceError
  PROVE  /\ Counted(c')
         /\ ~Recovered => Uninvited(c', c)
<1>1. Uninvited(Silent(c), c) /\ Uninvited(Sought(c), c)
  BY SmallMethods
<1>2. ASSUME BeginRebuffering PROVE Uninvited(c', c)
  <2> DEFINE at == IF c.presented >= 0 THEN c.presented
                   ELSE IF c.position > Duration THEN Duration ELSE c.position
  <2>1. at \in Nat
    BY PlaybackAssumption DEF Counted
  <2>2. c' = [Silent(c) EXCEPT !.rebuffering = TRUE, !.resume = Moves(c), !.networkTarget = at,
                               !.position = at, !.state = "REBUFFERING", !.recovering = FALSE,
                               !.settle = "none"]
        /\ c.remote
    BY <1>2 DEF BeginRebuffering, Updated
  <2>3. Silent(c).remote = c.remote
    BY DEF Silent, Counted, WholeRecord, Fields
  <2> HIDE DEF at
  <2> QED
    BY <1>1, <2>1, <2>2, <2>3 DEF Uninvited, Counted, WholeRecord, Fields
<1>3. ASSUME RecoveryFailed PROVE Uninvited(c', c)
  BY <1>3 DEF RecoveryFailed, Updated, Uninvited, Counted, WholeRecord, Fields
<1>4. ASSUME SourceError PROVE Uninvited(c', c)
  BY <1>1, <1>4 DEF SourceError, Updated, Uninvited, Counted, WholeRecord, Fields
<1>5. ASSUME Recovered PROVE Counted(c')
  <2> DEFINE there == [Sought(c) EXCEPT !.rebuffering = FALSE, !.position = c.networkTarget]
             resumed == [there EXCEPT !.recovering = TRUE, !.target = c.networkTarget,
                                      !.settle = "first", !.state = "PREROLLING"]
             halted == [there EXCEPT !.state = "PAUSED"]
             failed == [Silent(c) EXCEPT !.rebuffering = FALSE, !.state = "INIT_FAIL"]
  <2>1. c.networkTarget \in Nat
    BY DEF Counted
  <2>2. Counted(there) /\ Counted(failed)
    BY <1>1, <2>1 DEF Uninvited, Counted, WholeRecord, Fields
  <2>3. PICK ok \in BOOLEAN :
          c' = IF ~ok THEN failed
               ELSE IF c.resume THEN Ask(resumed, c.networkTarget, ok)
               ELSE Ask(halted, c.networkTarget, ok)
    BY <1>5 DEF Recovered, Updated
  <2> HIDE DEF there, failed
  <2>4. Counted(resumed) /\ Counted(halted)
    BY <2>1, <2>2 DEF Counted, WholeRecord, Fields
  <2> HIDE DEF resumed, halted
  <2>5. Counted(Ask(resumed, c.networkTarget, ok)) /\ Counted(Ask(halted, c.networkTarget, ok))
    BY <2>1, <2>4, AskCounts
  <2> QED
    BY <2>2, <2>3, <2>5
<1> QED
  BY <1>2, <1>3, <1>4, <1>5 DEF Uninvited

\* The holds.
LEMMA AwaitCounts ==
  ASSUME Counted(c), AwaitPicture \/ AwaitRecovery \/ AwaitSound
  PROVE  Counted(c')
<1>1. CASE AwaitPicture
  <2> DEFINE x == Ask(c, 0, TRUE)
             ready == [x EXCEPT !.waitPicture = FALSE, !.position = 0, !.state = "INITIALISED"]
  <2>1. Counted(x)
    BY AskCounts
  <2>2. c' \in {x, ready, SchedulePlayback(ready)}
    BY <1>1 DEF AwaitPicture, Updated
  <2> HIDE DEF x
  <2>3. Counted(ready)
    BY <2>1 DEF Counted, WholeRecord, Fields
  <2> HIDE DEF ready
  <2>4. Counted(SchedulePlayback(ready))
    BY <2>3, SmallMethods DEF Uninvited
  <2> QED
    BY <2>1, <2>2, <2>3, <2>4
<1>2. CASE AwaitRecovery
  <2>1. PICK ok \in BOOLEAN :
          LET x == Ask(c, c.target, ok)
              over == [x EXCEPT !.settle = "none", !.recovering = FALSE, !.position = c.target]
          IN c' \in {x, [x EXCEPT !.settle = "wait"], Play(over, ok)}
    BY <1>2 DEF AwaitRecovery, Updated
  <2> DEFINE x == Ask(c, c.target, ok)
             over == [x EXCEPT !.settle = "none", !.recovering = FALSE, !.position = c.target]
  <2>2. c.target \in Nat
    BY DEF Counted
  <2>3. Counted(x)
    BY <2>2, AskCounts
  <2>4. c' \in {x, [x EXCEPT !.settle = "wait"], Play(over, ok)}
    BY <2>1
  <2> HIDE DEF x
  <2>5. Counted(over)
    BY <2>2, <2>3 DEF Counted, WholeRecord, Fields
  <2> HIDE DEF over
  <2>6. Counted(Play(over, ok)) /\ Counted([x EXCEPT !.settle = "wait"])
    BY <2>3, <2>5, PlayCounts, SetOther DEF Uninvited
  <2> QED
    BY <2>3, <2>4, <2>6
<1>3. CASE AwaitSound
  <2> DEFINE x == Ask(c, c.position, TRUE)
             ready == [x EXCEPT !.waitSound = FALSE]
  <2>1. Counted(x)
    <3>1. c.position \in Nat
      BY DEF Counted
    <3> QED
      BY <3>1, AskCounts
  <2>2. c' \in {x, SchedulePlayback(ready), StopAtEnd(c)}
    BY <1>3 DEF AwaitSound, Updated
  <2> HIDE DEF x
  <2>3. Counted(ready)
    BY <2>1, SetOther DEF Uninvited
  <2> HIDE DEF ready
  <2>4. Counted(SchedulePlayback(ready)) /\ Counted(StopAtEnd(c))
    BY <2>3, SmallMethods DEF Uninvited
  <2> QED
    BY <2>1, <2>2, <2>4
<1> QED
  BY <1>1, <1>2, <1>3

\* A tick within the file asks for a picture that is not before the last one.
LEMMA TickCounts ==
  ASSUME Counted(c), Tick
  PROVE  /\ Counted(c')
         /\ c.asked <= c.position /\ ~c.loop => (c'.looped => c.looped)
<1>1. PICK step \in Steps, ok \in BOOLEAN, long \in BOOLEAN :
        LET x == [c EXCEPT !.state = "PLAYING", !.position = c.position + step]
            asked == Ask(x, x.position, ok)
        IN c' = IF ~x.loop /\ x.position >= Duration THEN StopAtEnd(x)
                ELSE IF x.loop /\ asked.looped THEN Play([asked EXCEPT !.looped = FALSE, !.position = 0], ok)
                ELSE TryRecover(asked, long)
  BY ZenonT(60) DEF Tick, Updated
<1> DEFINE x == [c EXCEPT !.state = "PLAYING", !.position = c.position + step]
           asked == Ask(x, x.position, ok)
           again == [asked EXCEPT !.looped = FALSE, !.position = 0]
<1>2. c' = IF ~x.loop /\ x.position >= Duration THEN StopAtEnd(x)
           ELSE IF x.loop /\ asked.looped THEN Play(again, ok)
           ELSE TryRecover(asked, long)
  BY <1>1
<1>3. step \in Nat /\ c.position \in Nat /\ c.asked \in Nat /\ c.position + step \in Nat
  BY PlaybackAssumption DEF Counted
<1>4. Counted(x) /\ x.looped = c.looped /\ x.position = c.position + step /\ x.asked = c.asked /\ x.loop = c.loop
  BY <1>3 DEF Counted, WholeRecord, Fields
<1> HIDE DEF x
<1>5. Counted(asked) /\ (~Crosses(x, x.position % Duration) => asked.looped = x.looped)
  BY <1>3, <1>4, AskCounts
<1> HIDE DEF asked
<1>6. Counted(again)
  BY <1>5 DEF Counted, WholeRecord, Fields
<1> HIDE DEF again
<1>7. Uninvited(StopAtEnd(x), x) /\ Counted(Play(again, ok)) /\ Uninvited(TryRecover(asked, long), asked)
  BY <1>4, <1>5, <1>6, SmallMethods, PlayCounts, TryRecoverCounts DEF Uninvited
<1>8. Counted(c')
  BY <1>2, <1>7 DEF Uninvited
<1>9. ASSUME c.asked <= c.position, ~c.loop PROVE c'.looped => c.looped
  <2>1. CASE x.position >= Duration
    BY <1>2, <1>4, <1>7, <1>9, <2>1 DEF Uninvited
  <2>2. CASE ~(x.position >= Duration)
    <3>1. x.position % Duration = x.position
      BY <1>3, <1>4, <2>2, Remainder, PlaybackAssumption
    <3>2. ~Crosses(x, x.position % Duration)
      BY <1>3, <1>4, <1>9, <3>1 DEF Crosses
    <3>3. c' = TryRecover(asked, long)
      BY <1>2, <1>4, <1>9, <2>2
    <3> QED
      BY <1>4, <1>5, <1>7, <3>2, <3>3 DEF Uninvited
  <2> QED
    BY <2>1, <2>2
<1> QED
  BY <1>8, <1>9

\* The clock jumps while the timeline moves: the seek plays on.
LEMMA JumpCounts ==
  ASSUME Counted(c), Resynchronise
  PROVE  Uninvited(c', c)
<1>1. PICK t \in 0 .. Duration - 1, ok \in BOOLEAN : c' = SeekTimeline([c EXCEPT !.state = "PLAYING"], t, ok)
  BY DEF Resynchronise, Updated
<1> DEFINE x == [c EXCEPT !.state = "PLAYING"]
<1>2. Uninvited(x, c) /\ Moves(x)
  <2>1. Uninvited(x, c)
    BY SetOther
  <2>2. x.state = "PLAYING"
    BY DEF Counted, WholeRecord, Fields
  <2> QED
    BY <2>1, <2>2 DEF Moves
<1>3. t \in Nat
  BY PlaybackAssumption
<1>4. c' = SeekTimeline(x, t, ok)
  BY <1>1
<1> HIDE DEF x
<1> QED
  BY <1>2, <1>3, <1>4, SeekCounts DEF Uninvited

\* The application: it is a seek of a halted timeline only that may cross the end.
LEMMA CallCounts ==
  ASSUME Counted(c), CallPlay \/ CallPause \/ CallSeek \/ ToggleLoop
  PROVE  Counted(c') /\ (Moves(c) => (c'.looped => c.looped))
<1>1. CASE CallPlay
  BY <1>1, PlayCounts DEF CallPlay, Call, Uninvited
<1>2. CASE CallPause
  BY <1>2, PauseCounts DEF CallPause, Call, Uninvited
<1>3. CASE CallSeek
  <2>1. PICK t \in 0 .. Duration, ok \in BOOLEAN : c' = SeekTimeline(c, t, ok)
    BY <1>3 DEF CallSeek, Call
  <2>2. t \in Nat
    BY PlaybackAssumption
  <2> QED
    BY <2>1, <2>2, SeekCounts DEF Uninvited
<1>4. CASE ToggleLoop
  BY <1>4 DEF ToggleLoop, Call, Counted, WholeRecord, Fields
<1> QED
  BY <1>1, <1>2, <1>3, <1>4

\* Start, the decoder, and what does not touch the component.
LEMMA OtherCounts ==
  ASSUME Counted(c), Start \/ Present \/ Refill \/ Underrun
  PROVE  Uninvited(c', c)
<1>1. CASE Start
  <2>1. CASE c' = [c EXCEPT !.state = "INIT_FAIL"]
    BY <2>1, SetOther
  <2>2. ASSUME NEW hasSound, c' = [c EXCEPT !.state = "PREROLLING", !.waitPicture = TRUE, !.position = 0,
                                            !.started = TRUE, !.audio = hasSound]
        PROVE  Uninvited(c', c)
    BY <2>2 DEF Uninvited, Counted, WholeRecord, Fields
  <2> QED
    BY <1>1, <2>1, <2>2 DEF Start
<1>2. CASE Present
  <2>1. PICK t \in 0 .. Duration - 1 : c' = [c EXCEPT !.presented = t]
    BY <1>2 DEF Present
  <2>2. t \in Int
    BY PlaybackAssumption
  <2> QED
    BY <2>1, <2>2, SetOther
<1>3. CASE Refill \/ Underrun
  BY <1>3, SetOther DEF Refill, Underrun
<1> QED
  BY <1>1, <1>2, <1>3

\* Every step; of an update only a tick can cross the end.
LEMMA StepCounts ==
  ASSUME Counted(c), [PlaybackNext]_playbackVars
  PROVE  /\ Counted(c')
         /\ Timeline /\ c.asked <= c.position /\ c'.looped /\ ~c.looped => c.loop
<1>1. CASE BeginRebuffering \/ RecoveryFailed \/ Recovered \/ SourceError
  <2>1. Timeline => ~Recovered
    BY DEF Timeline, Online, Recovered, Counted
  <2> QED
    BY <1>1, <2>1, NetworkCounts DEF Uninvited
<1>2. CASE AwaitPicture \/ AwaitRecovery \/ AwaitSound
  BY <1>2, AwaitCounts DEF Timeline, AwaitPicture, AwaitRecovery, AwaitSound
<1>3. CASE Tick
  BY <1>3, TickCounts
<1>4. CASE Resynchronise
  BY <1>4, JumpCounts DEF Uninvited
<1>5. CASE CallPlay \/ CallPause \/ CallSeek \/ ToggleLoop
  BY <1>5, CallCounts DEF Timeline
<1>6. CASE Start \/ Present \/ Refill \/ Underrun
  BY <1>6, OtherCounts DEF Uninvited
<1>7. CASE Outage \/ Restored \/ ReadToEnd \/ UNCHANGED playbackVars
  BY <1>7 DEF Outage, Restored, ReadToEnd, playbackVars
<1> QED
  BY <1>1, <1>2, <1>3, <1>4, <1>5, <1>6, <1>7 DEF PlaybackNext, Update

\* For every length of a file, every guard of the loop, clock, application and network:
\* a timeline that is not behind the picture it asked for last does not wrap to the
\* beginning unless the file is to loop.
THEOREM NobodyLoopsUninvited == PlaybackSpec => NoUninvitedLoop
<1>1. PlaybackInit => Counted(c)
  <2>1. -1 \in Int /\ 0 \in Nat
    OBVIOUS
  <2> QED
    BY <2>1 DEF PlaybackInit, Counted, WholeRecord, Fields
<1>2. Counted(c) /\ [PlaybackNext]_playbackVars => Counted(c)'
  BY StepCounts
<1>3. Counted(c) /\ [PlaybackNext]_playbackVars =>
        [Timeline /\ c.asked <= c.position /\ c'.looped /\ ~c.looped => c.loop]_playbackVars
  BY StepCounts
<1> QED
  BY <1>1, <1>2, <1>3, PTL DEF PlaybackSpec, NoUninvitedLoop
===============================================================================
