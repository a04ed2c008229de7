------------------------------ MODULE UnityBridge ------------------------------
(***************************************************************************)
(* The native Unity plugin between Unity's three threads and the players:  *)
(* the main thread calls the C API, the render thread runs plugin events,  *)
(* the audio thread's mixer asks for a block of sound at a time.           *)
(*                                                                         *)
(* Main and render threads meet in the registry under a shared mutex; the  *)
(* audio thread takes no lock, only the atomics of UnityAudioBridge.cpp.   *)
(* Every store and load of those that another thread can come between is   *)
(* a step.  Steps take effect in program order (see README on fences).     *)
(***************************************************************************)
EXTENDS Integers, Sequences, FiniteSets

CONSTANTS
  Players,      \* every OpenVolumetricPlayer the host may create, in any order
  Block,        \* ticks in a block of the mixer
  Leads,        \* how far ahead of the next block sound is scheduled
  Budgets       \* bounds: how many blocks, schedules, seeks and render events there are

Nobody == "nobody"

ASSUME BridgeAssumption ==
  /\ Nobody \notin Players
  /\ Block \in Nat \ {0} /\ Leads \subseteq Nat
  /\ Budgets \subseteq [blocks : Nat, schedules : Nat, seeks : Nat, events : Nat]

VARIABLES
  pc, op, target,     \* the main thread: where, in which call, of which player
  alive,              \* g_instances: event id of each player that is registered
  locked,             \* g_instances_mutex is held exclusively
  active, player,     \* g_active, g_player
  startTick,          \* g_start_tick
  audioTime,          \* g_audio_time, from the scheduled media time; -1 none
  paused, pauseStart, \* g_paused, g_pause_start_tick
  audio,              \* the audio thread: where it is in its block
  readers,            \* g_readers
  now,                \* tick of the next block
  block,              \* the block: its start_tick, the player it reads, and whether
                      \* another replaced that player before the last look at g_active
  consumed,           \* ticks of sound read since sound was scheduled
  clean,              \* no block began before the schedule and ended after it
  events,             \* plugin events that wait for the render thread
  render,             \* the render thread: where, of which player, what it shows
  timeline,           \* timeline[p]: how often p was opened or sought
  presented,          \* m_last_presented_time: timeline of the picture, or None
  sequence, centroid, \* m_centroid_sequence; m_centroid_x and _y
  reader,             \* geometry_centroid(): the sequence and the values it read
  left                \* what is left of the budget

mainVars == <<pc, op, target>>
registryVars == <<alive, locked>>
dspVars == <<active, player, startTick, audioTime, paused, pauseStart>>
audioVars == <<audio, readers, now, block, consumed>>
renderVars == <<events, render>>
pictureVars == <<timeline, presented, sequence, centroid>>
vars == <<mainVars, registryVars, dspVars, audioVars, clean, renderVars, pictureVars, reader, left>>

None == 0 - 1
Registered == DOMAIN alive
Larger(a, b) == IF a > b THEN a ELSE b

NoBlock == [tick |-> 0, start |-> 0, who |-> Nobody, overtaken |-> FALSE]
NoRender == [at |-> "idle", who |-> Nobody, shows |-> None, seq |-> 0]
NoRead == [before |-> 0, x |-> None, y |-> None, tries |-> 0]

Init ==
  /\ pc = "idle" /\ op = "none" /\ target = Nobody
  /\ alive = <<>> /\ locked = FALSE
  /\ active = FALSE /\ player = Nobody /\ startTick = 0 /\ audioTime = None
  /\ paused = FALSE /\ pauseStart = 0
  /\ audio = "idle" /\ readers = 0 /\ now = Block /\ block = NoBlock /\ consumed = 0 /\ clean = FALSE
  /\ events = <<>> /\ render = NoRender
  /\ timeline = [p \in Players |-> 0] /\ presented = [p \in Players |-> None]
  /\ sequence = [p \in Players |-> 0] /\ centroid = [p \in Players |-> <<None, None>>]
  /\ reader = NoRead
  /\ left \in Budgets

-----------------------------------------------------------------------------
(* The registry.  Calls on a player hold the mutex shared until they       *)
(* return; create and destroy hold it alone.                               *)

Rendering == render.at # "idle"

\* The lowest event id that is free.
Create(p) ==
  /\ pc = "idle" /\ ~Rendering
  /\ p \notin Registered /\ timeline[p] = 0
  /\ \E free \in 0 .. Cardinality(Registered) :
       /\ \A q \in Registered : alive[q] # free
       /\ \A e \in 0 .. free - 1 : \E q \in Registered : alive[q] = e
       /\ alive' = [q \in Registered \cup {p} |-> IF q = p THEN free ELSE alive[q]]
  /\ timeline' = [timeline EXCEPT ![p] = 1]
  /\ UNCHANGED <<mainVars, locked, dspVars, audioVars, clean, renderVars, presented, sequence, centroid,
                 reader, left>>

Enter(p, call, at) ==
  /\ pc = "idle" /\ p \in Registered
  /\ op' = call /\ target' = p /\ pc' = at

Go(from, to) ==
  /\ pc = from /\ pc' = to
  /\ IF to = "idle" THEN op' = "none" /\ target' = Nobody ELSE UNCHANGED <<op, target>>

\* An iterator that was found stays valid: nobody else can take the mutex.
Destroy(p) ==
  /\ ~Rendering
  /\ Enter(p, "destroy", IF player = p THEN "off" ELSE "erase")
  /\ locked' = TRUE
  /\ UNCHANGED <<alive, dspVars, audioVars, clean, renderVars, pictureVars, reader, left>>

Erase ==
  /\ Go("erase", "idle")
  /\ alive' = [q \in Registered \ {target} |-> alive[q]]
  /\ locked' = FALSE
  /\ UNCHANGED <<dspVars, audioVars, clean, renderVars, pictureVars, reader, left>>

-----------------------------------------------------------------------------
(* schedule_dsp_audio() and stop_dsp_audio(), on the main thread.          *)

DspStep == UNCHANGED <<registryVars, audioVars, renderVars, pictureVars, reader, left>>

Schedule(p) ==
  /\ left.schedules > 0 /\ left' = [left EXCEPT !.schedules = @ - 1]
  /\ Enter(p, "schedule", "drain")
  /\ active' = FALSE
  /\ clean' = (audio = "idle")
  /\ UNCHANGED <<registryVars, player, startTick, audioTime, paused, pauseStart, audioVars,
                 renderVars, pictureVars, reader>>

\* A player that is not the one that is heard is left alone.
StopSound(p) ==
  /\ player = p /\ Enter(p, "stop", "off")
  /\ UNCHANGED <<registryVars, dspVars, audioVars, clean, renderVars, pictureVars, reader, left>>

Deactivate ==
  /\ Go("off", "forget") /\ active' = FALSE
  /\ DspStep /\ UNCHANGED <<player, startTick, audioTime, paused, pauseStart, clean>>
Forget ==
  /\ Go("forget", "drain") /\ player' = Nobody
  /\ DspStep /\ UNCHANGED <<active, startTick, audioTime, paused, pauseStart, clean>>

\* Not the code: the call does not wait for a block.
DrainAtOnce == Go("drain", "reset") /\ DspStep /\ UNCHANGED <<dspVars, clean>>

Drain == Go("drain", "reset") /\ readers = 0 /\ DspStep /\ UNCHANGED <<dspVars, clean>>

\* The resampler's state, then the clock.
ResetClock ==
  /\ Go("reset", "unpause")
  /\ IF op = "schedule"
       THEN \E lead \in Leads : startTick' = now + lead /\ audioTime' = 0
       ELSE startTick' = startTick /\ audioTime' = None
  /\ DspStep /\ UNCHANGED <<active, player, paused, pauseStart, clean>>
Unpause ==
  /\ Go("unpause", "unpause2") /\ paused' = FALSE
  /\ DspStep /\ UNCHANGED <<active, player, startTick, audioTime, pauseStart, clean>>
ForgetPause ==
  /\ Go("unpause2", CASE op = "schedule" -> "arm" [] op = "stop" -> "idle" [] OTHER -> "erase")
  /\ pauseStart' = 0
  /\ DspStep /\ UNCHANGED <<active, player, startTick, audioTime, paused, clean>>

\* A block that has loaded g_player since the drain keeps the earlier player.
Arm ==
  /\ Go("arm", "activate") /\ player' = target
  /\ block' = [block EXCEPT !.overtaken = @ \/ (audio = "gate" /\ block.who # target)]
  /\ UNCHANGED <<registryVars, active, startTick, audioTime, paused, pauseStart, audio, readers, now,
                 consumed, clean, renderVars, pictureVars, reader, left>>
Activate ==
  /\ Go("activate", "idle") /\ active' = TRUE
  /\ clean' = (clean /\ startTick >= now) /\ consumed' = 0
  /\ UNCHANGED <<registryVars, player, startTick, audioTime, paused, pauseStart, audio, readers, now, block,
                 renderVars, pictureVars, reader, left>>

-----------------------------------------------------------------------------
(* process_dsp_audio(), on the audio thread.                               *)

AudioStep(from, to) ==
  /\ audio = from /\ audio' = to
  /\ UNCHANGED <<mainVars, registryVars, active, player, now, clean, renderVars, pictureVars, reader, left>>

\* The gate on g_active; silence is no work.
BlockBegin ==
  /\ audio = "idle" /\ left.blocks > 0 /\ left' = [left EXCEPT !.blocks = @ - 1]
  /\ now' = now + Block
  /\ IF active
       THEN \E flag \in {"resumed", "paused"} : audio' = flag
       ELSE audio' = "idle"
  /\ block' = IF active THEN [NoBlock EXCEPT !.tick = now] ELSE block
  /\ UNCHANGED <<mainVars, registryVars, dspVars, readers, consumed, clean, renderVars, pictureVars, reader>>

\* Not the code: every block of a pause remembers its tick.
BlockPausedAgain ==
  /\ AudioStep("paused", "mark")
  /\ paused' = TRUE
  /\ UNCHANGED <<readers, startTick, audioTime, pauseStart, block, consumed>>

\* A block while the Editor is paused: the first one remembers its tick.
BlockPaused ==
  /\ IF paused
       THEN AudioStep("paused", "idle") /\ block' = NoBlock
       ELSE AudioStep("paused", "mark") /\ UNCHANGED block
  /\ paused' = TRUE
  /\ UNCHANGED <<readers, startTick, audioTime, pauseStart, consumed>>
BlockMark ==
  /\ AudioStep("mark", "idle")
  /\ pauseStart' = block.tick /\ block' = NoBlock
  /\ UNCHANGED <<readers, startTick, audioTime, paused, consumed>>

\* The first block after it moves the start by the pause.
BlockResumed ==
  /\ AudioStep("resumed", IF paused THEN "shift" ELSE "start")
  /\ paused' = FALSE
  /\ UNCHANGED <<readers, startTick, audioTime, pauseStart, block, consumed>>
BlockShift ==
  /\ AudioStep("shift", "start")
  /\ pauseStart' = 0
  /\ startTick' = startTick + Larger(0, block.tick - pauseStart)
  /\ UNCHANGED <<readers, audioTime, paused, block, consumed>>

BlockStart ==
  /\ IF block.tick + Block <= startTick
       THEN AudioStep("start", "idle") /\ block' = NoBlock
       ELSE AudioStep("start", "enter") /\ block' = [block EXCEPT !.start = startTick]
  /\ UNCHANGED <<readers, startTick, audioTime, paused, pauseStart, consumed>>

\* g_readers, then g_player, then g_active once more.
BlockEnter ==
  /\ AudioStep("enter", "reader") /\ readers' = readers + 1
  /\ UNCHANGED <<startTick, audioTime, paused, pauseStart, block, consumed>>

BlockPlayer ==
  /\ AudioStep("reader", "gate")
  /\ block' = [block EXCEPT !.who = player]
  /\ UNCHANGED <<readers, startTick, audioTime, paused, pauseStart, consumed>>

\* Not the code: g_active is not looked at again.
BlockGateOnce ==
  /\ AudioStep("gate", IF block.who # Nobody THEN "read" ELSE "leave")
  /\ UNCHANGED <<readers, startTick, audioTime, paused, pauseStart, block, consumed>>

BlockGate ==
  /\ AudioStep("gate", IF active /\ block.who # Nobody THEN "read" ELSE "leave")
  /\ UNCHANGED <<readers, startTick, audioTime, paused, pauseStart, block, consumed>>

\* What is left of the block after the silence before the start.
BlockRead ==
  /\ AudioStep("read", "publish")
  /\ consumed' = consumed + Block - Larger(0, block.start - block.tick)
  /\ UNCHANGED <<readers, startTick, audioTime, paused, pauseStart, block>>

BlockPublish ==
  /\ AudioStep("publish", "leave")
  /\ audioTime' = Larger(block.tick, block.start) - block.start
  /\ UNCHANGED <<readers, startTick, paused, pauseStart, block, consumed>>
BlockLeave ==
  /\ AudioStep("leave", "idle") /\ readers' = readers - 1 /\ block' = NoBlock
  /\ UNCHANGED <<startTick, audioTime, paused, pauseStart, consumed>>

Audio ==
  \/ BlockPaused \/ BlockMark \/ BlockResumed \/ BlockShift \/ BlockStart
  \/ BlockEnter \/ BlockPlayer \/ BlockGate \/ BlockRead \/ BlockPublish \/ BlockLeave

-----------------------------------------------------------------------------
(* UnityOpenVolumetricPlayer: open, seek and what was presented.           *)

PlayerStep == UNCHANGED <<registryVars, dspVars, audioVars, clean, renderVars, reader>>

\* open() forgets the picture before the player opens, seek() after it sought.
Open(p) ==
  /\ left.seeks > 0 /\ left' = [left EXCEPT !.seeks = @ - 1]
  /\ Enter(p, "open", "forgetTime")
  /\ PlayerStep /\ UNCHANGED pictureVars
Seek(p) ==
  /\ left.seeks > 0 /\ left' = [left EXCEPT !.seeks = @ - 1]
  /\ Enter(p, "seek", "forgetTime")
  /\ timeline' = [timeline EXCEPT ![p] = @ + 1]
  /\ PlayerStep /\ UNCHANGED <<presented, sequence, centroid>>
ForgetTime ==
  /\ Go("forgetTime", "forgetCentroid")
  /\ presented' = [presented EXCEPT ![target] = None]
  /\ PlayerStep /\ UNCHANGED <<timeline, sequence, centroid, left>>
ForgetCentroid ==
  /\ Go("forgetCentroid", "idle")
  /\ sequence' = [sequence EXCEPT ![target] = 0]
  /\ timeline' = IF op = "open" THEN [timeline EXCEPT ![target] = @ + 1] ELSE timeline
  /\ PlayerStep /\ UNCHANGED <<presented, centroid, left>>

\* GL.IssuePluginEvent carries the event id only.
IssueEvent(p) ==
  /\ pc = "idle" /\ p \in Registered
  /\ left.events > 0 /\ left' = [left EXCEPT !.events = @ - 1]
  /\ events' = Append(events, alive[p])
  /\ UNCHANGED <<mainVars, registryVars, dspVars, audioVars, clean, render, pictureVars, reader>>

\* geometry_centroid(): three attempts at an even sequence that stays.
CentroidBegin(p) ==
  /\ Enter(p, "centroid", "before") /\ sequence[p] # 0
  /\ reader' = NoRead
  /\ UNCHANGED <<registryVars, dspVars, audioVars, clean, renderVars, pictureVars, left>>

ReadStep == UNCHANGED <<registryVars, dspVars, audioVars, clean, renderVars, pictureVars, left>>
Unstable(s) == s = 0 \/ s % 2 = 1

CentroidBefore ==
  /\ pc = "before"
  /\ reader' = [reader EXCEPT !.before = sequence[target], !.tries = @ + 1]
  /\ Go("before", IF ~Unstable(sequence[target]) THEN "x" ELSE IF reader.tries < 2 THEN "before" ELSE "idle")
  /\ ReadStep
CentroidX == Go("x", "y") /\ reader' = [reader EXCEPT !.x = centroid[target][1]] /\ ReadStep
CentroidY == Go("y", "after") /\ reader' = [reader EXCEPT !.y = centroid[target][2]] /\ ReadStep
CentroidAfter ==
  /\ pc = "after"
  /\ Go("after", IF sequence[target] = reader.before THEN "whole" ELSE IF reader.tries < 3 THEN "before" ELSE "idle")
  /\ UNCHANGED reader /\ ReadStep
CentroidReturn == Go("whole", "idle") /\ reader' = NoRead /\ ReadStep

-----------------------------------------------------------------------------
(* OnRenderEvent() and render(), on the render thread.                     *)

RenderStep(from, to) ==
  /\ render.at = from /\ render' = [render EXCEPT !.at = to]
  /\ UNCHANGED <<mainVars, registryVars, dspVars, audioVars, clean, events, timeline, reader, left>>

\* An id that is not registered is ignored.
RenderTake ==
  /\ events # <<>> /\ ~Rendering /\ ~locked
  /\ events' = Tail(events)
  /\ render' = IF \E p \in Registered : alive[p] = Head(events)
                 THEN [NoRender EXCEPT !.at = "present", !.who = CHOOSE p \in Registered : alive[p] = Head(events)]
                 ELSE NoRender
  /\ UNCHANGED <<mainVars, registryVars, dspVars, audioVars, clean, pictureVars, reader, left>>

\* Not the code: the sequence does not say that the values are being written.
RenderEvenFirst ==
  /\ RenderStep("odd", "x") /\ sequence' = [sequence EXCEPT ![render.who] = render.seq]
  /\ UNCHANGED <<presented, centroid>>

\* The player has a complete picture of its timeline, or none is ready.
RenderNothing == render.at = "present" /\ render' = NoRender
                 /\ UNCHANGED <<mainVars, registryVars, dspVars, audioVars, clean, events, pictureVars, reader, left>>
\* A mesh without vertices leaves the centroid as it is.
RenderPresent ==
  /\ render.at = "present"
  /\ \E next \in {"load", "publish"} :
       render' = [render EXCEPT !.at = next, !.shows = timeline[render.who]]
  /\ UNCHANGED <<mainVars, registryVars, dspVars, audioVars, clean, events, pictureVars, reader, left>>
RenderLoad ==
  /\ render.at = "load"
  /\ render' = [render EXCEPT !.at = "odd", !.seq = sequence[render.who]]
  /\ UNCHANGED <<mainVars, registryVars, dspVars, audioVars, clean, events, pictureVars, reader, left>>
RenderOdd ==
  /\ RenderStep("odd", "x") /\ sequence' = [sequence EXCEPT ![render.who] = render.seq + 1]
  /\ UNCHANGED <<presented, centroid>>
RenderX ==
  /\ RenderStep("x", "y") /\ centroid' = [centroid EXCEPT ![render.who][1] = left.events + Len(events)]
  /\ UNCHANGED <<presented, sequence>>
RenderY ==
  /\ RenderStep("y", "even") /\ centroid' = [centroid EXCEPT ![render.who][2] = left.events + Len(events)]
  /\ UNCHANGED <<presented, sequence>>
RenderEven ==
  /\ RenderStep("even", "publish") /\ sequence' = [sequence EXCEPT ![render.who] = render.seq + 2]
  /\ UNCHANGED <<presented, centroid>>
RenderPublish ==
  /\ render.at = "publish" /\ render' = NoRender
  /\ presented' = [presented EXCEPT ![render.who] = render.shows]
  /\ UNCHANGED <<mainVars, registryVars, dspVars, audioVars, clean, events, timeline, sequence, centroid, reader, left>>

Render ==
  \/ RenderTake \/ RenderNothing \/ RenderPresent \/ RenderLoad \/ RenderOdd
  \/ RenderX \/ RenderY \/ RenderEven \/ RenderPublish

Main ==
  \/ Erase \/ Deactivate \/ Forget \/ Drain \/ ResetClock \/ Unpause \/ ForgetPause \/ Arm \/ Activate
  \/ ForgetTime \/ ForgetCentroid
  \/ CentroidBefore \/ CentroidX \/ CentroidY \/ CentroidAfter \/ CentroidReturn
Calls ==
  \E p \in Players :
    \/ Create(p) \/ Destroy(p) \/ Schedule(p) \/ StopSound(p) \/ Open(p) \/ Seek(p)
    \/ IssueEvent(p) \/ CentroidBegin(p)

Next == Calls \/ Main \/ BlockBegin \/ Audio \/ Render

Spec == Init /\ [][Next]_vars

\* Calls and blocks that began are finished; the render thread takes its events.
FairSpec == Spec /\ WF_vars(Main) /\ WF_vars(Audio) /\ WF_vars(Render)

-----------------------------------------------------------------------------
(* Properties.                                                             *)

\* A player that a render event or a block of sound works on is not deleted, unless
\* the block is one that loaded the player before a schedule of another replaced it
\* and looked at g_active after (then it may be: see README).
NoUseAfterDestroy ==
  /\ Rendering => render.who \in Registered
  /\ audio = "read" => block.who \in Registered \/ block.overtaken

\* The same of every block (it does not hold).
NeverUsesDestroyed == audio = "read" => block.who \in Registered

\* The resampler is reset while no block uses it, though no lock protects it.
ResamplerIsQuiet == pc = "reset" => audio # "read"

\* The clock counts the sound that was read: what was consumed is what lies
\* between the start and now, however often playback was paused, if sound was
\* scheduled in time and no block was under way (else it is not: see README).
ClockCountsSound ==
  clean /\ active /\ pc # "activate" /\ audio = "idle" =>
    consumed = Larger(0, (IF paused THEN pauseStart ELSE now) - startTick)

\* geometry_centroid() never returns parts of two pictures.
CentroidIsWhole == pc = "whole" => reader.x = reader.y

\* The last presented time is of the timeline the host is on (it is not: a
\* render event under way publishes the earlier one after seek() cleared it).
PresentedOfNewTimeline ==
  \A p \in Players : pc = "idle" /\ presented[p] # None => presented[p] = timeline[p]
=============================================================================
