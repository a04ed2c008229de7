---------------------------- MODULE UnrealPlayback ----------------------------
(***************************************************************************)
(* The Unreal component: UOpenVolumetricComponent with its clock, network  *)
(* recovery, sound wave and texture uploads, its player adapter, and the   *)
(* adaptive policy that the adapter drives.                                *)
(*                                                                         *)
(* The game thread ticks the component once a second of this model and     *)
(* runs the application's calls between two ticks.  Beside it run the      *)
(* byte source, the thread that prepares a switch, the sound device and    *)
(* the render thread.  A tick is two steps, for the source moves on        *)
(* between the copy of its state and the use of that copy.                 *)
(***************************************************************************)
EXTENDS AdaptivePolicy

CONSTANTS
  Transfers, Downloads,   \* throughput that a tick may observe; 0 is none
  UploadSlots,            \* OpenVolumetricUploadSlotCount
  EarlyEnd,                \* whether the file may be read to its end while an outage is recovered
  Setups                  \* the files, the component's settings and the bounds of a run

ASSUME UnrealAssumption ==
  /\ Transfers \subseteq Nat /\ Downloads \subseteq Nat /\ UploadSlots \in Nat \ {0} /\ EarlyEnd \in BOOLEAN
  /\ Setups \subseteq [audio : BOOLEAN, remote : BOOLEAN, adaptive : BOOLEAN, loop : BOOLEAN,
                       slow : BOOLEAN, calls : Nat, outages : Nat, faults : Nat]

VARIABLES
  u,        \* the component, field by field below
  ticking,  \* the tick has copied the state of the input
  source,   \* the state of the byte source
  policy, switch,
  gpu,      \* the upload ring and the commands that wait for the render thread
  low,      \* how long every policy update found too little throughput
  left      \* the setup, and what is left of its bounds

vars == <<u, ticking, source, policy, switch, gpu, low, left>>

None == 0 - 1

Component ==
  [state : {"Closed", "Ready", "Playing", "Paused", "Ended", "Error"},   \* PlaybackState
   time : 0 .. Duration,                  \* CurrentTimeSeconds
   presented : None .. Duration,          \* LastPresentationTime
   native : None .. Duration,             \* the picture the player showed last since a seek
   wave : {"empty", "fresh", "stale"},    \* what ProceduralSoundWave has queued
   input : {"Opening", "Ready", "Rebuffering", "Error", "Ended"},        \* InputState
   rebuffering : BOOLEAN, resume : BOOLEAN, target : 0 .. Duration]      \* NetworkRecovery

Closed ==
  [state |-> "Closed", time |-> 0, presented |-> None, native |-> None, wave |-> "empty",
   input |-> "Opening", rebuffering |-> FALSE, resume |-> FALSE, target |-> 0]

Slots == 0 .. UploadSlots - 1
NoUploads == [next |-> 0, bytes |-> [s \in Slots |-> None], queue |-> <<>>]

Init ==
  /\ u = Closed /\ ticking = FALSE /\ source = "Opening"
  /\ policy = NewPolicy /\ switch = NewSwitch /\ gpu = NoUploads /\ low = Off
  /\ left \in Setups

-----------------------------------------------------------------------------
(* The player behind its adapter, and the sound.                           *)

ResetAudio(x) == [x EXCEPT !.wave = "empty"]

\* A seek changes the timeline, whether it succeeds or not; what is queued stays.
Sought(x) == [x EXCEPT !.native = None, !.wave = IF @ = "empty" THEN @ ELSE "stale"]
Seekable == IF left.faults > 0 THEN BOOLEAN ELSE {TRUE}
Spend(ok) == left' = IF ok THEN left ELSE [left EXCEPT !.faults = @ - 1]
SeekSource == source' = IF source = "Ended" THEN "Ready" ELSE source

Failed(x) == [x EXCEPT !.state = "Error"]

\* Not the code: the loop keeps the sound of the pass before.
StartAgainSounding(x, ok) == IF ok THEN [Sought(x) EXCEPT !.time = 0] ELSE Failed(Sought(x))

StartAgain(x, ok) == IF ok THEN ResetAudio([Sought(x) EXCEPT !.time = 0]) ELSE Failed(Sought(x))

-----------------------------------------------------------------------------
(* The application's calls.                                                *)

Call ==
  /\ ~ticking /\ left.calls > 0 /\ left' = [left EXCEPT !.calls = @ - 1]
  /\ UNCHANGED <<ticking, gpu, low>>

\* Open() closes first and may play at once, which may fail.  The policy is
\* configured again, which forgets everything.
Open ==
  /\ Call /\ policy' = NewPolicy
  /\ \/ u' = [Closed EXCEPT !.state = "Error"] /\ source' = "Opening" /\ switch' = NewSwitch
     \/ \E first \in IF left.adaptive THEN DOMAIN Bandwidth ELSE {1}, to \in {"Ready", "Playing", "Error"} :
          /\ u' = [Closed EXCEPT !.state = to, !.input = "Ready"]
          /\ source' = "Ready" /\ switch' = [NewSwitch EXCEPT !.active = first]

Close == Call /\ u' = Closed /\ source' = "Opening" /\ switch' = NewSwitch /\ UNCHANGED policy

Play ==
  /\ Call /\ UNCHANGED policy
  /\ \/ /\ u.state \in {"Ready", "Paused"}
        /\ \E started \in BOOLEAN : u' = IF started THEN [u EXCEPT !.state = "Playing"] ELSE Failed(u)
        /\ UNCHANGED <<source, switch>>
     \/ /\ u.state = "Ended" /\ SeekSource /\ switch' = CancelPending(switch)
        /\ \E ok \in BOOLEAN :
             u' = IF ok THEN [StartAgain(u, TRUE) EXCEPT !.state = "Playing"] ELSE Failed(Sought(u))

Pause ==
  /\ Call /\ u.state = "Playing"
  /\ u' = [u EXCEPT !.state = "Paused"] /\ UNCHANGED <<source, policy, switch>>

\* Not the code: a seek leaves the pending switch.
SeekKeepsSwitch ==
  /\ Call /\ u.state \notin {"Closed", "Error"}
  /\ SeekSource /\ UNCHANGED <<switch, policy>>
  /\ \E t \in 0 .. Duration, ok \in BOOLEAN :
       LET x == [Sought(u) EXCEPT !.time = t] IN u' = IF ok THEN ResetAudio(x) ELSE Failed(x)

\* The state stays what it is: also Ended, which Play() then starts again.
Seek ==
  /\ Call /\ u.state \notin {"Closed", "Error"}
  /\ SeekSource /\ switch' = CancelPending(switch) /\ UNCHANGED policy
  /\ \E t \in 0 .. Duration, ok \in BOOLEAN :
       LET x == [Sought(u) EXCEPT !.time = t] IN u' = IF ok THEN ResetAudio(x) ELSE Failed(x)

Observation(transfer, downloaded) ==
  [time |-> u.time, ready |-> source \in {"Ready", "Ended"}, rebuffering |-> source = "Rebuffering",
   transfer |-> transfer, downloaded |-> downloaded,
   state |-> switch.state, active |-> switch.active, committed |-> switch.committed]

Decided(d) ==
  /\ policy' = d.policy
  /\ switch' = IF d.action = "Switch" THEN RequestSwitch(CancelPending(switch), d.target, d.boundary)
               ELSE switch

\* RequestAdaptiveHigh(): the highest representation or the lowest.
RequestAdaptiveHigh ==
  /\ Call /\ left.adaptive /\ left.remote /\ u.state # "Closed" /\ source # "Opening"
  /\ \E target \in {1, Len(Bandwidth)} : Decided(Request(policy, target, Observation(0, 0)))
  /\ UNCHANGED <<u, source>>

-----------------------------------------------------------------------------
(* TickComponent(): first the input, then the recovery, which may be all.  *)

TickObserves ==
  /\ ~ticking /\ ticking' = TRUE
  /\ u' = [u EXCEPT !.input = source] /\ UNCHANGED <<source, policy, switch, gpu, low, left>>

Remote == left.remote /\ u.input # "Opening"

Recovers(x) ==
  /\ ticking /\ Remote /\ ticking' = FALSE /\ u' = x
  /\ policy' = Elapse(policy) /\ low' = Aged(low, DowngradeDwell) /\ UNCHANGED gpu

Untouched == UNCHANGED <<source, switch, left>>

BeginRebuffer ==
  /\ u.input = "Rebuffering" /\ ~u.rebuffering /\ Untouched
  /\ LET at == IF u.presented >= 0 THEN u.presented ELSE u.time
     IN Recovers(ResetAudio([u EXCEPT !.rebuffering = TRUE, !.resume = u.state = "Playing",
                                      !.target = at, !.time = at, !.state = "Paused"]))

Wait == u.rebuffering /\ u.input \in {"Rebuffering", "Ended"} /\ Recovers(u) /\ Untouched

FailInput ==
  u.input = "Error" /\ Recovers(ResetAudio([u EXCEPT !.state = "Error", !.rebuffering = FALSE])) /\ Untouched

Resume ==
  /\ u.rebuffering /\ u.input = "Ready"
  /\ SeekSource /\ switch' = CancelPending(switch)
  /\ \E ok \in Seekable :
       LET x == [Sought(u) EXCEPT !.rebuffering = FALSE]
       IN /\ Spend(ok)
          /\ Recovers(IF ok THEN ResetAudio([x EXCEPT !.time = u.target,
                                                      !.state = IF u.resume THEN "Playing" ELSE "Paused"])
                      ELSE Failed(x))

-----------------------------------------------------------------------------
(* The rest of a tick: the policy, and if it plays the clock, sound and    *)
(* picture.                                                                *)

Live == left.adaptive /\ left.remote /\ u.input # "Opening"

PolicyStep(transfer, downloaded) ==
  LET p == Elapse(policy)
      o == Observation(transfer, downloaded)
      d == UpdatePolicy(p, o)
      seen == [switch EXCEPT !.committed = FALSE]
      short == o.state = "Stable" /\ d.action # "RetryLater" /\ Insufficient(Observed(p, o), o)
  IN [policy |-> d.policy,
      switch |-> IF d.action = "Cancel" THEN CancelPending(seen)
                 ELSE IF d.action = "Switch" THEN RequestSwitch(CancelPending(seen), d.target, d.boundary)
                 ELSE seen,
      low |-> IF ~short THEN Off ELSE IF low = Off THEN 0 ELSE Aged(low, DowngradeDwell)]

PolicySteps ==
  IF ~Live THEN {[policy |-> Elapse(policy), switch |-> switch, low |-> Off]}
  ELSE {PolicyStep(transfer, downloaded) : transfer \in Transfers, downloaded \in Downloads}

\* read_audio(): it commits a switch at its boundary, exact to the sample; the PCM
\* ring may be short of the boundary, or a switch may be ready only after it.
AudioSwitches(s, time) ==
  IF ~left.audio \/ s.state # "Ready" \/ time < s.boundary THEN {s}
  ELSE {s, Commit(s)} \cup IF time > s.boundary THEN {Miss(s)} ELSE {}

\* presentation(): without sound it commits.  The picture shown, if it is decoded
\* in time and has not been shown.
Pictures(x, s) ==
  IF s.state = "Ready" /\ x.time >= s.boundary
    THEN IF left.audio THEN {[switch |-> s, shown |-> None]}
         ELSE IF x.time > s.boundary THEN {[switch |-> Miss(s), shown |-> None]}
         ELSE {[switch |-> Commit(s), shown |-> x.time]}
    ELSE {[switch |-> s, shown |-> t] : t \in IF x.native < x.time THEN {None, x.time} ELSE {None}}

\* UpdateTexture(): the first slot from the next on that is not in flight.  A setup
\* whose render thread is not slow has none in flight.
Free(g, i) == g.bytes[(g.next + i) % UploadSlots] = None
Submit(g, slot, frame) ==
  [next |-> (slot + 1) % UploadSlots, bytes |-> [g.bytes EXCEPT ![slot] = frame],
   queue |-> Append(g.queue, [slot |-> slot, frame |-> frame])]

\* Not the code: the next slot, in flight or not.
UploadInTurn(g, frame) == Submit(g, g.next, frame)

Upload(g, frame) ==
  IF ~left.slow \/ \A i \in Slots : ~Free(g, i) THEN g
  ELSE LET first == CHOOSE i \in Slots : Free(g, i) /\ \A j \in 0 .. i - 1 : ~Free(g, j)
       IN Submit(g, (g.next + first) % UploadSlots, frame)

Shows(x, s) ==
  \E picture \in Pictures(x, s) :
    /\ switch' = picture.switch
    /\ IF picture.shown = None THEN u' = x /\ UNCHANGED gpu
       ELSE /\ u' = [x EXCEPT !.presented = picture.shown, !.native = picture.shown]
            /\ gpu' = Upload(gpu, picture.shown)

Plays(s) ==
  LET x == [u EXCEPT !.time = Least(@ + 1, Duration)]
  IN \E wave \in IF left.audio /\ u.wave = "empty" THEN {"empty", "fresh"} ELSE {u.wave},
        t \in AudioSwitches(s, x.time) :
       LET y == [x EXCEPT !.wave = wave]
       IN IF x.time < Duration THEN Shows(y, t) /\ UNCHANGED <<source, left>>
          ELSE IF ~left.loop
            THEN u' = [y EXCEPT !.state = "Ended"] /\ switch' = t /\ UNCHANGED <<source, gpu, left>>
          ELSE \E ok \in Seekable :
                 /\ SeekSource /\ Spend(ok)
                 /\ IF ok THEN Shows(StartAgain(y, TRUE), CancelPending(t))
                    ELSE u' = StartAgain(y, FALSE) /\ switch' = CancelPending(t) /\ UNCHANGED gpu

Runs ==
  /\ ticking /\ ticking' = FALSE
  /\ ~Remote \/ (~u.rebuffering /\ u.input \in {"Ready", "Ended"})
  /\ \E step \in PolicySteps :
       /\ policy' = step.policy /\ low' = step.low
       /\ IF u.state = "Playing" THEN Plays(step.switch)
          ELSE u' = u /\ switch' = step.switch /\ UNCHANGED <<source, gpu, left>>

Tick == TickObserves \/ BeginRebuffer \/ Wait \/ FailInput \/ Resume \/ Runs

-----------------------------------------------------------------------------
(* The other threads.                                                      *)

\* The worker: at the boundary with a picture, or not at all.
Prepare ==
  /\ switch.state = "Preparing"
  /\ switch' \in {[switch EXCEPT !.state = "Ready"], Miss(switch)}
  /\ UNCHANGED <<u, ticking, source, policy, gpu, low, left>>

\* The sound device plays what is queued.
Drain ==
  /\ u.wave # "empty" /\ ~ticking
  /\ u' = ResetAudio(u) /\ UNCHANGED <<ticking, source, policy, switch, gpu, low, left>>

\* The render thread copies the bytes of a slot to the texture, in order.
Render ==
  /\ gpu.queue # <<>>
  /\ gpu' = [gpu EXCEPT !.bytes[Head(gpu.queue).slot] = None, !.queue = Tail(@)]
  /\ UNCHANGED <<u, ticking, source, policy, switch, low, left>>

Outage ==
  /\ left.remote /\ left.outages > 0 /\ source = "Ready"
  /\ source' = "Rebuffering" /\ left' = [left EXCEPT !.outages = @ - 1]
  /\ UNCHANGED <<u, ticking, policy, switch, gpu, low>>
Restored ==
  /\ source = "Rebuffering" /\ source' \in {"Ready", "Error"}
  /\ UNCHANGED <<u, ticking, policy, switch, gpu, low, left>>
ReadToEnd ==
  /\ source = "Ready" /\ source' = "Ended"
  /\ EarlyEnd \/ (~u.rebuffering /\ u.input # "Rebuffering")
  /\ UNCHANGED <<u, ticking, policy, switch, gpu, low, left>>

Next ==
  \/ Open \/ Close \/ Play \/ Pause \/ Seek \/ RequestAdaptiveHigh
  \/ Tick \/ Prepare \/ Drain \/ Render \/ Outage \/ Restored \/ ReadToEnd

Spec == Init /\ [][Next]_vars

\* The engine ticks its components and runs its render commands.
FairSpec == Spec /\ WF_vars(Tick)

-----------------------------------------------------------------------------
(* Properties.                                                             *)

TypeOK ==
  /\ u \in Component /\ ticking \in BOOLEAN
  /\ source \in {"Opening", "Ready", "Rebuffering", "Error", "Ended"}
  /\ switch.state \in {"Stable", "Preparing", "Ready", "Failed"}
  /\ switch.active \in DOMAIN Bandwidth /\ switch.target \in DOMAIN Bandwidth
  /\ switch.boundary \in 0 .. Duration - 1 /\ Len(gpu.queue) <= UploadSlots

\* Sound that is queued is of the player's timeline, unless a seek failed, and none
\* is queued while the component waits for its input.
NoStaleSound == u.state # "Error" => u.wave # "stale" /\ (u.rebuffering => u.wave = "empty")

\* A pending switch is at most its lead ahead of the time that plays: what moves the
\* time back cancels the switch.
PendingIsNear ==
  switch.state \in {"Preparing", "Ready"} /\ ~u.rebuffering /\ u.state # "Error" =>
    switch.boundary < u.time + (Lead + 1) * Segment

\* Pixels are not written while the render thread may still read them.
NoTornUpload == \A i \in DOMAIN gpu.queue : gpu.bytes[gpu.queue[i].slot] = gpu.queue[i].frame

\* A lower representation is prepared by itself only when every update for the dwell
\* found too little throughput, or the source stalls under the policy's eyes.
DowngradeIsSustained ==
  [][ticking /\ switch'.state = "Preparing" /\ switch.state = "Stable" /\ switch'.target < switch'.active
       => source = "Rebuffering" \/ low' = DowngradeDwell]_vars

\* An input that answers again ends the wait (not if the file is read to its end
\* before a tick sees that the input is ready).
RebufferingEnds == u.rebuffering ~> (~u.rebuffering \/ source = "Rebuffering")
=============================================================================
