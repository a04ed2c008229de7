----------------------------- MODULE UnityPlayback -----------------------------
(***************************************************************************)
(* The Unity component OpenVolumetric.cs: one timeline for picture and     *)
(* sound on the main thread.  Start() prepares, Update() runs once a frame *)
(* and moves the timeline, holds it while queues refill, recovers from a   *)
(* network outage and from a decoder that lags; the application plays,     *)
(* pauses and seeks between two updates.                                   *)
(*                                                                         *)
(* A method of the class is an operator from the component to the          *)
(* component it leaves, so that Update() composes them as the code does.   *)
(* Times are counted in frames.  An update that only asks for the same     *)
(* picture again is a stuttering step.                                     *)
(***************************************************************************)
EXTENDS Integers

CONSTANTS
  Duration,     \* frames in the file
  Preroll,      \* frames of sound that must be queued before it starts
  LoopGuard,    \* frames from either end within which a wrap is a loop
  Steps,        \* frames the DSP clock may advance between two updates
  LateEnd,      \* whether the end of the file may be read between two updates of a recovery
  CallsDuring,  \* what the timeline may be held for when the application calls
  MaxCalls, MaxOutages        \* bounds

ASSUME PlaybackAssumption ==
  /\ Duration \in Nat \ {0} /\ Preroll \in 0 .. Duration /\ LoopGuard \in Nat
  /\ Steps \subseteq Nat /\ LateEnd \in BOOLEAN

VARIABLES
  c,          \* the component and its decoder, field by field below
  source,     \* the state of the byte source
  calls, outages

playbackVars == <<c, source, calls, outages>>

States == {"UNINITIALISED", "INIT_FAIL", "PREROLLING", "INITIALISED", "SCHEDULED",
           "PLAYING", "PAUSED", "REBUFFERING", "STOPPED"}

Component ==
  [state : States,                     \* m_playback_state
   position : 0 .. Duration + 2,       \* m_playback_position
   loop : BOOLEAN,                     \* enableLoop
   remote : BOOLEAN, audio : BOOLEAN,  \* the file
   playOnStart : BOOLEAN,              \* m_play_after_initial_presentation
   waitPicture : BOOLEAN,              \* m_waiting_for_initial_presentation
   waitSound : BOOLEAN,                \* m_waiting_for_audio_preroll
   recovering : BOOLEAN,               \* m_decoder_recovering
   target : 0 .. Duration,             \* m_decoder_recovery_target
   settle : {"none", "first", "wait"}, \* m_network_decoder_recovery, m_network_settle_until
   rebuffering : BOOLEAN,              \* m_network_rebuffering
   resume : BOOLEAN,                   \* m_resume_after_network_recovery
   networkTarget : 0 .. Duration,      \* m_network_recovery_target
   lagging : BOOLEAN,                  \* m_lagStarted of the recovery policy
   started : BOOLEAN,                  \* DecoderState.STARTED
   asked : 0 .. Duration - 1,          \* the frame UpdatePresentation() asked for last
   fresh : BOOLEAN,                    \* m_previous_frame is -1
   looped : BOOLEAN,                   \* m_loop
   presented : -1 .. Duration - 1,     \* LastPresentedTime
   sounding : BOOLEAN,                 \* native sound is scheduled and its AudioSource runs
   primed : BOOLEAN]                   \* enough PCM is queued, as far as the file has it

TypeOK ==
  /\ c \in Component
  /\ source \in {"Ready", "Rebuffering", "Error", "Ended"}
  /\ calls \in 0 .. MaxCalls /\ outages \in 0 .. MaxOutages

PlaybackInit ==
  /\ \E loop, remote, audio, play \in BOOLEAN :
       c = [state |-> "UNINITIALISED", position |-> 0, loop |-> loop, remote |-> remote,
            audio |-> audio, playOnStart |-> play, waitPicture |-> FALSE, waitSound |-> FALSE,
            recovering |-> FALSE, target |-> 0, settle |-> "none", rebuffering |-> FALSE,
            resume |-> FALSE, networkTarget |-> 0, lagging |-> FALSE, started |-> FALSE,
            asked |-> 0, fresh |-> TRUE, looped |-> FALSE, presented |-> -1,
            sounding |-> FALSE, primed |-> FALSE]
  /\ source = "Ready" /\ calls = 0 /\ outages = 0

-----------------------------------------------------------------------------
(* OpenVolumetricDecoder.cs.                                               *)

Silent(x) == [x EXCEPT !.sounding = FALSE]

\* Seek(): sound stops first; the native player forgets what it presented.
Sought(x) ==
  [x EXCEPT !.sounding = FALSE, !.presented = -1, !.primed = FALSE, !.fresh = TRUE, !.looped = FALSE]

\* UpdatePresentation(): modulo the duration; a wrap near the end starts the
\* file again, unless that seek fails.
Crosses(x, frame) ==
  ~x.fresh /\ frame < x.asked /\ x.asked >= Duration - LoopGuard /\ frame <= LoopGuard

Ask(x, time, ok) ==
  LET frame == time % Duration
      shown == [x EXCEPT !.asked = frame, !.fresh = FALSE]
  IN IF ~Crosses(x, frame) THEN shown
     ELSE IF ok THEN [shown EXCEPT !.looped = TRUE, !.sounding = FALSE, !.presented = -1, !.primed = FALSE]
     ELSE [x EXCEPT !.looped = TRUE, !.sounding = FALSE]

HasPreroll(x) == ~x.audio \/ (x.primed /\ x.position + Preroll <= Duration)

-----------------------------------------------------------------------------
(* Methods of the component.                                               *)

\* SchedulePlayback() and ScheduleAudio().
SchedulePlayback(x) == [x EXCEPT !.state = "SCHEDULED", !.sounding = x.audio]

\* Hold the timeline until a picture of the present generation is shown.
HoldFor(x, t) ==
  [x EXCEPT !.target = t, !.recovering = TRUE, !.settle = "none", !.waitSound = FALSE,
            !.state = "PREROLLING"]

AtEnd(x) == x.state = "STOPPED" \/ x.position >= Duration - 1


Play(x, ok) ==
  IF x.state \in {"INIT_FAIL", "UNINITIALISED"} THEN x
  ELSE IF AtEnd(x) THEN
    IF x.started /\ ok THEN HoldFor([Sought(x) EXCEPT !.position = 0], 0)
    ELSE [Silent(x) EXCEPT !.state = "INIT_FAIL"]
  ELSE IF x.presented < 0 THEN HoldFor(x, x.position)
  ELSE IF ~HasPreroll(x) THEN [Silent(x) EXCEPT !.waitSound = TRUE, !.state = "PREROLLING"]
  ELSE SchedulePlayback([x EXCEPT !.waitSound = FALSE])

Moves(x) == x.state \in {"PLAYING", "SCHEDULED"}

PausePlayback(x) ==
  IF ~Moves(x) THEN x
  ELSE [Silent(x) EXCEPT !.position = IF x.loop THEN x.position % Duration
                                      ELSE IF x.position > Duration THEN Duration ELSE x.position,
                         !.waitSound = FALSE, !.state = "PAUSED"]

SeekTimeline(x, t, ok) ==
  IF ~x.started THEN x
  ELSE IF ~ok THEN Silent(x)
  ELSE LET there == [Sought(x) EXCEPT !.position = t]
       IN IF Moves(x) THEN Play(there, ok)
          ELSE Ask([there EXCEPT !.state = "PAUSED"], t, ok)

StopAtEnd(x) ==
  [Silent(x) EXCEPT !.state = "STOPPED", !.position = Duration, !.waitSound = FALSE,
                    !.recovering = FALSE, !.settle = "none", !.looped = FALSE]

-----------------------------------------------------------------------------
(* Start(), after the source is resolved: textures (which opens the file), *)
(* mesh, sound, workers; sound alone may fail and leave a silent player.   *)

Start ==
  /\ c.state = "UNINITIALISED"
  /\ \/ c' = [c EXCEPT !.state = "INIT_FAIL"]
     \/ \E audio \in {c.audio, FALSE} :
          c' = [c EXCEPT !.state = "PREROLLING", !.waitPicture = TRUE, !.position = 0,
                         !.started = TRUE, !.audio = audio]
  /\ UNCHANGED <<source, calls, outages>>

-----------------------------------------------------------------------------
(* Update(): network recovery first, which may be all it does.             *)

Updated(x) == c' = x /\ UNCHANGED <<calls, outages>>

\* A native seek of the source makes it leave the end of the file.
KeepSource == UNCHANGED source
SeekSource == source' = IF source = "Ended" THEN "Ready" ELSE source

\* Not the code: the outage does not stop the sound.
KeepsSounding ==
  /\ c.started /\ c.remote /\ source = "Rebuffering" /\ ~c.rebuffering
  /\ LET at == IF c.presented >= 0 THEN c.presented
               ELSE IF c.position > Duration THEN Duration ELSE c.position
     IN Updated([c EXCEPT !.rebuffering = TRUE, !.resume = Moves(c), !.networkTarget = at,
                          !.position = at, !.state = "REBUFFERING", !.recovering = FALSE,
                          !.settle = "none"])
  /\ KeepSource

BeginRebuffering ==
  /\ c.started /\ c.remote /\ source = "Rebuffering" /\ ~c.rebuffering
  /\ LET at == IF c.presented >= 0 THEN c.presented
               ELSE IF c.position > Duration THEN Duration ELSE c.position
     IN Updated([Silent(c) EXCEPT !.rebuffering = TRUE, !.resume = Moves(c), !.networkTarget = at,
                                  !.position = at, !.state = "REBUFFERING", !.recovering = FALSE,
                                  !.settle = "none"])
  /\ KeepSource

RecoveryFailed ==
  /\ c.rebuffering /\ source = "Error"
  /\ Updated([c EXCEPT !.rebuffering = FALSE, !.state = "INIT_FAIL"])
  /\ KeepSource

Recovered ==
  /\ c.rebuffering /\ source = "Ready"
  /\ \E ok \in BOOLEAN :
       LET there == [Sought(c) EXCEPT !.rebuffering = FALSE, !.position = c.networkTarget]
       IN IF ~ok THEN Updated([Silent(c) EXCEPT !.rebuffering = FALSE, !.state = "INIT_FAIL"])
          ELSE IF c.resume THEN Updated(Ask([there EXCEPT !.recovering = TRUE, !.target = c.networkTarget,
                                                          !.settle = "first", !.state = "PREROLLING"],
                                            c.networkTarget, ok))
          ELSE Updated(Ask([there EXCEPT !.state = "PAUSED"], c.networkTarget, ok))
  /\ SeekSource

SourceError ==
  /\ c.started /\ c.remote /\ ~c.rebuffering /\ source = "Error" /\ c.state # "INIT_FAIL"
  /\ Updated([Silent(c) EXCEPT !.state = "INIT_FAIL"])
  /\ KeepSource

\* Whether HandleNetworkRecovery() leaves the rest of Update() to run.
Online == c.started /\ (~c.remote \/ (~c.rebuffering /\ source \in {"Ready", "Ended"}))

AwaitPicture ==
  /\ Online /\ c.waitPicture
  /\ LET x == Ask(c, 0, TRUE)
         ready == [x EXCEPT !.waitPicture = FALSE, !.position = 0, !.state = "INITIALISED"]
     IN IF c.presented < 0 \/ ~(c.audio => c.primed) THEN Updated(x)
        ELSE Updated(IF c.playOnStart THEN SchedulePlayback(ready) ELSE ready)
  /\ KeepSource

\* A recovered picture: at the target, or any at all if that is the beginning.
\* After an outage the timeline is held once more, for a second.
Reached(x) == IF x.target <= 1 THEN x.presented >= 0 ELSE x.presented >= x.target - 1

AwaitRecovery ==
  /\ Online /\ ~c.waitPicture /\ c.recovering
  /\ \E ok \in BOOLEAN :
       LET x == Ask(c, c.target, ok)
           over == [x EXCEPT !.settle = "none", !.recovering = FALSE, !.position = c.target]
       IN IF ~Reached(x) THEN Updated(x)
          ELSE IF c.settle = "first" THEN Updated([x EXCEPT !.settle = "wait"])
          ELSE Updated(Play(over, ok))
  /\ SeekSource

AwaitSound ==
  /\ Online /\ ~c.waitPicture /\ ~c.recovering /\ c.waitSound
  /\ IF ~c.loop /\ c.position >= Duration
       THEN Updated(StopAtEnd(c))
       ELSE LET x == Ask(c, c.position, TRUE)
            IN Updated(IF HasPreroll(x) THEN SchedulePlayback([x EXCEPT !.waitSound = FALSE]) ELSE x)
  /\ KeepSource

\* ShouldRecover(): the picture lags by more than two frames, for a while, and not
\* across the end of a loop.
Lags(x) ==
  LET target == x.position % Duration
  IN /\ x.presented >= 0
     /\ ~(x.loop /\ Duration - target <= 3)
     /\ target - x.presented > 2

TryRecover(x, long) ==
  IF ~Lags(x) THEN [x EXCEPT !.lagging = x.lagging /\ x.presented < 0]
  ELSE IF ~x.lagging THEN [x EXCEPT !.lagging = TRUE]
  ELSE IF ~long THEN x
  ELSE [Silent(x) EXCEPT !.lagging = FALSE, !.recovering = TRUE, !.position = x.position % Duration,
                         !.target = x.position % Duration]

Timeline == Online /\ ~c.waitPicture /\ ~c.recovering /\ ~c.waitSound /\ Moves(c)

\* Not the code: the end of a file that does not loop is not looked for.
TickPastEnd ==
  /\ Timeline
  /\ \E step \in Steps, long \in BOOLEAN :
       LET x == [c EXCEPT !.state = "PLAYING", !.position = c.position + step]
           asked == Ask(x, x.position, TRUE)
       IN IF x.loop /\ asked.looped THEN Updated(Play([asked EXCEPT !.looped = FALSE, !.position = 0], TRUE))
          ELSE Updated(TryRecover(asked, long))
  /\ SeekSource

\* The clock moves.
Tick ==
  /\ Timeline
  /\ \E step \in Steps, ok, long \in BOOLEAN :
       LET x == [c EXCEPT !.state = "PLAYING", !.position = c.position + step]
           asked == Ask(x, x.position, ok)
       IN IF ~x.loop /\ x.position >= Duration THEN Updated(StopAtEnd(x))
          ELSE IF x.loop /\ asked.looped THEN Updated(Play([asked EXCEPT !.looped = FALSE, !.position = 0], ok))
          ELSE Updated(TryRecover(asked, long))
  /\ SeekSource

\* The clock jumps: updates were suspended while the sound went on.
Resynchronise ==
  /\ Timeline
  /\ \E t \in 0 .. Duration - 1, ok \in BOOLEAN :
       /\ c.audio \/ t = c.position
       /\ Updated(SeekTimeline([c EXCEPT !.state = "PLAYING"], t, ok))
  /\ SeekSource

Update ==
  \/ BeginRebuffering \/ RecoveryFailed \/ Recovered \/ SourceError
  \/ AwaitPicture \/ AwaitRecovery \/ AwaitSound \/ Tick

-----------------------------------------------------------------------------
(* The application, the native player and the network.                     *)

Hold ==
  IF c.rebuffering THEN "outage" ELSE IF c.waitPicture THEN "picture"
  ELSE IF c.recovering THEN "recovery" ELSE IF c.waitSound THEN "sound" ELSE "none"

Call(x) == Hold \in CallsDuring /\ calls < MaxCalls /\ calls' = calls + 1 /\ c' = x /\ UNCHANGED outages

CallPlay == (\E ok \in BOOLEAN : Call(Play(c, ok))) /\ SeekSource
CallPause == Call(PausePlayback(c)) /\ KeepSource
CallSeek == (\E t \in 0 .. Duration, ok \in BOOLEAN : Call(SeekTimeline(c, t, ok))) /\ SeekSource
ToggleLoop == Call([c EXCEPT !.loop = ~@, !.looped = @ /\ c.loop]) /\ KeepSource

Present ==
  /\ c.started
  /\ \E t \in 0 .. Duration - 1 :
       t > c.presented /\ t <= c.asked /\ c' = [c EXCEPT !.presented = t]
  /\ UNCHANGED <<source, calls, outages>>

Refill == c.started /\ ~c.primed /\ c' = [c EXCEPT !.primed = TRUE] /\ UNCHANGED <<source, calls, outages>>
Underrun == c.sounding /\ c.primed /\ c' = [c EXCEPT !.primed = FALSE] /\ UNCHANGED <<source, calls, outages>>

Outage ==
  /\ c.started /\ c.remote /\ source = "Ready" /\ outages < MaxOutages
  /\ outages' = outages + 1 /\ source' = "Rebuffering" /\ UNCHANGED <<c, calls>>
Restored == source = "Rebuffering" /\ source' \in {"Ready", "Error"} /\ UNCHANGED <<c, calls, outages>>
ReadToEnd ==
  /\ c.started /\ c.remote /\ source = "Ready" /\ (LateEnd \/ ~c.rebuffering)
  /\ source' = "Ended" /\ UNCHANGED <<c, calls, outages>>

PlaybackNext ==
  \/ Start \/ Update \/ Resynchronise
  \/ CallPlay \/ CallPause \/ CallSeek \/ ToggleLoop
  \/ Present \/ Refill \/ Underrun \/ Outage \/ Restored \/ ReadToEnd

PlaybackSpec == PlaybackInit /\ [][PlaybackNext]_playbackVars

\* Unity updates; the decoder works while its source answers.
FairPlayback == PlaybackSpec /\ WF_playbackVars(Update) /\ WF_playbackVars(Present) /\ SF_playbackVars(Refill)

-----------------------------------------------------------------------------
(* Properties.                                                             *)

\* No sound while the timeline is held for the network, paused, at its end or failed.
\* (While it prerolls there may be: a loop that begins without a picture keeps the
\* sound of the pass before, see README.)
HeldInSilence == c.sounding => c.state \notin {"REBUFFERING", "PAUSED", "STOPPED", "INIT_FAIL"}

\* Played forward to its end, a file that does not loop is not started again by
\* the modulo of the timeline.  (After a seek while a picture is awaited it may be,
\* and after a seek to the beginning that failed: see README.)
NoUninvitedLoop ==
  [][Timeline /\ c.asked <= c.position /\ c'.looped /\ ~c.looped => c.loop]_playbackVars

\* A timeline that an outage interrupted moves again, in whatever order the source, the
\* picture and the sound come back, or it fails.  The exceptions are two orders in
\* which it does not (see README): the source never shows itself ready to an update, as
\* when the file is read to its end first, and an outage that meets the recovery of
\* the one before, which forgets what the application wanted.
Resumed == Moves(c) \/ c.state = "INIT_FAIL"
Forgotten == c.rebuffering /\ ~c.resume

\* An outage that is over ends the rebuffering (it does not: the first exception), and
\* what it interrupted moves again (it does not: the second).
RebufferingEnds == c.rebuffering ~> (~c.rebuffering \/ source = "Rebuffering")
OutageIsOverAtLast ==
  [](c.rebuffering /\ c.resume => <>Resumed \/ <>[](c.rebuffering /\ source # "Ready"))

\* Sound starts when a picture of the same seek is shown (it does not: a seek or an
\* outage while sound is awaited leaves m_waiting_for_audio_preroll set).
PictureBeforeSound ==
  [][c'.sounding /\ ~c.sounding => c.presented >= 0]_playbackVars

\* A pause holds until the application plays (it does not during a lag recovery).
PauseHolds == [][c.state = "PAUSED" /\ c'.state # "PAUSED" => calls' # calls \/ c'.rebuffering]_playbackVars
=============================================================================
