------------------------- MODULE AdaptiveCoordinator -------------------------
(***************************************************************************)
(* AdaptivePlayerCoordinator: an active decoder session keeps playing      *)
(* while a private worker opens, seeks and primes a candidate; the two are *)
(* exchanged at a boundary of the timeline, by the audio thread when the   *)
(* media has audio and by the render thread otherwise.                     *)
(*                                                                         *)
(* Four threads: the game thread (open, start, stop, close, seek,          *)
(* request_switch, cancel_pending_switch), the preparation worker, the     *)
(* render thread (presentation) and the audio thread (read_audio).  A      *)
(* critical section of m_mutex is one action; what a thread does to state  *)
(* no other thread can reach is folded into the next one.  Media time is   *)
(* counted in frames for the picture and in samples for the sound, on one  *)
(* scale.  A session is a number, its player reduced to its positions, and *)
(* every way opening or preparing it can fail is a nondeterministic choice.*)
(***************************************************************************)
EXTENDS Naturals

CONSTANTS
  Representation,   \* representation ids of the manifest
  MaxSession,       \* bound on the sessions ever created
  MaxGeneration,    \* bound on m_switch_info.generation
  MaxTime,          \* media time is 0 .. MaxTime
  BlockSize,        \* samples of one read_audio() call
  Media             \* the media that may be opened, and what its host may call

Session == 1 .. MaxSession
None == 0
Time == 0 .. MaxTime
Generation == 0 .. MaxGeneration

\* An operation of the game thread with its arguments.
Operation ==
  [op : {"cancel", "stop", "close"}] \cup [op : {"seek"}, time : Time] \cup
  [op : {"request"}, rep : Representation, time : Time] \cup
  [op : {"open"}, rep : Representation]
NoOperation == [op |-> "none"]

ASSUME CoordinatorAssumption ==
  /\ MaxSession \in Nat \ {0} /\ MaxGeneration \in Nat /\ MaxTime \in Nat
  /\ BlockSize \in Nat \ {0} /\ Representation # {}
  /\ Media \subseteq [audio : BOOLEAN, operations : SUBSET Operation]

\* What reached the host: a picture, of a session that was primed before the
\* last seek, or not.
Picture == [session : Session \cup {None}, time : Time, outdated : BOOLEAN]
NoPicture == [session |-> None, time |-> 0, outdated |-> FALSE]

VARIABLES
  media,                                \* m_media_info.has_audio, and the host's calls
  active, preparing, pending, retired,  \* m_active, m_preparing, m_pending, m_retired
  state, generation, boundary,          \* m_switch_info
  started,                              \* m_started
  rep, running,                         \* per session: its representation, and whether
                                        \* its decoder workers run
  audioTime,                            \* per session: position of its PCM reader
  primed, primedTime,                   \* per session: the primed presentation
  outdated,                             \* history: sessions primed before the last seek
  created,                              \* history: sessions created so far
  wpc, candidate, wGen, wTime, wReady, wStart, \* preparation worker and what it captured
  gpc, gOp,                             \* game thread
  clock,                                \* the host's presentation time
  rpc, rTime, rActive, rOvertaken,      \* render thread (rOvertaken is history: the
                                        \* call began before the last seek)
  apc, aActive, aBoundary, aRest,       \* audio thread
  aOvertaken,                           \* history: the generation has advanced
                                        \* since read_audio() was called
  shown                                 \* history: the picture of the last call, unless
                                        \* a seek or an open followed it

roleVars == <<active, preparing, pending, retired>>
infoVars == <<state, generation, boundary>>
sessionVars == <<rep, running, audioTime, primed, primedTime, outdated>>
workerVars == <<wpc, candidate, wGen, wTime, wReady, wStart>>
gameVars == <<media, gpc, gOp, started, created, clock>>
renderLocals == <<rpc, rTime, rActive>>
renderVars == <<renderLocals, rOvertaken, shown>>
audioLocals == <<apc, aActive, aBoundary, aRest>>
audioVars == <<audioLocals, aOvertaken>>
vars == <<roleVars, infoVars, sessionVars, workerVars, gameVars, renderVars, audioVars>>

TypeOK ==
  /\ media \in Media
  /\ {active, preparing, pending, retired, candidate, rActive, aActive}
       \subseteq Session \cup {None}
  /\ state \in {"Stable", "Preparing", "Ready", "Failed"}
  /\ {generation, wGen} \subseteq Generation
  /\ {boundary, wTime, clock, rTime, aBoundary} \subseteq Time
  /\ {started, wReady, wStart, rOvertaken, aOvertaken} \subseteq BOOLEAN
  /\ rep \in [Session -> Representation]
  /\ {audioTime, primedTime} \subseteq [Session -> Time]
  /\ {primed, running} \subseteq [Session -> BOOLEAN]
  /\ outdated \subseteq Session
  /\ created \in 0 .. MaxSession
  /\ wpc \in {"off", "prepare", "publish"}
  /\ gpc \in {"idle", "join", "clear", "act", "publish"} /\ gOp \in Operation \cup {NoOperation}
  /\ rpc \in {"idle", "commit", "active", "wait", "present"}
  /\ apc \in {"idle", "snap", "plain", "measure", "missed", "first", "commit", "second"}
  /\ aRest \in 0 .. BlockSize
  /\ shown \in Picture

Init ==
  /\ media \in Media
  /\ active = None /\ preparing = None /\ pending = None /\ retired = None
  /\ state = "Stable" /\ generation = 0 /\ boundary = 0 /\ started = FALSE
  /\ rep = [s \in Session |-> CHOOSE r \in Representation : TRUE]
  /\ running = [s \in Session |-> FALSE]
  /\ audioTime = [s \in Session |-> 0]
  /\ primed = [s \in Session |-> FALSE] /\ primedTime = [s \in Session |-> 0]
  /\ outdated = {} /\ created = 0
  /\ wpc = "off" /\ candidate = None /\ wGen = 0 /\ wTime = 0 /\ wReady = FALSE /\ wStart = FALSE
  /\ gpc = "idle" /\ gOp = NoOperation /\ clock = 0
  /\ rpc = "idle" /\ rTime = 0 /\ rActive = None /\ rOvertaken = FALSE
  /\ apc = "idle" /\ aActive = None /\ aBoundary = 0 /\ aRest = 0 /\ aOvertaken = FALSE
  /\ shown = NoPicture

-----------------------------------------------------------------------------
(* The return of a call ends its locals.                                   *)

OperationReturn == gpc' = "idle" /\ gOp' = NoOperation
PresentReturn ==
  rpc' = "idle" /\ rTime' = 0 /\ rActive' = None /\ rOvertaken' = FALSE
AudioReturn ==
  apc' = "idle" /\ aActive' = None /\ aBoundary' = 0 /\ aRest' = 0 /\ aOvertaken' = FALSE
WorkerReturn ==
  /\ wpc' = "off" /\ candidate' = None /\ wGen' = 0 /\ wTime' = 0
  /\ wReady' = FALSE /\ wStart' = FALSE

-----------------------------------------------------------------------------
(* The game thread.  Every operation but start() begins with               *)
(* cancel_pending_switch(): the generation advances, the worker is joined, *)
(* and a second critical section clears the candidate.                     *)

\* How far an operation may advance the generation.
Advances(o) == IF o.op = "request" THEN 2 ELSE 1
Creates(o) == o.op \in {"request", "open"}

OvertakesAudio == aOvertaken' = (apc # "idle")

GameBegin(o) ==
  /\ gpc = "idle" /\ generation + Advances(o) <= MaxGeneration
  /\ Creates(o) => created < MaxSession
  /\ gOp' = o
  /\ generation' = generation + 1 /\ OvertakesAudio
  /\ gpc' = "join"
  /\ UNCHANGED <<media, roleVars, state, boundary, sessionVars, workerVars, started, created,
                 clock, renderVars, audioLocals>>

\* join_preparation_worker() returns.
JoinedWhenCleared == wpc = "off" /\ preparing = None   \* mutant: a stale worker clears nothing
WorkerJoined == wpc = "off"

GameJoin ==
  /\ gpc = "join" /\ WorkerJoined
  /\ gpc' = "clear"
  /\ UNCHANGED <<media, roleVars, infoVars, sessionVars, workerVars, gOp, started, created,
                 clock, renderVars, audioVars>>

ClearCandidate == preparing' = None /\ pending' = None

GameClear ==
  /\ gpc = "clear"
  /\ ClearCandidate
  /\ state' = "Stable"
  /\ IF gOp.op = "cancel" THEN OperationReturn ELSE gpc' = "act" /\ UNCHANGED gOp
  /\ UNCHANGED <<media, active, retired, generation, boundary, sessionVars, workerVars, started, created, clock, renderVars, audioVars>>

\* stop(): the retired session goes, the active one's workers are joined.
GameStop ==
  /\ gpc = "act" /\ gOp.op = "stop"
  /\ retired' = None
  /\ running' = [s \in Session |-> running[s] /\ s # active]
  /\ started' = FALSE
  /\ OperationReturn
  /\ UNCHANGED <<media, active, preparing, pending, infoVars, rep, audioTime, primed,
                 primedTime, outdated, workerVars, created, clock,
                 renderVars, audioVars>>

\* close(), on its own or as the first half of open().
GameClose ==
  /\ gpc = "act" /\ gOp.op \in {"close", "open"}
  /\ active' = None /\ retired' = None
  /\ state' = "Stable" /\ generation' = 0 /\ boundary' = 0
  /\ running' = [s \in Session |-> running[s] /\ s \notin {active, retired}]
  /\ started' = FALSE
  /\ IF gOp.op = "open" THEN gpc' = "publish" /\ UNCHANGED gOp ELSE OperationReturn
  /\ UNCHANGED <<media, preparing, pending, rep, audioTime, primed, primedTime, outdated,
                 workerVars, created, clock, renderVars, audioVars>>

\* The host starts its clock at time t, and the record of what it presented anew.
TimelineMoves(t) ==
  /\ clock' = t
  /\ shown' = NoPicture
  /\ rOvertaken' = (rpc # "idle")

\* The second half of open(): a new session, or an error.
GameOpen ==
  /\ gpc = "publish"
  /\ OperationReturn
  /\ \/ /\ created' = created + 1
        /\ active' = created + 1
        /\ rep' = [rep EXCEPT ![created + 1] = gOp.rep]
        /\ state' = "Stable" /\ generation' = 0 /\ boundary' = 0
        /\ TimelineMoves(0)
     \/ UNCHANGED <<active, rep, infoVars, created, clock, rOvertaken, shown>>
  /\ UNCHANGED <<media, preparing, pending, retired, running, audioTime, primed, primedTime,
                 outdated, workerVars, started, renderLocals, audioVars>>

\* seek(): the active player moves; the host restarts its clock there.  The
\* active session's primed presentation is not touched.
GameSeek ==
  /\ gpc = "act" /\ gOp.op = "seek"
  /\ OperationReturn
  /\ \/ /\ active # None
        /\ audioTime' = [audioTime EXCEPT ![active] = gOp.time]
        /\ outdated' = outdated \cup {s \in Session : primed[s]}
        /\ TimelineMoves(gOp.time)
     \/ UNCHANGED <<audioTime, outdated, clock, rOvertaken, shown>>
  /\ UNCHANGED <<media, roleVars, infoVars, rep, running, primed, primedTime, workerVars,
                 started, created, renderLocals, audioVars>>

\* request_switch(): nothing more to do for the active representation, else a
\* candidate is created and the worker launched with it.
GameRequest ==
  /\ gpc = "act" /\ gOp.op = "request"
  /\ OperationReturn
  /\ retired' = None
  /\ IF active = None \/ rep[active] = gOp.rep
     THEN UNCHANGED <<preparing, infoVars, rep, created, workerVars, aOvertaken>>
     ELSE /\ created' = created + 1
          /\ candidate' = created + 1 /\ preparing' = created + 1
          /\ rep' = [rep EXCEPT ![created + 1] = gOp.rep]
          /\ generation' = generation + 1 /\ wGen' = generation + 1 /\ OvertakesAudio
          /\ state' = "Preparing" /\ boundary' = gOp.time
          /\ wTime' = gOp.time /\ wStart' = started /\ wReady' = FALSE /\ wpc' = "prepare"
  /\ UNCHANGED <<media, active, pending, running, audioTime, primed, primedTime, outdated,
                 started, clock, renderVars, audioLocals>>

\* start() starts the active session only.
Start ==
  /\ gpc = "idle" /\ active # None /\ ~started
  /\ running' = [running EXCEPT ![active] = TRUE]
  /\ started' = TRUE
  /\ UNCHANGED <<media, roleVars, infoVars, rep, audioTime, primed, primedTime, outdated,
                 workerVars, gpc, gOp, created, clock, renderVars, audioVars>>

\* The host's playback clock.
Tick ==
  /\ gpc = "idle" /\ started /\ clock < MaxTime
  /\ clock' = clock + 1
  /\ UNCHANGED <<media, roleVars, infoVars, sessionVars, workerVars, gpc, gOp, started,
                 created, renderVars, audioVars>>

Game ==
  \/ GameJoin \/ GameClear \/ GameStop \/ GameClose \/ GameOpen
  \/ GameSeek \/ GameRequest

-----------------------------------------------------------------------------
(* The preparation worker.                                                 *)

\* open, the metadata test, seek, start and the priming loop: all of it on a
\* player that only the worker can reach.
WorkerPrepare ==
  /\ wpc = "prepare"
  /\ wpc' = "publish"
  /\ \/ /\ wReady' = TRUE
        /\ audioTime' = [audioTime EXCEPT ![candidate] = wTime]
        /\ primedTime' = [primedTime EXCEPT ![candidate] = wTime]
        /\ running' = [running EXCEPT ![candidate] = wStart]
        /\ primed' = [primed EXCEPT ![candidate] = wStart]
     \/ wReady' = FALSE /\ UNCHANGED <<audioTime, primedTime, running, primed>>
  /\ UNCHANGED <<roleVars, infoVars, rep, outdated, candidate, wGen, wTime, wStart, gameVars,
                 renderVars, audioVars>>

\* The generation token decides whether the result counts.
TokenIsCurrent == wGen = generation

WorkerPublish ==
  /\ wpc = "publish"
  /\ WorkerReturn
  /\ IF TokenIsCurrent
     THEN /\ preparing' = None
          /\ IF wReady THEN pending' = candidate /\ state' = "Ready"
                       ELSE state' = "Failed" /\ UNCHANGED pending
     ELSE UNCHANGED <<preparing, pending, state>>
  /\ UNCHANGED <<active, retired, generation, boundary, sessionVars, gameVars, renderVars, audioVars>>

Worker == WorkerPrepare \/ WorkerPublish

\* commit_pending_locked().
CanCommit == state = "Ready" /\ pending # None
Commit ==
  /\ retired' = active /\ active' = pending /\ pending' = None
  /\ state' = "Stable"

-----------------------------------------------------------------------------
(* The render thread: presentation(requested_time).                        *)

\* A media without audio that is more than a frame late gives the switch up.
MissedPicture == ~media.audio /\ state = "Ready" /\ clock > boundary + 1

PresentBegin ==
  /\ rpc = "idle"
  /\ IF MissedPicture
     THEN state' = "Failed" /\ UNCHANGED <<rpc, rTime>>
     ELSE rpc' = "commit" /\ rTime' = clock /\ UNCHANGED state
  /\ shown' = NoPicture
  /\ UNCHANGED <<roleVars, generation, boundary, sessionVars, workerVars, gameVars,
                 rActive, rOvertaken, audioVars>>

\* Session s supplies the picture of time t.  A call that a seek overtook still
\* answers for the time it was asked for, and is not recorded.
Show(s, t, old) ==
  shown' = IF rOvertaken THEN shown ELSE [session |-> s, time |-> t, outdated |-> old]

KeepPrimed(s) == primed' = primed                 \* mutant: flag not cleared
ConsumePrimed(s) == primed' = [primed EXCEPT ![s] = FALSE]

\* The primed presentation of session s is the picture.
ShowPrimed(s) ==
  /\ Show(s, primedTime[s], s \in outdated)
  /\ ConsumePrimed(s)

\* commit_if_ready().
AtBoundary == rTime >= boundary

PresentCommit ==
  /\ rpc = "commit"
  /\ IF ~media.audio /\ CanCommit /\ AtBoundary
     THEN /\ Commit
          /\ IF primed[pending] THEN ShowPrimed(pending) /\ PresentReturn
             ELSE rpc' = "active" /\ UNCHANGED <<shown, primed, rTime, rActive, rOvertaken>>
     ELSE /\ rpc' = "active"
          /\ UNCHANGED <<active, pending, retired, state, shown, primed, rTime, rActive,
                         rOvertaken>>
  /\ UNCHANGED <<preparing, generation, boundary, rep, running, audioTime, primedTime,
                 outdated, workerVars, gameVars, audioVars>>

\* The active session leaves the lock...
PresentActive ==
  /\ rpc = "active"
  /\ IF active = None THEN PresentReturn
     ELSE rActive' = active /\ rpc' = "wait" /\ UNCHANGED <<rTime, rOvertaken>>
  /\ UNCHANGED <<roleVars, infoVars, sessionVars, workerVars, gameVars, shown, audioVars>>

\* ...before the test that makes the picture wait for the sound's commit.
WaitsForSound == media.audio /\ state = "Ready" /\ AtBoundary

PresentWait ==
  /\ rpc = "wait"
  /\ IF WaitsForSound THEN PresentReturn
     ELSE rpc' = "present" /\ UNCHANGED <<rTime, rActive, rOvertaken>>
  /\ UNCHANGED <<roleVars, infoVars, sessionVars, workerVars, gameVars, shown, audioVars>>

\* The primed presentation, or the player's at the requested time if it has one.
PresentPicture ==
  /\ rpc = "present"
  /\ PresentReturn
  /\ IF primed[rActive] /\ rTime >= primedTime[rActive]
     THEN ShowPrimed(rActive)
     ELSE /\ UNCHANGED primed
          /\ \/ /\ running[rActive]
                /\ Show(rActive, rTime, FALSE)
             \/ UNCHANGED shown
  /\ UNCHANGED <<roleVars, infoVars, rep, running, audioTime, primedTime, outdated,
                 workerVars, gameVars, audioVars>>

Render == PresentBegin \/ PresentCommit \/ PresentActive \/ PresentWait \/ PresentPicture

-----------------------------------------------------------------------------
(* The audio thread: read_audio(output, BlockSize).                        *)

AudioBegin ==
  /\ apc = "idle" /\ media.audio /\ active # None
  /\ aActive' = active /\ aOvertaken' = FALSE
  /\ apc' = "snap"
  /\ UNCHANGED <<roleVars, infoVars, sessionVars, workerVars, gameVars, renderVars,
                 aBoundary, aRest>>

AudioSnapshot ==
  /\ apc = "snap"
  /\ aBoundary' = boundary
  /\ apc' = IF CanCommit THEN "measure" ELSE "plain"
  /\ UNCHANGED <<roleVars, infoVars, sessionVars, workerVars, gameVars, renderVars,
                 aActive, aRest, aOvertaken>>

\* The player of session s supplies up to n samples, n in all if wanted is TRUE;
\* a closed or stopped player supplies none it has not buffered.
Supplied(s, n) ==
  {k \in 0 .. n : (k = 0 \/ running[s]) /\ audioTime[s] + k <= MaxTime}

Hear(s, k) ==
  audioTime' = [audioTime EXCEPT ![s] = @ + k]

AudioPlain ==
  /\ apc = "plain"
  /\ \E k \in Supplied(aActive, BlockSize) : Hear(aActive, k)
  /\ AudioReturn
  /\ UNCHANGED <<roleVars, infoVars, rep, running, primed, primedTime, outdated,
                 workerVars, gameVars, renderVars>>

\* What the new session has to fill when the boundary is d samples into the block.
RestAfter(d) == BlockSize - d

\* How the block lies about the boundary: after it, before it, or around it.
AudioMeasure ==
  /\ apc = "measure"
  /\ LET t == audioTime[aActive]
     IN  \/ aBoundary < t /\ apc' = "missed" /\ UNCHANGED aRest
         \/ aBoundary > t + BlockSize /\ apc' = "plain" /\ UNCHANGED aRest
         \/ /\ aBoundary >= t /\ aBoundary <= t + BlockSize
            /\ apc' = "first" /\ aRest' = RestAfter(aBoundary - t)
  /\ UNCHANGED <<roleVars, infoVars, sessionVars, workerVars, gameVars, renderVars,
                 aActive, aBoundary, aOvertaken>>

GiveUp == state' = IF state = "Ready" THEN "Failed" ELSE state

AudioMissed ==
  /\ apc = "missed"
  /\ GiveUp
  /\ apc' = "plain"
  /\ UNCHANGED <<roleVars, generation, boundary, sessionVars, workerVars, gameVars,
                 renderVars, aActive, aBoundary, aRest, aOvertaken>>

CommitsAnyway(k) == TRUE                          \* mutant: shortage not tested
Drained(k) == k = BlockSize - aRest

\* The old session is drained up to the boundary; if it cannot be, not now.
AudioFirst ==
  /\ apc = "first"
  /\ \E k \in Supplied(aActive, BlockSize - aRest) :
       /\ Hear(aActive, k)
       /\ IF Drained(k)
          THEN apc' = "commit" /\ UNCHANGED <<aActive, aBoundary, aRest, aOvertaken>>
          ELSE AudioReturn
  /\ UNCHANGED <<roleVars, infoVars, rep, running, primed, primedTime, outdated,
                 workerVars, gameVars, renderVars>>

AudioCommit ==
  /\ apc = "commit"
  /\ IF CanCommit
     THEN /\ Commit /\ aActive' = pending /\ apc' = "second"
          /\ UNCHANGED <<aBoundary, aRest, aOvertaken>>
     ELSE AudioReturn /\ UNCHANGED <<active, pending, retired, state>>
  /\ UNCHANGED <<preparing, generation, boundary, sessionVars, workerVars, gameVars,
                 renderVars>>

AudioSecond ==
  /\ apc = "second"
  /\ \E k \in Supplied(aActive, aRest) : Hear(aActive, k)
  /\ AudioReturn
  /\ UNCHANGED <<roleVars, infoVars, rep, running, primed, primedTime, outdated,
                 workerVars, gameVars, renderVars>>

Audio ==
  \/ AudioBegin \/ AudioSnapshot \/ AudioPlain \/ AudioMeasure \/ AudioMissed
  \/ AudioFirst \/ AudioCommit \/ AudioSecond

-----------------------------------------------------------------------------

Next ==
  \/ \E o \in media.operations : GameBegin(o)
  \/ Start \/ Tick \/ Game \/ Worker \/ Render \/ Audio

Spec == Init /\ [][Next]_vars

\* An operation that has begun is carried on, preparation ends (its attempts
\* are bounded), the clock runs, and the host keeps calling presentation() and
\* read_audio().  Whether a player then has samples is left open.
FairSpec ==
  /\ Spec
  /\ WF_vars(Game) /\ WF_vars(Worker) /\ WF_vars(Tick) /\ WF_vars(Render)
  /\ WF_vars(Audio)

-----------------------------------------------------------------------------
(* Properties.                                                             *)

\* STREAMING_AND_ADAPTATION: the block is split at the exact boundary sample.  When the
\* audio thread commits, the old session has been heard up to the very sample that the
\* new one continues with, unless the generation advanced during the call.
SoundContinuous ==
  [][(apc = "commit" /\ apc' = "second" /\ ~aOvertaken)
       => audioTime[active] = audioTime[active']]_active

\* A media without audio shows after a seek no picture that was primed before it.  (With
\* audio it may: a session that the audio thread committed and that has not been shown
\* yet keeps its primed picture over the seek.)
NoPictureOfEarlierSeek == ~media.audio => ~shown.outdated

\* An operation returns, so the candidate is joined, and a preparation ends.
OperationReturns == (gpc # "idle") ~> (gpc = "idle")

\* A switch does not outlast its boundary: once the sound, or the picture of a media
\* without audio, has passed it, a candidate that is ready is committed or given up,
\* whenever it became ready and whether or not any more samples come; so the picture,
\* which waits at the boundary as long as the switch is ready, is let go.
BoundaryPassed == IF media.audio THEN active # None /\ audioTime[active] > boundary ELSE clock > boundary

\* Playback does not wait at a boundary for ever (it does: when the sound ends or
\* starves short of it, nothing commits the switch and nothing gives it up).
BoundaryIsPassed == (state = "Ready" /\ started) ~> (state # "Ready" \/ ~started)

\* STREAMING_AND_ADAPTATION: texture and geometry wait at the boundary for the
\* audio commit and then publish the pending presentation; so the retired
\* session shows nothing at or after the boundary.
RetiredStopsAtBoundary ==
  [][(shown'.session = retired /\ retired # None) => shown'.time < primedTime[active]]_shown

\* STREAMING_AND_ADAPTATION: content without audio commits from the presentation
\* path at the boundary's timestamp; presentation() gives up a switch that is
\* more than a frame late.
SilentCommitIsTimely ==
  [][(~media.audio /\ pending # None /\ active' = pending) => rTime <= boundary + 1]_active

\* AdaptivePlayerCoordinator.h: the active pointer is exchanged only after the
\* pending session has decoded a complete presentation at the boundary.
CommitIsComplete ==
  [][(pending # None /\ active' = pending) => primed[pending]]_active

\* docs/CORE.md: close, seek, cancellation and a newer request invalidate the
\* previous generation; a candidate so invalidated is not committed.
CancelledIsNotCommitted ==
  [][(pending # None /\ active' = pending) => gpc \notin {"join", "clear"}]_active
=============================================================================
