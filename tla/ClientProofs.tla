----------------------------- MODULE ClientProofs ------------------------------
(***************************************************************************)
(* Proofs about the two clients that put players to use:                   *)
(* AdaptiveCoordinator, for any manifest, any number of sessions and       *)
(* generations, any length of a block and any media, and FrameReader, for  *)
(* any number of host threads, any file and any limits of the cache.       *)
(*                                                                         *)
(* The coordinator's theorems rest on the same facts (SwitchInv): a        *)
(* candidate is a session that no other thread knows yet, and an operation *)
(* of the game thread changes something only after it has joined the       *)
(* worker and cleared the candidate.  The reader's rest on ReaderInv: a    *)
(* call whose generation is current is one of the open file, all who hold  *)
(* an object asked for the same time of the same file, and the map names   *)
(* the requests that are led, whose times are not cached.                  *)
(***************************************************************************)
EXTENDS AdaptiveCoordinator, FrameReader,
        SequenceTheorems, FiniteSetTheorems, WellFoundedInduction, TLAPS

-----------------------------------------------------------------------------
(* The coordinator: the inductive invariant.                               *)

\* What a call that has begun may count on, and where a thread works on a session.
Room ==
  /\ gpc # "idle" => gOp \in Operation
  /\ gpc # "idle" /\ Creates(gOp) => created < MaxSession
  /\ gpc # "idle" /\ gOp.op = "request" => generation + 1 <= MaxGeneration
  /\ gpc = "publish" => gOp.op = "open"
  /\ wpc # "off" => candidate \in Session
  /\ apc # "idle" => aActive \in Session
  /\ rpc \in {"wait", "present"} => rActive \in Session

Known == Session \cup {None}

\* TypeOK, one group of variables at a time.
RolesTyped == active \in Known /\ preparing \in Known /\ pending \in Known /\ retired \in Known
InfoTyped == state \in {"Stable", "Preparing", "Ready", "Failed"} /\ generation \in Generation /\ boundary \in Time
SessionsTyped ==
  /\ rep \in [Session -> Representation] /\ running \in [Session -> BOOLEAN]
  /\ audioTime \in [Session -> Time] /\ outdated \subseteq Session
  /\ primed \in [Session -> BOOLEAN] /\ primedTime \in [Session -> Time]
WorkerTyped ==
  /\ wpc \in {"off", "prepare", "publish"} /\ candidate \in Known
  /\ wGen \in Generation /\ wTime \in Time /\ wReady \in BOOLEAN /\ wStart \in BOOLEAN
GameTyped ==
  /\ media \in Media /\ started \in BOOLEAN /\ created \in 0 .. MaxSession /\ clock \in Time
  /\ gpc \in {"idle", "join", "clear", "act", "publish"} /\ gOp \in Operation \cup {NoOperation}
RenderTyped ==
  /\ rpc \in {"idle", "commit", "active", "wait", "present"}
  /\ rTime \in Time /\ rActive \in Known /\ rOvertaken \in BOOLEAN /\ shown \in Picture
AudioTyped ==
  /\ apc \in {"idle", "snap", "plain", "measure", "missed", "first", "commit", "second"}
  /\ aActive \in Known /\ aBoundary \in Time /\ aRest \in 0 .. BlockSize /\ aOvertaken \in BOOLEAN

Typed ==
  RolesTyped /\ InfoTyped /\ SessionsTyped /\ WorkerTyped /\ GameTyped /\ RenderTyped /\ AudioTyped

TypeInv == Typed /\ Room

\* Sessions are numbered as they are created.
Numbered ==
  /\ active <= created /\ pending <= created /\ candidate <= created
  /\ rActive <= created /\ aActive <= created
  /\ \A s \in Session : primed[s] \/ s \in outdated => s <= created

\* The worker has a candidate, and nothing is pending while it runs; an operation acts
\* without a worker and without a candidate.
Cleared ==
  /\ wpc = "off" <=> candidate = None
  /\ wpc # "off" => pending = None /\ wTime = boundary
  /\ gpc \in {"clear", "act", "publish"} => wpc = "off"
  /\ gpc \in {"act", "publish"} => pending = None

\* Nobody else has got hold of the session that waits to be active.
Private ==
  /\ active # None => active # pending /\ active # candidate
  /\ rActive # None => rActive # pending /\ rActive # candidate
  /\ aActive # None => aActive # pending /\ aActive # candidate

\* A media without audio: what is primed is shown as soon as it is committed.
Silent ==
  ~media.audio =>
    /\ apc = "idle"
    /\ \A s \in Session : primed[s] => s # active /\ s # rActive
    /\ pending \notin outdated /\ candidate \notin outdated
    /\ ~shown.outdated

\* A media with audio: the candidate's sound stands at the boundary, and a call that
\* the generation did not overtake measures the active session against it.
Sounding ==
  /\ pending # None => audioTime[pending] = boundary
  /\ wpc = "publish" /\ wReady => audioTime[candidate] = wTime
  /\ ~aOvertaken /\ apc = "snap" /\ (pending # None \/ wpc # "off") => aActive = active
  /\ ~aOvertaken /\ apc \in {"measure", "first", "commit"} =>
       /\ wpc = "off"
       /\ pending # None => aActive = active /\ aBoundary = boundary
  /\ ~aOvertaken /\ apc = "first" /\ pending # None =>
       aRest = BlockSize - (aBoundary - audioTime[aActive])
  /\ ~aOvertaken /\ apc = "commit" /\ pending # None => audioTime[aActive] = aBoundary

SwitchInv == Numbered /\ Cleared /\ Private /\ Silent /\ Sounding
-----------------------------------------------------------------------------
(* The types.                                                              *)

\* What an operation carries.
LEMMA Arguments ==
  ASSUME NEW o \in Operation
  PROVE  /\ o.op \in {"cancel", "stop", "close", "seek", "request", "open"}
         /\ o.op \in {"seek", "request"} => o.time \in Time
         /\ o.op \in {"request", "open"} => o.rep \in Representation
BY DEF Operation

LEMMA Numbers ==
  /\ 0 \in Time /\ 0 \in Generation /\ None \in Known /\ Session \subseteq Known /\ NoPicture \in Picture
  /\ 0 \in 0 .. BlockSize /\ 0 \in 0 .. MaxSession
  /\ \A n \in 0 .. MaxSession : n < MaxSession => n + 1 \in Session /\ n + 1 \in 0 .. MaxSession
  /\ \A g \in Generation : g + 1 <= MaxGeneration => g + 1 \in Generation
  /\ \A t \in Time : t < MaxTime => t + 1 \in Time
  /\ \A d \in 0 .. BlockSize : RestAfter(d) \in 0 .. BlockSize
BY CoordinatorAssumption DEF Time, Generation, Known, Session, None, Picture, NoPicture, RestAfter

LEMMA ShownPicture ==
  ASSUME shown \in Picture, NEW s \in Session, NEW t \in Time, NEW old \in BOOLEAN, Show(s, t, old)
  PROVE  shown' \in Picture
BY DEF Show, Picture

LEMMA HeardTime ==
  ASSUME audioTime \in [Session -> Time], NEW s \in Session, NEW n \in Nat,
         NEW k \in Supplied(s, n), Hear(s, k)
  PROVE  /\ audioTime' \in [Session -> Time] /\ k \in 0 .. n
         /\ audioTime'[s] = audioTime[s] + k /\ \A r \in Session : r # s => audioTime'[r] = audioTime[r]
<1>1. k \in 0 .. n /\ audioTime[s] + k <= MaxTime
  BY DEF Supplied
<1>2. audioTime' = [audioTime EXCEPT ![s] = audioTime[s] + k]
  BY DEF Hear
<1>3. audioTime[s] + k \in Time
  BY <1>1, CoordinatorAssumption DEF Time
<1> QED
  BY <1>1, <1>2, <1>3

LEMMA TypeInit == Init => TypeInv
<1> SUFFICES ASSUME Init PROVE TypeInv
  OBVIOUS
<1>1. (CHOOSE r \in Representation : TRUE) \in Representation
  BY CoordinatorAssumption
<1>2. Typed
  BY <1>1, Numbers DEF Init, Typed, RolesTyped, InfoTyped, SessionsTyped, WorkerTyped, GameTyped,
     RenderTyped, AudioTyped
<1>3. Room
  BY DEF Init, Room
<1> QED
  BY <1>2, <1>3 DEF TypeInv

\* The game thread.
LEMMA GameKeepsTypes ==
  ASSUME TypeInv, Game \/ (\E o \in media.operations : GameBegin(o)) \/ Start \/ Tick
  PROVE  TypeInv'
<1>0. media.operations \subseteq Operation /\ generation \in Nat /\ MaxGeneration \in Nat
  BY CoordinatorAssumption DEF TypeInv, Typed, GameTyped, InfoTyped, Generation
<1> USE Numbers DEF TypeInv, Typed, RolesTyped, InfoTyped, SessionsTyped, WorkerTyped, GameTyped,
                 RenderTyped, AudioTyped, roleVars, infoVars, sessionVars, workerVars,
                 renderLocals, renderVars, audioLocals, audioVars
<1>1. ASSUME NEW o \in media.operations, GameBegin(o) PROVE TypeInv'
  <2>1. o \in Operation /\ o.op # "none"
    BY <1>0, Arguments
  <2>0. generation + 1 <= MaxGeneration
    BY <1>0, <1>1, <2>1 DEF GameBegin, Advances
  <2>2. Typed'
    BY <1>1, <2>0, <2>1 DEF GameBegin, OvertakesAudio
  <2>3. Room'
    BY <1>0, <1>1, <2>1 DEF GameBegin, OvertakesAudio, Advances, Creates, Room
  <2> QED
    BY <2>2, <2>3
<1>2. CASE Start
  <2>1. RolesTyped'
    BY <1>2 DEF Start
  <2>2. InfoTyped'
    BY <1>2 DEF Start
  <2>3. SessionsTyped'
    BY <1>2 DEF Start
  <2>4. WorkerTyped'
    BY <1>2 DEF Start
  <2>5. GameTyped'
    BY <1>2 DEF Start
  <2>6. RenderTyped'
    BY <1>2 DEF Start
  <2>7. AudioTyped'
    BY <1>2 DEF Start
  <2>8. Room'
    BY <1>2 DEF Start, Room
  <2> QED
    BY <2>1, <2>2, <2>3, <2>4, <2>5, <2>6, <2>7, <2>8
<1>3. CASE Tick
  BY <1>3 DEF Tick, Room
<1>4. CASE GameJoin
  BY <1>4 DEF GameJoin, Room
<1>5. CASE GameClear
  BY <1>5 DEF GameClear, ClearCandidate, OperationReturn, Room
<1>6. CASE GameStop
  <2>1. RolesTyped'
    BY <1>6 DEF GameStop, OperationReturn
  <2>2. InfoTyped'
    BY <1>6 DEF GameStop, OperationReturn
  <2>3. SessionsTyped'
    BY <1>6 DEF GameStop, OperationReturn
  <2>4. WorkerTyped'
    BY <1>6 DEF GameStop, OperationReturn
  <2>5. GameTyped'
    BY <1>6 DEF GameStop, OperationReturn
  <2>6. RenderTyped'
    BY <1>6 DEF GameStop, OperationReturn
  <2>7. AudioTyped'
    BY <1>6 DEF GameStop, OperationReturn
  <2>8. Room'
    BY <1>6 DEF GameStop, OperationReturn, Room
  <2> QED
    BY <2>1, <2>2, <2>3, <2>4, <2>5, <2>6, <2>7, <2>8
<1>7. CASE GameClose
  <2>1. RolesTyped'
    BY <1>7 DEF GameClose, OperationReturn
  <2>2. InfoTyped'
    BY <1>7 DEF GameClose, OperationReturn
  <2>3. SessionsTyped'
    BY <1>7 DEF GameClose, OperationReturn
  <2>4. WorkerTyped'
    BY <1>7 DEF GameClose, OperationReturn
  <2>5. GameTyped'
    BY <1>7 DEF GameClose, OperationReturn
  <2>6. RenderTyped'
    BY <1>7 DEF GameClose, OperationReturn
  <2>7. AudioTyped'
    BY <1>7 DEF GameClose, OperationReturn
  <2>8. Room'
    BY <1>7 DEF GameClose, OperationReturn, Room
  <2> QED
    BY <2>1, <2>2, <2>3, <2>4, <2>5, <2>6, <2>7, <2>8
<1>8. CASE GameOpen
  <2>1. gOp.rep \in Representation /\ created < MaxSession
    BY <1>8, Arguments DEF GameOpen, Room, Creates
  <2>2. RolesTyped'
    BY <1>8, <2>1 DEF GameOpen, OperationReturn, TimelineMoves
  <2>3. InfoTyped'
    BY <1>8, <2>1 DEF GameOpen, OperationReturn, TimelineMoves
  <2>4. SessionsTyped'
    BY <1>8, <2>1 DEF GameOpen, OperationReturn, TimelineMoves
  <2>5. WorkerTyped'
    BY <1>8, <2>1 DEF GameOpen, OperationReturn, TimelineMoves
  <2>6. GameTyped'
    BY <1>8, <2>1 DEF GameOpen, OperationReturn, TimelineMoves
  <2>7. RenderTyped'
    BY <1>8, <2>1 DEF GameOpen, OperationReturn, TimelineMoves
  <2>8. AudioTyped'
    BY <1>8, <2>1 DEF GameOpen, OperationReturn, TimelineMoves
  <2>9. Room'
    BY <1>8, <2>1 DEF GameOpen, OperationReturn, TimelineMoves, Room
  <2> QED
    BY <2>2, <2>3, <2>4, <2>5, <2>6, <2>7, <2>8, <2>9
<1>9. CASE GameSeek
  <2>1. gOp.time \in Time
    BY <1>9, Arguments DEF GameSeek, Room
  <2>2. RolesTyped'
    BY <1>9, <2>1 DEF GameSeek, OperationReturn, TimelineMoves
  <2>3. InfoTyped'
    BY <1>9, <2>1 DEF GameSeek, OperationReturn, TimelineMoves
  <2>4. SessionsTyped'
    BY <1>9, <2>1 DEF GameSeek, OperationReturn, TimelineMoves
  <2>5. WorkerTyped'
    BY <1>9, <2>1 DEF GameSeek, OperationReturn, TimelineMoves
  <2>6. GameTyped'
    BY <1>9, <2>1 DEF GameSeek, OperationReturn, TimelineMoves
  <2>7. RenderTyped'
    BY <1>9, <2>1 DEF GameSeek, OperationReturn, TimelineMoves
  <2>8. AudioTyped'
    BY <1>9, <2>1 DEF GameSeek, OperationReturn, TimelineMoves
  <2>9. Room'
    BY <1>9, <2>1 DEF GameSeek, OperationReturn, TimelineMoves, Room
  <2> QED
    BY <2>2, <2>3, <2>4, <2>5, <2>6, <2>7, <2>8, <2>9
<1>10. CASE GameRequest
  <2>1. /\ gOp.time \in Time /\ gOp.rep \in Representation
        /\ created < MaxSession /\ generation + 1 <= MaxGeneration
    BY <1>10, Arguments DEF GameRequest, Room, Creates
  <2>2. RolesTyped'
    BY <1>10, <2>1 DEF GameRequest, OperationReturn, OvertakesAudio
  <2>3. InfoTyped'
    BY <1>10, <2>1 DEF GameRequest, OperationReturn, OvertakesAudio
  <2>4. SessionsTyped'
    BY <1>10, <2>1 DEF GameRequest, OperationReturn, OvertakesAudio
  <2>5. WorkerTyped'
    BY <1>10, <2>1 DEF GameRequest, OperationReturn, OvertakesAudio
  <2>6. GameTyped'
    BY <1>10, <2>1 DEF GameRequest, OperationReturn, OvertakesAudio
  <2>7. RenderTyped'
    BY <1>10, <2>1 DEF GameRequest, OperationReturn, OvertakesAudio
  <2>8. AudioTyped'
    BY <1>10, <2>1 DEF GameRequest, OperationReturn, OvertakesAudio
  <2>9. Room'
    BY <1>10, <2>1 DEF GameRequest, OperationReturn, OvertakesAudio, Room
  <2> QED
    BY <2>2, <2>3, <2>4, <2>5, <2>6, <2>7, <2>8, <2>9
<1> QED
  BY <1>1, <1>2, <1>3, <1>4, <1>5, <1>6, <1>7, <1>8, <1>9, <1>10 DEF Game

LEMMA WorkerKeepsTypes ==
  ASSUME TypeInv, Worker
  PROVE  TypeInv'
<1> USE Numbers DEF TypeInv, Typed, RolesTyped, InfoTyped, SessionsTyped, WorkerTyped, GameTyped,
            RenderTyped, AudioTyped, roleVars, infoVars, sessionVars, gameVars,
            renderLocals, renderVars, audioLocals, audioVars
<1>1. CASE WorkerPrepare
  <2>1. RolesTyped'
    BY <1>1 DEF WorkerPrepare
  <2>2. InfoTyped'
    BY <1>1 DEF WorkerPrepare
  <2>3. SessionsTyped'
    BY <1>1 DEF WorkerPrepare
  <2>4. WorkerTyped'
    BY <1>1 DEF WorkerPrepare
  <2>5. GameTyped'
    BY <1>1 DEF WorkerPrepare
  <2>6. RenderTyped'
    BY <1>1 DEF WorkerPrepare
  <2>7. AudioTyped'
    BY <1>1 DEF WorkerPrepare
  <2>8. Room'
    BY <1>1 DEF WorkerPrepare, Room
  <2> QED
    BY <2>1, <2>2, <2>3, <2>4, <2>5, <2>6, <2>7, <2>8
<1>2. CASE WorkerPublish
  <2>1. RolesTyped'
    BY <1>2 DEF WorkerPublish, WorkerReturn
  <2>2. InfoTyped'
    BY <1>2 DEF WorkerPublish, WorkerReturn
  <2>3. SessionsTyped'
    BY <1>2 DEF WorkerPublish, WorkerReturn
  <2>4. WorkerTyped'
    BY <1>2 DEF WorkerPublish, WorkerReturn
  <2>5. GameTyped'
    BY <1>2 DEF WorkerPublish, WorkerReturn
  <2>6. RenderTyped'
    BY <1>2 DEF WorkerPublish, WorkerReturn
  <2>7. AudioTyped'
    BY <1>2 DEF WorkerPublish, WorkerReturn
  <2>8. Room'
    BY <1>2 DEF WorkerPublish, WorkerReturn, Room
  <2> QED
    BY <2>1, <2>2, <2>3, <2>4, <2>5, <2>6, <2>7, <2>8
<1> QED
  BY <1>1, <1>2 DEF Worker

LEMMA RenderKeepsTypes ==
  ASSUME TypeInv, Render
  PROVE  TypeInv'
<1> USE Numbers DEF TypeInv, Typed, RolesTyped, InfoTyped, SessionsTyped, WorkerTyped, GameTyped,
            RenderTyped, AudioTyped, roleVars, infoVars, sessionVars, workerVars, gameVars,
            audioLocals, audioVars
<1>1. CASE PresentBegin
  BY <1>1 DEF PresentBegin, Room
<1>2. CASE PresentCommit
  <2>1. RolesTyped'
    BY <1>2 DEF PresentCommit, Commit, CanCommit, ShowPrimed, Show, ConsumePrimed, PresentReturn
  <2>2. InfoTyped'
    BY <1>2 DEF PresentCommit, Commit, CanCommit, ShowPrimed, Show, ConsumePrimed, PresentReturn
  <2>3. SessionsTyped'
    BY <1>2 DEF PresentCommit, Commit, CanCommit, ShowPrimed, Show, ConsumePrimed, PresentReturn
  <2>4. WorkerTyped'
    BY <1>2 DEF PresentCommit, Commit, CanCommit, ShowPrimed, Show, ConsumePrimed, PresentReturn
  <2>5. GameTyped'
    BY <1>2 DEF PresentCommit, Commit, CanCommit, ShowPrimed, Show, ConsumePrimed, PresentReturn
  <2>6. RenderTyped'
    <3>1. CASE ~media.audio /\ CanCommit /\ AtBoundary /\ primed[pending]
      <4>1. pending \in Session /\ ShowPrimed(pending) /\ PresentReturn
        BY <1>2, <3>1 DEF PresentCommit, CanCommit, Known
      <4>2. primedTime[pending] \in Time /\ (pending \in outdated) \in BOOLEAN
        BY <4>1
      <4>3. shown' \in Picture
        BY <4>1, <4>2, ShownPicture, ZenonT(30) DEF ShowPrimed
      <4> QED
        BY <4>1, <4>3 DEF PresentReturn
    <3>2. CASE ~(~media.audio /\ CanCommit /\ AtBoundary /\ primed[pending])
      <4>1. rpc' = "active" /\ UNCHANGED <<shown, rTime, rActive, rOvertaken>>
        BY <1>2, <3>2 DEF PresentCommit
      <4> QED
        BY <4>1
    <3> QED
      BY <3>1, <3>2
  <2>7. AudioTyped'
    BY <1>2 DEF PresentCommit, Commit, CanCommit, ShowPrimed, Show, ConsumePrimed, PresentReturn
  <2>8. Room'
    BY <1>2 DEF PresentCommit, Commit, CanCommit, ShowPrimed, Show, ConsumePrimed, PresentReturn, Room
  <2> QED
    BY <2>1, <2>2, <2>3, <2>4, <2>5, <2>6, <2>7, <2>8
<1>3. CASE PresentActive
  <2>1. RolesTyped'
    BY <1>3 DEF PresentActive, PresentReturn
  <2>2. InfoTyped'
    BY <1>3 DEF PresentActive, PresentReturn
  <2>3. SessionsTyped'
    BY <1>3 DEF PresentActive, PresentReturn
  <2>4. WorkerTyped'
    BY <1>3 DEF PresentActive, PresentReturn
  <2>5. GameTyped'
    BY <1>3 DEF PresentActive, PresentReturn
  <2>6. RenderTyped'
    BY <1>3 DEF PresentActive, PresentReturn
  <2>7. AudioTyped'
    BY <1>3 DEF PresentActive, PresentReturn
  <2>8. Room'
    BY <1>3 DEF PresentActive, PresentReturn, Room, Known
  <2> QED
    BY <2>1, <2>2, <2>3, <2>4, <2>5, <2>6, <2>7, <2>8
<1>4. CASE PresentWait
  <2>1. RolesTyped'
    BY <1>4 DEF PresentWait, PresentReturn
  <2>2. InfoTyped'
    BY <1>4 DEF PresentWait, PresentReturn
  <2>3. SessionsTyped'
    BY <1>4 DEF PresentWait, PresentReturn
  <2>4. WorkerTyped'
    BY <1>4 DEF PresentWait, PresentReturn
  <2>5. GameTyped'
    BY <1>4 DEF PresentWait, PresentReturn
  <2>6. RenderTyped'
    BY <1>4 DEF PresentWait, PresentReturn
  <2>7. AudioTyped'
    BY <1>4 DEF PresentWait, PresentReturn
  <2>8. Room'
    BY <1>4 DEF PresentWait, PresentReturn, Room
  <2> QED
    BY <2>1, <2>2, <2>3, <2>4, <2>5, <2>6, <2>7, <2>8
<1>5. CASE PresentPicture
  <2>1. RolesTyped'
    BY <1>5 DEF PresentPicture, PresentReturn, ShowPrimed, Show, ConsumePrimed
  <2>2. InfoTyped'
    BY <1>5 DEF PresentPicture, PresentReturn, ShowPrimed, Show, ConsumePrimed
  <2>3. SessionsTyped'
    BY <1>5 DEF PresentPicture, PresentReturn, ShowPrimed, Show, ConsumePrimed
  <2>4. WorkerTyped'
    BY <1>5 DEF PresentPicture, PresentReturn, ShowPrimed, Show, ConsumePrimed
  <2>5. GameTyped'
    BY <1>5 DEF PresentPicture, PresentReturn, ShowPrimed, Show, ConsumePrimed
  <2>6. RenderTyped'
    <3>1. rActive \in Session /\ PresentReturn
      BY <1>5 DEF PresentPicture, Room
    <3>2. CASE ShowPrimed(rActive)
      <4>1. primedTime[rActive] \in Time /\ (rActive \in outdated) \in BOOLEAN
        BY <3>1
      <4> QED
        BY <3>1, <3>2, <4>1, ShownPicture DEF ShowPrimed, PresentReturn
    <3>3. CASE Show(rActive, rTime, FALSE) \/ UNCHANGED shown
      BY <3>1, <3>3, ShownPicture DEF PresentReturn
    <3> QED
      BY <1>5, <3>2, <3>3 DEF PresentPicture
  <2>7. AudioTyped'
    BY <1>5 DEF PresentPicture, PresentReturn, ShowPrimed, Show, ConsumePrimed
  <2>8. Room'
    BY <1>5 DEF PresentPicture, PresentReturn, ShowPrimed, Show, ConsumePrimed, Room
  <2> QED
    BY <2>1, <2>2, <2>3, <2>4, <2>5, <2>6, <2>7, <2>8
<1> QED
  BY <1>1, <1>2, <1>3, <1>4, <1>5 DEF Render

LEMMA AudioKeepsTypes ==
  ASSUME TypeInv, Audio
  PROVE  TypeInv'
<1>0. MaxTime \in Nat /\ BlockSize \in Nat
  BY CoordinatorAssumption
<1> USE Numbers DEF TypeInv, Typed, RolesTyped, InfoTyped, SessionsTyped, WorkerTyped, GameTyped,
            RenderTyped, AudioTyped, roleVars, infoVars, sessionVars, workerVars,
                 gameVars, renderLocals, renderVars
<1>1. CASE AudioBegin
  <2>1. RolesTyped'
    BY <1>1 DEF AudioBegin
  <2>2. InfoTyped'
    BY <1>1 DEF AudioBegin
  <2>3. SessionsTyped'
    BY <1>1 DEF AudioBegin
  <2>4. WorkerTyped'
    BY <1>1 DEF AudioBegin
  <2>5. GameTyped'
    BY <1>1 DEF AudioBegin
  <2>6. RenderTyped'
    BY <1>1 DEF AudioBegin
  <2>7. AudioTyped'
    BY <1>1 DEF AudioBegin
  <2>8. Room'
    BY <1>1 DEF AudioBegin, Room, Known
  <2> QED
    BY <2>1, <2>2, <2>3, <2>4, <2>5, <2>6, <2>7, <2>8
<1>2. CASE AudioSnapshot
  BY <1>2 DEF AudioSnapshot, Room
<1>3. CASE AudioPlain
  <2>1. RolesTyped'
    BY <1>3 DEF AudioPlain, Supplied, Hear, AudioReturn
  <2>2. InfoTyped'
    BY <1>3 DEF AudioPlain, Supplied, Hear, AudioReturn
  <2>3. SessionsTyped'
    <3>1. PICK k \in Supplied(aActive, BlockSize) : Hear(aActive, k)
      BY <1>3 DEF AudioPlain
    <3>2. aActive \in Session /\ BlockSize \in Nat
      BY <1>0, <1>3 DEF AudioPlain, Room
    <3> QED
      BY <1>3, <3>1, <3>2, HeardTime DEF AudioPlain
  <2>4. WorkerTyped'
    BY <1>3 DEF AudioPlain, Supplied, Hear, AudioReturn
  <2>5. GameTyped'
    BY <1>3 DEF AudioPlain, Supplied, Hear, AudioReturn
  <2>6. RenderTyped'
    BY <1>3 DEF AudioPlain, Supplied, Hear, AudioReturn
  <2>7. AudioTyped'
    BY <1>3 DEF AudioPlain, Supplied, Hear, AudioReturn
  <2>8. Room'
    BY <1>3 DEF AudioPlain, Supplied, Hear, AudioReturn, Room
  <2> QED
    BY <2>1, <2>2, <2>3, <2>4, <2>5, <2>6, <2>7, <2>8
<1>4. CASE AudioMeasure
  <2>1. RolesTyped'
    BY <1>4 DEF AudioMeasure, RestAfter
  <2>2. InfoTyped'
    BY <1>4 DEF AudioMeasure, RestAfter
  <2>3. SessionsTyped'
    BY <1>4 DEF AudioMeasure, RestAfter
  <2>4. WorkerTyped'
    BY <1>4 DEF AudioMeasure, RestAfter
  <2>5. GameTyped'
    BY <1>4 DEF AudioMeasure, RestAfter
  <2>6. RenderTyped'
    BY <1>4 DEF AudioMeasure, RestAfter
  <2>7. AudioTyped'
    <3>1. CASE apc' \in {"missed", "plain"} /\ UNCHANGED <<aRest, aActive, aBoundary, aOvertaken>>
      BY <3>1
    <3>2. CASE /\ aBoundary >= audioTime[aActive] /\ aBoundary <= audioTime[aActive] + BlockSize
               /\ apc' = "first" /\ aRest' = RestAfter(aBoundary - audioTime[aActive])
      <4>1. audioTime[aActive] \in Nat /\ aBoundary \in Nat
        BY <1>0, <1>4 DEF AudioMeasure, Room, Time
      <4>2. aBoundary - audioTime[aActive] \in 0 .. BlockSize
        BY <1>0, <3>2, <4>1
      <4>3. aRest' \in 0 .. BlockSize
        BY <3>2, <4>2
      <4> QED
        BY <1>4, <3>2, <4>3 DEF AudioMeasure
    <3> QED
      BY <1>4, <3>1, <3>2 DEF AudioMeasure
  <2>8. Room'
    BY <1>4 DEF AudioMeasure, RestAfter, Room
  <2> QED
    BY <2>1, <2>2, <2>3, <2>4, <2>5, <2>6, <2>7, <2>8
<1>5. CASE AudioMissed
  BY <1>5 DEF AudioMissed, GiveUp, Room
<1>6. CASE AudioFirst
  <2>1. RolesTyped'
    BY <1>6 DEF AudioFirst, Supplied, Hear, AudioReturn
  <2>2. InfoTyped'
    BY <1>6 DEF AudioFirst, Supplied, Hear, AudioReturn
  <2>3. SessionsTyped'
    <3>1. PICK k \in Supplied(aActive, (BlockSize - aRest)) : Hear(aActive, k)
      BY <1>6 DEF AudioFirst
    <3>2. aActive \in Session /\ (BlockSize - aRest) \in Nat
      BY <1>0, <1>6 DEF AudioFirst, Room
    <3> QED
      BY <1>6, <3>1, <3>2, HeardTime DEF AudioFirst
  <2>4. WorkerTyped'
    BY <1>6 DEF AudioFirst, Supplied, Hear, AudioReturn
  <2>5. GameTyped'
    BY <1>6 DEF AudioFirst, Supplied, Hear, AudioReturn
  <2>6. RenderTyped'
    BY <1>6 DEF AudioFirst, Supplied, Hear, AudioReturn
  <2>7. AudioTyped'
    BY <1>6 DEF AudioFirst, Supplied, Hear, AudioReturn
  <2>8. Room'
    BY <1>6 DEF AudioFirst, Supplied, Hear, AudioReturn, Room
  <2> QED
    BY <2>1, <2>2, <2>3, <2>4, <2>5, <2>6, <2>7, <2>8
<1>7. CASE AudioCommit
  <2>1. RolesTyped'
    BY <1>7 DEF AudioCommit, CanCommit, Commit, AudioReturn
  <2>2. InfoTyped'
    BY <1>7 DEF AudioCommit, CanCommit, Commit, AudioReturn
  <2>3. SessionsTyped'
    BY <1>7 DEF AudioCommit, CanCommit, Commit, AudioReturn
  <2>4. WorkerTyped'
    BY <1>7 DEF AudioCommit, CanCommit, Commit, AudioReturn
  <2>5. GameTyped'
    BY <1>7 DEF AudioCommit, CanCommit, Commit, AudioReturn
  <2>6. RenderTyped'
    BY <1>7 DEF AudioCommit, CanCommit, Commit, AudioReturn
  <2>7. AudioTyped'
    BY <1>7 DEF AudioCommit, CanCommit, Commit, AudioReturn
  <2>8. Room'
    BY <1>7 DEF AudioCommit, CanCommit, Commit, AudioReturn, Room, Known
  <2> QED
    BY <2>1, <2>2, <2>3, <2>4, <2>5, <2>6, <2>7, <2>8
<1>8. CASE AudioSecond
  <2>1. RolesTyped'
    BY <1>8 DEF AudioSecond, Supplied, Hear, AudioReturn
  <2>2. InfoTyped'
    BY <1>8 DEF AudioSecond, Supplied, Hear, AudioReturn
  <2>3. SessionsTyped'
    <3>1. PICK k \in Supplied(aActive, aRest) : Hear(aActive, k)
      BY <1>8 DEF AudioSecond
    <3>2. aActive \in Session /\ aRest \in Nat
      BY <1>0, <1>8 DEF AudioSecond, Room
    <3> QED
      BY <1>8, <3>1, <3>2, HeardTime DEF AudioSecond
  <2>4. WorkerTyped'
    BY <1>8 DEF AudioSecond, Supplied, Hear, AudioReturn
  <2>5. GameTyped'
    BY <1>8 DEF AudioSecond, Supplied, Hear, AudioReturn
  <2>6. RenderTyped'
    BY <1>8 DEF AudioSecond, Supplied, Hear, AudioReturn
  <2>7. AudioTyped'
    BY <1>8 DEF AudioSecond, Supplied, Hear, AudioReturn
  <2>8. Room'
    BY <1>8 DEF AudioSecond, Supplied, Hear, AudioReturn, Room
  <2> QED
    BY <2>1, <2>2, <2>3, <2>4, <2>5, <2>6, <2>7, <2>8
<1> QED
  BY <1>1, <1>2, <1>3, <1>4, <1>5, <1>6, <1>7, <1>8 DEF Audio

LEMMA TypeIsSound == Spec => []TypeInv
<1>1. TypeInv /\ [Next]_vars => TypeInv'
  <2>1. ASSUME TypeInv, UNCHANGED vars PROVE TypeInv'
    BY <2>1 DEF vars, TypeInv, Typed, RolesTyped, InfoTyped, SessionsTyped, WorkerTyped, GameTyped,
       RenderTyped, AudioTyped, Room, roleVars, infoVars, sessionVars, workerVars, gameVars,
                renderLocals, renderVars, audioLocals, audioVars
  <2> QED
    BY <2>1, GameKeepsTypes, WorkerKeepsTypes, RenderKeepsTypes, AudioKeepsTypes DEF Next
<1> QED
  BY <1>1, TypeInit, PTL DEF Spec

\* Every variable keeps its type.
THEOREM TypeCorrect == Spec => []TypeOK
<1>1. TypeInv => TypeOK
  BY DEF TypeInv, Typed, RolesTyped, InfoTyped, SessionsTyped, WorkerTyped, GameTyped, RenderTyped, AudioTyped,
         Known, TypeOK
<1> QED
  BY <1>1, TypeIsSound, PTL
-----------------------------------------------------------------------------
(* The switch.                                                             *)

LEMMA Sessions ==
  ASSUME TypeInv
  PROVE  /\ created \in Nat /\ created <= MaxSession /\ MaxSession \in Nat /\ None = 0
         /\ active \in Nat /\ pending \in Nat /\ candidate \in Nat /\ rActive \in Nat /\ aActive \in Nat
         /\ (active # None => active \in Session) /\ (pending # None => pending \in Session)
         /\ (candidate # None => candidate \in Session)
         /\ \A s \in Session : s \in Nat /\ s # None
         /\ outdated \subseteq Session
         /\ audioTime \in [Session -> Time] /\ primed \in [Session -> BOOLEAN]
BY CoordinatorAssumption
   DEF TypeInv, Typed, GameTyped, RolesTyped, WorkerTyped, RenderTyped, AudioTyped, SessionsTyped, Known, Session, None

LEMMA SwitchInit == Init => SwitchInv
BY CoordinatorAssumption
   DEF Init, SwitchInv, Numbered, Cleared, Private, Silent, Sounding, Session, None, NoPicture

\* The game thread.
LEMMA GameKeepsSwitch ==
  ASSUME TypeInv, SwitchInv, Game \/ (\E o \in media.operations : GameBegin(o)) \/ Start \/ Tick
  PROVE  SwitchInv'
<1> USE Sessions DEF SwitchInv, Numbered, Cleared, Private, Silent, Sounding, roleVars, infoVars, sessionVars,
                     workerVars, renderLocals, renderVars, audioLocals, audioVars
<1>1. ASSUME NEW o \in media.operations, GameBegin(o) PROVE SwitchInv'
  BY <1>1 DEF GameBegin, OvertakesAudio
<1>2. CASE Start
  BY <1>2 DEF Start
<1>3. CASE Tick
  BY <1>3 DEF Tick
<1>4. CASE GameJoin
  BY <1>4 DEF GameJoin, WorkerJoined
<1>5. CASE GameClear
  BY <1>5 DEF GameClear, ClearCandidate, OperationReturn
<1>6. CASE GameStop
  BY <1>6 DEF GameStop, OperationReturn
<1>7. CASE GameClose
  BY <1>7 DEF GameClose, OperationReturn
<1>8. CASE GameOpen
  BY <1>8 DEF GameOpen, OperationReturn, TimelineMoves, NoPicture
<1>9. CASE GameSeek
  BY <1>9 DEF GameSeek, OperationReturn, TimelineMoves, NoPicture
<1>10. CASE GameRequest
  <2>1. /\ gpc = "act" /\ gpc' = "idle" /\ pending = None /\ wpc = "off" /\ candidate = None
        /\ UNCHANGED <<media, active, pending, audioTime, primed, outdated, rActive, shown, audioLocals>>
    BY <1>10 DEF GameRequest, OperationReturn
  <2>2. CASE UNCHANGED <<infoVars, created, workerVars, aOvertaken>>
    BY <2>1, <2>2
  <2>3. CASE /\ created' = created + 1 /\ candidate' = created + 1 /\ boundary' = gOp.time
             /\ wTime' = gOp.time /\ wReady' = FALSE /\ wpc' = "prepare" /\ OvertakesAudio
    <3>1. Numbered' /\ Private' /\ Cleared'
      BY <2>1, <2>3
    <3>2. candidate' \notin outdated
      BY <2>3
    <3>3. Silent'
      BY <2>1, <2>3, <3>2
    <3>4. Sounding'
      BY <2>1, <2>3 DEF OvertakesAudio
    <3> QED
      BY <3>1, <3>3, <3>4
  <2> QED
    BY <1>10, <2>2, <2>3 DEF GameRequest
<1> QED
  BY <1>1, <1>2, <1>3, <1>4, <1>5, <1>6, <1>7, <1>8, <1>9, <1>10 DEF Game

LEMMA WorkerKeepsSwitch ==
  ASSUME TypeInv, SwitchInv, Worker
  PROVE  SwitchInv'
<1> USE Sessions DEF SwitchInv, Numbered, Cleared, Private, Silent, Sounding, roleVars, infoVars, sessionVars,
                     gameVars, renderLocals, renderVars, audioLocals, audioVars
<1>1. CASE WorkerPrepare
  <2>1. /\ wpc = "prepare" /\ wpc' = "publish" /\ candidate \in Session /\ pending = None
        /\ UNCHANGED <<roleVars, infoVars, outdated, candidate, wTime, gameVars, renderVars, audioVars>>
    BY <1>1 DEF WorkerPrepare
  <2>2. CASE wReady' = FALSE /\ UNCHANGED <<audioTime, primed>>
    BY <2>1, <2>2 DEF gameVars
  <2>3. CASE /\ audioTime' = [audioTime EXCEPT ![candidate] = wTime]
             /\ primed' = [primed EXCEPT ![candidate] = wStart]
    <3>1. /\ audioTime'[candidate] = wTime
          /\ \A s \in Session : s # candidate => audioTime'[s] = audioTime[s] /\ primed'[s] = primed[s]
      BY <2>1, <2>3
    <3>2. aActive # None => aActive # candidate
      OBVIOUS
    <3>3. Numbered' /\ Cleared' /\ Private'
      BY <2>1, <3>1 DEF gameVars
    <3>4. Silent'
      BY <2>1, <3>1 DEF gameVars
    <3>5. Sounding'
      BY <2>1, <3>1
    <3> QED
      BY <3>3, <3>4, <3>5
  <2> QED
    BY <1>1, <2>2, <2>3 DEF WorkerPrepare
<1>2. CASE WorkerPublish
  BY <1>2 DEF WorkerPublish, WorkerReturn
<1> QED
  BY <1>1, <1>2 DEF Worker

LEMMA RenderKeepsSwitch ==
  ASSUME TypeInv, SwitchInv, Render
  PROVE  SwitchInv'
<1> USE Sessions DEF SwitchInv, Numbered, Cleared, Private, Silent, Sounding, roleVars, infoVars, sessionVars,
                     workerVars, gameVars, audioLocals, audioVars
<1>1. CASE PresentBegin
  BY <1>1 DEF PresentBegin, NoPicture
<1>2. CASE PresentCommit
  <2>1. /\ UNCHANGED <<generation, boundary, audioTime, outdated, workerVars, gameVars, audioVars>>
        /\ rActive' = rActive \/ rActive' = None
    BY <1>2 DEF PresentCommit, PresentReturn
  <2>2. CASE ~media.audio /\ CanCommit /\ AtBoundary
    <3>1. /\ pending \in Session /\ active' = pending /\ pending' = None /\ wpc = "off" /\ candidate = None
          /\ apc = "idle"
      BY <1>2, <2>2 DEF PresentCommit, CanCommit, Commit
    <3>2. /\ \A s \in Session : primed'[s] => primed[s] /\ s # pending
          /\ shown' = shown \/ shown'.outdated = (pending \in outdated)
      BY <1>2, <2>2, <3>1 DEF PresentCommit, ShowPrimed, Show, ConsumePrimed
    <3>3. Numbered' /\ Cleared' /\ Private'
      BY <2>1, <3>1, <3>2 DEF gameVars
    <3>4. Silent'
      BY <2>1, <2>2, <3>1, <3>2 DEF gameVars
    <3>5. Sounding'
      BY <2>1, <3>1
    <3> QED
      BY <3>3, <3>4, <3>5
  <2>3. CASE UNCHANGED <<active, pending, shown, primed>>
    BY <2>1, <2>3 DEF gameVars
  <2> QED
    BY <1>2, <2>2, <2>3 DEF PresentCommit
<1>3. CASE PresentActive
  BY <1>3 DEF PresentActive, PresentReturn
<1>4. CASE PresentWait
  BY <1>4 DEF PresentWait, PresentReturn
<1>5. CASE PresentPicture
  <2>1. /\ rActive \in Session /\ rActive' = None
        /\ UNCHANGED <<roleVars, infoVars, audioTime, outdated, workerVars, gameVars, audioVars>>
    BY <1>5 DEF PresentPicture, PresentReturn, TypeInv, Room
  <2>2. \A s \in Session : primed'[s] => primed[s]
    BY <1>5, <2>1 DEF PresentPicture, ShowPrimed, ConsumePrimed
  <2>3. ~primed[rActive] => shown' = shown \/ ~shown'.outdated
    BY <1>5 DEF PresentPicture, Show
  <2> QED
    BY <2>1, <2>2, <2>3 DEF gameVars
<1> QED
  BY <1>1, <1>2, <1>3, <1>4, <1>5 DEF Render

\* read_audio() moves the session that it reads, by what it was supplied.
LEMMA AudioHears ==
  ASSUME TypeInv, AudioPlain \/ AudioFirst \/ AudioSecond
  PROVE  /\ aActive \in Session
         /\ \A s \in Session : s # aActive => audioTime'[s] = audioTime[s]
         /\ AudioFirst /\ apc' = "commit" => audioTime'[aActive] = audioTime[aActive] + (BlockSize - aRest)
<1>1. aActive \in Session /\ audioTime \in [Session -> Time] /\ BlockSize \in Nat /\ aRest \in 0 .. BlockSize
  BY CoordinatorAssumption DEF TypeInv, Room, Typed, SessionsTyped, AudioTyped, AudioPlain, AudioFirst, AudioSecond
<1>2. PICK n \in Nat : \E k \in Supplied(aActive, n) : Hear(aActive, k)
  BY <1>1 DEF AudioPlain, AudioFirst, AudioSecond
<1>3. \A s \in Session : s # aActive => audioTime'[s] = audioTime[s]
  BY <1>1, <1>2, HeardTime
<1>4. ASSUME AudioFirst, apc' = "commit" PROVE audioTime'[aActive] = audioTime[aActive] + (BlockSize - aRest)
  <2>1. PICK k \in Supplied(aActive, BlockSize - aRest) : Hear(aActive, k) /\ Drained(k)
    BY <1>4 DEF AudioFirst, AudioReturn
  <2> QED
    BY <1>1, <2>1, HeardTime DEF Drained
<1> QED
  BY <1>1, <1>3, <1>4

LEMMA AudioKeepsSwitch ==
  ASSUME TypeInv, SwitchInv, Audio
  PROVE  SwitchInv'
<1> USE Sessions DEF SwitchInv, Numbered, Cleared, Private, Silent, Sounding, roleVars, infoVars, sessionVars,
                     workerVars, gameVars, renderLocals, renderVars
<1>1. CASE AudioBegin
  BY <1>1 DEF AudioBegin
<1>2. CASE AudioSnapshot
  BY <1>2 DEF AudioSnapshot, CanCommit
<1>3. CASE AudioPlain
  BY <1>3, AudioHears DEF AudioPlain, AudioReturn
<1>4. CASE AudioMeasure
  BY <1>4 DEF AudioMeasure, RestAfter
<1>5. CASE AudioMissed
  BY <1>5 DEF AudioMissed, GiveUp
<1>6. CASE AudioFirst
  <2>1. /\ apc = "first" /\ aActive' \in {aActive, None}
        /\ \A s \in Session : s # aActive => audioTime'[s] = audioTime[s]
        /\ UNCHANGED <<roleVars, infoVars, primed, outdated, workerVars, gameVars, renderVars>>
    BY <1>6, AudioHears DEF AudioFirst, AudioReturn
  <2>2. CASE apc' = "idle"
    BY <2>1, <2>2 DEF gameVars
  <2>3. CASE apc' = "commit" /\ UNCHANGED <<aActive, aBoundary, aRest, aOvertaken>>
    <3>1. audioTime'[aActive] = audioTime[aActive] + (BlockSize - aRest)
      BY <1>6, <2>3, AudioHears DEF AudioFirst, Drained, AudioReturn
    <3>2. audioTime[aActive] \in Nat /\ aBoundary \in Nat /\ BlockSize \in Nat
      BY <2>1, CoordinatorAssumption DEF TypeInv, Typed, SessionsTyped, AudioTyped, Room, Time
    <3>3. ~aOvertaken /\ pending # None => audioTime'[aActive] = aBoundary
      BY <2>1, <3>1, <3>2
    <3>4. Numbered' /\ Cleared' /\ Private' /\ Silent'
      BY <2>1, <2>3 DEF gameVars
    <3>5. Sounding'
      BY <2>1, <2>3, <3>3
    <3> QED
      BY <3>4, <3>5
  <2> QED
    BY <1>6, <2>2, <2>3 DEF AudioFirst, AudioReturn
<1>7. CASE AudioCommit
  BY <1>7 DEF AudioCommit, CanCommit, Commit, AudioReturn
<1>8. CASE AudioSecond
  BY <1>8, AudioHears DEF AudioSecond, AudioReturn
<1> QED
  BY <1>1, <1>2, <1>3, <1>4, <1>5, <1>6, <1>7, <1>8 DEF Audio

LEMMA SwitchIsSound == Spec => []SwitchInv
<1>1. TypeInv /\ SwitchInv /\ [Next]_vars => SwitchInv'
  <2>1. ASSUME SwitchInv, UNCHANGED vars PROVE SwitchInv'
    BY <2>1 DEF vars, SwitchInv, Numbered, Cleared, Private, Silent, Sounding, roleVars, infoVars, sessionVars,
                workerVars, gameVars, renderLocals, renderVars, audioLocals, audioVars
  <2> QED
    BY <2>1, GameKeepsSwitch, WorkerKeepsSwitch, RenderKeepsSwitch, AudioKeepsSwitch DEF Next
<1> QED
  BY <1>1, SwitchInit, TypeIsSound, PTL DEF Spec

\* A media without audio shows after a seek no picture that was primed before it, for any
\* number of sessions and however the threads interleave.
THEOREM NoEarlierPicture == Spec => []NoPictureOfEarlierSeek
<1>1. SwitchInv => NoPictureOfEarlierSeek
  BY DEF SwitchInv, Silent, NoPictureOfEarlierSeek
<1> QED
  BY <1>1, SwitchIsSound, PTL

\* The audio thread hands over at the exact sample, in every block whose call the
\* generation does not overtake, wherever the boundary lies in it.
THEOREM HandoverIsExact == Spec => SoundContinuous
<1>1. TypeInv /\ SwitchInv /\ [Next]_vars
        => [(apc = "commit" /\ apc' = "second" /\ ~aOvertaken) => audioTime[active] = audioTime[active']]_active
  <2> SUFFICES ASSUME SwitchInv, Next, apc = "commit", apc' = "second", ~aOvertaken
               PROVE  audioTime[active] = audioTime[active']
    BY DEF vars, audioVars, audioLocals
  <2>1. AudioCommit
    BY DEF Next, Game, GameBegin, Start, Tick, GameJoin, GameClear, GameStop, GameClose, GameOpen, GameSeek,
           GameRequest, Worker, WorkerPrepare, WorkerPublish, Render, PresentBegin, PresentCommit, PresentActive,
           PresentWait, PresentPicture, Audio, AudioBegin, AudioSnapshot, AudioPlain, AudioMeasure, AudioMissed,
           AudioFirst, AudioSecond, AudioReturn, audioVars, audioLocals
  <2>2. pending # None /\ active' = pending
    BY <2>1 DEF AudioCommit, CanCommit, Commit, AudioReturn
  <2> QED
    BY <2>2 DEF SwitchInv, Sounding
<1> QED
  BY <1>1, TypeIsSound, SwitchIsSound, PTL DEF Spec, SoundContinuous

-----------------------------------------------------------------------------
(* The frame reader: the inductive invariant.                              *)

\* A caller that is inside request() beyond the first section, and one that decodes.
Inside(c) == pc[c] \in Leading \cup {"wait"}
Leads(c) == pc[c] \in Leading

\* What a caller may be told.
Right(a, c) ==
  /\ a.result = "Ready" => /\ a.presentation \in Presentation
                           /\ a.presentation = [file |-> begun[c], time |-> asked[c]]
  /\ a.result # "Ready" => a.presentation = Nothing
  /\ a.result = "Missing" => asked[c] \in NoPair

Stages ==
  /\ open => ctl = "idle" /\ file # 0
  /\ ctl \in {"reopen_io", "reopen_player", "open"} => files < MaxFile
  /\ ctl = "open" => \A t \in Times : requests[t] = NoOne

\* A call whose generation is current is one of the open file.
Current ==
  \A c \in Callers : /\ stale[c] => Inside(c)
                     /\ Inside(c) /\ ~stale[c] => open /\ begun[c] = file

\* An object is held by the callers of one request, one of whom leads until it is complete.
Objects ==
  /\ \A c \in Callers : slot[c] # NoOne <=> Inside(c)
  /\ \A c, d \in Callers : slot[c] = slot[d] /\ slot[c] # NoOne => asked[c] = asked[d] /\ begun[c] = begun[d]
  /\ \A c, d \in Callers : Leads(c) /\ Leads(d) /\ slot[c] = slot[d] => c = d
Answered ==
  /\ \A c \in Callers : Leads(c) => heap[slot[c]].presentation = Nothing /\ heap[slot[c]].result \in {"Failed", "Cancelled"}
  /\ \A c \in Callers : pc[c] = "wait" /\ heap[slot[c]].complete => Right(heap[slot[c]], c)
  /\ \A c \in Callers : pc[c] = "publish" => outcome[c].result \in Results /\ Right(outcome[c], c)
  /\ \A c \in Callers : pc[c] = "done" => Right(returned[c], c)

\* The map names the requests that are led, and their times are not cached.
Mapped ==
  /\ \A t \in Times : requests[t] # NoOne =>
       /\ \E d \in Callers : Leads(d) /\ slot[d] = requests[t] /\ asked[d] = t /\ (open => ~stale[d])
       /\ Cached(t) = {}
  /\ \A c \in Callers : Leads(c) /\ ~stale[c] => requests[asked[c]] = slot[c]

ReaderInv == Stages /\ Current /\ Objects /\ Answered /\ Mapped /\ CacheOfOpenFile

-----------------------------------------------------------------------------
(* The sums of bytes.  BytesOf is defined by recursion: that the equation     *)
(* has a solution, and what follows from it, is shown with the least number   *)
(* for which it would not.                                                    *)

\* The least number of a set.
LEMMA Least ==
  ASSUME NEW T, T \subseteq Nat, T # {}
  PROVE  \E n \in T : \A m \in T : n <= m
<1> DEFINE R == OpToRel(<, Nat)
<1>1. IsWellFoundedOn(R, Nat)
  BY NatLessThanWellFounded
<1>2. PICK x \in T : \A y \in T : ~(<<y, x>> \in R)
  BY <1>1, WFMin
<1>3. ASSUME NEW y \in T PROVE x <= y
  <2>1. ~(<<y, x>> \in R)
    BY <1>2
  <2>2. ~(y < x)
    BY <2>1 DEF OpToRel
  <2> QED
    BY <2>2
<1> QED
  BY <1>3

Extends(f, w, k) == f = [i \in 0 .. k |-> IF i = 0 THEN 0 ELSE f[i - 1] + w[i]]

\* The recursion of BytesOf has a solution on every prefix of the numbers.
LEMMA SumExists ==
  ASSUME NEW w, NEW n \in Nat
  PROVE  \E f : Extends(f, w, n)
<1> DEFINE T == {k \in Nat : ~\E f : Extends(f, w, k)}
<1> SUFFICES ASSUME T # {} PROVE FALSE
  BY DEF T
<1>1. PICK k \in T : \A m \in T : k <= m
  BY Least
<1>2. k # 0
  <2>1. Extends([i \in {0} |-> 0], w, 0)
    <3>1. 0 .. 0 = {0}
      OBVIOUS
    <3> QED
      BY <3>1 DEF Extends
  <2> QED
    BY <1>1, <2>1
<1>3. PICK f : Extends(f, w, k - 1)
  <2>1. k - 1 \in Nat /\ k - 1 \notin T
    BY <1>1, <1>2
  <2> QED
    BY <2>1
<1> DEFINE g == [i \in 0 .. k |-> IF i = k THEN f[k - 1] + w[k] ELSE f[i]]
<1>4. Extends(g, w, k)
  <2> SUFFICES ASSUME NEW i \in 0 .. k
               PROVE  g[i] = IF i = 0 THEN 0 ELSE g[i - 1] + w[i]
    BY DEF Extends
  <2>1. \A j \in 0 .. k - 1 : f[j] = IF j = 0 THEN 0 ELSE f[j - 1] + w[j]
    BY <1>3 DEF Extends
  <2>2. CASE i = k
    BY <1>1, <1>2, <2>2
  <2>3. CASE i < k
    <3>1. i \in 0 .. k - 1 /\ (i # 0 => i - 1 \in 0 .. k /\ i - 1 # k)
      BY <1>1, <1>2, <2>3
    <3>2. g[i] = f[i] /\ (i # 0 => g[i - 1] = f[i - 1])
      BY <2>3, <3>1, <1>1
    <3> QED
      BY <2>1, <3>1, <3>2
  <2> QED
    BY <1>1, <2>2, <2>3
<1> QED
  BY <1>1, <1>4

\* What BytesOf counts: nothing at first, then one entry after the other.
LEMMA SumStep ==
  ASSUME NEW s, Len(s) \in Nat
  PROVE  /\ BytesOf(s, 0) = 0
         /\ \A i \in 1 .. Len(s) : BytesOf(s, i) = BytesOf(s, i - 1) + Bytes[s[i].time]
<1> DEFINE w == [i \in 1 .. Len(s) |-> Bytes[s[i].time]]
           P(f) == f = [i \in 0 .. Len(s) |-> IF i = 0 THEN 0 ELSE f[i - 1] + Bytes[s[i].time]]
           c == CHOOSE f : P(f)
<1>1. \E f : P(f)
  <2>1. PICK f : Extends(f, w, Len(s))
    BY SumExists
  <2>2. \A i \in 0 .. Len(s) : i # 0 => w[i] = Bytes[s[i].time]
    OBVIOUS
  <2>3. P(f)
    BY <2>1, <2>2 DEF Extends
  <2> QED
    BY <2>3
<1>2. P(c)
  BY <1>1
<1>3. \A i : BytesOf(s, i) = c[i]
  BY DEF BytesOf
<1> HIDE DEF c
<1>4. \A i \in 0 .. Len(s) : c[i] = IF i = 0 THEN 0 ELSE c[i - 1] + Bytes[s[i].time]
  BY <1>2
<1> QED
  BY <1>3, <1>4

-----------------------------------------------------------------------------
(* Types.                                                                  *)

\* What is made of a result and of an object.
LEMMA Values ==
  /\ Fresh \in Object /\ Nothing \notin Presentation /\ NoOne \notin Callers
  /\ \A r \in Results \cup {"NotOpen", "none"} : \A p \in Presentation \cup {Nothing} :
       Answer(r, p) \in Answers /\ Answer(r, p).result = r /\ Answer(r, p).presentation = p
  /\ \A b \in BOOLEAN : \A r \in Results : \A p \in Presentation \cup {Nothing} :
       [complete |-> b, result |-> r, presentation |-> p] \in Object
  /\ \A h \in Object :
       /\ h.complete \in BOOLEAN /\ h.result \in Results /\ h.presentation \in Presentation \cup {Nothing}
       /\ [h EXCEPT !.result = "Cancelled", !.complete = TRUE] \in Object
       /\ [h EXCEPT !.result = "Cancelled", !.complete = TRUE].result = "Cancelled"
       /\ [h EXCEPT !.result = "Cancelled", !.complete = TRUE].presentation = h.presentation
  /\ \A a \in Answers :
       a.result \in Results \cup {"NotOpen", "none"} /\ a.presentation \in Presentation \cup {Nothing}
<1> USE DEF Object, Answer, Answers
<1>1. "Cancelled" \in Results /\ "Failed" \in Results
  BY DEF Results
<1>2. Nothing \notin Presentation
  <2>1. ASSUME Nothing \in Presentation PROVE Nothing.file \in 1 .. MaxFile
    BY <2>1 DEF Presentation
  <2> QED
    BY <2>1, LimitsAssumption DEF Nothing
<1>3. Fresh \in Object
  BY <1>1 DEF Fresh
<1> HIDE DEF Fresh
<1>4. \A r \in Results \cup {"NotOpen", "none"} : \A p \in Presentation \cup {Nothing} :
        Answer(r, p) \in Answers /\ Answer(r, p).result = r /\ Answer(r, p).presentation = p
  OBVIOUS
<1>5. \A b \in BOOLEAN : \A r \in Results : \A p \in Presentation \cup {Nothing} :
        [complete |-> b, result |-> r, presentation |-> p] \in Object
  OBVIOUS
<1>6. ASSUME NEW h \in Object
      PROVE  /\ h.complete \in BOOLEAN /\ h.result \in Results /\ h.presentation \in Presentation \cup {Nothing}
             /\ [h EXCEPT !.result = "Cancelled", !.complete = TRUE] \in Object
             /\ [h EXCEPT !.result = "Cancelled", !.complete = TRUE].result = "Cancelled"
             /\ [h EXCEPT !.result = "Cancelled", !.complete = TRUE].presentation = h.presentation
  BY <1>1
<1>7. \A a \in Answers :
        a.result \in Results \cup {"NotOpen", "none"} /\ a.presentation \in Presentation \cup {Nothing}
  OBVIOUS
<1> QED
  BY <1>2, <1>3, <1>4, <1>5, <1>6, <1>7, LimitsAssumption

\* The helpers of the actions keep the types of what they set.
LEMMA ReturnTypes ==
  ASSUME ReaderTypeOK, NEW c \in Callers, NEW a \in Answers, Return(c, a)
  PROVE  /\ returned' \in [Callers -> Answers]
         /\ pc' \in [Callers -> {"idle", "wait", "done"} \cup Leading]
         /\ slot' \in [Callers -> Callers \cup {NoOne}]
         /\ stale' \in [Callers -> BOOLEAN]
BY DEF ReaderTypeOK, Return

LEMMA HeldTypes ==
  ASSUME NEW h \in [Callers -> Object]
  PROVE  Held(h) \in [Callers -> Object]
BY Values DEF Held

LEMMA EnterTypes ==
  ASSUME ReaderTypeOK, NEW c \in Callers, NEW t \in Times, Enter(c, t)
  PROVE  asked' \in [Callers -> Times] /\ begun' \in [Callers -> 0 .. MaxFile]
<1>1. 0 \in 0 .. MaxFile
  BY LimitsAssumption
<1> QED
  BY <1>1 DEF ReaderTypeOK, Enter

LEMMA DecidedTypes ==
  ASSUME ReaderTypeOK, NEW c \in Callers, NEW r \in Results, NEW p \in Presentation \cup {Nothing}, Decided(c, r, p)
  PROVE  /\ outcome' \in [Callers -> Answers]
         /\ pc' \in [Callers -> {"idle", "wait", "done"} \cup Leading]
         /\ decoder' \in Callers \cup {NoOne} /\ preroll' \in Nat /\ reached' \in BOOLEAN
<1>1. Answer(r, p) \in Answers
  BY Values
<1> QED
  BY <1>1 DEF ReaderTypeOK, Decided, Leading

\* The first sections of request(), and its end.
LEMMA CallerTypes ==
  ASSUME ReaderTypeOK, ReaderInv, NEW c \in Callers, NEW t \in Times,
         RefuseClosed(c, t) \/ Follow(c, t) \/ Wake(c) \/ Leave(c)
  PROVE  ReaderTypeOK'
<1> USE DEF stateVars, playerVars, controlVars, callVars
<1>1. CASE RefuseClosed(c, t)
  <2>1. Answer("NotOpen", Nothing) \in Answers
    BY Values
  <2> QED
    BY <1>1, <2>1, ReturnTypes, EnterTypes DEF RefuseClosed, ReaderTypeOK
<1>2. CASE Follow(c, t)
  <2>1. slot' \in [Callers -> Callers \cup {NoOne}] /\ pc' \in [Callers -> {"idle", "wait", "done"} \cup Leading]
    BY <1>2 DEF Follow, ReaderTypeOK
  <2> QED
    BY <1>2, <2>1, EnterTypes DEF Follow, ReaderTypeOK
<1>3. CASE Wake(c)
  <2> DEFINE object == heap[slot[c]]
             a == IF object.complete THEN Answer(object.result, object.presentation) ELSE Answer("Cancelled", Nothing)
  <2>1. slot[c] \in Callers
    BY <1>3 DEF Wake, ReaderInv, Objects, Inside, ReaderTypeOK
  <2>2. object \in Object
    BY <2>1 DEF ReaderTypeOK
  <2>3. a \in Answers
    BY <2>2, Values DEF Results
  <2>4. Return(c, a) /\ heap' = Held(heap)
        /\ UNCHANGED <<stateVars, decoder, playerVars, controlVars, asked, begun, preroll, reached, outcome>>
    BY <1>3 DEF Wake
  <2> HIDE DEF a, object
  <2>5. heap' \in [Callers -> Object]
    BY <2>4, HeldTypes DEF ReaderTypeOK
  <2> QED
    BY <2>3, <2>4, <2>5, ReturnTypes DEF ReaderTypeOK
<1>4. CASE Leave(c)
  <2>1. 0 \in 0 .. MaxFile /\ 0 \in Times
    BY LimitsAssumption, MediaAssumption DEF Times
  <2>2. Answer("none", Nothing) \in Answers
    BY Values
  <2> QED
    BY <1>4, <2>1, <2>2 DEF Leave, ReaderTypeOK
<1> QED
  BY <1>1, <1>2, <1>3, <1>4

\* A leader on its way.
LEMMA LeaderTypes ==
  ASSUME ReaderTypeOK, ReaderInv, NEW c \in Callers, TakeDecoder(c) \/ Seek(c) \/ Poll(c) \/ Expire(c)
  PROVE  ReaderTypeOK'
<1> USE DEF stateVars, playerVars, controlVars, callVars, leaderUnchanged
<1>0. leaderUnchanged
  BY DEF TakeDecoder, Seek, Poll, Expire
<1>1. ASSUME NEW r \in Results, NEW p \in Presentation \cup {Nothing}, Decided(c, r, p) PROVE ReaderTypeOK'
  BY <1>0, <1>1, DecidedTypes DEF ReaderTypeOK
<1>2. {"Ready", "Missing", "Timeout", "Cancelled", "Failed"} \subseteq Results /\ Nothing \in Presentation \cup {Nothing}
  BY DEF Results
<1>3. CASE TakeDecoder(c)
  <2>1. CASE Obsolete(c)
    BY <1>1, <1>2, <1>3, <2>1 DEF TakeDecoder
  <2>2. CASE ~Obsolete(c)
    <3>1. decoder' = c /\ pc' = [pc EXCEPT ![c] = "seek"] /\ preroll' = 1 /\ reached' = (asked[c] <= 1) /\ UNCHANGED outcome
      BY <1>3, <2>2 DEF TakeDecoder
    <3>2. reached' \in BOOLEAN /\ preroll' \in Nat /\ decoder' \in Callers \cup {NoOne}
      BY <3>1
    <3>3. pc' \in [Callers -> {"idle", "wait", "done"} \cup Leading]
      BY <3>1 DEF ReaderTypeOK, Leading
    <3> QED
      BY <1>0, <3>1, <3>2, <3>3 DEF ReaderTypeOK
  <2> QED
    BY <2>1, <2>2
<1>4. CASE Seek(c)
  <2>1. CASE Decided(c, "Failed", Nothing)
    BY <1>1, <1>2, <2>1
  <2>2. CASE reached' = (SeekTime(c) = 0) /\ pc' = [pc EXCEPT ![c] = "poll"] /\ UNCHANGED <<outcome, decoder, preroll>>
    <3>1. reached' \in BOOLEAN
      BY <2>2
    <3>2. pc' \in [Callers -> {"idle", "wait", "done"} \cup Leading]
      BY <2>2 DEF ReaderTypeOK, Leading
    <3> QED
      BY <1>0, <2>2, <3>1, <3>2 DEF ReaderTypeOK
  <2> QED
    BY <1>4, <2>1, <2>2 DEF Seek
<1>5. CASE Poll(c)
  <2>1. ASSUME ~Obsolete(c) PROVE [file |-> file, time |-> asked[c]] \in Presentation
    <3>1. file \in 1 .. MaxFile
      BY <2>1, LimitsAssumption DEF Obsolete, ReaderInv, Stages, ReaderTypeOK
    <3> QED
      BY <3>1 DEF ReaderTypeOK, Presentation
  <2>2. CASE ~Obsolete(c) /\ Decided(c, "Ready", [file |-> file, time |-> asked[c]])
    <3>1. [file |-> file, time |-> asked[c]] \in Presentation \cup {Nothing}
      BY <2>1, <2>2
    <3> QED
      BY <1>1, <1>2, <2>2, <3>1
  <2>3. CASE Decided(c, "Cancelled", Nothing) \/ Decided(c, "Missing", Nothing)
    BY <1>1, <1>2, <2>3
  <2>4. CASE preroll' = 2 * preroll /\ pc' = [pc EXCEPT ![c] = "seek"] /\ UNCHANGED <<outcome, decoder, reached>>
    <3>1. preroll' \in Nat
      BY <2>4 DEF ReaderTypeOK
    <3>2. pc' \in [Callers -> {"idle", "wait", "done"} \cup Leading]
      BY <2>4 DEF ReaderTypeOK, Leading
    <3> QED
      BY <1>0, <2>4, <3>1, <3>2 DEF ReaderTypeOK
  <2> QED
    BY <1>5, <2>2, <2>3, <2>4 DEF Poll
<1>6. CASE Expire(c)
  BY <1>1, <1>2, <1>6 DEF Expire
<1> QED
  BY <1>3, <1>4, <1>5, <1>6

\* The controlling thread.
LEMMA ControlTypes ==
  ASSUME ReaderTypeOK, ReaderInv, Open \/ Close \/ CancelIo \/ ClosePlayer \/ OpenPlayer \/ CancelPendingRequests
  PROVE  ReaderTypeOK'
<1> USE DEF stateVars, playerVars, controlVars, callVars, callersUnchanged
<1>1. AdvanceGeneration => stale' \in [Callers -> BOOLEAN]
  BY DEF AdvanceGeneration
<1>2. Control => controls' \in 0 .. MaxControl
  BY LimitsAssumption DEF Control, ReaderTypeOK
<1>3. ASSUME NEW then \in {"close_io", "reopen_io"}, CloseMark(then) PROVE ReaderTypeOK'
  <2>1. heap' \in [Callers -> Object]
    <3>1. ASSUME NEW o \in Callers
          PROVE  (IF \E t \in Times : requests[t] = o
                  THEN [heap[o] EXCEPT !.result = "Cancelled", !.complete = TRUE] ELSE heap[o]) \in Object
      <4>1. heap[o] \in Object
        BY DEF ReaderTypeOK
      <4>2. [heap[o] EXCEPT !.result = "Cancelled", !.complete = TRUE] \in Object
        BY <4>1, Values
      <4> QED
        BY <4>1, <4>2
    <3> QED
      BY <1>3, <3>1 DEF CloseMark
  <2>2. open' = FALSE /\ cache' = <<>>
    BY <1>3 DEF CloseMark
  <2>3. open' \in BOOLEAN /\ cache' \in Seq(Presentation)
    <3>1. <<>> \in Seq(Presentation)
      OBVIOUS
    <3>2. FALSE \in BOOLEAN
      OBVIOUS
    <3> QED
      BY <2>2, <3>1, <3>2
  <2> QED
    BY <1>1, <1>2, <1>3, <2>1, <2>3 DEF CloseMark, ReaderTypeOK
<1>4. CASE CancelIo
  BY <1>4 DEF CancelIo, ReaderTypeOK
<1>5. CASE ClosePlayer
  <2>1. requests' \in [Times -> Callers \cup {NoOne}] /\ file' \in 0 .. MaxFile
    BY <1>5, LimitsAssumption DEF ClosePlayer
  <2> QED
    BY <1>5, <2>1 DEF ClosePlayer, ReaderTypeOK
<1>6. CASE OpenPlayer
  <2>1. files' \in 0 .. MaxFile
    BY <1>6, LimitsAssumption DEF OpenPlayer, ReaderTypeOK, ReaderInv, Stages
  <2>2. open' \in BOOLEAN /\ file' \in 0 .. MaxFile /\ stale' \in [Callers -> BOOLEAN]
    BY <1>1, <1>6, <2>1 DEF OpenPlayer, ReaderTypeOK
  <2> QED
    BY <1>6, <2>1, <2>2 DEF OpenPlayer, ReaderTypeOK
<1>7. CASE CancelPendingRequests
  <2>1. requests' \in [Times -> Callers \cup {NoOne}]
    BY <1>7 DEF CancelPendingRequests
  <2> QED
    BY <1>1, <1>2, <1>7, <2>1 DEF CancelPendingRequests, ReaderTypeOK
<1>8. (Open \/ Close) => \E then \in {"close_io", "reopen_io"} : CloseMark(then)
  BY DEF Open, Close
<1> QED
  BY <1>3, <1>4, <1>5, <1>6, <1>7, <1>8


-----------------------------------------------------------------------------
(* The cache as a list.                                                    *)

\* A sum of bytes is a number.
LEMMA SumIsNat ==
  ASSUME NEW s \in Seq(Presentation), NEW n \in 0 .. Len(s)
  PROVE  BytesOf(s, n) \in Nat
<1> DEFINE T == {k \in 0 .. Len(s) : BytesOf(s, k) \notin Nat}
<1> SUFFICES ASSUME T # {} PROVE FALSE
  BY DEF T
<1>0. Len(s) \in Nat
  OBVIOUS
<1>1. PICK k \in T : \A m \in T : k <= m
  <2>1. T \subseteq Nat
    BY <1>0
  <2> HIDE DEF T
  <2> QED
    BY <2>1, Least
<1>2. k # 0
  BY <1>0, <1>1, SumStep
<1>3. k - 1 \in 0 .. Len(s) /\ k - 1 \notin T /\ k \in 1 .. Len(s)
  BY <1>0, <1>1, <1>2
<1>4. Bytes[s[k].time] \in Nat
  <2>1. s[k] \in Presentation
    BY <1>3
  <2> QED
    BY <2>1, MediaAssumption DEF Presentation
<1>5. BytesOf(s, k) = BytesOf(s, k - 1) + Bytes[s[k].time]
  BY <1>0, <1>3, SumStep
<1> HIDE DEF Presentation
<1>6. BytesOf(s, k - 1) \in Nat
  BY <1>3
<1> QED
  BY <1>1, <1>4, <1>5, <1>6

\* The sum of a front is the sum of what stays.
LEMMA SumOfFront ==
  ASSUME NEW s \in Seq(Presentation), NEW n \in 0 .. Len(s)
  PROVE  /\ SubSeq(s, 1, n) \in Seq(Presentation) /\ Len(SubSeq(s, 1, n)) = n
         /\ \A i \in 1 .. n : SubSeq(s, 1, n)[i] = s[i]
         /\ \A k \in 0 .. n : BytesOf(SubSeq(s, 1, n), k) = BytesOf(s, k)
<1> DEFINE q == SubSeq(s, 1, n)
           T == {k \in 0 .. n : BytesOf(q, k) # BytesOf(s, k)}
<1>0. Len(s) \in Nat /\ n \in Nat
  OBVIOUS
<1>1. q \in Seq(Presentation) /\ Len(q) = n
  <2>1. \A i \in 1 .. n : s[i] \in Presentation
    OBVIOUS
  <2> QED
    BY <2>1
<1>2. \A i \in 1 .. n : q[i] = s[i]
  OBVIOUS
<1> HIDE DEF q
<1>3. ASSUME T # {} PROVE FALSE
  <2>1. PICK k \in T : \A m \in T : k <= m
    <3>1. T \subseteq Nat
      BY <1>0
    <3> HIDE DEF T
    <3> QED
      BY <1>3, <3>1, Least
  <2>2. k # 0
    BY <1>0, <1>1, <2>1, SumStep
  <2>3. k - 1 \in 0 .. n /\ k - 1 \notin T /\ k \in 1 .. n /\ k \in 1 .. Len(s)
    BY <1>0, <2>1, <2>2
  <2>4. BytesOf(q, k) = BytesOf(q, k - 1) + Bytes[q[k].time]
    BY <1>0, <1>1, <2>3, SumStep
  <2>5. BytesOf(s, k) = BytesOf(s, k - 1) + Bytes[s[k].time]
    BY <1>0, <2>3, SumStep
  <2>6. BytesOf(q, k - 1) = BytesOf(s, k - 1) /\ q[k] = s[k]
    BY <1>2, <2>3
  <2> QED
    BY <2>1, <2>4, <2>5, <2>6
<1> QED
  BY <1>1, <1>2, <1>3 DEF q

\* What is used moves to the front, and nothing else happens to the cache.
LEMMA MovedKeeps ==
  ASSUME NEW s \in Seq(Presentation), NEW i \in 1 .. Len(s)
  PROVE  /\ MovedToFront(s, i) \in Seq(Presentation)
         /\ Len(MovedToFront(s, i)) = Len(s)
         /\ \A j \in 1 .. Len(s) : MovedToFront(s, i)[j] = s[IF j = 1 THEN i ELSE IF j <= i THEN j - 1 ELSE j]
         /\ BytesOf(MovedToFront(s, i), Len(s)) = BytesOf(s, Len(s))
<1> DEFINE q == MovedToFront(s, i)
           b == Bytes[s[i].time]
           P(k) == BytesOf(q, k) = IF k <= i THEN BytesOf(s, k - 1) + b ELSE BytesOf(s, k)
           T == {k \in 1 .. Len(s) : ~P(k)}
<1>0. Len(s) \in Nat /\ i \in Nat /\ b \in Nat
  <2>1. s[i] \in Presentation /\ Len(s) \in Nat /\ i \in Nat
    OBVIOUS
  <2>2. s[i].time \in Times
    BY <2>1 DEF Presentation
  <2> QED
    BY <2>1, <2>2, MediaAssumption
<1>1. q = [j \in 1 .. Len(s) |-> IF j = 1 THEN s[i] ELSE IF j <= i THEN s[j - 1] ELSE s[j]]
  BY DEF MovedToFront
<1>2. \A j \in 1 .. Len(s) : q[j] = s[IF j = 1 THEN i ELSE IF j <= i THEN j - 1 ELSE j]
  BY <1>0, <1>1
<1>3. q \in Seq(Presentation) /\ Len(q) = Len(s)
  <2>1. \A j \in 1 .. Len(s) : (IF j = 1 THEN s[i] ELSE IF j <= i THEN s[j - 1] ELSE s[j]) \in Presentation
    <3> TAKE j \in 1 .. Len(s)
    <3>1. j # 1 /\ j <= i => j - 1 \in 1 .. Len(s)
      BY <1>0
    <3> QED
      BY <3>1
  <2> QED
    BY <1>0, <1>1, <2>1
<1> HIDE DEF q, b
<1>4. ASSUME T # {} PROVE FALSE
  <2> HIDE DEF P
  <2>1. PICK k \in T : \A m \in T : k <= m
    <3>1. T \subseteq Nat
      BY <1>0
    <3> HIDE DEF T
    <3> QED
      BY <1>4, <3>1, Least
  <2>2. k \in 1 .. Len(s) /\ ~P(k) /\ (k # 1 => P(k - 1))
    BY <1>0, <2>1
  <2>3. BytesOf(q, k) = BytesOf(q, k - 1) + Bytes[q[k].time]
    BY <1>0, <1>3, <2>2, SumStep
  <2>4. BytesOf(s, k) = BytesOf(s, k - 1) + Bytes[s[k].time] /\ BytesOf(s, 0) = 0 /\ BytesOf(q, 0) = 0
    BY <1>0, <1>3, <2>2, SumStep
  <2>5. CASE k = 1
    BY <1>0, <1>2, <2>2, <2>3, <2>4, <2>5 DEF P, b
  <2>6. CASE k # 1 /\ k <= i
    <3>1. q[k] = s[k - 1]
      BY <1>0, <1>2, <2>2, <2>6
    <3>2. BytesOf(s, k - 1) = BytesOf(s, k - 2) + Bytes[s[k - 1].time]
      <4>1. k - 1 \in 1 .. Len(s) /\ (k - 1) - 1 = k - 2
        BY <1>0, <2>2, <2>6
      <4> QED
        BY <1>0, <4>1, SumStep
    <3>3. BytesOf(q, k - 1) = BytesOf(s, k - 2) + b
      BY <1>0, <2>2, <2>6 DEF P
    <3>4. Bytes[s[k - 1].time] \in Nat /\ BytesOf(s, k - 2) \in Nat
      <4>1. k - 1 \in 1 .. Len(s) /\ k - 2 \in 0 .. Len(s)
        BY <1>0, <2>2, <2>6
      <4>2. s[k - 1] \in Presentation
        BY <4>1
      <4> QED
        BY <4>1, <4>2, SumIsNat, MediaAssumption DEF Presentation
    <3> QED
      BY <1>0, <2>2, <2>3, <2>6, <3>1, <3>2, <3>3, <3>4 DEF P
  <2>7. CASE k > i
    <3>1. q[k] = s[k] /\ k # 1
      BY <1>0, <1>2, <2>2, <2>7
    <3>2. BytesOf(q, k - 1) = BytesOf(s, k - 1)
      <4>1. CASE k - 1 > i
        BY <1>0, <2>2, <3>1, <4>1 DEF P
      <4>2. CASE k - 1 = i
        <5>1. BytesOf(q, k - 1) = BytesOf(s, i - 1) + b
          BY <1>0, <2>2, <3>1, <4>2 DEF P
        <5>2. BytesOf(s, i) = BytesOf(s, i - 1) + b
          BY <1>0, SumStep DEF b
        <5> QED
          BY <4>2, <5>1, <5>2
      <4> QED
        BY <1>0, <2>2, <2>7, <4>1, <4>2
    <3> QED
      BY <1>0, <2>2, <2>3, <2>4, <2>7, <3>1, <3>2 DEF P
  <2> QED
    BY <1>0, <2>2, <2>5, <2>6, <2>7
<1>5. BytesOf(q, Len(s)) = BytesOf(s, Len(s))
  <2>1. P(Len(s))
    BY <1>0, <1>4
  <2>2. BytesOf(s, i) = BytesOf(s, i - 1) + b
    BY <1>0, SumStep DEF b
  <2> QED
    BY <1>0, <2>1, <2>2
<1> QED
  BY <1>2, <1>3, <1>5 DEF q

\* What is inserted is the newest entry, or too large; the rest are the newest of the old ones.
LEMMA InsertKeeps ==
  ASSUME cache \in Seq(Presentation), NEW p \in Presentation, Fits(cache, Len(cache))
  PROVE  /\ Insert(p) \in Seq(Presentation)
         /\ Fits(Insert(p), Len(Insert(p)))
         /\ \/ Insert(p) = cache
            \/ /\ Len(Insert(p)) \in 1 .. Len(cache) + 1
               /\ Insert(p)[1] = p
               /\ \A i \in 2 .. Len(Insert(p)) : Insert(p)[i] = cache[i - 1]
<1> DEFINE all == <<p>> \o cache
           G(n) == Fits(all, n) /\ \A m \in n + 1 .. Len(all) : ~Fits(all, m)
           n == CHOOSE n \in 1 .. Len(all) : G(n)
<1>1. CASE MaxEntries = 0 \/ MaxBytes = 0 \/ Bytes[p.time] > MaxBytes
  BY <1>1 DEF Insert
<1>2. CASE ~(MaxEntries = 0 \/ MaxBytes = 0 \/ Bytes[p.time] > MaxBytes)
  <2>1. all \in Seq(Presentation) /\ Len(all) = Len(cache) + 1 /\ all[1] = p
        /\ \A i \in 2 .. Len(all) : all[i] = cache[i - 1]
    OBVIOUS
  <2>2. Insert(p) = SubSeq(all, 1, n)
    BY <1>2 DEF Insert
  <2>3. Len(cache) \in Nat /\ Bytes[p.time] \in Nat
    BY MediaAssumption DEF Presentation
  <2> HIDE DEF all
  <2>4. Fits(all, 1)
    <3>1. BytesOf(all, 0) = 0 /\ BytesOf(all, 1) = BytesOf(all, 0) + Bytes[all[1].time]
      <4>1. Len(all) \in Nat /\ 1 \in 1 .. Len(all) /\ 1 - 1 = 0
        BY <2>1, <2>3
      <4> QED
        BY <4>1, SumStep
    <3> QED
      BY <1>2, <2>1, <2>3, <3>1, LimitsAssumption DEF Fits
  <2> DEFINE T == {k \in 0 .. Len(cache) : Fits(all, Len(all) - k)}
  <2>5. PICK k \in T : \A m \in T : k <= m
    <3>1. Len(cache) \in T
      <4>1. Len(all) - Len(cache) = 1
        BY <2>1, <2>3
      <4> QED
        BY <2>3, <2>4, <4>1
    <3>2. T \subseteq Nat
      BY <2>3
    <3> HIDE DEF T
    <3> QED
      BY <3>1, <3>2, Least
  <2>6. Len(all) - k \in 1 .. Len(all) /\ G(Len(all) - k)
    <3>1. ASSUME NEW m \in Len(all) - k + 1 .. Len(all), Fits(all, m) PROVE FALSE
      <4>1. Len(all) - m \in 0 .. Len(cache) /\ Len(all) - (Len(all) - m) = m /\ Len(all) - m < k
        BY <2>1, <2>3, <2>5
      <4>2. Len(all) - m \in T
        BY <3>1, <4>1
      <4> QED
        BY <2>3, <2>5, <4>1, <4>2
    <3> QED
      BY <2>1, <2>3, <2>5, <3>1
  <2>7. n \in 1 .. Len(all) /\ G(n)
    <3> HIDE DEF G
    <3> QED
      BY <2>6
  <2> HIDE DEF n
  <2>8. n \in 0 .. Len(all) /\ n \in Nat /\ n \in 0 .. n
    BY <2>1, <2>3, <2>7
  <2>9. SubSeq(all, 1, n) \in Seq(Presentation) /\ Len(SubSeq(all, 1, n)) = n
        /\ BytesOf(SubSeq(all, 1, n), n) = BytesOf(all, n)
        /\ \A i \in 1 .. n : SubSeq(all, 1, n)[i] = all[i]
    BY <2>1, <2>8, SumOfFront
  <2>10. Fits(Insert(p), Len(Insert(p)))
    BY <2>2, <2>7, <2>9 DEF Fits
  <2>11. \A i \in 2 .. n : Insert(p)[i] = cache[i - 1]
    BY <2>1, <2>2, <2>3, <2>7, <2>9
  <2>12. Insert(p)[1] = p
    BY <2>1, <2>2, <2>3, <2>7, <2>9
  <2> QED
    BY <2>1, <2>2, <2>3, <2>7, <2>9, <2>10, <2>11, <2>12
<1> QED
  BY <1>1, <1>2


-----------------------------------------------------------------------------
(* The rest of the types.                                                  *)

\* A caller that holds no object leaves one over: there are as many names as callers.
LEMMA OneIsFree ==
  ASSUME ReaderTypeOK, NEW c \in Callers, slot[c] = NoOne
  PROVE  Unheld # {}
<1> SUFFICES ASSUME Unheld = {} PROVE FALSE
  OBVIOUS
<1>1. \A o \in Callers : \E d \in Callers : slot[d] = o
  BY DEF Unheld
<1>2. \A o \in Callers : \E d \in Callers \ {c} : slot[d] = o
  BY <1>1, LimitsAssumption
<1> DEFINE f == [o \in Callers |-> CHOOSE d \in Callers \ {c} : slot[d] = o]
<1>3. \A o \in Callers : f[o] \in Callers \ {c} /\ slot[f[o]] = o
  BY <1>2
<1> HIDE DEF f
<1>4. f \in [Callers -> Callers \ {c}]
  <2>1. f = [o \in Callers |-> f[o]]
    BY DEF f
  <2> QED
    BY <1>3, <2>1
<1>5. IsFiniteSet(Callers) /\ IsFiniteSet(Callers \ {c}) /\ Cardinality(Callers \ {c}) = Cardinality(Callers) - 1
      /\ Cardinality(Callers) \in Nat
  BY LimitsAssumption, FS_RemoveElement, FS_CardinalityType
<1>6. Cardinality(Callers \ {c}) < Cardinality(Callers)
  BY <1>5
<1>7. PICK x \in Callers, y \in Callers : x # y /\ f[x] = f[y]
  BY <1>4, <1>5, <1>6, FS_PigeonHole
<1> QED
  BY <1>3, <1>7

\* What a hit finds.
LEMMA HitFinds ==
  ASSUME ReaderTypeOK, NEW t \in Times, Cached(t) # {}
  PROVE  LET at == CHOOSE i \in Cached(t) : TRUE
         IN at \in 1 .. Len(cache) /\ cache[at] \in Presentation /\ cache[at].time = t
<1> DEFINE at == CHOOSE i \in Cached(t) : TRUE
<1>1. at \in Cached(t)
  OBVIOUS
<1> HIDE DEF at
<1>2. at \in 1 .. Len(cache) /\ cache[at].time = t
  BY <1>1 DEF Cached, ReaderTypeOK
<1>3. cache[at] \in Presentation
  BY <1>2 DEF ReaderTypeOK
<1> QED
  BY <1>2, <1>3 DEF at

\* A hit, which changes the order of the cache.
LEMMA HitTypes ==
  ASSUME ReaderTypeOK, NEW c \in Callers, NEW t \in Times, Hit(c, t)
  PROVE  ReaderTypeOK'
<1> DEFINE at == CHOOSE i \in Cached(t) : TRUE
<1>1. /\ Cached(t) # {} /\ Enter(c, t) /\ cache' = MovedToFront(cache, at) /\ Return(c, Answer("Ready", cache[at]))
      /\ UNCHANGED <<open, requests, heap, decoder, playerVars, controlVars, preroll, reached, outcome>>
  BY DEF Hit
<1>2. at \in 1 .. Len(cache) /\ cache[at] \in Presentation
  BY <1>1, HitFinds
<1> HIDE DEF at
<1>3. Answer("Ready", cache[at]) \in Answers
  BY <1>2, Values DEF Results
<1>4. cache' \in Seq(Presentation)
  <2>1. cache \in Seq(Presentation)
    BY DEF ReaderTypeOK
  <2> QED
    BY <1>1, <1>2, <2>1, MovedKeeps
<1> QED
  BY <1>1, <1>3, <1>4, ReturnTypes, EnterTypes DEF ReaderTypeOK, playerVars, controlVars

\* The object that a leader takes.
LEMMA LeadTakes ==
  ASSUME ReaderTypeOK, ReaderInv, NEW c \in Callers, NEW t \in Times, Lead(c, t)
  PROVE  \E o \in Unheld :
           /\ heap' = [heap EXCEPT ![o] = Fresh] /\ requests' = [requests EXCEPT ![t] = o]
           /\ slot' = [slot EXCEPT ![c] = o]
<1>1. pc[c] = "idle"
  BY DEF Lead, Enter
<1>2. slot[c] = NoOne
  BY <1>1 DEF ReaderInv, Objects, Inside, Leading
<1>3. Unheld # {}
  BY <1>2, OneIsFree
<1> DEFINE o == IF c \in Unheld THEN c ELSE CHOOSE o \in Unheld : TRUE
<1>4. o \in Unheld
  BY <1>3
<1> QED
  BY <1>4 DEF Lead

\* A miss that leads.
LEMMA LeadTypes ==
  ASSUME ReaderTypeOK, ReaderInv, NEW c \in Callers, NEW t \in Times, Lead(c, t)
  PROVE  ReaderTypeOK'
<1>1. PICK o \in Unheld :
        /\ heap' = [heap EXCEPT ![o] = Fresh] /\ requests' = [requests EXCEPT ![t] = o]
        /\ slot' = [slot EXCEPT ![c] = o]
  BY LeadTakes
<1>2. /\ Enter(c, t) /\ pc' = [pc EXCEPT ![c] = "decode"]
      /\ UNCHANGED <<open, cache, decoder, playerVars, controlVars, preroll, reached, outcome, returned, stale>>
  BY DEF Lead
<1>3. o \in Callers
  BY DEF Unheld
<1>4. heap' \in [Callers -> Object]
  BY <1>1, <1>3, Values DEF ReaderTypeOK
<1>5. requests' \in [Times -> Callers \cup {NoOne}] /\ slot' \in [Callers -> Callers \cup {NoOne}]
  BY <1>1, <1>3 DEF ReaderTypeOK
<1>6. pc' \in [Callers -> {"idle", "wait", "done"} \cup Leading]
  BY <1>2 DEF ReaderTypeOK, Leading
<1> QED
  BY <1>2, <1>4, <1>5, <1>6, EnterTypes DEF ReaderTypeOK, playerVars, controlVars

\* What a leader answers.
LEMMA FinalIsRight ==
  ASSUME ReaderTypeOK, ReaderInv, NEW c \in Callers, pc[c] = "publish"
  PROVE  /\ Final(c) \in Answers /\ Final(c).result \in Results /\ Right(Final(c), c)
         /\ Final(c).result = "Ready" => ~stale[c]
         /\ Final(c).result = "Ready" => Final(c).presentation \in Presentation
<1>1. CASE stale[c]
  <2>1. Final(c) = Answer("Cancelled", Nothing)
    BY <1>1 DEF Final
  <2>2. Answer("Cancelled", Nothing) \in Answers /\ Answer("Cancelled", Nothing).result = "Cancelled"
        /\ Answer("Cancelled", Nothing).presentation = Nothing
    BY Values DEF Results
  <2> QED
    BY <2>1, <2>2 DEF Right, Results
<1>2. CASE ~stale[c]
  <2>1. Final(c) = outcome[c]
    BY <1>2 DEF Final
  <2>2. outcome[c] \in Answers
    BY DEF ReaderTypeOK
  <2>3. outcome[c].result \in Results /\ Right(outcome[c], c)
    BY DEF ReaderInv, Answered
  <2> QED
    BY <1>2, <2>1, <2>2, <2>3 DEF Right
<1> QED
  BY <1>1, <1>2

\* The last section of a leader.
LEMMA PublishTypes ==
  ASSUME ReaderTypeOK, ReaderInv, NEW c \in Callers, Publish(c)
  PROVE  ReaderTypeOK'
<1> DEFINE final == Final(c)
           object == [complete |-> TRUE, result |-> final.result, presentation |-> final.presentation]
<1>1. /\ pc[c] = "publish" /\ Return(c, final)
      /\ cache' = IF final.result = "Ready" THEN Insert(final.presentation) ELSE cache
      /\ heap' = Held([heap EXCEPT ![slot[c]] = object])
      /\ requests' = OwnErased(c)
      /\ outcome' = [outcome EXCEPT ![c] = Answer("none", Nothing)]
      /\ UNCHANGED <<open, decoder, playerVars, controlVars, asked, begun, preroll, reached>>
  BY DEF Publish, Finish
<1>2. final \in Answers /\ final.result \in Results /\ (final.result = "Ready" => final.presentation \in Presentation)
  BY <1>1, FinalIsRight
<1>3. object \in Object
  <2>1. final.presentation \in Presentation \cup {Nothing}
    BY <1>2, Values
  <2> QED
    BY <1>2, <2>1, Values
<1> HIDE DEF final, object
<1>4. heap' \in [Callers -> Object]
  <2>1. [heap EXCEPT ![slot[c]] = object] \in [Callers -> Object]
    BY <1>3 DEF ReaderTypeOK
  <2> HIDE DEF object
  <2> QED
    BY <1>1, <2>1, HeldTypes
<1>5. cache' \in Seq(Presentation)
  <2>1. cache \in Seq(Presentation) /\ Fits(cache, Len(cache))
    BY DEF ReaderTypeOK, ReaderInv, CacheOfOpenFile
  <2> QED
    BY <1>1, <1>2, <2>1, InsertKeeps
<1>6. requests' \in [Times -> Callers \cup {NoOne}]
  BY <1>1 DEF ReaderTypeOK, OwnErased, Erased
<1>7. outcome' \in [Callers -> Answers]
  <2>1. Answer("none", Nothing) \in Answers
    BY Values
  <2> QED
    BY <1>1, <2>1 DEF ReaderTypeOK
<1> QED
  BY <1>1, <1>2, <1>4, <1>5, <1>6, <1>7, ReturnTypes DEF ReaderTypeOK, playerVars, controlVars


-----------------------------------------------------------------------------
(* Every step keeps the invariant.                                         *)

\* Nothing happens to a caller.
Untouched(d) ==
  /\ pc'[d] = pc[d] /\ slot'[d] = slot[d] /\ stale'[d] = stale[d]
  /\ asked'[d] = asked[d] /\ begun'[d] = begun[d]
  /\ returned'[d] = returned[d] /\ outcome'[d] = outcome[d]

\* What is said of an untouched caller stays as it was.
LEMMA UntouchedKeeps ==
  ASSUME NEW d \in Callers, Untouched(d)
  PROVE  /\ (Inside(d))' <=> Inside(d)
         /\ (Leads(d))' <=> Leads(d)
         /\ \A a : (Right(a, d))' <=> Right(a, d)
BY DEF Untouched, Inside, Leads, Right

\* The parts of an answer.
LEMMA AnswerSays ==
  ASSUME NEW r, NEW p
  PROVE  Answer(r, p).result = r /\ Answer(r, p).presentation = p
BY DEF Answer

\* Where a caller can be.
LEMMA Places ==
  ASSUME NEW d \in Callers
  PROVE  /\ Leads(d) => Inside(d) /\ pc[d] \notin {"idle", "wait", "done"}
         /\ pc[d] = "wait" => Inside(d) /\ ~Leads(d)
         /\ pc[d] = "publish" => Leads(d)
         /\ Inside(d) => Leads(d) \/ pc[d] = "wait"
         /\ pc[d] \in {"idle", "done"} => ~Inside(d) /\ ~Leads(d)
BY DEF Leads, Inside, Leading

\* A caller that returns is done and holds nothing.
LEMMA ReturnSays ==
  ASSUME ReaderTypeOK, NEW c \in Callers, NEW a, Return(c, a)
  PROVE  /\ returned'[c] = a /\ pc'[c] = "done" /\ slot'[c] = NoOne /\ ~stale'[c]
         /\ (~Inside(c))' /\ (~Leads(c))'
         /\ \A d \in Callers \ {c} :
              pc'[d] = pc[d] /\ slot'[d] = slot[d] /\ stale'[d] = stale[d] /\ returned'[d] = returned[d]
<1>1. returned'[c] = a /\ pc'[c] = "done" /\ slot'[c] = NoOne /\ ~stale'[c]
  BY DEF Return, ReaderTypeOK
<1>2. \A d \in Callers \ {c} :
        pc'[d] = pc[d] /\ slot'[d] = slot[d] /\ stale'[d] = stale[d] /\ returned'[d] = returned[d]
  BY DEF Return, ReaderTypeOK
<1>3. (~Inside(c))' /\ (~Leads(c))'
  BY <1>1 DEF Inside, Leads, Leading
<1> QED
  BY <1>1, <1>2, <1>3

\* A caller that is not inside holds nothing, and it may be anyone's answer that it has.
LEMMA OneLeaves ==
  ASSUME ReaderTypeOK, ReaderInv, NEW c \in Callers,
         (~Inside(c))', slot'[c] = NoOne, ~stale'[c],
         \A d \in Callers \ {c} : Untouched(d),
         open' = open, file' = file
  PROVE  Current' /\ Objects'
<1>1. \A d \in Callers \ {c} : Untouched(d) /\ ((Inside(d))' <=> Inside(d)) /\ ((Leads(d))' <=> Leads(d))
  BY UntouchedKeeps
<1>2. (~Leads(c))'
  BY DEF Inside, Leads
<1> USE DEF Untouched
<1>3. Current'
  <2>1. \A d \in Callers : /\ stale'[d] => (Inside(d))'
                           /\ (Inside(d))' /\ ~stale'[d] => open' /\ begun'[d] = file'
    BY <1>1 DEF ReaderInv, Current
  <2> QED
    BY <2>1 DEF Current
<1>4. Objects'
  <2>1. \A d \in Callers : slot'[d] # NoOne <=> (Inside(d))'
    BY <1>1 DEF ReaderInv, Objects
  <2>2. \A d, e \in Callers : slot'[d] = slot'[e] /\ slot'[d] # NoOne => asked'[d] = asked'[e] /\ begun'[d] = begun'[e]
    <3> SUFFICES ASSUME NEW d \in Callers, NEW e \in Callers, slot'[d] = slot'[e], slot'[d] # NoOne
                 PROVE  asked'[d] = asked'[e] /\ begun'[d] = begun'[e]
      OBVIOUS
    <3>1. d # c /\ e # c
      OBVIOUS
    <3> QED
      BY <1>1, <3>1 DEF ReaderInv, Objects
  <2>3. \A d, e \in Callers : (Leads(d))' /\ (Leads(e))' /\ slot'[d] = slot'[e] => d = e
    <3> SUFFICES ASSUME NEW d \in Callers, NEW e \in Callers, (Leads(d))', (Leads(e))', slot'[d] = slot'[e]
                 PROVE  d = e
      OBVIOUS
    <3>1. d # c /\ e # c
      BY <1>2
    <3> QED
      BY <1>1, <3>1 DEF ReaderInv, Objects
  <2> QED
    BY <2>1, <2>2, <2>3 DEF Objects
<1> QED
  BY <1>3, <1>4

\* The others' objects stay what they were, or are complete with a right answer.
LEMMA OneAnswered ==
  ASSUME ReaderTypeOK, ReaderInv, NEW c \in Callers,
         (~Inside(c))', pc'[c] = "done" => (Right(returned[c], c))',
         \A d \in Callers \ {c} : Untouched(d),
         \A d \in Callers \ {c} : Leads(d) => heap'[slot[d]] = heap[slot[d]],
         \A d \in Callers \ {c} : pc[d] = "wait" =>
           heap'[slot[d]] = heap[slot[d]] \/ Right(heap'[slot[d]], d)
  PROVE  Answered'
<1>1. \A d \in Callers \ {c} : Untouched(d) /\ ((Inside(d))' <=> Inside(d)) /\ ((Leads(d))' <=> Leads(d))
        /\ \A a : (Right(a, d))' <=> Right(a, d)
  BY UntouchedKeeps
<1>2. (~Leads(c))' /\ pc'[c] # "wait" /\ pc'[c] # "publish"
  BY DEF Inside, Leads, Leading
<1>3. \A d \in Callers : (Leads(d))' =>
        heap'[slot'[d]].presentation = Nothing /\ heap'[slot'[d]].result \in {"Failed", "Cancelled"}
  BY <1>1, <1>2 DEF ReaderInv, Answered, Untouched
<1>4. \A d \in Callers : pc'[d] = "wait" /\ heap'[slot'[d]].complete => (Right(heap[slot[d]], d))'
  <2> SUFFICES ASSUME NEW d \in Callers, pc'[d] = "wait", heap'[slot'[d]].complete
               PROVE  (Right(heap[slot[d]], d))'
    OBVIOUS
  <2>1. d \in Callers \ {c} /\ pc[d] = "wait" /\ slot'[d] = slot[d]
    BY <1>1, <1>2 DEF Untouched
  <2>2. Right(heap'[slot[d]], d)
    <3>1. CASE heap'[slot[d]] = heap[slot[d]]
      BY <2>1, <3>1 DEF ReaderInv, Answered
    <3> QED
      BY <2>1, <3>1
  <2> QED
    BY <2>1, <2>2 DEF Right, Untouched
<1>5. \A d \in Callers : pc'[d] = "publish" => outcome'[d].result \in Results /\ (Right(outcome[d], d))'
  <2> SUFFICES ASSUME NEW d \in Callers, pc'[d] = "publish"
               PROVE  outcome'[d].result \in Results /\ (Right(outcome[d], d))'
    OBVIOUS
  <2>1. d \in Callers \ {c} /\ Untouched(d) /\ pc[d] = "publish"
    BY <1>2 DEF Untouched
  <2>2. outcome[d].result \in Results /\ Right(outcome[d], d)
    BY <2>1 DEF ReaderInv, Answered
  <2> QED
    BY <2>1, <2>2 DEF Right, Untouched
<1>6. \A d \in Callers : pc'[d] = "done" => (Right(returned[d], d))'
  <2> SUFFICES ASSUME NEW d \in Callers, pc'[d] = "done", d # c
               PROVE  (Right(returned[d], d))'
    OBVIOUS
  <2>1. Untouched(d) /\ pc[d] = "done"
    BY DEF Untouched
  <2>2. Right(returned[d], d)
    BY <2>1 DEF ReaderInv, Answered
  <2> QED
    BY <2>1, <2>2 DEF Right, Untouched
<1> QED
  BY <1>3, <1>4, <1>5, <1>6 DEF Answered

\* The map and the cache stay true when a caller that does not lead is not inside any more.
LEMMA OneUnmapped ==
  ASSUME ReaderTypeOK, ReaderInv, NEW c \in Callers, ~Leads(c), (~Leads(c))',
         \A d \in Callers \ {c} : Untouched(d),
         open' = open, requests' = requests,
         \A t \in Times : Cached(t) = {} => (Cached(t))' = {}
  PROVE  Mapped'
<1>1. \A d \in Callers \ {c} : Untouched(d) /\ ((Leads(d))' <=> Leads(d))
  BY UntouchedKeeps
<1>2. ASSUME NEW t \in Times, requests'[t] # NoOne
      PROVE  /\ \E d \in Callers : (Leads(d))' /\ slot'[d] = requests'[t] /\ asked'[d] = t /\ (open' => ~stale'[d])
             /\ (Cached(t))' = {}
  <2>1. PICK d \in Callers : Leads(d) /\ slot[d] = requests[t] /\ asked[d] = t /\ (open => ~stale[d])
    BY <1>2 DEF ReaderInv, Mapped
  <2>2. d # c /\ Untouched(d) /\ (Leads(d))'
    BY <1>1, <2>1
  <2>3. Cached(t) = {}
    BY <1>2 DEF ReaderInv, Mapped
  <2> QED
    BY <2>1, <2>2, <2>3 DEF Untouched
<1>3. \A d \in Callers : (Leads(d))' /\ ~stale'[d] => requests'[asked'[d]] = slot'[d]
  BY <1>1 DEF ReaderInv, Mapped, Untouched
<1> QED
  BY <1>2, <1>3 DEF Mapped

\* A request to a reader that is not open changes nothing but its caller.
LEMMA RefuseKeeps ==
  ASSUME ReaderTypeOK, ReaderInv, NEW c \in Callers, NEW t \in Times, RefuseClosed(c, t)
  PROVE  ReaderInv'
<1> DEFINE a == Answer("NotOpen", Nothing)
<1>1. /\ pc[c] = "idle" /\ asked' = [asked EXCEPT ![c] = t] /\ Return(c, a)
      /\ begun' = [begun EXCEPT ![c] = IF open THEN file ELSE 0]
      /\ UNCHANGED <<open, cache, requests, heap, file, ctl, files, outcome>>
  BY DEF RefuseClosed, Enter, stateVars, playerVars, controlVars
<1>2. a.result = "NotOpen" /\ a.presentation = Nothing
  BY AnswerSays
<1> HIDE DEF a
<1>3. (~Inside(c))' /\ (~Leads(c))' /\ slot'[c] = NoOne /\ ~stale'[c] /\ returned'[c] = a
  BY <1>1, ReturnSays
<1>4. \A d \in Callers \ {c} : Untouched(d)
  BY <1>1, ReturnSays DEF Untouched, ReaderTypeOK
<1>5. Current' /\ Objects'
  BY <1>1, <1>3, <1>4, OneLeaves
<1>6. Answered'
  <2>1. (Right(returned[c], c))'
    BY <1>2, <1>3 DEF Right
  <2> QED
    BY <1>1, <1>3, <1>4, <2>1, OneAnswered
<1>7. Mapped'
  <2>1. \A u \in Times : Cached(u) = {} => (Cached(u))' = {}
    BY <1>1 DEF Cached
  <2>2. ~Leads(c)
    BY <1>1, Places
  <2> QED
    BY <1>1, <1>3, <1>4, <2>1, <2>2, OneUnmapped
<1>8. Stages' /\ CacheOfOpenFile'
  BY <1>1 DEF ReaderInv, Stages, CacheOfOpenFile, Fits, BytesOf
<1> QED
  BY <1>5, <1>6, <1>7, <1>8 DEF ReaderInv

\* A hit: the answer is of the open file and the cache is only put in another order.
LEMMA HitKeeps ==
  ASSUME ReaderTypeOK, ReaderInv, NEW c \in Callers, NEW t \in Times, Hit(c, t)
  PROVE  ReaderInv'
<1> DEFINE at == CHOOSE i \in Cached(t) : TRUE
           a == Answer("Ready", cache[at])
<1>1. /\ open /\ Cached(t) # {}
      /\ pc[c] = "idle" /\ asked' = [asked EXCEPT ![c] = t] /\ Return(c, a)
      /\ begun' = [begun EXCEPT ![c] = IF open THEN file ELSE 0]
      /\ cache' = MovedToFront(cache, at)
      /\ UNCHANGED <<open, requests, heap, file, ctl, files, outcome>>
  BY DEF Hit, Enter, playerVars, controlVars
<1>2. at \in 1 .. Len(cache) /\ cache[at] \in Presentation /\ cache[at].time = t
  BY <1>1, HitFinds
<1> HIDE DEF at
<1>3. a.result = "Ready" /\ a.presentation = cache[at]
  BY AnswerSays
<1> HIDE DEF a
<1>4. (~Inside(c))' /\ (~Leads(c))' /\ slot'[c] = NoOne /\ ~stale'[c] /\ returned'[c] = a
  BY <1>1, ReturnSays
<1>5. \A d \in Callers \ {c} : Untouched(d)
  BY <1>1, ReturnSays DEF Untouched, ReaderTypeOK
<1>6. Current' /\ Objects'
  BY <1>1, <1>4, <1>5, OneLeaves
<1>7. DOMAIN cache = 1 .. Len(cache) /\ cache \in Seq(Presentation) /\ Len(cache) \in Nat
  BY DEF ReaderTypeOK
<1>8. Answered'
  <2>1. asked'[c] = t /\ begun'[c] = file
    BY <1>1 DEF ReaderTypeOK
  <2>2. cache[at].file = file
    BY <1>2, <1>7 DEF ReaderInv, CacheOfOpenFile
  <2>3. cache[at] = [file |-> file, time |-> t]
    BY <1>2, <2>2 DEF Presentation
  <2>4. (Right(returned[c], c))'
    BY <1>2, <1>3, <1>4, <2>1, <2>3 DEF Right
  <2> QED
    BY <1>1, <1>4, <1>5, <2>4, OneAnswered
<1> DEFINE src(j) == IF j = 1 THEN at ELSE IF j <= at THEN j - 1 ELSE j
<1>9. /\ DOMAIN cache' = 1 .. Len(cache) /\ Len(cache') = Len(cache)
      /\ \A j \in 1 .. Len(cache) : cache'[j] = cache[src(j)]
      /\ BytesOf(cache', Len(cache')) = BytesOf(cache, Len(cache))
  <2>1. cache' \in Seq(Presentation) /\ Len(cache') = Len(cache)
        /\ BytesOf(cache', Len(cache)) = BytesOf(cache, Len(cache))
        /\ \A j \in 1 .. Len(cache) : cache'[j] = cache[src(j)]
    BY <1>1, <1>2, <1>7, MovedKeeps
  <2>2. DOMAIN cache' = 1 .. Len(cache')
    BY <2>1
  <2> QED
    BY <2>1, <2>2
<1>10. \A j \in 1 .. Len(cache) : src(j) \in 1 .. Len(cache)
  BY <1>2, <1>7
<1>11. \A j, k \in 1 .. Len(cache) : src(j) = src(k) => j = k
  BY <1>2, <1>7
<1> HIDE DEF src
<1>12. Mapped'
  <2>1. ASSUME NEW u \in Times, Cached(u) = {} PROVE (Cached(u))' = {}
    <3>1. \A j \in 1 .. Len(cache) : cache[j].time # u
      BY <1>7, <2>1 DEF Cached
    <3>2. \A j \in 1 .. Len(cache) : cache'[j].time # u
      BY <1>9, <1>10, <3>1
    <3> QED
      BY <1>9, <3>2 DEF Cached
  <2>2. ~Leads(c)
    BY <1>1, Places
  <2> QED
    BY <1>1, <1>4, <1>5, <2>1, <2>2, OneUnmapped
<1>13. CacheOfOpenFile'
  <2>1. \A j \in 1 .. Len(cache) : open' /\ cache'[j].file = file'
    BY <1>1, <1>7, <1>9, <1>10 DEF ReaderInv, CacheOfOpenFile
  <2>2. \A j, k \in 1 .. Len(cache) : cache'[j].time = cache'[k].time => j = k
    <3> SUFFICES ASSUME NEW j \in 1 .. Len(cache), NEW k \in 1 .. Len(cache), cache'[j].time = cache'[k].time
                 PROVE  j = k
      OBVIOUS
    <3>1. src(j) = src(k)
      BY <1>7, <1>9, <1>10 DEF ReaderInv, CacheOfOpenFile
    <3> QED
      BY <1>11, <3>1
  <2>3. (Fits(cache, Len(cache)))'
    <3>1. Len(cache) <= MaxEntries /\ BytesOf(cache, Len(cache)) <= MaxBytes
      BY DEF ReaderInv, CacheOfOpenFile, Fits
    <3> QED
      BY <1>9, <3>1 DEF Fits
  <2> QED
    BY <1>9, <2>1, <2>2, <2>3 DEF CacheOfOpenFile
<1>14. Stages'
  BY <1>1 DEF ReaderInv, Stages
<1> QED
  BY <1>6, <1>8, <1>12, <1>13, <1>14 DEF ReaderInv

\* A follower is told what its object says, and lets go of it.
LEMMA WakeKeeps ==
  ASSUME ReaderTypeOK, ReaderInv, NEW c \in Callers, Wake(c)
  PROVE  ReaderInv'
<1> DEFINE object == heap[slot[c]]
           a == IF object.complete THEN Answer(object.result, object.presentation) ELSE Answer("Cancelled", Nothing)
<1>1. /\ pc[c] = "wait" /\ Return(c, a) /\ heap' = Held(heap)
      /\ UNCHANGED <<open, cache, requests, file, ctl, files, asked, begun, outcome>>
  BY DEF Wake, stateVars, playerVars, controlVars
<1>2. slot[c] \in Callers /\ ~Leads(c)
  BY <1>1, Places DEF ReaderInv, Objects, ReaderTypeOK
<1>3. object \in Object
  BY <1>2 DEF ReaderTypeOK
<1>4. Right(a, c)
  <2>1. CASE object.complete
    <3>1. Right(object, c)
      BY <1>1, <2>1 DEF ReaderInv, Answered
    <3>2. a.result = object.result /\ a.presentation = object.presentation
      BY <2>1, AnswerSays
    <3> QED
      BY <3>1, <3>2 DEF Right
  <2>2. CASE ~object.complete
    <3>1. a.result = "Cancelled" /\ a.presentation = Nothing
      BY <2>2, AnswerSays
    <3> QED
      BY <3>1 DEF Right
  <2> QED
    BY <2>1, <2>2
<1> HIDE DEF a, object
<1>5. (~Inside(c))' /\ (~Leads(c))' /\ slot'[c] = NoOne /\ ~stale'[c] /\ returned'[c] = a
  BY <1>1, ReturnSays
<1>6. \A d \in Callers \ {c} : Untouched(d)
  BY <1>1, ReturnSays DEF Untouched
<1>7. Current' /\ Objects'
  BY <1>1, <1>5, <1>6, OneLeaves
<1>8. \A d \in Callers \ {c} : Inside(d) => heap'[slot[d]] = heap[slot[d]]
  <2> SUFFICES ASSUME NEW d \in Callers \ {c}, Inside(d) PROVE heap'[slot[d]] = heap[slot[d]]
    OBVIOUS
  <2>1. slot[d] \in Callers
    BY DEF ReaderInv, Objects, ReaderTypeOK
  <2>2. slot'[d] = slot[d]
    BY <1>6 DEF Untouched
  <2> QED
    BY <1>1, <2>1, <2>2 DEF Held
<1>9. Answered'
  <2>1. (Right(returned[c], c))'
    BY <1>1, <1>4, <1>5 DEF Right
  <2>2. \A d \in Callers \ {c} : (Leads(d) \/ pc[d] = "wait") => heap'[slot[d]] = heap[slot[d]]
    BY <1>8, Places
  <2> QED
    BY <1>5, <1>6, <2>1, <2>2, OneAnswered
<1>10. Mapped'
  <2>1. \A u \in Times : Cached(u) = {} => (Cached(u))' = {}
    BY <1>1 DEF Cached
  <2> QED
    BY <1>1, <1>2, <1>5, <1>6, <2>1, OneUnmapped
<1>11. Stages' /\ CacheOfOpenFile'
  BY <1>1 DEF ReaderInv, Stages, CacheOfOpenFile, Fits, BytesOf
<1> QED
  BY <1>7, <1>9, <1>10, <1>11 DEF ReaderInv

\* The host takes the answer.
LEMMA LeaveKeeps ==
  ASSUME ReaderTypeOK, ReaderInv, NEW c \in Callers, Leave(c)
  PROVE  ReaderInv'
<1>1. /\ pc[c] = "done" /\ pc' = [pc EXCEPT ![c] = "idle"]
      /\ returned' = [returned EXCEPT ![c] = Answer("none", Nothing)]
      /\ asked' = [asked EXCEPT ![c] = 0] /\ begun' = [begun EXCEPT ![c] = 0]
      /\ UNCHANGED <<open, cache, requests, heap, file, ctl, files, slot, stale, outcome>>
  BY DEF Leave, stateVars, playerVars, controlVars
<1>2. ~Inside(c) /\ ~Leads(c)
  BY <1>1, Places
<1>3. pc'[c] = "idle" /\ slot'[c] = NoOne /\ ~stale'[c]
  BY <1>1, <1>2 DEF ReaderTypeOK, ReaderInv, Objects, Current
<1>4. (~Inside(c))' /\ (~Leads(c))'
  BY <1>3 DEF Inside, Leads, Leading
<1>5. \A d \in Callers \ {c} : Untouched(d)
  BY <1>1 DEF Untouched, ReaderTypeOK
<1>6. Current' /\ Objects'
  BY <1>1, <1>3, <1>4, <1>5, OneLeaves
<1>7. Answered'
  BY <1>1, <1>3, <1>4, <1>5, OneAnswered
<1>8. Mapped'
  <2>1. \A u \in Times : Cached(u) = {} => (Cached(u))' = {}
    BY <1>1 DEF Cached
  <2> QED
    BY <1>1, <1>2, <1>4, <1>5, <2>1, OneUnmapped
<1>9. Stages' /\ CacheOfOpenFile'
  BY <1>1 DEF ReaderInv, Stages, CacheOfOpenFile, Fits, BytesOf
<1> QED
  BY <1>6, <1>7, <1>8, <1>9 DEF ReaderInv

\* A follower: what it waits for is about its own time and file, and not complete yet.
LEMMA FollowKeeps ==
  ASSUME ReaderTypeOK, ReaderInv, NEW c \in Callers, NEW t \in Times, Follow(c, t)
  PROVE  ReaderInv'
<1>1. /\ open /\ requests[t] # NoOne /\ pc[c] = "idle"
      /\ asked' = [asked EXCEPT ![c] = t]
      /\ begun' = [begun EXCEPT ![c] = IF open THEN file ELSE 0]
      /\ slot' = [slot EXCEPT ![c] = requests[t]] /\ pc' = [pc EXCEPT ![c] = "wait"]
      /\ UNCHANGED <<open, cache, requests, heap, file, ctl, files, outcome, returned, stale>>
  BY DEF Follow, Enter, stateVars, playerVars, controlVars
<1>2. ~Inside(c) /\ ~Leads(c) /\ slot[c] = NoOne /\ ~stale[c]
  BY <1>1, Places DEF ReaderInv, Objects, Current
<1>3. pc'[c] = "wait" /\ slot'[c] = requests[t] /\ asked'[c] = t /\ begun'[c] = file
  BY <1>1 DEF ReaderTypeOK
<1>4. (Inside(c))' /\ (~Leads(c))' 
  BY <1>3 DEF Inside, Leads, Leading
<1>5. \A d \in Callers \ {c} : Untouched(d) /\ ((Inside(d))' <=> Inside(d)) /\ ((Leads(d))' <=> Leads(d))
        /\ \A a : (Right(a, d))' <=> Right(a, d)
  <2>1. \A d \in Callers \ {c} : Untouched(d)
    BY <1>1 DEF Untouched, ReaderTypeOK
  <2> QED
    BY <2>1, UntouchedKeeps
<1>6. PICK l \in Callers : Leads(l) /\ slot[l] = requests[t] /\ asked[l] = t /\ ~stale[l]
  BY <1>1 DEF ReaderInv, Mapped
<1>7. l # c /\ Inside(l) /\ begun[l] = file
  BY <1>2, <1>6, Places DEF ReaderInv, Current
<1>8. heap[slot[l]].presentation = Nothing /\ heap[slot[l]].result \in {"Failed", "Cancelled"}
  BY <1>6 DEF ReaderInv, Answered
<1>9. Current'
  <2>1. \A d \in Callers : /\ stale'[d] => (Inside(d))'
                           /\ (Inside(d))' /\ ~stale'[d] => open' /\ begun'[d] = file'
    BY <1>1, <1>3, <1>4, <1>5 DEF ReaderInv, Current, Untouched
  <2> QED
    BY <2>1 DEF Current
<1>10. Objects'
  <2>1. \A d \in Callers : slot'[d] # NoOne <=> (Inside(d))'
    BY <1>1, <1>3, <1>4, <1>5 DEF ReaderInv, Objects, Untouched
  <2>2. ASSUME NEW d \in Callers \ {c}, slot[d] = requests[t]
        PROVE  asked[d] = t /\ begun[d] = file
    BY <1>1, <1>6, <1>7, <2>2 DEF ReaderInv, Objects
  <2>3. ASSUME NEW d \in Callers, NEW e \in Callers, slot'[d] = slot'[e], slot'[d] # NoOne
        PROVE  asked'[d] = asked'[e] /\ begun'[d] = begun'[e]
    <3>1. CASE d # c /\ e # c
      BY <1>5, <2>3, <3>1 DEF ReaderInv, Objects, Untouched
    <3>2. CASE d = c /\ e # c
      BY <1>3, <1>5, <2>2, <2>3, <3>2 DEF Untouched
    <3>3. CASE d # c /\ e = c
      BY <1>3, <1>5, <2>2, <2>3, <3>3 DEF Untouched
    <3> QED
      BY <3>1, <3>2, <3>3
  <2>4. ASSUME NEW d \in Callers, NEW e \in Callers, (Leads(d))', (Leads(e))', slot'[d] = slot'[e]
        PROVE  d = e
    <3>1. d # c /\ e # c
      BY <1>4, <2>4
    <3> QED
      BY <1>5, <2>4, <3>1 DEF ReaderInv, Objects, Untouched
  <2> QED
    BY <2>1, <2>3, <2>4 DEF Objects
<1>11. Answered'
  <2>1. \A d \in Callers : (Leads(d))' =>
          heap'[slot'[d]].presentation = Nothing /\ heap'[slot'[d]].result \in {"Failed", "Cancelled"}
    BY <1>1, <1>4, <1>5 DEF ReaderInv, Answered, Untouched
  <2>2. ASSUME NEW d \in Callers, pc'[d] = "wait", heap'[slot'[d]].complete
        PROVE  (Right(heap[slot[d]], d))'
    <3>1. CASE d = c
      BY <1>1, <1>3, <1>6, <1>8, <3>1 DEF Right
    <3>2. CASE d # c
      <4>1. pc[d] = "wait" /\ heap[slot[d]].complete /\ heap' = heap /\ slot'[d] = slot[d]
        BY <1>1, <1>5, <2>2, <3>2 DEF Untouched
      <4>2. Right(heap[slot[d]], d)
        BY <4>1 DEF ReaderInv, Answered
      <4> QED
        BY <1>5, <3>2, <4>1, <4>2 DEF Right, Untouched
    <3> QED
      BY <3>1, <3>2
  <2>3. ASSUME NEW d \in Callers, pc'[d] = "publish"
        PROVE  outcome'[d].result \in Results /\ (Right(outcome[d], d))'
    <3>1. d # c
      BY <1>3, <2>3
    <3>2. pc[d] = "publish" /\ Untouched(d)
      BY <1>5, <2>3, <3>1 DEF Untouched
    <3>3. outcome[d].result \in Results /\ Right(outcome[d], d)
      BY <3>2 DEF ReaderInv, Answered
    <3> QED
      BY <3>2, <3>3 DEF Right, Untouched
  <2>4. ASSUME NEW d \in Callers, pc'[d] = "done" PROVE (Right(returned[d], d))'
    <3>1. d # c
      BY <1>3, <2>4
    <3>2. pc[d] = "done" /\ Untouched(d)
      BY <1>5, <2>4, <3>1 DEF Untouched
    <3>3. Right(returned[d], d)
      BY <3>2 DEF ReaderInv, Answered
    <3> QED
      BY <3>2, <3>3 DEF Right, Untouched
  <2> QED
    BY <2>1, <2>2, <2>3, <2>4 DEF Answered
<1>12. Mapped'
  <2>1. ASSUME NEW u \in Times, requests'[u] # NoOne
        PROVE  /\ \E d \in Callers : (Leads(d))' /\ slot'[d] = requests'[u] /\ asked'[d] = u /\ (open' => ~stale'[d])
               /\ (Cached(u))' = {}
    <3>1. PICK d \in Callers : Leads(d) /\ slot[d] = requests[u] /\ asked[d] = u /\ (open => ~stale[d])
      BY <1>1, <2>1 DEF ReaderInv, Mapped
    <3>2. d # c
      BY <1>2, <3>1
    <3>3. Cached(u) = {}
      BY <1>1, <2>1 DEF ReaderInv, Mapped
    <3> QED
      BY <1>1, <1>5, <3>1, <3>2, <3>3 DEF Untouched, Cached
  <2>2. \A d \in Callers : (Leads(d))' /\ ~stale'[d] => requests'[asked'[d]] = slot'[d]
    BY <1>1, <1>4, <1>5 DEF ReaderInv, Mapped, Untouched
  <2> QED
    BY <2>1, <2>2 DEF Mapped
<1>13. Stages' /\ CacheOfOpenFile'
  BY <1>1 DEF ReaderInv, Stages, CacheOfOpenFile, Fits, BytesOf
<1> QED
  BY <1>9, <1>10, <1>11, <1>12, <1>13 DEF ReaderInv

\* A leader takes an object that nobody holds, for a time that is not in the map.
LEMMA LeadKeeps ==
  ASSUME ReaderTypeOK, ReaderInv, NEW c \in Callers, NEW t \in Times, Lead(c, t)
  PROVE  ReaderInv'
<1>1. PICK o \in Unheld :
        /\ heap' = [heap EXCEPT ![o] = Fresh] /\ requests' = [requests EXCEPT ![t] = o]
        /\ slot' = [slot EXCEPT ![c] = o]
  BY LeadTakes
<1>2. /\ open /\ requests[t] = NoOne /\ Cached(t) = {} /\ pc[c] = "idle"
      /\ asked' = [asked EXCEPT ![c] = t]
      /\ begun' = [begun EXCEPT ![c] = IF open THEN file ELSE 0]
      /\ pc' = [pc EXCEPT ![c] = "decode"]
      /\ UNCHANGED <<open, cache, file, ctl, files, outcome, returned, stale>>
  BY DEF Lead, Enter, playerVars, controlVars
<1>3. o \in Callers /\ o # NoOne /\ \A d \in Callers : slot[d] # o
  BY LimitsAssumption DEF Unheld
<1>4. ~Inside(c) /\ ~Leads(c) /\ ~stale[c]
  BY <1>2, Places DEF ReaderInv, Current
<1>5. pc'[c] = "decode" /\ slot'[c] = o /\ asked'[c] = t /\ begun'[c] = file /\ heap'[o] = Fresh
  BY <1>1, <1>2, <1>3 DEF ReaderTypeOK
<1>6. (Inside(c))' /\ (Leads(c))'
  BY <1>5 DEF Inside, Leads, Leading
<1>7. \A d \in Callers \ {c} : Untouched(d) /\ ((Inside(d))' <=> Inside(d)) /\ ((Leads(d))' <=> Leads(d))
        /\ \A a : (Right(a, d))' <=> Right(a, d)
  <2>1. \A d \in Callers \ {c} : Untouched(d)
    BY <1>1, <1>2 DEF Untouched, ReaderTypeOK
  <2> QED
    BY <2>1, UntouchedKeeps
<1>8. \A d \in Callers : heap'[slot[d]] = heap[slot[d]]
  BY <1>1, <1>3 DEF ReaderTypeOK
<1>9. Current'
  <2>1. \A d \in Callers : /\ stale'[d] => (Inside(d))'
                           /\ (Inside(d))' /\ ~stale'[d] => open' /\ begun'[d] = file'
    BY <1>2, <1>5, <1>6, <1>7 DEF ReaderInv, Current, Untouched
  <2> QED
    BY <2>1 DEF Current
<1>10. Objects'
  <2>1. \A d \in Callers : slot'[d] # NoOne <=> (Inside(d))'
    BY <1>3, <1>5, <1>6, <1>7 DEF ReaderInv, Objects, Untouched
  <2>2. \A d \in Callers \ {c} : slot'[d] # slot'[c]
    BY <1>3, <1>5, <1>7 DEF Untouched
  <2>3. ASSUME NEW d \in Callers, NEW e \in Callers, slot'[d] = slot'[e], slot'[d] # NoOne
        PROVE  asked'[d] = asked'[e] /\ begun'[d] = begun'[e]
    <3>1. CASE d # c /\ e # c
      BY <1>7, <2>3, <3>1 DEF ReaderInv, Objects, Untouched
    <3>2. CASE d = e
      BY <3>2
    <3> QED
      BY <2>2, <2>3, <3>1, <3>2
  <2>4. ASSUME NEW d \in Callers, NEW e \in Callers, (Leads(d))', (Leads(e))', slot'[d] = slot'[e]
        PROVE  d = e
    <3>1. CASE d # c /\ e # c
      BY <1>7, <2>4, <3>1 DEF ReaderInv, Objects, Untouched
    <3> QED
      BY <2>2, <2>4, <3>1
  <2> QED
    BY <2>1, <2>3, <2>4 DEF Objects
<1>11. Answered'
  <2>1. ASSUME NEW d \in Callers, (Leads(d))'
        PROVE  heap'[slot'[d]].presentation = Nothing /\ heap'[slot'[d]].result \in {"Failed", "Cancelled"}
    <3>1. CASE d = c
      BY <1>5, <3>1 DEF Fresh
    <3>2. CASE d # c
      BY <1>7, <1>8, <2>1, <3>2 DEF ReaderInv, Answered, Untouched
    <3> QED
      BY <3>1, <3>2
  <2>2. ASSUME NEW d \in Callers, pc'[d] = "wait", heap'[slot'[d]].complete
        PROVE  (Right(heap[slot[d]], d))'
    <3>1. d # c
      BY <1>5, <2>2
    <3>2. pc[d] = "wait" /\ heap'[slot'[d]] = heap[slot[d]]
      BY <1>7, <1>8, <2>2, <3>1 DEF Untouched
    <3>3. Right(heap[slot[d]], d)
      BY <2>2, <3>2 DEF ReaderInv, Answered
    <3> QED
      BY <1>7, <3>1, <3>2, <3>3 DEF Right, Untouched
  <2>3. ASSUME NEW d \in Callers, pc'[d] = "publish"
        PROVE  outcome'[d].result \in Results /\ (Right(outcome[d], d))'
    <3>1. d # c
      BY <1>5, <2>3
    <3>2. pc[d] = "publish" /\ Untouched(d)
      BY <1>7, <2>3, <3>1 DEF Untouched
    <3>3. outcome[d].result \in Results /\ Right(outcome[d], d)
      BY <3>2 DEF ReaderInv, Answered
    <3> QED
      BY <3>2, <3>3 DEF Right, Untouched
  <2>4. ASSUME NEW d \in Callers, pc'[d] = "done" PROVE (Right(returned[d], d))'
    <3>1. d # c
      BY <1>5, <2>4
    <3>2. pc[d] = "done" /\ Untouched(d)
      BY <1>7, <2>4, <3>1 DEF Untouched
    <3>3. Right(returned[d], d)
      BY <3>2 DEF ReaderInv, Answered
    <3> QED
      BY <3>2, <3>3 DEF Right, Untouched
  <2> QED
    BY <2>1, <2>2, <2>3, <2>4 DEF Answered
<1>12. requests'[t] = o /\ \A u \in Times \ {t} : requests'[u] = requests[u]
  BY <1>1 DEF ReaderTypeOK
<1>13. Mapped'
  <2>1. ASSUME NEW u \in Times, requests'[u] # NoOne
        PROVE  /\ \E d \in Callers : (Leads(d))' /\ slot'[d] = requests'[u] /\ asked'[d] = u /\ (open' => ~stale'[d])
               /\ (Cached(u))' = {}
    <3>1. CASE u = t
      BY <1>2, <1>4, <1>5, <1>6, <1>12, <3>1 DEF Cached
    <3>2. CASE u # t
      <4>1. requests'[u] = requests[u]
        BY <1>12, <3>2
      <4>2. PICK d \in Callers : Leads(d) /\ slot[d] = requests[u] /\ asked[d] = u /\ (open => ~stale[d])
        BY <2>1, <4>1 DEF ReaderInv, Mapped
      <4>3. d # c
        BY <1>4, <4>2
      <4>4. Cached(u) = {}
        BY <2>1, <4>1 DEF ReaderInv, Mapped
      <4> QED
        BY <1>2, <1>7, <4>1, <4>2, <4>3, <4>4 DEF Untouched, Cached
    <3> QED
      BY <3>1, <3>2
  <2>2. ASSUME NEW d \in Callers, (Leads(d))', ~stale'[d] PROVE requests'[asked'[d]] = slot'[d]
    <3>1. CASE d = c
      BY <1>5, <1>12, <3>1
    <3>2. CASE d # c
      <4>1. Leads(d) /\ ~stale[d] /\ asked'[d] = asked[d] /\ slot'[d] = slot[d]
        BY <1>7, <2>2, <3>2 DEF Untouched
      <4>2. requests[asked[d]] = slot[d] /\ asked[d] \in Times /\ slot[d] # NoOne
        BY <4>1, Places DEF ReaderInv, Mapped, Objects, ReaderTypeOK
      <4> QED
        BY <1>2, <1>12, <4>1, <4>2
    <3> QED
      BY <3>1, <3>2
  <2> QED
    BY <2>1, <2>2 DEF Mapped
<1>14. Stages' /\ CacheOfOpenFile'
  <2>1. CacheOfOpenFile'
    BY <1>2 DEF ReaderInv, CacheOfOpenFile, Fits, BytesOf
  <2>2. ctl # "open"
    BY <1>2 DEF ReaderInv, Stages
  <2> QED
    BY <1>2, <2>1, <2>2 DEF ReaderInv, Stages
<1> QED
  BY <1>9, <1>10, <1>11, <1>13, <1>14 DEF ReaderInv

\* A leader that goes on keeps what it holds, and what it will publish is right.
LEMMA OnTheWay ==
  ASSUME ReaderTypeOK, ReaderInv, NEW c \in Callers, Leads(c), leaderUnchanged,
         NEW x \in Leading, pc' = [pc EXCEPT ![c] = x],
         \A d \in Callers \ {c} : outcome'[d] = outcome[d],
         x = "publish" => outcome'[c].result \in Results /\ Right(outcome'[c], c)
  PROVE  ReaderInv'
<1> USE DEF leaderUnchanged, stateVars, playerVars, controlVars, callVars
<1>1. UNCHANGED <<open, cache, requests, heap, file, ctl, files, slot, asked, stale, begun, returned>>
  OBVIOUS
<1>2. pc'[c] = x /\ \A d \in Callers \ {c} : pc'[d] = pc[d]
  BY DEF ReaderTypeOK
<1>3. \A d \in Callers : ((Inside(d))' <=> Inside(d)) /\ ((Leads(d))' <=> Leads(d))
  BY <1>2, Places DEF Inside, Leads
<1>4. \A d \in Callers : \A a : (Right(a, d))' <=> Right(a, d)
  BY <1>1 DEF Right
<1>5. x \notin {"wait", "done"}
  BY DEF Leading
<1>6. Current' /\ Objects'
  BY <1>1, <1>3 DEF ReaderInv, Current, Objects
<1>7. Answered'
  <2>1. \A d \in Callers : (Leads(d))' =>
          heap'[slot'[d]].presentation = Nothing /\ heap'[slot'[d]].result \in {"Failed", "Cancelled"}
    BY <1>1, <1>3 DEF ReaderInv, Answered
  <2>2. \A d \in Callers : pc'[d] = "wait" /\ heap'[slot'[d]].complete => (Right(heap[slot[d]], d))'
    BY <1>1, <1>2, <1>5 DEF ReaderInv, Answered, Right
  <2>3. ASSUME NEW d \in Callers, pc'[d] = "publish"
        PROVE  outcome'[d].result \in Results /\ (Right(outcome[d], d))'
    <3>1. outcome'[d].result \in Results /\ Right(outcome'[d], d)
      BY <1>2, <2>3 DEF ReaderInv, Answered
    <3> QED
      BY <1>1, <3>1 DEF Right
  <2>4. \A d \in Callers : pc'[d] = "done" => (Right(returned[d], d))'
    BY <1>1, <1>2, <1>5 DEF ReaderInv, Answered, Right
  <2> QED
    BY <2>1, <2>2, <2>3, <2>4 DEF Answered
<1>8. Mapped'
  <2>1. \A u \in Times : requests'[u] # NoOne =>
          /\ \E d \in Callers : (Leads(d))' /\ slot'[d] = requests'[u] /\ asked'[d] = u /\ (open' => ~stale'[d])
          /\ (Cached(u))' = {}
    <3> SUFFICES ASSUME NEW u \in Times, requests[u] # NoOne
                 PROVE  /\ \E d \in Callers : (Leads(d))' /\ slot[d] = requests[u] /\ asked[d] = u /\ (open => ~stale[d])
                        /\ Cached(u) = {}
      BY <1>1 DEF Cached
    <3> QED
      BY <1>3 DEF ReaderInv, Mapped
  <2>2. \A d \in Callers : (Leads(d))' /\ ~stale'[d] => requests'[asked'[d]] = slot'[d]
    BY <1>1, <1>3 DEF ReaderInv, Mapped
  <2> QED
    BY <2>1, <2>2 DEF Mapped
<1>9. Stages' /\ CacheOfOpenFile'
  BY <1>1 DEF ReaderInv, Stages, CacheOfOpenFile, Fits, BytesOf
<1> QED
  BY <1>6, <1>7, <1>8, <1>9 DEF ReaderInv

\* Only a seek that starts at zero lets a leader say that a picture is missing.
LEMMA LeaderKeeps ==
  ASSUME ReaderTypeOK, ReaderInv, NEW c \in Callers, TakeDecoder(c) \/ Seek(c) \/ Poll(c) \/ Expire(c)
  PROVE  ReaderInv'
<1>1. leaderUnchanged /\ Leads(c)
  BY DEF TakeDecoder, Seek, Poll, Expire, Leads, Leading
<1>2. ASSUME NEW x \in {"seek", "poll"}, pc' = [pc EXCEPT ![c] = x], UNCHANGED outcome PROVE ReaderInv'
  <2>1. x \in Leading /\ x # "publish" /\ \A d \in Callers \ {c} : outcome'[d] = outcome[d]
    BY <1>2 DEF Leading
  <2> QED
    BY <1>1, <1>2, <2>1, OnTheWay
<1>3. ASSUME NEW r \in Results, NEW p, Decided(c, r, p), Right(Answer(r, p), c) PROVE ReaderInv'
  <2>1. pc' = [pc EXCEPT ![c] = "publish"] /\ outcome'[c] = Answer(r, p) /\ \A d \in Callers \ {c} : outcome'[d] = outcome[d]
    BY <1>3 DEF Decided, ReaderTypeOK
  <2>2. "publish" \in Leading /\ outcome'[c].result \in Results
    BY <2>1, AnswerSays DEF Leading
  <2> QED
    BY <1>1, <1>3, <2>1, <2>2, OnTheWay
<1>4. ASSUME NEW r \in {"Cancelled", "Failed", "Timeout"} PROVE r \in Results /\ Right(Answer(r, Nothing), c)
  BY AnswerSays DEF Right, Results
<1>5. CASE TakeDecoder(c)
  <2>1. CASE Obsolete(c)
    BY <1>3, <1>4, <1>5, <2>1 DEF TakeDecoder
  <2>2. CASE ~Obsolete(c)
    BY <1>2, <1>5, <2>2 DEF TakeDecoder
  <2> QED
    BY <2>1, <2>2
<1>6. CASE Seek(c)
  <2>1. CASE Decided(c, "Failed", Nothing)
    BY <1>3, <1>4, <2>1
  <2>2. CASE pc' = [pc EXCEPT ![c] = "poll"] /\ UNCHANGED outcome
    BY <1>2, <2>2
  <2> QED
    BY <1>6, <2>1, <2>2 DEF Seek
<1>7. CASE Poll(c)
  <2>1. CASE Decided(c, "Cancelled", Nothing)
    BY <1>3, <1>4, <2>1
  <2>2. CASE ~Obsolete(c) /\ Decided(c, "Ready", [file |-> file, time |-> asked[c]])
    <3>1. open /\ begun[c] = file /\ file \in 1 .. MaxFile
      BY <1>1, <2>2, Places, LimitsAssumption DEF Obsolete, ReaderInv, Current, Stages, ReaderTypeOK
    <3>2. [file |-> file, time |-> asked[c]] \in Presentation
      BY <3>1 DEF ReaderTypeOK, Presentation
    <3>3. "Ready" \in Results /\ Right(Answer("Ready", [file |-> file, time |-> asked[c]]), c)
      BY <3>1, <3>2, AnswerSays DEF Right, Results
    <3> QED
      BY <1>3, <2>2, <3>3
  <2>3. CASE ~Decodable(c) /\ reached /\ Decided(c, "Missing", Nothing)
    <3>1. asked[c] \in Times /\ 0 \in Times
      BY MediaAssumption DEF ReaderTypeOK, Times
    <3>2. SeekTime(c) = 0
      BY <2>3 DEF SeekTime
    <3>3. Landing[0] <= KeyOf[asked[c]]
      <4>1. Landing[0] \in Times /\ Landing[0] <= 0 /\ KeyOf[asked[c]] \in Times /\ LastTime \in Nat
        BY <3>1, MediaAssumption
      <4> QED
        BY <4>1 DEF Times
    <3>4. asked[c] \in NoPair
      BY <2>3, <3>2, <3>3 DEF Decodable
    <3>5. "Missing" \in Results /\ Right(Answer("Missing", Nothing), c)
      BY <3>4, AnswerSays DEF Right, Results
    <3> QED
      BY <1>3, <2>3, <3>5
  <2>4. CASE pc' = [pc EXCEPT ![c] = "seek"] /\ UNCHANGED outcome
    BY <1>2, <2>4
  <2> QED
    BY <1>7, <2>1, <2>2, <2>3, <2>4 DEF Poll
<1>8. CASE Expire(c)
  BY <1>3, <1>4, <1>8 DEF Expire
<1> QED
  BY <1>5, <1>6, <1>7, <1>8

\* What is published is right for the leader and for all who wait for it, and what
\* is cached is of the open file and was not cached before.
LEMMA PublishKeeps ==
  ASSUME ReaderTypeOK, ReaderInv, NEW c \in Callers, Publish(c)
  PROVE  ReaderInv'
<1> DEFINE final == Final(c)
           object == [complete |-> TRUE, result |-> final.result, presentation |-> final.presentation]
           p == final.presentation
<1>1. /\ pc[c] = "publish" /\ Return(c, final)
      /\ cache' = IF final.result = "Ready" THEN Insert(p) ELSE cache
      /\ heap' = Held([heap EXCEPT ![slot[c]] = object])
      /\ requests' = OwnErased(c)
      /\ UNCHANGED <<open, file, ctl, files, asked, begun>>
      /\ outcome' = [outcome EXCEPT ![c] = Answer("none", Nothing)]
  BY DEF Publish, Finish, playerVars, controlVars
<1>2. final \in Answers /\ final.result \in Results /\ Right(final, c)
      /\ (final.result = "Ready" => ~stale[c] /\ final.presentation \in Presentation)
  BY <1>1, FinalIsRight
<1>3. object.result = final.result /\ object.presentation = final.presentation
  OBVIOUS
<1> HIDE DEF final, object
<1>4. Leads(c) /\ Inside(c) /\ slot[c] \in Callers /\ slot[c] # NoOne
  BY <1>1, Places, LimitsAssumption DEF ReaderInv, Objects, ReaderTypeOK
<1>5. (~Inside(c))' /\ (~Leads(c))' /\ slot'[c] = NoOne /\ ~stale'[c] /\ returned'[c] = final
  BY <1>1, ReturnSays
<1>6. \A d \in Callers \ {c} : Untouched(d) /\ ((Inside(d))' <=> Inside(d)) /\ ((Leads(d))' <=> Leads(d))
  <2>1. \A d \in Callers \ {c} : Untouched(d)
    BY <1>1, ReturnSays DEF Untouched, ReaderTypeOK
  <2> QED
    BY <2>1, UntouchedKeeps
<1>7. Current' /\ Objects'
  BY <1>1, <1>5, <1>6, OneLeaves
<1>8. \A d \in Callers \ {c} : Inside(d) => heap'[slot[d]] = IF slot[d] = slot[c] THEN object ELSE heap[slot[d]]
  <2> SUFFICES ASSUME NEW d \in Callers \ {c}, Inside(d)
               PROVE  heap'[slot[d]] = IF slot[d] = slot[c] THEN object ELSE heap[slot[d]]
    OBVIOUS
  <2>1. slot[d] \in Callers
    BY DEF ReaderInv, Objects, ReaderTypeOK
  <2>2. slot'[d] = slot[d]
    BY <1>6 DEF Untouched
  <2>3. heap'[slot[d]] = [heap EXCEPT ![slot[c]] = object][slot[d]]
    BY <1>1, <2>1, <2>2 DEF Held
  <2> QED
    BY <1>4, <2>1, <2>3 DEF ReaderTypeOK
<1>9. Answered'
  <2>1. (Right(returned[c], c))'
    BY <1>1, <1>2, <1>5 DEF Right
  <2>2. \A d \in Callers \ {c} : Leads(d) => heap'[slot[d]] = heap[slot[d]]
    BY <1>4, <1>8, Places DEF ReaderInv, Objects
  <2>3. ASSUME NEW d \in Callers \ {c}, pc[d] = "wait", slot[d] = slot[c] PROVE Right(heap'[slot[d]], d)
    <3>1. heap'[slot[d]] = object
      BY <1>8, <2>3, Places
    <3>2. asked[d] = asked[c] /\ begun[d] = begun[c]
      BY <1>4, <2>3 DEF ReaderInv, Objects
    <3> QED
      BY <1>2, <1>3, <3>1, <3>2 DEF Right
  <2>4. \A d \in Callers \ {c} : pc[d] = "wait" => heap'[slot[d]] = heap[slot[d]] \/ Right(heap'[slot[d]], d)
    BY <1>8, <2>3, Places
  <2> QED
    BY <1>5, <1>6, <2>1, <2>2, <2>4, OneAnswered
<1>10. /\ requests[asked[c]] = slot[c] => requests'[asked[c]] = NoOne
       /\ \A u \in Times : u # asked[c] => requests'[u] = requests[u]
       /\ \A u \in Times : requests'[u] = requests[u] \/ requests'[u] = NoOne
       /\ requests[asked[c]] # slot[c] => requests' = requests
  BY <1>1 DEF OwnErased, Erased, ReaderTypeOK
<1>11. final.result = "Ready" =>
         /\ open /\ p \in Presentation /\ p.file = file /\ p.time = asked[c] /\ Cached(asked[c]) = {}
         /\ requests[asked[c]] = slot[c]
  <2> SUFFICES ASSUME final.result = "Ready"
               PROVE  /\ open /\ p \in Presentation /\ p.file = file /\ p.time = asked[c] /\ Cached(asked[c]) = {}
                      /\ requests[asked[c]] = slot[c]
    OBVIOUS
  <2>1. ~stale[c] /\ p \in Presentation /\ p = [file |-> begun[c], time |-> asked[c]]
    BY <1>2 DEF Right
  <2>2. open /\ begun[c] = file
    BY <1>4, <2>1 DEF ReaderInv, Current
  <2>3. requests[asked[c]] = slot[c] /\ asked[c] \in Times
    BY <1>4, <2>1 DEF ReaderInv, Mapped, ReaderTypeOK
  <2>4. Cached(asked[c]) = {}
    BY <1>4, <2>3 DEF ReaderInv, Mapped
  <2> QED
    BY <2>1, <2>2, <2>3, <2>4
<1> HIDE DEF p
<1>12. cache \in Seq(Presentation) /\ DOMAIN cache = 1 .. Len(cache) /\ Len(cache) \in Nat /\ Fits(cache, Len(cache))
  BY DEF ReaderTypeOK, ReaderInv, CacheOfOpenFile
<1>13. \/ cache' = cache
       \/ /\ final.result = "Ready" /\ Len(cache') \in 1 .. Len(cache) + 1
          /\ DOMAIN cache' = 1 .. Len(cache') /\ (Fits(cache, Len(cache)))'
          /\ cache'[1] = p /\ \A i \in 2 .. Len(cache') : cache'[i] = cache[i - 1]
  <2> SUFFICES ASSUME final.result = "Ready", cache' # cache
               PROVE  /\ Len(cache') \in 1 .. Len(cache) + 1
                      /\ DOMAIN cache' = 1 .. Len(cache') /\ (Fits(cache, Len(cache)))'
                      /\ cache'[1] = p /\ \A i \in 2 .. Len(cache') : cache'[i] = cache[i - 1]
    BY <1>1
  <2>1. cache' = Insert(p)
    BY <1>1
  <2>2. Insert(p) \in Seq(Presentation) /\ Fits(Insert(p), Len(Insert(p)))
        /\ Len(Insert(p)) \in 1 .. Len(cache) + 1 /\ Insert(p)[1] = p
        /\ \A i \in 2 .. Len(Insert(p)) : Insert(p)[i] = cache[i - 1]
    BY <1>11, <1>12, <2>1, InsertKeeps
  <2>3. DOMAIN cache' = 1 .. Len(cache')
    BY <2>1, <2>2
  <2>4. (Fits(cache, Len(cache)))'
    <3>1. Fits(cache', Len(cache'))
      BY <2>1, <2>2
    <3> QED
      BY <3>1 DEF Fits, BytesOf
  <2> QED
    BY <2>1, <2>2, <2>3, <2>4
<1>14. ASSUME cache' = cache
       PROVE  CacheOfOpenFile' /\ \A u \in Times : Cached(u) = {} => (Cached(u))' = {}
  <2>1. CacheOfOpenFile'
    BY <1>1, <1>14 DEF ReaderInv, CacheOfOpenFile, Fits, BytesOf
  <2>2. \A u \in Times : Cached(u) = {} => (Cached(u))' = {}
    BY <1>14 DEF Cached
  <2> QED
    BY <2>1, <2>2
<1>15. ASSUME final.result = "Ready", Len(cache') \in 1 .. Len(cache) + 1,
              DOMAIN cache' = 1 .. Len(cache'), (Fits(cache, Len(cache)))',
              cache'[1] = p, \A i \in 2 .. Len(cache') : cache'[i] = cache[i - 1]
       PROVE  CacheOfOpenFile' /\ \A u \in Times : u # asked[c] /\ Cached(u) = {} => (Cached(u))' = {}
  <2>1. \A i \in DOMAIN cache' : i # 1 => i \in 2 .. Len(cache') /\ i - 1 \in 1 .. Len(cache) /\ cache'[i] = cache[i - 1]
    BY <1>12, <1>15
  <2>2. \A i \in 1 .. Len(cache) : cache[i].time # asked[c] /\ open /\ cache[i].file = file
    BY <1>11, <1>12, <1>15 DEF Cached, ReaderInv, CacheOfOpenFile
  <2>3. \A i \in DOMAIN cache' : open' /\ cache'[i].file = file'
    BY <1>1, <1>11, <1>15, <2>1, <2>2
  <2>4. \A i, j \in DOMAIN cache' : cache'[i].time = cache'[j].time => i = j
    <3> SUFFICES ASSUME NEW i \in DOMAIN cache', NEW j \in DOMAIN cache', cache'[i].time = cache'[j].time
                 PROVE  i = j
      OBVIOUS
    <3>1. CASE i # 1 /\ j # 1
      <4>1. i - 1 = j - 1
        BY <1>12, <2>1, <3>1 DEF ReaderInv, CacheOfOpenFile
      <4> QED
        BY <1>12, <1>15, <4>1
    <3>2. CASE i = 1 /\ j # 1
      BY <1>11, <1>15, <2>1, <2>2, <3>2
    <3>3. CASE i # 1 /\ j = 1
      BY <1>11, <1>15, <2>1, <2>2, <3>3
    <3> QED
      BY <3>1, <3>2, <3>3
  <2>5. CacheOfOpenFile'
    BY <1>15, <2>3, <2>4 DEF CacheOfOpenFile
  <2>6. ASSUME NEW u \in Times, u # asked[c], Cached(u) = {} PROVE (Cached(u))' = {}
    <3>1. \A i \in 1 .. Len(cache) : cache[i].time # u
      BY <1>12, <2>6 DEF Cached
    <3>2. \A i \in DOMAIN cache' : cache'[i].time # u
      BY <1>11, <1>15, <2>1, <2>6, <3>1
    <3> QED
      BY <3>2 DEF Cached
  <2> QED
    BY <2>5, <2>6
<1>16. CacheOfOpenFile'
  BY <1>13, <1>14, <1>15
<1>17. Mapped'
  <2>1. ASSUME NEW u \in Times, requests'[u] # NoOne
        PROVE  /\ \E d \in Callers : (Leads(d))' /\ slot'[d] = requests'[u] /\ asked'[d] = u /\ (open' => ~stale'[d])
               /\ (Cached(u))' = {}
    <3>1. requests'[u] = requests[u] /\ requests[u] # NoOne
      BY <1>10, <2>1
    <3>2. PICK d \in Callers : Leads(d) /\ slot[d] = requests[u] /\ asked[d] = u /\ (open => ~stale[d])
      BY <3>1 DEF ReaderInv, Mapped
    <3>3. d # c
      BY <1>10, <2>1, <3>2
    <3>4. Cached(u) = {}
      BY <3>1 DEF ReaderInv, Mapped
    <3>5. u = asked[c] => cache' = cache
      BY <1>10, <1>11, <1>13, <2>1
    <3>6. (Cached(u))' = {}
      BY <1>13, <1>14, <1>15, <3>4, <3>5 DEF Cached
    <3> QED
      BY <1>1, <1>6, <3>1, <3>2, <3>3, <3>6 DEF Untouched
  <2>2. ASSUME NEW d \in Callers, (Leads(d))', ~stale'[d] PROVE requests'[asked'[d]] = slot'[d]
    <3>1. d # c
      BY <1>5, <2>2
    <3>2. Leads(d) /\ ~stale[d] /\ asked'[d] = asked[d] /\ slot'[d] = slot[d]
      BY <1>6, <2>2, <3>1 DEF Untouched
    <3>3. requests[asked[d]] = slot[d] /\ asked[d] \in Times /\ slot[d] # slot[c]
      BY <1>4, <3>1, <3>2 DEF ReaderInv, Mapped, Objects, ReaderTypeOK
    <3>4. requests'[asked[d]] = requests[asked[d]]
      BY <1>10, <3>3
    <3> QED
      BY <3>2, <3>3, <3>4
  <2> QED
    BY <2>1, <2>2 DEF Mapped
<1>18. Stages'
  BY <1>1, <1>10 DEF ReaderInv, Stages
<1> QED
  BY <1>7, <1>9, <1>16, <1>17, <1>18 DEF ReaderInv

\* The controlling thread does not touch the callers but for their generation.
LEMMA ControlObjects ==
  ASSUME ReaderTypeOK, ReaderInv, callersUnchanged
  PROVE  /\ Objects'
         /\ \A d \in Callers : ((Inside(d))' <=> Inside(d)) /\ ((Leads(d))' <=> Leads(d))
         /\ \A d \in Callers : \A a : (Right(a, d))' <=> Right(a, d)
<1>1. \A d \in Callers : ((Inside(d))' <=> Inside(d)) /\ ((Leads(d))' <=> Leads(d))
  BY DEF callersUnchanged, Inside, Leads
<1>2. \A d \in Callers : \A a : (Right(a, d))' <=> Right(a, d)
  BY DEF callersUnchanged, Right
<1>3. Objects'
  BY <1>1 DEF callersUnchanged, Objects, ReaderInv
<1> QED
  BY <1>1, <1>2, <1>3

\* No object and no answer is changed when the controlling thread leaves the heap alone.
LEMMA ControlAnswered ==
  ASSUME ReaderTypeOK, ReaderInv, callersUnchanged, heap' = heap
  PROVE  Answered'
<1>1. \A d \in Callers : ((Leads(d))' <=> Leads(d)) /\ \A a : (Right(a, d))' <=> Right(a, d)
  BY ControlObjects
<1> QED
  BY <1>1 DEF callersUnchanged, ReaderInv, Answered, Right

\* The generation advances: every call inside is out of date.
LEMMA AdvanceSays ==
  ASSUME ReaderTypeOK, AdvanceGeneration
  PROVE  \A d \in Callers : stale'[d] <=> Inside(d)
BY DEF AdvanceGeneration, Inside

\* close() answers those who wait in the map with Cancelled and empties the cache.
LEMMA CloseMarkKeeps ==
  ASSUME ReaderTypeOK, ReaderInv, NEW then \in {"close_io", "reopen_io"}, CloseMark(then),
         then = "reopen_io" => files < MaxFile
  PROVE  ReaderInv'
<1>1. /\ open' = FALSE /\ AdvanceGeneration /\ cache' = <<>> /\ ctl' = then
      /\ heap' = [o \in Callers |-> IF \E t \in Times : requests[t] = o
                                    THEN [heap[o] EXCEPT !.result = "Cancelled", !.complete = TRUE]
                                    ELSE heap[o]]
      /\ UNCHANGED <<requests, file, files>> /\ callersUnchanged
  BY DEF CloseMark, playerVars
<1>2. Objects' /\ \A d \in Callers : ((Inside(d))' <=> Inside(d)) /\ ((Leads(d))' <=> Leads(d))
      /\ \A a : (Right(a, d))' <=> Right(a, d)
  BY <1>1, ControlObjects
<1>3. \A d \in Callers : stale'[d] <=> Inside(d)
  BY <1>1, AdvanceSays
<1>4. Current'
  BY <1>2, <1>3 DEF Current
<1>5. \A o \in Callers : \/ heap'[o] = heap[o]
                         \/ /\ heap'[o].result = "Cancelled" /\ heap'[o].presentation = heap[o].presentation
                            /\ \E t \in Times : requests[t] = o
  <2> SUFFICES ASSUME NEW o \in Callers, NEW t \in Times, requests[t] = o
               PROVE  heap'[o].result = "Cancelled" /\ heap'[o].presentation = heap[o].presentation
    BY <1>1
  <2>1. heap'[o] = [heap[o] EXCEPT !.result = "Cancelled", !.complete = TRUE]
    BY <1>1
  <2>2. heap[o] \in Object
    BY DEF ReaderTypeOK
  <2> QED
    BY <2>1, <2>2 DEF Object
<1>6. Answered'
  <2>1. ASSUME NEW d \in Callers, (Leads(d))'
        PROVE  heap'[slot'[d]].presentation = Nothing /\ heap'[slot'[d]].result \in {"Failed", "Cancelled"}
    <3>1. Leads(d) /\ slot'[d] = slot[d] /\ slot[d] \in Callers
      <4>1. Leads(d) /\ Inside(d)
        BY <1>2, <2>1, Places
      <4>2. slot[d] # NoOne /\ slot[d] \in Callers \cup {NoOne}
        BY <4>1 DEF ReaderInv, Objects, ReaderTypeOK
      <4> QED
        BY <1>1, <4>1, <4>2 DEF callersUnchanged
    <3>2. heap[slot[d]].presentation = Nothing /\ heap[slot[d]].result \in {"Failed", "Cancelled"}
      BY <3>1 DEF ReaderInv, Answered
    <3> QED
      BY <1>5, <3>1, <3>2
  <2>2. ASSUME NEW d \in Callers, pc'[d] = "wait", heap'[slot'[d]].complete
        PROVE  (Right(heap[slot[d]], d))'
    <3>1. pc[d] = "wait" /\ slot'[d] = slot[d] /\ slot[d] \in Callers /\ slot[d] # NoOne
      <4>1. pc[d] = "wait" /\ slot'[d] = slot[d]
        BY <1>1, <2>2 DEF callersUnchanged
      <4>2. slot[d] # NoOne
        BY <4>1, Places DEF ReaderInv, Objects
      <4>3. slot[d] \in Callers \cup {NoOne}
        BY DEF ReaderTypeOK
      <4> QED
        BY <4>1, <4>2, <4>3
    <3>2. CASE heap'[slot[d]] = heap[slot[d]]
      <4>1. Right(heap[slot[d]], d)
        BY <2>2, <3>1, <3>2 DEF ReaderInv, Answered
      <4>2. Right(heap'[slot'[d]], d)
        BY <3>1, <3>2, <4>1
      <4> QED
        BY <1>1, <4>2 DEF Right, callersUnchanged
    <3>3. CASE /\ heap'[slot[d]].result = "Cancelled" /\ heap'[slot[d]].presentation = heap[slot[d]].presentation
               /\ \E t \in Times : requests[t] = slot[d]
      <4>1. PICK l \in Callers : Leads(l) /\ slot[l] = slot[d]
        BY <3>1, <3>3 DEF ReaderInv, Mapped
      <4>2. heap[slot[d]].presentation = Nothing
        BY <4>1 DEF ReaderInv, Answered
      <4> QED
        BY <3>1, <3>3, <4>2 DEF Right
    <3> QED
      BY <1>5, <3>1, <3>2, <3>3
  <2>3. ASSUME NEW d \in Callers
        PROVE  /\ pc'[d] = "publish" => outcome'[d].result \in Results /\ (Right(outcome[d], d))'
               /\ pc'[d] = "done" => (Right(returned[d], d))'
    BY <1>1 DEF callersUnchanged, ReaderInv, Answered, Right
  <2> QED
    BY <2>1, <2>2, <2>3 DEF Answered
<1>7. DOMAIN cache' = {} /\ Len(cache') = 0
  <2>1. cache' = <<>>
    BY <1>1
  <2>2. Len(<<>>) = 0
    OBVIOUS
  <2>3. DOMAIN <<>> = {}
    OBVIOUS
  <2> QED
    BY <2>1, <2>2, <2>3
<1>8. Mapped'
  <2>1. ASSUME NEW u \in Times, requests'[u] # NoOne
        PROVE  /\ \E d \in Callers : (Leads(d))' /\ slot'[d] = requests'[u] /\ asked'[d] = u /\ (open' => ~stale'[d])
               /\ (Cached(u))' = {}
    <3>1. PICK d \in Callers : Leads(d) /\ slot[d] = requests[u] /\ asked[d] = u
      BY <1>1, <2>1 DEF ReaderInv, Mapped
    <3>2. (Cached(u))' = {}
      BY <1>7 DEF Cached
    <3> QED
      BY <1>1, <1>2, <3>1, <3>2 DEF callersUnchanged
  <2>2. \A d \in Callers : (Leads(d))' => stale'[d]
    BY <1>2, <1>3, Places
  <2> QED
    BY <2>1, <2>2 DEF Mapped
<1>9. CacheOfOpenFile'
  <2>1. BytesOf(cache', 0) = 0
    BY <1>7, SumStep
  <2>2. (Fits(cache, Len(cache)))'
    BY <1>7, <2>1, LimitsAssumption DEF Fits, BytesOf
  <2> QED
    BY <1>7, <2>2 DEF CacheOfOpenFile
<1>10. Stages'
  BY <1>1 DEF Stages
<1> QED
  BY <1>2, <1>4, <1>6, <1>8, <1>9, <1>10 DEF ReaderInv

\* The controlling thread keeps the invariant: once it is past the mark of close(), no call is current.
LEMMA ControlKeeps ==
  ASSUME ReaderTypeOK, ReaderInv, Open \/ Close \/ CancelIo \/ ClosePlayer \/ OpenPlayer \/ CancelPendingRequests
  PROVE  ReaderInv'
<1> USE DEF stateVars, playerVars, controlVars
<1>1. CASE Open \/ Close
  BY <1>1, CloseMarkKeeps DEF Open, Close
<1>2. ASSUME callersUnchanged, heap' = heap, cache' = cache,
             ~open => DOMAIN cache = {},
             open' => (open /\ file' = file) \/ ~open,
             open => open' /\ file' = file
      PROVE  Objects' /\ Answered' /\ CacheOfOpenFile'
  <2>1. CacheOfOpenFile'
    BY <1>2 DEF ReaderInv, CacheOfOpenFile, Fits, BytesOf
  <2> QED
    BY <1>2, <2>1, ControlObjects, ControlAnswered
<1>3. ~open => DOMAIN cache = {}
  BY DEF ReaderInv, CacheOfOpenFile
<1>4. ASSUME callersUnchanged, cache' = cache, \A t \in Times : requests'[t] = NoOne,
             \A d \in Callers : Inside(d) => stale'[d]
      PROVE  Mapped'
  <2>1. \A d \in Callers : (Leads(d))' => stale'[d]
    BY <1>4, ControlObjects, Places
  <2> QED
    BY <1>4, <2>1 DEF Mapped
<1>5. CASE CancelIo
  <2>1. /\ ctl \in {"close_io", "reopen_io"} /\ ctl' = (IF ctl = "close_io" THEN "close_player" ELSE "reopen_player")
        /\ UNCHANGED <<open, cache, requests, heap, file, files, stale>> /\ callersUnchanged
    BY <1>5 DEF CancelIo
  <2>2. Objects' /\ Answered' /\ CacheOfOpenFile'
    BY <1>2, <1>3, <2>1
  <2>3. \A d \in Callers : ((Inside(d))' <=> Inside(d)) /\ ((Leads(d))' <=> Leads(d))
    BY <2>1, ControlObjects
  <2>4. Current'
    BY <2>1, <2>3 DEF ReaderInv, Current, callersUnchanged
  <2>5. Mapped'
    BY <2>1, <2>3 DEF ReaderInv, Mapped, callersUnchanged, Cached
  <2>6. Stages'
    BY <2>1 DEF ReaderInv, Stages
  <2> QED
    BY <2>2, <2>4, <2>5, <2>6 DEF ReaderInv
<1>6. CASE ClosePlayer
  <2>1. /\ ctl \in {"close_player", "reopen_player"} /\ file' = 0 /\ requests' = [t \in Times |-> NoOne]
        /\ ctl' = (IF ctl = "close_player" THEN "idle" ELSE "open")
        /\ UNCHANGED <<open, cache, heap, files, stale>> /\ callersUnchanged
    BY <1>6 DEF ClosePlayer
  <2>2. ~open
    BY <2>1 DEF ReaderInv, Stages
  <2>3. Objects' /\ Answered' /\ CacheOfOpenFile'
    BY <1>2, <1>3, <2>1, <2>2
  <2>4. \A d \in Callers : (Inside(d) => stale[d]) /\ ((Inside(d))' <=> Inside(d))
    BY <2>1, <2>2, ControlObjects DEF ReaderInv, Current
  <2>5. Current'
    BY <2>1, <2>4 DEF ReaderInv, Current
  <2>6. Mapped'
    BY <1>4, <2>1, <2>4
  <2>7. Stages'
    BY <2>1, <2>2 DEF ReaderInv, Stages
  <2> QED
    BY <2>3, <2>5, <2>6, <2>7 DEF ReaderInv
<1>7. CASE OpenPlayer
  <2>1. /\ ctl = "open" /\ files' = files + 1 /\ ctl' = "idle"
        /\ UNCHANGED <<cache, requests, heap>> /\ callersUnchanged
        /\ \/ open' = TRUE /\ AdvanceGeneration /\ file' = files + 1
           \/ UNCHANGED <<open, stale, file>>
    BY <1>7 DEF OpenPlayer
  <2>2. ~open /\ \A t \in Times : requests[t] = NoOne
    BY <2>1 DEF ReaderInv, Stages
  <2>3. Objects' /\ Answered' /\ CacheOfOpenFile'
    BY <1>2, <1>3, <2>1, <2>2
  <2>4. \A d \in Callers : (Inside(d) => stale[d]) /\ (stale[d] => Inside(d)) /\ ((Inside(d))' <=> Inside(d))
    BY <2>1, <2>2, ControlObjects DEF ReaderInv, Current
  <2>5. \A d \in Callers : stale'[d] <=> Inside(d)
    BY <2>1, <2>4, AdvanceSays
  <2>6. Current'
    BY <2>4, <2>5 DEF Current
  <2>7. Mapped'
    BY <1>4, <2>1, <2>2, <2>5
  <2>8. Stages'
    BY <2>1, <2>2 DEF ReaderInv, Stages, ReaderTypeOK
  <2> QED
    BY <2>3, <2>6, <2>7, <2>8 DEF ReaderInv
<1>8. CASE CancelPendingRequests
  <2>1. /\ ctl = "idle" /\ AdvanceGeneration /\ requests' = [t \in Times |-> NoOne]
        /\ UNCHANGED <<open, cache, heap, file, ctl, files>> /\ callersUnchanged
    BY <1>8 DEF CancelPendingRequests, Control
  <2>2. Objects' /\ Answered' /\ CacheOfOpenFile'
    BY <1>2, <1>3, <2>1
  <2>3. \A d \in Callers : (stale'[d] <=> Inside(d)) /\ ((Inside(d))' <=> Inside(d))
    BY <2>1, AdvanceSays, ControlObjects
  <2>4. Current'
    BY <2>3 DEF Current
  <2>5. Mapped'
    BY <1>4, <2>1, <2>3
  <2>6. Stages'
    BY <2>1 DEF ReaderInv, Stages
  <2> QED
    BY <2>2, <2>4, <2>5, <2>6 DEF ReaderInv
<1> QED
  BY <1>1, <1>5, <1>6, <1>7, <1>8

-----------------------------------------------------------------------------
(* The theorems.                                                           *)

\* The initial state.
LEMMA ReaderStarts ==
  ReaderInit => ReaderTypeOK /\ ReaderInv
<1> SUFFICES ASSUME ReaderInit PROVE ReaderTypeOK /\ ReaderInv
  OBVIOUS
<1> USE DEF ReaderInit
<1>1. 0 \in Times /\ 0 \in 0 .. MaxFile /\ 0 \in 0 .. MaxControl
  BY MediaAssumption, LimitsAssumption DEF Times
<1>2. Answer("none", Nothing) \in Answers /\ Fresh \in Object
  BY Values
<1>3. <<>> \in Seq(Presentation) /\ FALSE \in BOOLEAN /\ DOMAIN <<>> = {} /\ Len(<<>>) = 0
  <2>1. <<>> \in Seq(Presentation)
    OBVIOUS
  <2>2. FALSE \in BOOLEAN
    OBVIOUS
  <2>3. DOMAIN <<>> = {}
    OBVIOUS
  <2>4. Len(<<>>) = 0
    OBVIOUS
  <2> QED
    BY <2>1, <2>2, <2>3, <2>4
<1>4. ReaderTypeOK
  <2>1. heap \in [Callers -> Object] /\ outcome \in [Callers -> Answers] /\ returned \in [Callers -> Answers]
    BY <1>2
  <2>2. /\ asked \in [Callers -> Times] /\ begun \in [Callers -> 0 .. MaxFile]
        /\ requests \in [Times -> Callers \cup {NoOne}] /\ slot \in [Callers -> Callers \cup {NoOne}]
        /\ pc \in [Callers -> {"idle", "wait", "done"} \cup Leading]
    BY <1>1
  <2>3. stale \in [Callers -> BOOLEAN] /\ open \in BOOLEAN /\ ioCancelled \in BOOLEAN /\ reached \in BOOLEAN
    BY <1>3
  <2>4. cache \in Seq(Presentation)
    BY <1>3
  <2> QED
    BY <1>1, <2>1, <2>2, <2>3, <2>4 DEF ReaderTypeOK
<1>5. \A d \in Callers : pc[d] = "idle" /\ slot[d] = NoOne /\ ~stale[d] /\ ~Inside(d) /\ ~Leads(d)
  BY Places
<1>6. DOMAIN cache = {} /\ Len(cache) = 0
  BY <1>3
<1>7. CacheOfOpenFile
  <2>1. BytesOf(cache, 0) = 0
    BY <1>6, SumStep
  <2> QED
    BY <1>6, <2>1, LimitsAssumption DEF CacheOfOpenFile, Fits
<1>8. Stages /\ Current /\ Objects /\ Mapped
  BY <1>5 DEF Stages, Current, Objects, Mapped
<1>9. Answered
  BY <1>5 DEF Answered
<1> QED
  BY <1>4, <1>7, <1>8, <1>9 DEF ReaderInv

\* A stuttering step.
LEMMA ReaderStutters ==
  ASSUME ReaderTypeOK, ReaderInv, UNCHANGED readerVars
  PROVE  ReaderTypeOK' /\ ReaderInv'
<1> USE DEF readerVars, stateVars, playerVars, controlVars, callVars
<1>1. ReaderTypeOK'
  BY DEF ReaderTypeOK
<1>2. Stages' /\ Current' /\ Objects' /\ Mapped'
  BY DEF ReaderInv, Stages, Current, Objects, Mapped, Inside, Leads, Cached
<1>3. Answered'
  BY DEF ReaderInv, Answered, Leads, Right
<1>4. CacheOfOpenFile'
  BY DEF ReaderInv, CacheOfOpenFile, Fits, BytesOf
<1> QED
  BY <1>1, <1>2, <1>3, <1>4 DEF ReaderInv

\* Every step.
LEMMA ReaderSteps ==
  ASSUME ReaderTypeOK, ReaderInv, ReaderNext
  PROVE  ReaderTypeOK' /\ ReaderInv'
<1>1. ASSUME NEW c \in Callers, NEW t \in Times, RefuseClosed(c, t) \/ Hit(c, t) \/ Follow(c, t) \/ Lead(c, t)
      PROVE  ReaderTypeOK' /\ ReaderInv'
  BY <1>1, CallerTypes, HitTypes, LeadTypes, RefuseKeeps, HitKeeps, FollowKeeps, LeadKeeps
<1>2. ASSUME NEW c \in Callers, Wake(c) \/ Leave(c)
      PROVE  ReaderTypeOK' /\ ReaderInv'
  <2>1. 0 \in Times
    BY MediaAssumption DEF Times
  <2> QED
    BY <1>2, <2>1, CallerTypes, WakeKeeps, LeaveKeeps
<1>3. ASSUME NEW c \in Callers, Decode(c)
      PROVE  ReaderTypeOK' /\ ReaderInv'
  BY <1>3, LeaderTypes, PublishTypes, LeaderKeeps, PublishKeeps DEF Decode
<1>4. CASE Open \/ Close \/ CancelIo \/ ClosePlayer \/ OpenPlayer \/ CancelPendingRequests
  BY <1>4, ControlTypes, ControlKeeps
<1> QED
  BY <1>1, <1>2, <1>3, <1>4 DEF ReaderNext

\* The invariant always holds.
LEMMA ReaderHolds ==
  ReaderSpec => [](ReaderTypeOK /\ ReaderInv)
<1>1. ReaderTypeOK /\ ReaderInv /\ [ReaderNext]_readerVars => (ReaderTypeOK /\ ReaderInv)'
  BY ReaderSteps, ReaderStutters
<1> QED
  BY <1>1, ReaderStarts, PTL DEF ReaderSpec

\* Every variable of the frame reader has its type, for any number of host threads.
THEOREM ReaderTypesHold ==
  ReaderSpec => []ReaderTypeOK
BY ReaderHolds, PTL

\* The cache only has pictures of the file that is open, one for a time, and its
\* bytes are within the limit, whatever close() and open() overtake.
THEOREM CacheIsOfOpenFile ==
  ReaderSpec => []CacheOfOpenFile
<1>1. ReaderInv => CacheOfOpenFile
  BY DEF ReaderInv
<1> QED
  BY <1>1, ReaderHolds, PTL

\* request() answers with the picture of its own time and of the file it was
\* called on, to leaders and followers alike, and says Missing only of a time
\* that has no pair.
THEOREM RequestsAreAnswered ==
  ReaderSpec => []AnswersWhatWasAsked
<1>1. ReaderInv => AnswersWhatWasAsked
  BY DEF ReaderInv, Answered, Right, AnswersWhatWasAsked
<1> QED
  BY <1>1, ReaderHolds, PTL
=============================================================================
