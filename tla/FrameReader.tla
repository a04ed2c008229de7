------------------------------ MODULE FrameReader ------------------------------
(***************************************************************************)
(* OpenVolumetricFrameReader: any number of host threads request the       *)
(* picture of an exact media time; requests for a time that is already     *)
(* being decoded follow that request, other misses take turns on the one   *)
(* decoder; one thread opens, closes and controls.                          *)
(*                                                                         *)
(* An action is a critical section of m_state_mutex, or a step of a leader *)
(* between two of them.  m_decoder_mutex is the variable decoder.          *)
(* The player is reduced to where its last seek landed: time t is decoded  *)
(* from there if the keyframe of its mesh is not before it.                *)
(* Media times are frame numbers.                                          *)
(***************************************************************************)
EXTENDS Integers, Sequences, FiniteSets

CONSTANTS
  Callers,      \* threads that call request()
  LastTime,     \* media times are 0 .. LastTime
  KeyOf,        \* KeyOf[t]: the independent mesh that the mesh of t needs
  Landing,      \* Landing[t]: where a seek to t lands, a video access point
  NoPair,       \* times at which the file has no complete presentation
  Bytes,        \* Bytes[t]: presentation_bytes() of the presentation of t
  MaxEntries,   \* maximum_cached_presentations
  MaxBytes,     \* maximum_cache_bytes
  MaxFile,      \* bound on open(): files are 1 .. MaxFile
  MaxControl    \* bound on open(), close() and cancel_pending_requests() together

Times == 0 .. LastTime

ASSUME MediaAssumption ==
  /\ LastTime \in Nat
  /\ KeyOf \in [Times -> Times] /\ Landing \in [Times -> Times]
  /\ \A t \in Times : KeyOf[t] <= t /\ Landing[t] <= t
  /\ NoPair \subseteq Times
  /\ Bytes \in [Times -> Nat \ {0}]

NoOne == "none"

ASSUME LimitsAssumption ==
  /\ MaxEntries \in Nat /\ MaxBytes \in Nat
  /\ MaxFile \in Nat /\ MaxControl \in Nat
  /\ Callers # {} /\ IsFiniteSet(Callers) /\ NoOne \notin Callers

Presentation == [file : 1 .. MaxFile, time : Times]
Nothing == [file |-> 0, time |-> 0]

\* A PendingRequest; result and presentation mean nothing until it is complete.
Results == {"Ready", "Missing", "Timeout", "Cancelled", "Failed"}
Object == [complete : BOOLEAN, result : Results, presentation : Presentation \cup {Nothing}]
Fresh == [complete |-> FALSE, result |-> "Failed", presentation |-> Nothing]

VARIABLES
  open,                \* open
  cache,               \* cache and cache_by_time, most recently used first
  requests,            \* pending: requests[t] is an object, or NoOne
  heap,                \* the PendingRequests that somebody holds; there are never
                       \* more than callers, so they are named like these
  decoder,             \* who holds decoder_mutex
  file, ioCancelled,   \* the player: its file, and whether its input is cancelled
  ctl, files, controls,  \* the controlling thread; its open() calls, all its calls
  pc, slot, asked,     \* per caller: where it is, the object it holds, the time it asked
  stale,               \* whether the generation has advanced since it took its copy
  preroll, reached,    \* locals of the loop of the leader that has the decoder
  outcome,             \* a leader's result before it is published
  returned,            \* what request() returned last
  begun                \* history: the file that was open when request() was entered

stateVars == <<open, cache, requests>>
playerVars == <<file, ioCancelled>>
controlVars == <<ctl, files, controls>>
callVars == <<slot, asked, stale, begun>>
readerVars == <<stateVars, heap, decoder, playerVars, controlVars, callVars,
          pc, preroll, reached, outcome, returned>>

Leading == {"decode", "seek", "poll", "publish"}
Answers == [result : Results \cup {"NotOpen", "none"}, presentation : Presentation \cup {Nothing}]
Answer(result, presentation) == [result |-> result, presentation |-> presentation]

ReaderTypeOK ==
  /\ open \in BOOLEAN
  /\ cache \in Seq(Presentation)
  /\ requests \in [Times -> Callers \cup {NoOne}]
  /\ heap \in [Callers -> Object]
  /\ decoder \in Callers \cup {NoOne}
  /\ file \in 0 .. MaxFile /\ ioCancelled \in BOOLEAN
  /\ ctl \in {"idle", "close_io", "close_player", "reopen_io", "reopen_player", "open"}
  /\ files \in 0 .. MaxFile /\ controls \in 0 .. MaxControl
  /\ pc \in [Callers -> {"idle", "wait", "done"} \cup Leading]
  /\ slot \in [Callers -> Callers \cup {NoOne}]
  /\ asked \in [Callers -> Times]
  /\ stale \in [Callers -> BOOLEAN]
  /\ preroll \in Nat /\ reached \in BOOLEAN
  /\ outcome \in [Callers -> Answers] /\ returned \in [Callers -> Answers]
  /\ begun \in [Callers -> 0 .. MaxFile]

ReaderInit ==
  /\ open = FALSE
  /\ cache = <<>> /\ requests = [t \in Times |-> NoOne]
  /\ heap = [c \in Callers |-> Fresh]
  /\ decoder = NoOne
  /\ file = 0 /\ ioCancelled = FALSE
  /\ ctl = "idle" /\ files = 0 /\ controls = 0
  /\ pc = [c \in Callers |-> "idle"] /\ slot = [c \in Callers |-> NoOne]
  /\ asked = [c \in Callers |-> 0] /\ stale = [c \in Callers |-> FALSE]
  /\ preroll = 0 /\ reached = FALSE
  /\ outcome = [c \in Callers |-> Answer("none", Nothing)]
  /\ returned = [c \in Callers |-> Answer("none", Nothing)]
  /\ begun = [c \in Callers |-> 0]

-----------------------------------------------------------------------------
(* The cache.                                                              *)

Cached(t) == {i \in DOMAIN cache : cache[i].time = t}

\* The i-th entry becomes the most recently used one.
MovedToFront(s, i) ==
  [j \in 1 .. Len(s) |-> IF j = 1 THEN s[i] ELSE IF j <= i THEN s[j - 1] ELSE s[j]]

\* cache_bytes of the first n entries of s.
BytesOf(s, n) ==
  LET sum[i \in 0 .. Len(s)] == IF i = 0 THEN 0 ELSE sum[i - 1] + Bytes[s[i].time] IN sum[n]

Fits(s, n) == n <= MaxEntries /\ BytesOf(s, n) <= MaxBytes

\* cache_locked(): a presentation that alone is too large is not kept, else the
\* last entries are evicted until both limits hold.
Insert(p) ==
  IF MaxEntries = 0 \/ MaxBytes = 0 \/ Bytes[p.time] > MaxBytes
  THEN cache
  ELSE LET all == <<p>> \o cache
           n == CHOOSE n \in 1 .. Len(all) :
                  Fits(all, n) /\ \A m \in n + 1 .. Len(all) : ~Fits(all, m)
       IN SubSeq(all, 1, n)

-----------------------------------------------------------------------------
(* request(): the section that decides what kind of request this is.       *)

Return(c, answer) ==
  /\ returned' = [returned EXCEPT ![c] = answer]
  /\ pc' = [pc EXCEPT ![c] = "done"]
  /\ slot' = [slot EXCEPT ![c] = NoOne]
  /\ stale' = [stale EXCEPT ![c] = FALSE]

\* A PendingRequest lives while somebody holds it.
Held(h) == [o \in Callers |-> IF \E c \in Callers : slot'[c] = o THEN h[o] ELSE Fresh]

\* The host has the answer; what the call left behind is gone.
Leave(c) ==
  /\ pc[c] = "done"
  /\ pc' = [pc EXCEPT ![c] = "idle"]
  /\ returned' = [returned EXCEPT ![c] = Answer("none", Nothing)]
  /\ asked' = [asked EXCEPT ![c] = 0] /\ begun' = [begun EXCEPT ![c] = 0]
  /\ UNCHANGED <<stateVars, heap, decoder, playerVars, controlVars, slot, stale, preroll, reached,
                 outcome>>

Enter(c, t) ==
  /\ pc[c] = "idle"
  /\ asked' = [asked EXCEPT ![c] = t]
  /\ begun' = [begun EXCEPT ![c] = IF open THEN file ELSE 0]

RefuseClosed(c, t) ==
  /\ ~open /\ Enter(c, t)
  /\ Return(c, Answer("NotOpen", Nothing))
  /\ UNCHANGED <<stateVars, heap, decoder, playerVars, controlVars, preroll, reached, outcome>>

Hit(c, t) ==
  /\ open /\ Cached(t) # {} /\ Enter(c, t)
  /\ LET at == CHOOSE i \in Cached(t) : TRUE
     IN /\ cache' = MovedToFront(cache, at)
        /\ Return(c, Answer("Ready", cache[at]))
  /\ UNCHANGED <<open, requests, heap, decoder, playerVars, controlVars,
                 preroll, reached, outcome>>

Follow(c, t) ==
  /\ open /\ Cached(t) = {} /\ requests[t] # NoOne /\ Enter(c, t)
  /\ slot' = [slot EXCEPT ![c] = requests[t]]
  /\ pc' = [pc EXCEPT ![c] = "wait"]
  /\ UNCHANGED <<stateVars, heap, decoder, playerVars, controlVars, preroll, reached,
                 outcome, returned, stale>>

Unheld == {o \in Callers : \A c \in Callers : slot[c] # o}

Lead(c, t) ==
  /\ open /\ Cached(t) = {} /\ requests[t] = NoOne /\ Enter(c, t)
  /\ LET o == IF c \in Unheld THEN c ELSE CHOOSE o \in Unheld : TRUE
     IN /\ heap' = [heap EXCEPT ![o] = Fresh]
        /\ requests' = [requests EXCEPT ![t] = o]
        /\ slot' = [slot EXCEPT ![c] = o]
  /\ pc' = [pc EXCEPT ![c] = "decode"]
  /\ UNCHANGED <<open, cache, decoder, playerVars, controlVars, preroll, reached,
                 outcome, returned, stale>>

\* A follower wakes: its object is complete, or the generation has moved on.
Wake(c) ==
  /\ pc[c] = "wait"
  /\ LET object == heap[slot[c]]
     IN /\ object.complete \/ stale[c]
        /\ Return(c, IF object.complete THEN Answer(object.result, object.presentation)
                     ELSE Answer("Cancelled", Nothing))
  /\ heap' = Held(heap)
  /\ UNCHANGED <<stateVars, decoder, playerVars, controlVars, asked, begun, preroll, reached,
                 outcome>>

-----------------------------------------------------------------------------
(* A leader, from taking decoder_mutex to publishing its result.           *)

Obsolete(c) == ~open \/ stale[c]

\* The decoder is given back; the result is not yet visible.
Decided(c, result, presentation) ==
  /\ outcome' = [outcome EXCEPT ![c] = Answer(result, presentation)]
  /\ pc' = [pc EXCEPT ![c] = "publish"]
  /\ decoder' = NoOne /\ preroll' = 0 /\ reached' = FALSE

leaderUnchanged == UNCHANGED <<stateVars, heap, playerVars, controlVars, callVars, returned>>

TakeDecoder(c) ==
  /\ pc[c] = "decode" /\ decoder = NoOne
  /\ IF Obsolete(c)
     THEN Decided(c, "Cancelled", Nothing)
     ELSE /\ decoder' = c
          /\ pc' = [pc EXCEPT ![c] = "seek"]
          /\ preroll' = 1 /\ reached' = (asked[c] <= 1)
          /\ UNCHANGED outcome
  /\ leaderUnchanged

SeekTime(c) == IF reached \/ asked[c] < preroll THEN 0 ELSE asked[c] - preroll

\* player.seek(): input that close() has cancelled lets it fail.
Seek(c) ==
  /\ pc[c] = "seek"
  /\ \/ /\ reached' = (SeekTime(c) = 0)
        /\ pc' = [pc EXCEPT ![c] = "poll"]
        /\ UNCHANGED <<outcome, decoder, preroll>>
     \/ ioCancelled /\ Decided(c, "Failed", Nothing)
  /\ leaderUnchanged

\* What presentation() finds when it has waited long enough after the seek.
Decodable(c) == asked[c] \notin NoPair /\ Landing[SeekTime(c)] <= KeyOf[asked[c]]

\* mutant: the first preroll is the only one.
PollOnce(c) ==
  /\ pc[c] = "poll"
  /\ \/ Obsolete(c) /\ Decided(c, "Cancelled", Nothing)
     \/ ~Obsolete(c) /\ Decodable(c) /\ Decided(c, "Ready", [file |-> file, time |-> asked[c]])
     \/ ~Obsolete(c) /\ ~Decodable(c) /\ Decided(c, "Missing", Nothing)
  /\ leaderUnchanged

\* One turn of the inner loop.  That presentation() says NotReady is no step.
Poll(c) ==
  /\ pc[c] = "poll"
  /\ \/ Obsolete(c) /\ Decided(c, "Cancelled", Nothing)
     \/ ~Obsolete(c) /\ Decodable(c) /\ Decided(c, "Ready", [file |-> file, time |-> asked[c]])
     \/ ~Obsolete(c) /\ ~Decodable(c) /\ reached /\ Decided(c, "Missing", Nothing)
     \/ /\ ~Obsolete(c) /\ ~Decodable(c) /\ ~reached
        /\ preroll' = 2 * preroll
        /\ pc' = [pc EXCEPT ![c] = "seek"]
        /\ UNCHANGED <<outcome, decoder, reached>>
  /\ leaderUnchanged

\* The deadline ends either loop.
Expire(c) ==
  /\ pc[c] \in {"seek", "poll"}
  /\ Decided(c, "Timeout", Nothing)
  /\ leaderUnchanged

\* The last section of a leader: what it found is cached if it is a picture, its
\* followers are answered (complete), its entry leaves the map (remaining).
Finish(c, final, complete, remaining) ==
  /\ pc[c] = "publish"
  /\ Return(c, final)
  /\ cache' = IF final.result = "Ready" THEN Insert(final.presentation) ELSE cache
  /\ heap' = Held([heap EXCEPT ![slot[c]] = [complete |-> complete, result |-> final.result,
                                             presentation |-> final.presentation]])
  /\ requests' = remaining
  /\ outcome' = [outcome EXCEPT ![c] = Answer("none", Nothing)]
  /\ UNCHANGED <<open, decoder, playerVars, controlVars, asked, begun, preroll, reached>>

Final(c) == IF stale[c] THEN Answer("Cancelled", Nothing) ELSE outcome[c]
Erased(t) == [requests EXCEPT ![t] = NoOne]
OwnErased(c) == IF requests[asked[c]] = slot[c] THEN Erased(asked[c]) ELSE requests

\* mutants: a result is published without a look at the generation; a failure
\* leaves the followers alone.
PublishAnyway(c) == Finish(c, outcome[c], TRUE, OwnErased(c))
PublishPictures(c) == Finish(c, Final(c), Final(c).result = "Ready", OwnErased(c))

\* A result of an earlier generation is discarded, and the map's entry is
\* erased only if it is still this request's.
Publish(c) == Finish(c, Final(c), TRUE, OwnErased(c))

-----------------------------------------------------------------------------
(* open(), close() and cancel_pending_requests().                          *)

\* ++generation: every call that has taken its copy is out of date.
AdvanceGeneration == stale' = [c \in Callers |-> pc[c] \in Leading \cup {"wait"}]

Control == ctl = "idle" /\ controls < MaxControl /\ controls' = controls + 1

callersUnchanged == UNCHANGED <<slot, asked, begun, pc, preroll, reached, outcome, returned>>

\* close(), first section: waiting followers are answered, the cache is dropped.
CloseMark(then) ==
  /\ Control
  /\ open' = FALSE /\ AdvanceGeneration
  /\ heap' = [o \in Callers |-> IF \E t \in Times : requests[t] = o
                                THEN [heap[o] EXCEPT !.result = "Cancelled", !.complete = TRUE]
                                ELSE heap[o]]
  /\ cache' = <<>>
  /\ ctl' = then
  /\ UNCHANGED <<requests, decoder, playerVars, files>> /\ callersUnchanged

CancelIo ==
  /\ ctl \in {"close_io", "reopen_io"}
  /\ ioCancelled' = (file # 0)
  /\ ctl' = IF ctl = "close_io" THEN "close_player" ELSE "reopen_player"
  /\ UNCHANGED <<stateVars, heap, decoder, file, files, controls, stale>> /\ callersUnchanged

\* close(), with the decoder_mutex.
ClosePlayer ==
  /\ ctl \in {"close_player", "reopen_player"} /\ decoder = NoOne
  /\ file' = 0 /\ ioCancelled' = FALSE
  /\ requests' = [t \in Times |-> NoOne]
  /\ ctl' = IF ctl = "close_player" THEN "idle" ELSE "open"
  /\ UNCHANGED <<open, cache, heap, decoder, files, controls, stale>> /\ callersUnchanged

\* open(), after its close(): the player starts or does not.
OpenPlayer ==
  /\ ctl = "open" /\ decoder = NoOne
  /\ files' = files + 1 /\ ctl' = "idle"
  /\ \/ open' = TRUE /\ AdvanceGeneration /\ file' = files + 1
     \/ UNCHANGED <<open, stale, file>>
  /\ UNCHANGED <<cache, requests, heap, decoder, ioCancelled, controls>> /\ callersUnchanged

Open == files < MaxFile /\ CloseMark("reopen_io")
Close == file # 0 /\ CloseMark("close_io")

CancelPendingRequests ==
  /\ Control
  /\ AdvanceGeneration
  /\ requests' = [t \in Times |-> NoOne]
  /\ UNCHANGED <<open, cache, heap, decoder, playerVars, ctl, files>> /\ callersUnchanged

-----------------------------------------------------------------------------
Decode(c) == TakeDecoder(c) \/ Seek(c) \/ Poll(c) \/ Expire(c) \/ Publish(c)

ReaderNext ==
  \/ \E c \in Callers : \E t \in Times :
       RefuseClosed(c, t) \/ Hit(c, t) \/ Follow(c, t) \/ Lead(c, t)
  \/ \E c \in Callers : Wake(c) \/ Decode(c) \/ Leave(c)
  \/ Open \/ Close \/ CancelIo \/ ClosePlayer \/ OpenPlayer \/ CancelPendingRequests

ReaderSpec == ReaderInit /\ [][ReaderNext]_readerVars

\* Threads run; a mutex that is free again and again is taken in the end.
Fairness ==
  /\ \A c \in Callers : WF_readerVars(Wake(c) \/ Seek(c) \/ Poll(c) \/ Publish(c))
  /\ \A c \in Callers : SF_readerVars(TakeDecoder(c))
  /\ WF_readerVars(CancelIo) /\ SF_readerVars(ClosePlayer \/ OpenPlayer)

FairReader == ReaderSpec /\ Fairness

-----------------------------------------------------------------------------
(* Properties.                                                             *)

\* The cache holds presentations of the file that is open, one for a time, and
\* within both limits: close() empties it and a leader that close() overtook
\* does not put anything back.
CacheOfOpenFile ==
  /\ \A i \in DOMAIN cache : open /\ cache[i].file = file
  /\ \A i, j \in DOMAIN cache : cache[i].time = cache[j].time => i = j
  /\ Fits(cache, Len(cache))

\* What request() returns is what was asked: of the file that was open when it
\* was entered and of that time; and Missing is only said of a time at which
\* the file really has no pair, however far back the mesh's keyframe is.
AnswersWhatWasAsked ==
  \A c \in Callers :
    pc[c] = "done" =>
      /\ returned[c].result = "Ready" => returned[c].presentation = [file |-> begun[c], time |-> asked[c]]
      /\ returned[c].result # "Ready" => returned[c].presentation = Nothing
      /\ returned[c].result = "Missing" => asked[c] \in NoPair

\* Every request returns, whatever is closed or cancelled meanwhile, and
\* close() gets the decoder.
RequestReturns ==
  /\ \A c \in Callers : pc[c] # "idle" ~> pc[c] \in {"done", "idle"}
  /\ ctl # "idle" ~> ctl = "idle"
=============================================================================
