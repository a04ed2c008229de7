---------------------------- MODULE PlayerLifecycle ----------------------------
(***************************************************************************)
(* What OpenVolumetricPlayer promises about what it owns: a closed player  *)
(* owns nothing, an open one owns everything its file needs, a started one *)
(* owns its workers as well, and a worker is gone before anything that it  *)
(* uses is released.  A call that fails half-way leaves no remainder, with *)
(* one exception: a start() that an exception breaks off leaves the player *)
(* adrift, with a worker though it does not run.  It can be closed then;   *)
(* to start it again may end the process.                                  *)
(* PlayerSession implements this specification.                            *)
(***************************************************************************)
CONSTANTS
  Things,       \* what a player can own, workers apart
  Required,     \* those of them that every file needs
  Workers,      \* its threads
  Uses          \* Uses[w]: the things that worker w works with

VARIABLES
  state,     \* "closed", "opening", "ready", "starting", "running", "adrift", "stopping",
             \* "closing", "terminated"
  held       \* what the player owns

vars == <<state, held>>

Init == state = "closed" /\ held = {}

Moves(from, to) == state \in from /\ state' = to

\* A file is acquired piece by piece, and is ready when nothing is missing.
Acquire == Moves({"opening"}, "opening") /\ held \subseteq held' /\ held' \subseteq held \cup Things
GiveUp == Moves({"opening"}, "opening") /\ held' \subseteq held
Opened ==
  /\ Moves({"opening"}, "ready")
  /\ held \subseteq held' /\ held' \subseteq held \cup Things /\ Required \subseteq held'

\* Workers start on a whole file: both, or none, or an exception comes in between.
BeginStart == Moves({"ready", "adrift"}, "starting") /\ held \subseteq held' /\ held' \subseteq held \cup Workers
Started == Moves({"starting"}, "running") /\ held' = held \cup Workers
BreakOff == Moves({"starting"}, "adrift") /\ UNCHANGED held
Terminate == Moves({"adrift"}, "terminated") /\ UNCHANGED held
BeginStop == Moves({"ready", "adrift", "running"}, "stopping") /\ UNCHANGED held
Join == Moves({"stopping"}, "stopping") /\ \E w \in SUBSET Workers : held' = held \ w
Stopped == Moves({"stopping"}, "ready") /\ held' = held \ Workers

\* A player can be closed whatever it owns, each worker before what it works with.
BeginClose == Moves({"closed", "opening", "ready", "adrift", "running"}, "closing") /\ UNCHANGED held
Release ==
  /\ Moves({"closing"}, "closing")
  /\ held' \subseteq held
  /\ \A w \in held' \cap Workers : held \cap Uses[w] \subseteq held'
Closed == Moves({"closing"}, "closed") /\ held' = {}
Reopen == Moves({"closing"}, "opening") /\ held' = {}

Next ==
  \/ Acquire \/ GiveUp \/ Opened
  \/ BeginStart \/ Started \/ BreakOff \/ Terminate \/ BeginStop \/ Join \/ Stopped
  \/ BeginClose \/ Release \/ Closed \/ Reopen

Spec == Init /\ [][Next]_vars

\* Between two calls of the host.
Ownership ==
  /\ held \subseteq Things \cup Workers
  /\ state = "closed" => held = {}
  /\ state = "ready" => Required \subseteq held /\ held \cap Workers = {}
  /\ state = "running" => Required \cup Workers \subseteq held
  /\ state = "adrift" => Required \subseteq held
=============================================================================
