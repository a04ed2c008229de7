--------------------------- MODULE PresentationStream ---------------------------
(***************************************************************************)
(* What a host sees of a player that is called by one thread: a stream of  *)
(* complete presentations.  A texture is shown with the mesh of its time,  *)
(* the time advances within a pass, and once a seek has begun another pass *)
(* nothing of an earlier one is shown.  Presentations may be left out.     *)
(* Player implements this specification.                                   *)
(***************************************************************************)
EXTENDS Naturals

CONSTANTS
  Passes,      \* the playback generations of a file
  Times        \* the times of its presentations

VARIABLES
  pass,        \* the generation that is playing
  presented    \* the last presentation handed to the host

vars == <<pass, presented>>

Pair(p, t) == [pass |-> p, texture |-> t, mesh |-> t, time |-> t]
Nothing == [pass |-> 0, texture |-> 0, mesh |-> 0, time |-> 0]

Init == pass \in Passes /\ presented = Nothing

Seek == pass' \in Passes /\ pass' > pass /\ UNCHANGED presented

Present ==
  /\ \E t \in Times :
       /\ presented.pass = pass => t > presented.time
       /\ presented' = Pair(pass, t)
  /\ UNCHANGED pass

Next == Seek \/ Present

Spec == Init /\ [][Next]_vars
=================================================================================
