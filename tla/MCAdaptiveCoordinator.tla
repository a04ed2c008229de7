------------------------ MODULE MCAdaptiveCoordinator ------------------------
(***************************************************************************)
(* AdaptiveCoordinator over a media without audio, on which its host calls  *)
(* everything, and one with audio that a block of sound crosses.           *)
(***************************************************************************)
EXTENDS AdaptiveCoordinator

Open(r) == [op |-> "open", rep |-> r]
Request(r, t) == [op |-> "request", rep |-> r, time |-> t]
Seek(t) == [op |-> "seek", time |-> t]
Plain(o) == [op |-> o]

\* Every operation; one boundary.
EveryOperation ==
  {Open("low"), Request("high", 1), Request("low", 1), Seek(0), Plain("cancel"),
   Plain("stop"), Plain("close")}

\* A switch whose boundary lies inside a block, and seeks before and after it.
SwitchInBlock == {Open("low"), Request("high", 1), Seek(0)}

Some ==
  {[audio |-> FALSE, operations |-> EveryOperation], [audio |-> TRUE, operations |-> SwitchInBlock]}
=============================================================================
