--------------------------- MODULE MCUnrealPlayback ---------------------------
(***************************************************************************)
(* Setups for UnrealPlayback: a local file that loops, a remote file with  *)
(* calls and outages, and adaptive files whose budget goes to the policy.  *)
(***************************************************************************)
EXTENDS UnrealPlayback

Rungs == <<4, 8>>

Setup(sound, net, ladder, again, slow, calls, outages, faults) ==
  [audio |-> sound, remote |-> net, adaptive |-> ladder, loop |-> again, slow |-> slow,
   calls |-> calls, outages |-> outages, faults |-> faults]

Some ==
  {Setup(FALSE, FALSE, FALSE, TRUE, TRUE, 2, 0, 0)}
  \cup {Setup(TRUE, FALSE, FALSE, l, FALSE, 4, 0, 1) : l \in BOOLEAN}
  \cup {Setup(TRUE, TRUE, FALSE, FALSE, FALSE, 3, 1, 1)}
  \cup {Setup(FALSE, TRUE, TRUE, TRUE, FALSE, 2, 0, 0), Setup(TRUE, TRUE, TRUE, FALSE, FALSE, 2, 0, 0),
        Setup(TRUE, TRUE, TRUE, FALSE, FALSE, 1, 1, 0)}
=============================================================================
