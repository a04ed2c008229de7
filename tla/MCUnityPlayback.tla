--------------------------- MODULE MCUnityPlayback ---------------------------
(***************************************************************************)
(* A file of four frames for UnityPlayback: long enough for a seek, a lag   *)
(* of more than two frames and a loop guard at either end.                 *)
(***************************************************************************)
EXTENDS UnityPlayback

=============================================================================
