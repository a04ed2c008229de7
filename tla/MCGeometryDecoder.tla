-------------------------- MODULE MCGeometryDecoder --------------------------
(***************************************************************************)
(* GeometryDecoder on two coding windows, the first of which loses an      *)
(* update, and with it the update that follows.                            *)
(***************************************************************************)
EXTENDS GeometryDecoder

\* Windows 1..3 and 4..5.
TwoWindows == <<1, 1, 1, 4, 4>>
=============================================================================
