------------------------------- MODULE MCPlayer -------------------------------
(* Player with the constants of its configurations. *)
EXTENDS Player
=============================================================================
