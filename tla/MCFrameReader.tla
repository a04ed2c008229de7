----------------------------- MODULE MCFrameReader -----------------------------
(* FrameReader with the constants of its configurations: the mesh of time 2
   needs the one of time 0, further back than the first preroll. *)
EXTENDS FrameReader

Keys == [t \in Times |-> IF t = 1 THEN 1 ELSE 0]
Landings == [t \in Times |-> t]
Sizes == [t \in Times |-> IF t = 0 THEN 2 ELSE 1]
=============================================================================
