----------------------------- MODULE MCAudioRing -----------------------------
(***************************************************************************)
(* Instances of AudioRing for TLC: a ring of a few samples that fills and  *)
(* wraps around several times.  A host that lets its callback overlap a     *)
(* seek seeks once, another twice.                                         *)
(***************************************************************************)
EXTENDS AudioRing

Seeks == [o \in BOOLEAN |-> IF o THEN 1 ELSE 2]

=============================================================================
