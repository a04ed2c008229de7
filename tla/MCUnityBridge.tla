---------------------------- MODULE MCUnityBridge ----------------------------
(***************************************************************************)
(* Budgets for UnityBridge.  Sound and pictures meet only in the registry, *)
(* so the instance that has many of the one has few of the other.          *)
(***************************************************************************)
EXTENDS UnityBridge

Two == {"a", "b"}
Budget(b, s, k, e) == [blocks |-> b, schedules |-> s, seeks |-> k, events |-> e]
Some == {Budget(4, 2, 0, 0), Budget(0, 0, 2, 2), Budget(1, 1, 1, 1)}
=============================================================================
