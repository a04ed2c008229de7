---------------------------- MODULE MCAuthoringJob ----------------------------
(***************************************************************************)
(* Setups for AuthoringJob.  One job of Unity packs every sequence of      *)
(* topologies under every option; what is published, cancelled and killed  *)
(* is explored with one sequence.                                          *)
(***************************************************************************)
EXTENDS AuthoringJob

Options(c, i, m, o, t, k) ==
  [compress |-> c, interval |-> i, most |-> m, ordered |-> o, topology |-> t, keys |-> k]

Plain == Options(TRUE, 2, 0, TRUE, [f \in Frames |-> 1], {1, 3, 5})
Window(h, a, w, t) == [host |-> h, adaptive |-> a, overwrite |-> w, task |-> t]

Some ==
  {Window(h, a, w, Plain) : h \in {"Unity", "Unreal"}, a \in BOOLEAN, w \in BOOLEAN}
  \cup {Window("Unity", FALSE, FALSE, Options(c, i, m, o, t, k)) :
          c \in BOOLEAN, i \in {0, 2, 3}, m \in {0, 2}, o \in BOOLEAN, t \in [Frames -> {1, 2}],
          k \in {{1}, {1, 3, 5}, {1, 4}}}
=============================================================================
