--------------------------- MODULE MCDaemonHandoff ---------------------------
(* DaemonHandoff on small instances. *)
EXTENDS DaemonHandoff, TLC

Symmetry == Permutations(Daemons)
=============================================================================
