--------------------------- MODULE MCProbeLifecycle ---------------------------
(* Instances of ProbeLifecycle for TLC: three entries stand for the sixteen, *)
(* a first, a last and one in between.                                       *)
EXTENDS ProbeLifecycle, TLC

TaskSymmetry == Permutations(Tasks)
=============================================================================
