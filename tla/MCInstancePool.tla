---------------------------- MODULE MCInstancePool ----------------------------
(* An instance of InstancePool for TLC: two CPUs with one instance each, the *)
(* counters one short of the wrap.                                           *)
EXTENDS InstancePool, TLC

CONSTANTS o1, o2

OneEach == (0 :> <<o1>>) @@ (1 :> <<o2>>)
CallSymmetry == Permutations(Calls)
=============================================================================
