--------------------------- MODULE MCChargeRuntime ---------------------------
(* Instances of ChargeRuntime for TLC: the Buck current and one FG function, *)
(* in the order of the table.                                                *)
EXTENDS ChargeRuntime, TLC

CONSTANTS c1, k1, k2, b1, b2

MCTwoEntries == (0 :> "ichg") @@ (1 :> "get_temp")
MCInputs == "ichg" :> {17600}
MCOwn == (k1 :> {b1}) @@ (k2 :> {b2})

MCParams == {[boost |-> TRUE, pps |-> TRUE, thermal |-> TRUE]}

\* Ordinary and at 58 C.
MCReadings == {300, 580}
=============================================================================
