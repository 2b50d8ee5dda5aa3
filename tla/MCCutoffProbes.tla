--------------------------- MODULE MCCutoffProbes ---------------------------
(* Instances of CutoffProbes for TLC: two tasks.                           *)
EXTENDS CutoffProbes, TLC

CONSTANTS fg, other, k1, k2

Thresholds(fw, delay, sw) == [f \in Fields |-> CASE f = "fw" -> fw [] f = "delay" -> delay
                                                 [] OTHER -> sw]

\* The defaults of lines 26-28, and a setting at the lower bound: root passes
\* from one to the other through settings that are half of each.
MCSettings == {Thresholds(2600, 2600, 2550), Thresholds(2500, 2700, 2550)}

\* The vendor's thresholds, one of which is already right under each setting;
\* an object whose third word is no voltage and whose first changes.
MCVendor == (fg :> {Thresholds(2600, 2700, 2550)})
            @@ (other :> {Thresholds(2600, 2700, 0), Thresholds(0, 2700, 0)})

\* The fields that calls store.
MCStored == (fg :> {{"fw", "delay"}, {}}) @@ (other :> {{"fw"}})
=============================================================================
