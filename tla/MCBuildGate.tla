----------------------------- MODULE MCBuildGate -----------------------------
(* Instances of BuildGate for TLC: builds without a defect, with one, and    *)
(* with two that different gates find.                                       *)
EXTENDS BuildGate, TLC

MCOutcomes == {{}, {"section"}, {"import"}, {"crc"}, {"kcfi", "crc"}}
BuilderSymmetry == Permutations(Builders)
=============================================================================
