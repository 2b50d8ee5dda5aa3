--------------------------- MODULE MCFgTemperature ---------------------------
(* Instances of FgTemperature for TLC: two tasks.                          *)
EXTENDS FgTemperature, TLC

CONSTANTS k1, k2, b1, b2

\* Below freezing, in the main band, at 58 C.
MCReadings == {-50, 300, 580}

\* Below freezing and at 58 C.
MCTwoReadings == {-50, 580}
MCCeilings == {0, 360, 40000}    \* off, the default, negative as an int

\* Each caller passes the address of a local variable of its own.
PrivateBuffers == (k1 :> {b1, NoBuffer}) @@ (k2 :> {b2, NoBuffer})
LocalBuffers == (k1 :> {b1}) @@ (k2 :> {b2})
=============================================================================
