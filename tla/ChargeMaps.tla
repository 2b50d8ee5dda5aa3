----------------------------- MODULE ChargeMaps -----------------------------
(***************************************************************************)
(* The rewrite tables of K100PM_CHG_RUNTIME.c (lines 79-292).  Currents    *)
(* are in mA, voltages in mV, temperatures in 0.1 degrees C.  A table      *)
(* leaves every value it does not name as the vendor computed it.          *)
(*                                                                         *)
(* Each k100pm_map_* function starts by reading raw_fg_temperature, and    *)
(* the current maps read it a second time inside                           *)
(* k100pm_apply_temperature_current.  The operators here are the pure part *)
(* of those functions: they take the temperature that was read.            *)
(***************************************************************************)
EXTENDS Integers

\* k100pm_temperature_band: 2 retains the vendor value, 1 is the recovery
\* band, 0 the expanded high-current band and -1 everything below it.
TemperatureBand(t) ==
  IF t >= 580 THEN 2 ELSE IF t >= 550 THEN 1 ELSE IF t >= 480 THEN 0 ELSE -1

RecoveryCurrent == 4140
RecoveryVoltage == 4120

\* The currents k100pm_apply_temperature_current lowers (or raises) to the
\* recovery current in band 1.
RecoveryKeys ==
  {0, 500, 1000, 1200, 1445, 1500, 2000, 2107, 2400, 2500, 2958, 3000, 3500,
   3880, 4000, 4315, 4500, 5000, 6000, 6904, 7000, 8000, 8630, 9000, 10000,
   10356, 11000, 12000, 12400, 12945, 13500, 15000, 17500, 17600, 18300,
   18400, 19400, 20500, 22000}

ApplyTemperatureCurrent(t, v) ==
  IF TemperatureBand(t) = 1 /\ v \in RecoveryKeys THEN RecoveryCurrent ELSE v

-----------------------------------------------------------------------------
(* The tables that apply below 55 degrees C (bands -1 and 0).              *)

IchgTable(v) ==
  IF v = 12945 THEN 14270
  ELSE IF v \in {17600, 18300, 17500, 18400, 4315, 3880} THEN 19400
  ELSE v

CvTable(v) ==
  IF v = 4530 THEN 4540
  ELSE IF v = 4510 THEN 4530
  ELSE IF v \in {4500, 4490, 4080} THEN 4520
  ELSE v

\* Mutant: a curve target that is a key of the PPS table.
FastCurveTableChained(v) == CASE v = 12400 -> 11000 [] OTHER -> v

FastCurveTable(v) ==
  CASE v \in {18300, 17600}      -> 19400
    [] v = 12400                 -> 16000
    [] v = 10356                 -> 14000
    [] v = 8630                  -> 12000
    [] v = 6904                  -> 10000
    [] v \in {2958, 2107, 1445}  -> 7000
    [] OTHER                     -> v

PpsTable(v) ==
  CASE v = 4500  -> 5000
    [] v = 11000 -> 12000
    [] v = 18400 -> 19400
    [] OTHER     -> v

ThermalKeys ==
  {500, 1000, 1500, 2000, 2500, 3000, 3500, 4000, 5000, 6000, 7000, 8000,
   9000, 11000, 13500}

-----------------------------------------------------------------------------
(* The two maps that read the temperature once.                            *)

\* Mutant: the voltage map forgets to retain band 2.
MapCvUnretained(t, v) ==
  IF TemperatureBand(t) = 1 /\ v >= 4080 THEN RecoveryVoltage ELSE CvTable(v)

MapCv(t, v) ==
  LET band == TemperatureBand(t)
  IN  CASE band = 2              -> v
        [] band = 1 /\ v >= 4080 -> RecoveryVoltage
        [] OTHER                 -> CvTable(v)

MapThermal(t, v) ==
  LET band == TemperatureBand(t)
  IN  CASE band = 1 /\ v \in ThermalKeys \cup {0} -> RecoveryCurrent
        [] band < 1 /\ v \in ThermalKeys          -> 15000
        [] OTHER                                  -> v

(* The current maps, by the table they use.  MapCurrent is what they return *)
(* when both of their reads of the temperature return t.                    *)
CurrentTable(table, v) ==
  CASE table = "ichg" -> IchgTable(v)
    [] table = "fast" -> FastCurveTable(v)
    [] table = "pps"  -> PpsTable(v)

MapCurrent(table, t, v) ==
  CASE TemperatureBand(t) = 2 -> v
    [] TemperatureBand(t) = 1 -> ApplyTemperatureCurrent(t, v)
    [] OTHER                  -> CurrentTable(table, v)

\* The values the divider voters raise before the temperature is applied:
\* lines 361-367 (single) and 394-400 (multi), and line 427 (curr_max).
SingleTable(v) ==
  CASE v = 4500 -> 5000 [] v = 11000 -> 12000 [] v = 18400 -> 20500 [] OTHER -> v
MultiTable(v) ==
  CASE v = 4500 -> 5000 [] v = 11000 -> 12000 [] v = 18400 -> 22000 [] OTHER -> v
CurrMaxTable(v) == IF v = 17500 THEN 19400 ELSE v
=============================================================================
