--------------------------- MODULE SnapshotRewrite ---------------------------
(***************************************************************************)
(* What a rewriting probe promises the vendor function behind it: the      *)
(* argument it gets is the vendor's own, or the answer of the rewrite      *)
(* policy for ONE temperature (and one value of each parameter) that was   *)
(* current at some moment of the call; the divider and cap handlers, whose *)
(* switches root may turn between two reads, look at such values twice.    *)
(* The abstract handler decides in a single step, where the code reads the *)
(* temperature up to five times.                                           *)
(***************************************************************************)
EXTENDS ChargeMaps

CONSTANTS CPUs, Handlers, Inputs, Temperatures, ParamValues, SysfsWrites

VARIABLES param, raw_fg_temperature, seen, view

absVars == <<param, raw_fg_temperature, seen, view>>

-----------------------------------------------------------------------------
(* The rewrite policy: every handler body of lines 294-461 evaluated with  *)
(* one temperature t and fixed parameters.                                 *)

StepPolicy(Raise, t, boost, pps, v) ==
  CASE TemperatureBand(t) = 2 -> v
    [] TemperatureBand(t) # 2 /\ boost -> ApplyTemperatureCurrent(t, Raise)
    [] TemperatureBand(t) # 2 /\ ~boost /\ pps -> MapCurrent("pps", t, v)
    [] OTHER -> v

FastPolicy(t, boost, pps, v) ==
  LET curve == IF boost THEN MapCurrent("fast", t, v) ELSE v
  IN  IF pps THEN MapCurrent("pps", t, curve) ELSE curve

CurrMaxPolicy(t, boost, pps, v) ==
  LET capped == CASE boost /\ v = 17500         -> CurrMaxTable(v)
                  [] ~(boost /\ v = 17500) /\ pps -> MapCurrent("pps", t, v)
                  [] OTHER                      -> v
  IN  IF TemperatureBand(t) # 2 /\ (boost \/ pps)
        THEN ApplyTemperatureCurrent(t, capped) ELSE v

Policy(h, t, boost, pps, thermal, v) ==
  CASE h = "ichg"    -> IF boost THEN MapCurrent("ichg", t, v) ELSE v
    [] h = "cv"      -> IF boost THEN MapCv(t, v) ELSE v
    [] h = "fast"    -> FastPolicy(t, boost, pps, v)
    [] h = "single"  -> StepPolicy(SingleTable(v), t, boost, pps, v)
    [] h = "multi"   -> StepPolicy(MultiTable(v), t, boost, pps, v)
    [] h = "max"     -> CurrMaxPolicy(t, boost, pps, v)
    [] h = "thermal" -> IF thermal THEN MapThermal(t, v) ELSE v

\* One look: the answers for values among those in s.
Answers(h, s, v) ==
  {v} \cup {Policy(h, t, b, p, th, v) :
              t \in s.temps, b \in s.boost, p \in s.pps, th \in s.thermal}

(* Two looks: a divider or cap handler may raise the value for one          *)
(* temperature and setting (lines 361-370, 394-403, 427-430) and limit it   *)
(* for another (371, 404, 431), but do neither twice, nor anything at all   *)
(* unless a temperature it reads lets it past its gate.                     *)

Gated == {"single", "multi", "max"}

VoterTable(h, v) ==
  CASE h = "single" -> SingleTable(v)
    [] h = "multi"  -> MultiTable(v)
    [] h = "max"    -> CurrMaxTable(v)

FirstLook(h, t, boost, pps, v) ==
  IF boost /\ (h = "max" => v = 17500) THEN VoterTable(h, v)
  ELSE IF pps THEN MapCurrent("pps", t, v) ELSE v

SecondLook(t, boost, pps, x) ==
  IF boost \/ pps THEN ApplyTemperatureCurrent(t, x) ELSE x

FirstLooks(h, s, v) ==
  {FirstLook(h, t, b, p, v) : t \in s.temps, b \in s.boost, p \in s.pps}

SecondLooks(s, x) ==
  {SecondLook(t, b, p, x) : t \in s.temps, b \in s.boost, p \in s.pps}

TwoLookAnswers(h, s, v) ==
  {v} \cup {y \in UNION {SecondLooks(s, x) : x \in FirstLooks(h, s, v)} :
              \E t \in s.temps : TemperatureBand(t) # 2}

\* The answers allowed to a call that saw the values in s.
Allowed(h, s, v) == IF h \in Gated THEN TwoLookAnswers(h, s, v) ELSE Answers(h, s, v)

-----------------------------------------------------------------------------
Nothing == [temps |-> {}, boost |-> {}, pps |-> {}, thermal |-> {}]
Current == [temps |-> {raw_fg_temperature}, boost |-> {param.boost},
            pps |-> {param.pps}, thermal |-> {param.thermal}]
IdleView == [phase |-> "idle", handler |-> "none", old |-> 0, reg |-> 0]

Init ==
  /\ param \in ParamValues
  /\ raw_fg_temperature = 0
  /\ seen = [c \in CPUs |-> Nothing]
  /\ view = [c \in CPUs |-> IdleView]

Begin(c, h, v) ==
  /\ view[c].phase = "idle"
  /\ view' = [view EXCEPT ![c] =
       [phase |-> "busy", handler |-> h, old |-> v, reg |-> v]]
  /\ seen' = [seen EXCEPT ![c] = Current]
  /\ UNCHANGED <<param, raw_fg_temperature>>

Answer(c) ==
  /\ view[c].phase = "busy"
  /\ UNCHANGED <<param, raw_fg_temperature, seen>>
  /\ \E a \in Allowed(view[c].handler, seen[c], view[c].old) :
       view' = [view EXCEPT ![c].phase = "done", ![c].reg = a]

End(c) ==
  /\ view[c].phase = "done"
  /\ view' = [view EXCEPT ![c] = IdleView]
  /\ seen' = [seen EXCEPT ![c] = Nothing]
  /\ UNCHANGED <<param, raw_fg_temperature>>

Observe(field, x) ==
  seen' = [c \in CPUs |->
    IF view[c].phase = "idle" THEN seen[c] ELSE [seen[c] EXCEPT ![field] = @ \cup {x}]]

ChangeTemperature(t) ==
  /\ raw_fg_temperature' = t
  /\ Observe("temps", t)
  /\ UNCHANGED <<param, view>>

ChangeParam(p, on) ==
  /\ SysfsWrites
  /\ param' = [param EXCEPT ![p] = on]
  /\ Observe(p, on)
  /\ UNCHANGED <<raw_fg_temperature, view>>

Next ==
  \/ \E t \in Temperatures : ChangeTemperature(t)
  \/ \E p \in DOMAIN param, on \in BOOLEAN : ChangeParam(p, on)
  \/ \E c \in CPUs : Answer(c) \/ End(c)
  \/ \E c \in CPUs, h \in Handlers : \E v \in Inputs[h] : Begin(c, h, v)

Spec == Init /\ [][Next]_absVars
=============================================================================
