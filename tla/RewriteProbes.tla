---------------------------- MODULE RewriteProbes ----------------------------
(***************************************************************************)
(* The argument-rewriting entry handlers of K100PM_CHG_RUNTIME.c (lines    *)
(* 294-461): Buck current and voltage, the fast-charge curve, the divider  *)
(* voters, the current cap and the thermal voter.                          *)
(*                                                                         *)
(* A handler runs on one CPU with preemption off, but other CPUs run other *)
(* handlers, the FG handlers store a new raw_fg_temperature and root       *)
(* writes module parameters while it runs.  The code takes no lock, so the *)
(* grain of atomicity is one READ_ONCE or WRITE_ONCE: every action below   *)
(* touches exactly one shared variable.                                    *)
(***************************************************************************)
EXTENDS ChargeMaps

CONSTANTS
  CPUs,         \* processors that can run a vendor function
  Handlers,     \* the entry handlers under study
  Inputs,       \* Inputs[h]: the arguments the vendor passes to h's function
  Temperatures, \* values the FG handlers store in raw_fg_temperature
  ParamValues,  \* the <<boost, pps, thermal>> triples insmod may set
  SysfsWrites,  \* TRUE when root writes the parameters of the loaded module
  HitModulus,   \* counters are unsigned int: 2^32 in the source
  MaxCalls      \* bound on the number of vendor calls

Gated  == {"single", "multi", "max"}   \* handlers with a band check up front
Curves == {"ichg", "cv", "fast"}
HitCounters == {"ichg", "cv", "curve", "pps", "thermal"}

ASSUME HandlersAssumption == Handlers \subseteq Gated \cup Curves \cup {"thermal"}
ASSUME InputsAssumption == \A h \in Handlers : Inputs[h] \subseteq Nat
ASSUME TemperaturesAssumption == Temperatures \subseteq Nat
ASSUME ParamAssumption ==
  ParamValues \subseteq [boost: BOOLEAN, pps: BOOLEAN, thermal: BOOLEAN]
ASSUME SysfsAssumption == SysfsWrites \in BOOLEAN
ASSUME HitModulusAssumption == HitModulus \in Nat \ {0, 1}
ASSUME MaxCallsAssumption == MaxCalls \in Nat

VARIABLES
  param,              \* the sysfs parameters boost, pps and thermal
  raw_fg_temperature, \* last published FG temperature, as unsigned int
  hits,               \* the five hit counters these handlers use
  call,               \* call[c]: the handler activation on CPU c
  entered,            \* number of vendor calls so far
  counted,            \* history: increments completed, per counter
  seen                \* history: what was readable during c's activation

vars == <<param, raw_fg_temperature, hits, call, entered, counted, seen>>

(* An activation: the handler's locals, the argument register and, for the *)
(* calls it makes, which table is being applied and where to continue.     *)
IdleCall ==
  [pc |-> "idle", handler |-> "none", old |-> 0, value |-> 0, reg |-> 0,
   table |-> "none", then |-> "none", counter |-> "none", loaded |-> 0]

NothingSeen == [temps |-> {}, boost |-> {}, pps |-> {}, thermal |-> {}]
Now == [temps |-> {raw_fg_temperature}, boost |-> {param.boost},
        pps |-> {param.pps}, thermal |-> {param.thermal}]

Init ==
  /\ param \in ParamValues
  /\ raw_fg_temperature = 0
  /\ hits = [k \in HitCounters |-> 0]
  /\ call = [c \in CPUs |-> IdleCall]
  /\ entered = 0
  /\ counted = [k \in HitCounters |-> 0]
  /\ seen = [c \in CPUs |-> NothingSeen]

At(c, label) == call[c].pc = label

\* A step of c's activation that reads shared state but writes none.
Continue(c, record) ==
  /\ call' = [call EXCEPT ![c] = record]
  /\ UNCHANGED <<param, raw_fg_temperature, hits, entered, counted, seen>>

Goto(c, label) == Continue(c, [call[c] EXCEPT !.pc = label])

-----------------------------------------------------------------------------
(* A vendor call reaches the probe: the handler copies the argument.       *)

EntryPoint(h) ==
  CASE h \in Gated     -> "gate"
    [] h \in Curves    -> "boost"
    [] h = "thermal"   -> "thermal"

Enter(c, h, v) ==
  /\ At(c, "idle")
  /\ entered < MaxCalls
  /\ entered' = entered + 1
  /\ call' = [call EXCEPT ![c] = [IdleCall EXCEPT
       !.pc = EntryPoint(h), !.handler = h, !.old = v, !.value = v, !.reg = v]]
  /\ seen' = [seen EXCEPT ![c] = Now]
  /\ UNCHANGED <<param, raw_fg_temperature, hits, counted>>

\* if (k100pm_temperature_band() == 2) return 0;
Gate(c) ==
  /\ At(c, "gate")
  /\ Goto(c, IF TemperatureBand(raw_fg_temperature) = 2 THEN "done" ELSE "boost")

\* k100pm_ichg_entry and k100pm_cv_entry give up when boost is off; the
\* fast-curve handler goes on to its PPS half.
ReadBoostCurve(c) ==
  LET h == call[c].handler IN
  /\ At(c, "boost")
  /\ h \in Curves
  /\ IF param.boost
       THEN Continue(c, [call[c] EXCEPT !.pc = "map", !.table = h,
                           !.then = IF h = "fast" THEN "pps" ELSE "write"])
       ELSE Goto(c, IF h = "fast" THEN "pps" ELSE "done")

\* Mutant: the tables of the two near-identical voters are exchanged.
StepTableSwapped(h, v) ==
  CASE h = "single" -> MultiTable(v)
    [] h = "multi"  -> SingleTable(v)
    [] h = "max"    -> CurrMaxTable(v)

StepTable(h, v) ==
  CASE h = "single" -> SingleTable(v)
    [] h = "multi"  -> MultiTable(v)
    [] h = "max"    -> CurrMaxTable(v)

\* With boost on the divider voters use their own table and skip the PPS
\* map; curr_max skips it only for the one value its table names.
ReadBoostStep(c) ==
  LET h == call[c].handler  v == call[c].value IN
  /\ At(c, "boost")
  /\ h \in Gated
  /\ IF param.boost /\ (h = "max" => v = 17500)
       THEN Continue(c, [call[c] EXCEPT !.pc = "boostAgain", !.value = StepTable(h, v)])
       ELSE Goto(c, "pps")

ReadThermal(c) ==
  /\ At(c, "thermal")
  /\ IF param.thermal
       THEN Continue(c, [call[c] EXCEPT !.pc = "map", !.table = "thermal", !.then = "write"])
       ELSE Goto(c, "done")

-----------------------------------------------------------------------------
(* k100pm_map_*: one read of raw_fg_temperature and, for the current maps  *)
(* in band 1, a second one inside k100pm_apply_temperature_current.        *)

SingleReadMap(table, t, v) == IF table = "cv" THEN MapCv(t, v) ELSE MapThermal(t, v)

MapReadOnce(c) ==
  LET r == call[c] IN
  /\ At(c, "map")
  /\ r.table \in {"cv", "thermal"}
  /\ Continue(c, [r EXCEPT !.pc = r.then,
                    !.value = SingleReadMap(r.table, raw_fg_temperature, r.value)])

\* Mutant: the recovery band uses the table.
MapCurrentReadUnlimited(c) ==
  LET r == call[c] IN
  /\ At(c, "map")
  /\ r.table \notin {"cv", "thermal"}
  /\ Continue(c, [r EXCEPT !.pc = r.then,
       !.value = IF TemperatureBand(raw_fg_temperature) = 2 THEN @
                 ELSE CurrentTable(r.table, @)])

MapCurrentRead(c) ==
  LET r == call[c]  band == TemperatureBand(raw_fg_temperature) IN
  /\ At(c, "map")
  /\ r.table \notin {"cv", "thermal"}
  /\ CASE band = 2 -> Goto(c, r.then)
       [] band = 1 -> Goto(c, "apply")
       [] OTHER    -> Continue(c, [r EXCEPT !.pc = r.then,
                                     !.value = CurrentTable(r.table, r.value)])

\* k100pm_apply_temperature_current, with its own read.
Apply(c) ==
  LET r == call[c] IN
  /\ At(c, "apply")
  /\ Continue(c, [r EXCEPT !.pc = r.then,
                    !.value = ApplyTemperatureCurrent(raw_fg_temperature, r.value)])

ReadPps(c) ==
  LET r == call[c]  after == IF r.handler = "fast" THEN "write" ELSE "boostAgain" IN
  /\ At(c, "pps")
  /\ IF param.pps
       THEN Continue(c, [r EXCEPT !.pc = "map", !.table = "pps", !.then = after])
       ELSE Goto(c, after)

\* Mutant: the value is limited whatever the switches say.
ReadBoostAgainAlways(c) ==
  /\ At(c, "boostAgain")
  /\ Continue(c, [call[c] EXCEPT !.pc = "apply", !.then = "write"])

\* if (READ_ONCE(boost) || READ_ONCE(pps)) value = k100pm_apply_...(value);
ReadBoostAgain(c) ==
  /\ At(c, "boostAgain")
  /\ Continue(c, [call[c] EXCEPT !.pc = IF param.boost THEN "apply" ELSE "ppsAgain",
                                 !.then = "write"])

ReadPpsAgain(c) ==
  /\ At(c, "ppsAgain")
  /\ Goto(c, IF param.pps THEN "apply" ELSE "write")

-----------------------------------------------------------------------------
(* The register is written only when the value changed; then the rewrite   *)
(* is attributed to a counter, again by reading the parameters.            *)

Write(c) ==
  LET r == call[c] IN
  /\ At(c, "write")
  /\ Continue(c,
       IF r.value = r.old THEN [r EXCEPT !.pc = "done"]
       ELSE [r EXCEPT !.reg = r.value,
               !.pc = CASE r.handler \in Gated  -> "attribute"
                        [] r.handler = "fast"   -> "attributePps"
                        [] OTHER                -> "load",
               !.counter = r.handler])

\* Mutant: the branches of the attribution are exchanged.
AttributeStepSwapped(c) ==
  /\ At(c, "attribute")
  /\ Continue(c, [call[c] EXCEPT !.pc = "load",
                    !.counter = IF param.boost THEN "pps" ELSE "curve"])

AttributeStep(c) ==
  /\ At(c, "attribute")
  /\ Continue(c, [call[c] EXCEPT !.pc = "load",
                    !.counter = IF param.boost THEN "curve" ELSE "pps"])

\* if (READ_ONCE(pps) && k100pm_map_pps(old) != old): the PPS map is
\* evaluated once more, on the original argument.
AttributePps(c) ==
  /\ At(c, "attributePps")
  /\ Continue(c, IF param.pps
       THEN [call[c] EXCEPT !.pc = "map", !.value = call[c].old, !.table = "pps", !.then = "load"]
       ELSE [call[c] EXCEPT !.pc = "load", !.value = call[c].old])

CounterOf(r) ==
  IF r.handler = "fast" THEN IF r.value # r.old THEN "pps" ELSE "curve"
  ELSE r.counter

\* k100pm_count reads the counter and writes it back without atomicity.
Load(c) ==
  /\ At(c, "load")
  /\ Continue(c, [call[c] EXCEPT !.pc = "store", !.counter = CounterOf(call[c]),
                                 !.loaded = hits[CounterOf(call[c])]])

StoreValue(c, n) ==
  LET k == call[c].counter IN
  /\ At(c, "store")
  /\ hits' = [hits EXCEPT ![k] = n]
  /\ counted' = [counted EXCEPT ![k] = @ + 1]
  /\ call' = [call EXCEPT ![c].pc = "done"]
  /\ UNCHANGED <<param, raw_fg_temperature, entered, seen>>

\* Mutants: a decrement, a double increment, a narrower counter.
StoreDown(c) == StoreValue(c, call[c].loaded - 1)
StoreTwice(c) == StoreValue(c, (call[c].loaded + 2) % HitModulus)
StoreNarrow(c) == StoreValue(c, (call[c].loaded + 1) % (HitModulus - 1))

Store(c) == StoreValue(c, (call[c].loaded + 1) % HitModulus)

\* The handler returns and the vendor function runs with the register.
Return(c) ==
  /\ At(c, "done")
  /\ call' = [call EXCEPT ![c] = IdleCall]
  /\ seen' = [seen EXCEPT ![c] = NothingSeen]
  /\ UNCHANGED <<param, raw_fg_temperature, hits, entered, counted>>

-----------------------------------------------------------------------------
(* The rest of the system: the FG handlers publish a temperature, root     *)
(* writes a parameter through sysfs (mode 0600).                           *)

\* Every activation in progress may read the new values from now on.
Observe(field, x) ==
  seen' = [c \in CPUs |->
    IF At(c, "idle") THEN seen[c] ELSE [seen[c] EXCEPT ![field] = @ \cup {x}]]

PublishTemperature(t) ==
  /\ raw_fg_temperature' = t
  /\ Observe("temps", t)
  /\ UNCHANGED <<param, hits, call, entered, counted>>

SetParam(p, on) ==
  /\ SysfsWrites
  /\ param' = [param EXCEPT ![p] = on]
  /\ Observe(p, on)
  /\ UNCHANGED <<raw_fg_temperature, hits, call, entered, counted>>

Handle(c) ==
  \/ Gate(c) \/ ReadBoostCurve(c) \/ ReadBoostStep(c) \/ ReadThermal(c)
  \/ MapReadOnce(c) \/ MapCurrentRead(c) \/ Apply(c) \/ ReadPps(c)
  \/ ReadBoostAgain(c) \/ ReadPpsAgain(c) \/ Write(c) \/ AttributeStep(c)
  \/ AttributePps(c) \/ Load(c) \/ Store(c)

Next ==
  \/ \E c \in CPUs : Handle(c) \/ Return(c)
  \/ \E c \in CPUs, h \in Handlers : \E v \in Inputs[h] : Enter(c, h, v)
  \/ \E t \in Temperatures : PublishTemperature(t)
  \/ \E p \in DOMAIN param, on \in BOOLEAN : SetParam(p, on)

Spec == Init /\ [][Next]_vars

-----------------------------------------------------------------------------
(* Properties.                                                             *)

Labels == {"idle", "gate", "boost", "thermal", "map", "apply", "pps", "boostAgain",
           "ppsAgain", "write", "attribute", "attributePps", "load", "store", "done"}

Activations ==
  [pc: Labels, handler: Handlers \cup {"none"}, old: Nat, value: Nat, reg: Nat,
   table: {"none", "ichg", "cv", "fast", "pps", "thermal"},
   then: {"none", "pps", "write", "boostAgain", "load"},
   counter: HitCounters \cup Handlers \cup {"none"}, loaded: Nat]

\* Type invariant of the handlers' state.
TypeOK ==
  /\ param \in [boost: BOOLEAN, pps: BOOLEAN, thermal: BOOLEAN]
  /\ raw_fg_temperature \in Nat
  /\ hits \in [HitCounters -> 0..(HitModulus - 1)]
  /\ call \in [CPUs -> Activations]
  /\ entered \in Nat
  /\ counted \in [HitCounters -> Nat]
  /\ seen \in [CPUs -> [temps: SUBSET Nat, boost: SUBSET BOOLEAN,
                        pps: SUBSET BOOLEAN, thermal: SUBSET BOOLEAN]]

Active(c) == ~At(c, "idle")

\* At 58 C and above the vendor's stop-charge path is retained (the comment
\* at line 85, README.md:39): a handler during which every published
\* temperature is at least 58 C leaves the argument alone, whichever
\* parameters are toggled meanwhile and however often it reads them.
RetainedAbove58 ==
  \A c \in CPUs :
    Active(c) /\ (\A t \in seen[c].temps : t >= 580) => call[c].reg = call[c].old

\* From 55 C on the only value the module may put in place of the vendor's
\* is the recovery target (README.md:38, 4.14 A / 4.12 V), even when the
\* temperature moves between 55-58 C and 58 C while the handler reads it.
HotFrom55(c) == Active(c) /\ \A t \in seen[c].temps : t >= 550
OnlyRecovery(c) ==
  call[c].reg \in {call[c].old, IF call[c].handler = "cv"
                                THEN RecoveryVoltage ELSE RecoveryCurrent}
RecoveryOnlyAbove55 == \A c \in CPUs : HotFrom55(c) => OnlyRecovery(c)

\* The handlers that do not gate first and read again (lines 294-350 and
\* 445-461) keep that, whatever root writes meanwhile.
UngatedRecoverAbove55 ==
  \A c \in CPUs : HotFrom55(c) /\ call[c].handler \notin Gated => OnlyRecovery(c)

\* The refinement of the abstract promise: however its reads interleave with
\* the rest of the system and with root's writes, a handler answers with the
\* vendor's value or as the tables do for one temperature and one setting of
\* the switches that were current during the call.  The divider and cap
\* handlers read the switches once to raise (361-370) and once to limit (371)
\* and may do each for a temperature and a setting of its own, once.
View == [c \in CPUs |->
  [phase   |-> IF At(c, "idle") THEN "idle" ELSE IF At(c, "done") THEN "done" ELSE "busy",
   handler |-> call[c].handler,
   old     |-> call[c].old,
   reg     |-> IF At(c, "done") THEN call[c].reg ELSE call[c].old]]
Promise == INSTANCE SnapshotRewrite WITH view <- View
RewritesAsPromised == Promise!Spec

\* With the parameters as insmod set them, all seven handlers keep that
\* promise except across one boundary: a divider or cap handler can mix two
\* temperatures only with boost on and only if both 55-58 C and 58 C or more
\* were published while it ran.
OneTemperatureUnlessCrossing58 ==
  \A c \in CPUs : At(c, "done") =>
    \/ call[c].reg \in Promise!Answers(call[c].handler, seen[c], call[c].old)
    \/ /\ call[c].handler \in Gated /\ param.boost
       /\ \E t, u \in seen[c].temps : t \in 550..579 /\ u >= 580

\* README.md:69 has the user read the hit counters to verify the module.
\* The unlocked increments may lose counts, never invent them.
HitsNeverOvercount == \A k \in HitCounters : hits[k] <= counted[k]

\* ... and, short of a wrap of the unsigned int, a counter at zero means no
\* rewrite it counts was ever finished, whatever increments were lost.
ZeroHitsMeansNoRewrite ==
  \A k \in HitCounters : counted[k] \in 1..(HitModulus - 1) => hits[k] > 0

\* With the parameters as insmod set them, pps_hits moves only when pps is
\* on: lines 343, 376, 409 and 436 attribute by reading the flags again.
PpsHitsNeedPps == [][hits'["pps"] # hits["pps"] => param.pps]_vars
=============================================================================
