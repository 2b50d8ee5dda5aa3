----------------------------- MODULE RuntimeProofs -----------------------------
(***************************************************************************)
(* Theorems about ChargeRuntime.  Each component of the composition behaves *)
(* as its module alone, so that what is proved about the components holds  *)
(* in it; what is new here is how they fit together.                       *)
(***************************************************************************)
EXTENDS ChargeRuntime, TLAPS

\* The components with their theorems.
LcP == INSTANCE LifecycleProofs WITH
         Tasks <- CPUs \cup FgTasks, ArmedValues <- {TRUE}, MaxLoads <- 1,
         call <- probe_call
FgP == INSTANCE FgProofs WITH
         Tasks <- FgTasks, Probes <- {Table[e] : e \in FgEntries},
         ProbesMayGo <- TRUE, HitModulus <- 2, call <- fg_call
RwP == INSTANCE RewriteProofs WITH
         Handlers <- {Table[e] : e \in RewriteEntries},
         Temperatures <- 0..(IntModulus - 1), HitModulus <- 2, call <- rw_call

-----------------------------------------------------------------------------
(* The definitions of a component are the ones its proofs are about.       *)

LEMMA SameLifecycle ==
  /\ Lc!Init <=> LcP!Init
  /\ [Lc!Next]_Lc!vars <=> [LcP!Next]_LcP!vars
  /\ Lc!TypeOK <=> LcP!TypeOK
BY DEF
  Lc!Init, Lc!Next, Lc!vars, Lc!TypeOK, Lc!Loader, Lc!ReadArmed, Lc!RegisterOk,
  Lc!RegisterFails, Lc!Count, Lc!CountUpTo, Lc!Remove, Lc!RemoveEntry, Lc!GracePeriodEnds,
  Lc!Free, Lc!Rmmod, Lc!Insmod, Lc!SetArmed, Lc!Enter, Lc!EntryReturns, Lc!BodyReturns,
  Lc!HandlerReturns, Lc!Become, Lc!Waiting, Lc!Resumed, Lc!loaderVars, Lc!InHandler,
  Lc!IdleCall, Lc!Entries, Lc!Labels, Lc!InitLabels,
  LcP!Init, LcP!Next, LcP!vars, LcP!TypeOK, LcP!Loader, LcP!ReadArmed, LcP!RegisterOk,
  LcP!RegisterFails, LcP!Count, LcP!CountUpTo, LcP!Remove, LcP!RemoveEntry,
  LcP!GracePeriodEnds, LcP!Free, LcP!Rmmod, LcP!Insmod, LcP!SetArmed, LcP!Enter,
  LcP!EntryReturns, LcP!BodyReturns, LcP!HandlerReturns, LcP!Become, LcP!Waiting,
  LcP!Resumed, LcP!loaderVars, LcP!InHandler, LcP!IdleCall, LcP!Entries, LcP!Labels,
  LcP!InitLabels

LEMMA SameFg ==
  /\ Fg!Init <=> FgP!Init
  /\ [Fg!Next]_Fg!vars <=> [FgP!Next]_FgP!vars
  /\ Fg!TypeOK <=> FgP!TypeOK
<1> USE DEF Fg!params, FgP!params, Fg!histories, FgP!histories, Fg!AsUnsigned, FgP!AsUnsigned,
            Fg!AsSigned, FgP!AsSigned, Fg!IdleCall, FgP!IdleCall, Fg!NoSample,
            FgP!NoSample, Fg!At, FgP!At, Fg!Become, FgP!Become, Fg!Goto, FgP!Goto
<1>1. Fg!Init <=> FgP!Init
  BY DEF Fg!Init, FgP!Init
<1>2. (Fg!vars' = Fg!vars) <=> (FgP!vars' = FgP!vars)
  BY DEF Fg!vars, FgP!vars
<1>3. Fg!TypeOK <=> FgP!TypeOK
  BY DEF Fg!TypeOK, FgP!TypeOK, Fg!Labels, FgP!Labels
<1>4. ASSUME NEW k, NEW p, NEW b PROVE Fg!Enter(k, p, b) <=> FgP!Enter(k, p, b)
  <2>1. Fg!InstancesUsed(p) = FgP!InstancesUsed(p)
    BY DEF Fg!InstancesUsed, FgP!InstancesUsed, Fg!Cardinality, FgP!Cardinality
  <2> QED BY <2>1 DEF Fg!Enter, FgP!Enter, Fg!EnterProbed, FgP!EnterProbed, Fg!EnterMissed,
                      FgP!EnterMissed
<1>5. ASSUME NEW k PROVE Fg!Progress(k) <=> FgP!Progress(k)
  <2>1. Fg!VendorStores(k) <=> FgP!VendorStores(k)
    BY DEF Fg!VendorStores, FgP!VendorStores, Fg!AfterVendor, FgP!AfterVendor
  <2>2. Fg!VendorFails(k) <=> FgP!VendorFails(k)
    BY DEF Fg!VendorFails, FgP!VendorFails, Fg!AfterVendor, FgP!AfterVendor
  <2>3. Fg!Publish(k) <=> FgP!Publish(k)
    BY DEF Fg!Publish, FgP!Publish, Fg!PublishValue, FgP!PublishValue, Fg!Overdue,
           FgP!Overdue
  <2>4. Fg!ReadCeiling(k) <=> FgP!ReadCeiling(k)
    BY DEF Fg!ReadCeiling, FgP!ReadCeiling
  <2>5. Fg!ReadTemperature(k) <=> FgP!ReadTemperature(k)
    BY DEF Fg!ReadTemperature, FgP!ReadTemperature
  <2>6. Fg!ReadSpoof(k) <=> FgP!ReadSpoof(k)
    BY DEF Fg!ReadSpoof, FgP!ReadSpoof
  <2>7. Fg!Clamp(k) <=> FgP!Clamp(k)
    BY DEF Fg!Clamp, FgP!Clamp
  <2>8. Fg!Load(k) <=> FgP!Load(k)
    BY DEF Fg!Load, FgP!Load
  <2>9. Fg!Store(k) <=> FgP!Store(k)
    BY DEF Fg!Store, FgP!Store
  <2>10. Fg!Return(k) <=> FgP!Return(k)
    BY DEF Fg!Return, FgP!Return
  <2> QED BY <2>1, <2>2, <2>3, <2>4, <2>5, <2>6, <2>7, <2>8, <2>9, <2>10
          DEF Fg!Progress, FgP!Progress
<1>6. ASSUME NEW t PROVE Fg!SensorMoves(t) <=> FgP!SensorMoves(t)
  BY DEF Fg!SensorMoves, FgP!SensorMoves
<1>7. ASSUME NEW s, NEW u PROVE Fg!SetParams(s, u) <=> FgP!SetParams(s, u)
  BY DEF Fg!SetParams, FgP!SetParams
<1> HIDE DEF Fg!params, FgP!params, Fg!histories, FgP!histories, Fg!AsUnsigned, FgP!AsUnsigned,
             Fg!AsSigned, FgP!AsSigned, Fg!IdleCall, FgP!IdleCall, Fg!NoSample,
             FgP!NoSample, Fg!At, FgP!At, Fg!Become, FgP!Become, Fg!Goto, FgP!Goto
<1>8. Fg!Next <=> FgP!Next
  BY <1>4, <1>5, <1>6, <1>7 DEF Fg!Next, FgP!Next
<1> QED BY <1>1, <1>2, <1>3, <1>8

LEMMA SameRewriting ==
  /\ Rw!Init <=> RwP!Init
  /\ [Rw!Next]_Rw!vars <=> [RwP!Next]_RwP!vars
  /\ Rw!TypeOK <=> RwP!TypeOK
<1> USE DEF Rw!IdleCall, RwP!IdleCall, Rw!NothingSeen, RwP!NothingSeen, Rw!Now, RwP!Now,
            Rw!At, RwP!At, Rw!Continue, RwP!Continue, Rw!Goto, RwP!Goto,
            Rw!Gated, RwP!Gated, Rw!Curves, RwP!Curves, Rw!HitCounters,
            RwP!HitCounters
<1>1. Rw!Init <=> RwP!Init
  BY DEF Rw!Init, RwP!Init
<1>2. (Rw!vars' = Rw!vars) <=> (RwP!vars' = RwP!vars)
  BY DEF Rw!vars, RwP!vars
<1>3. Rw!TypeOK <=> RwP!TypeOK
  BY DEF Rw!TypeOK, RwP!TypeOK, Rw!Activations, RwP!Activations, Rw!Labels, RwP!Labels
<1>4. ASSUME NEW c PROVE Rw!Handle(c) <=> RwP!Handle(c)
  BY DEF Rw!Handle, RwP!Handle,
         Rw!Gate, RwP!Gate, Rw!ReadBoostCurve, RwP!ReadBoostCurve, Rw!ReadBoostStep,
         RwP!ReadBoostStep, Rw!ReadThermal, RwP!ReadThermal, Rw!MapReadOnce,
         RwP!MapReadOnce, Rw!MapCurrentRead, RwP!MapCurrentRead, Rw!Apply,
         RwP!Apply, Rw!ReadPps, RwP!ReadPps, Rw!ReadBoostAgain, RwP!ReadBoostAgain,
         Rw!ReadPpsAgain, RwP!ReadPpsAgain, Rw!Write, RwP!Write, Rw!AttributeStep,
         RwP!AttributeStep, Rw!AttributePps, RwP!AttributePps, Rw!CounterOf,
         RwP!CounterOf, Rw!Load, RwP!Load, Rw!StoreValue, RwP!StoreValue, Rw!Store,
         RwP!Store,
         Rw!TemperatureBand, RwP!TemperatureBand, Rw!RecoveryCurrent, RwP!RecoveryCurrent,
         Rw!RecoveryVoltage, RwP!RecoveryVoltage, Rw!RecoveryKeys,
         RwP!RecoveryKeys, Rw!ApplyTemperatureCurrent, RwP!ApplyTemperatureCurrent,
         Rw!IchgTable, RwP!IchgTable, Rw!CvTable, RwP!CvTable, Rw!FastCurveTable,
         RwP!FastCurveTable, Rw!PpsTable, RwP!PpsTable, Rw!ThermalKeys,
         RwP!ThermalKeys, Rw!MapCv, RwP!MapCv, Rw!MapThermal, RwP!MapThermal,
         Rw!CurrentTable, RwP!CurrentTable, Rw!MapCurrent, RwP!MapCurrent,
         Rw!SingleTable, RwP!SingleTable, Rw!MultiTable, RwP!MultiTable,
         Rw!CurrMaxTable, RwP!CurrMaxTable, Rw!StepTable, RwP!StepTable,
         Rw!SingleReadMap, RwP!SingleReadMap
<1>5. ASSUME NEW c, NEW h, NEW v PROVE Rw!Enter(c, h, v) <=> RwP!Enter(c, h, v)
  BY DEF Rw!Enter, RwP!Enter, Rw!EntryPoint, RwP!EntryPoint
<1>6. ASSUME NEW c PROVE Rw!Return(c) <=> RwP!Return(c)
  BY DEF Rw!Return, RwP!Return
<1>7. ASSUME NEW t PROVE Rw!PublishTemperature(t) <=> RwP!PublishTemperature(t)
  BY DEF Rw!PublishTemperature, RwP!PublishTemperature, Rw!Observe, RwP!Observe
<1>8. ASSUME NEW p, NEW on PROVE Rw!SetParam(p, on) <=> RwP!SetParam(p, on)
  BY DEF Rw!SetParam, RwP!SetParam, Rw!Observe, RwP!Observe
<1> HIDE DEF Rw!IdleCall, RwP!IdleCall, Rw!NothingSeen, RwP!NothingSeen, Rw!Now, RwP!Now,
             Rw!At, RwP!At, Rw!Continue, RwP!Continue, Rw!Goto, RwP!Goto,
             Rw!Gated, RwP!Gated, Rw!Curves, RwP!Curves, Rw!HitCounters,
             RwP!HitCounters
<1>9. Rw!Next <=> RwP!Next
  BY <1>4, <1>5, <1>6, <1>7, <1>8 DEF Rw!Next, RwP!Next
<1> QED BY <1>1, <1>2, <1>3, <1>9

-----------------------------------------------------------------------------
(* The constants of the composition satisfy what the components assume.    *)

LEMMA LcConstants == N \in Nat \ {0}
BY TableAssumption

LEMMA FgConstants ==
  /\ IntModulus \in Nat /\ IntModulus % 2 = 0 /\ IntModulus > 4000
  /\ Readings \subseteq -1000..1500
  /\ Ceilings \subseteq 0..(IntModulus - 1)
  /\ NoBuffer \notin Buffers
  /\ \A k \in FgTasks : Passes[k] \subseteq Buffers \cup {NoBuffer}
  /\ MaxActive \in Nat \ {0}
  /\ SpoofValues \subseteq BOOLEAN /\ SysfsWrites \in BOOLEAN /\ VendorMayFail \in BOOLEAN
BY IntAssumption, PointerAssumption, SwitchAssumption

LEMMA RwConstants ==
  /\ {Table[e] : e \in RewriteEntries} \subseteq Rw!Gated \cup Rw!Curves \cup {"thermal"}
  /\ \A h \in {Table[e] : e \in RewriteEntries} : Inputs[h] \subseteq Nat
  /\ 0..(IntModulus - 1) \subseteq Nat
  /\ ParamValues \subseteq [boost: BOOLEAN, pps: BOOLEAN, thermal: BOOLEAN]
  /\ SysfsWrites \in BOOLEAN
  /\ MaxCalls \in Nat
BY TableAssumption, ParamAssumption, IntAssumption, SwitchAssumption DEF Rw!Gated, Rw!Curves

\* A step of the composition is a step of each component, or leaves its state
\* alone; with the components' invariants it keeps them.
LEMMA LcKeeps ==
  ASSUME LcP!LifecycleInv, [Lc!Next]_Lc!vars
  PROVE  LcP!LifecycleInv'
BY LcConstants, LcP!NextInv, SameLifecycle

LEMMA FgKeepsTypes ==
  ASSUME FgP!TypeInv, [Fg!Next]_Fg!vars
  PROVE  FgP!TypeInv'
BY FgConstants, FgP!NextType, SameFg

LEMMA FgKeeps ==
  ASSUME FgP!PrivateInts, ~VendorMayFail, FgP!FgInv, FgP!Steady, [Fg!Next]_Fg!vars
  PROVE  FgP!FgInv' /\ FgP!Steady'
<1>1. FgP!FgInv' BY FgConstants, FgP!NextInv, SameFg
<1>2. FgP!Steady' BY FgConstants, FgP!NextSteady, SameFg
<1> QED BY <1>1, <1>2

LEMMA RwKeeps ==
  ASSUME RwP!TypeInv, RwP!RetainInv, RwP!RecoveryInv, [Rw!Next]_Rw!vars
  PROVE  RwP!TypeInv' /\ RwP!RetainInv' /\ RwP!RecoveryInv'
BY RwConstants, RwP!StepType, RwP!StepTemperatures, SameRewriting
   DEF Rw!Gated, Rw!Curves, RwP!Gated, RwP!Curves

-----------------------------------------------------------------------------
(* How the components fit together: a handler that runs in one of them is  *)
(* among the handlers in progress of the lifecycle.                        *)

InFgHandler(k) == fg_call[k].pc \notin {"idle", "vendor", "done"}

Together ==
  /\ rw_call = [c \in CPUs |-> rw_call[c]]
  /\ fg_call = [k \in FgTasks |-> fg_call[k]]
  /\ \A k \in FgTasks : "pc" \in DOMAIN fg_call[k]
  /\ \A c \in CPUs : Rw!Active(c) => probe_call[c].pc = "entry"
  /\ \A k \in FgTasks : InFgHandler(k) => probe_call[k].pc = "return"

\* The steps of a component that concern one task.
RwMoves(c) ==
  /\ rw_call' = [d \in CPUs |-> rw_call'[d]]
  /\ \A d \in CPUs \ {c} : rw_call'[d] = rw_call[d]
FgMoves(k) ==
  /\ fg_call' = [j \in FgTasks |-> fg_call'[j]]
  /\ "pc" \in DOMAIN fg_call'[k]
  /\ \A j \in FgTasks \ {k} : fg_call'[j] = fg_call[j]
LcMoves(k) == \A j \in (CPUs \cup FgTasks) \ {k} : probe_call'[j] = probe_call[j]

LEMMA CpuTogether ==
  ASSUME Together, NEW c \in CPUs, RwMoves(c), LcMoves(c), UNCHANGED fg_call,
         rw_call'[c].pc # "idle" => probe_call'[c].pc = "entry"
  PROVE  Together'
BY DisjointAssumption DEF Together, RwMoves, LcMoves, InFgHandler, Rw!Active, Rw!At

LEMMA TaskTogether ==
  ASSUME Together, NEW k \in FgTasks, FgMoves(k), LcMoves(k), UNCHANGED rw_call,
         InFgHandler(k)' => probe_call'[k].pc = "return"
  PROVE  Together'
BY DisjointAssumption DEF Together, FgMoves, LcMoves, InFgHandler, Rw!Active, Rw!At

\* A step of a task in the lifecycle.
LEMMA ProbeMoves ==
  ASSUME LcP!LifecycleInv, NEW k \in CPUs \cup FgTasks
  PROVE  /\ \A e : Lc!Enter(k, e) => LcMoves(k) /\ probe_call'[k].pc = "entry"
         /\ Lc!EntryReturns(k) => LcMoves(k) /\ probe_call[k].pc = "entry"
         /\ Lc!BodyReturns(k) => LcMoves(k) /\ probe_call[k].pc = "body"
         /\ Lc!HandlerReturns(k) => LcMoves(k) /\ probe_call[k].pc = "return"
<1>1. probe_call \in [CPUs \cup FgTasks -> [pc: {"idle", "entry", "body", "return"},
                                            probe: Lc!Entries, load: 0..1]]
  BY DEF LcP!LifecycleInv, LcP!TypeInv, LcP!TypeOK, LcP!Entries, Lc!Entries
<1> QED BY <1>1 DEF LcMoves, Lc!Enter, Lc!EntryReturns, Lc!BodyReturns, Lc!HandlerReturns,
                    Lc!Become

\* A step of an activation.
LEMMA ActivationMoves ==
  ASSUME Together, NEW c \in CPUs
  PROVE  /\ Rw!Handle(c) => RwMoves(c) /\ Rw!Active(c)
         /\ Rw!Return(c) => RwMoves(c) /\ rw_call'[c].pc = "idle"
         /\ \A h, v : Rw!Enter(c, h, v) => RwMoves(c)
<1>0. ASSUME NEW r, rw_call' = [rw_call EXCEPT ![c] = r] PROVE RwMoves(c) /\ rw_call'[c] = r
  BY <1>0 DEF Together, RwMoves
<1>1. ASSUME NEW r, Rw!Continue(c, r) PROVE RwMoves(c)
  BY <1>0, <1>1 DEF Rw!Continue
<1>2. Rw!Handle(c) => Rw!Active(c)
  BY DEF Rw!Handle, Rw!Active, Rw!At, Rw!Gate,
     Rw!ReadBoostCurve, Rw!ReadBoostStep, Rw!ReadThermal, Rw!MapReadOnce,
     Rw!MapCurrentRead, Rw!Apply, Rw!ReadPps, Rw!ReadBoostAgain, Rw!ReadPpsAgain,
     Rw!Write, Rw!AttributeStep, Rw!AttributePps, Rw!Load, Rw!Store, Rw!StoreValue
<1>3. Rw!Store(c) => RwMoves(c)
  BY <1>0 DEF Rw!Store, Rw!StoreValue
<1>4. Rw!Gate(c) \/ Rw!ReadBoostCurve(c) \/ Rw!ReadBoostStep(c) \/ Rw!ReadThermal(c)
        \/ Rw!MapReadOnce(c) => RwMoves(c)
  BY <1>1 DEF Rw!Goto, Rw!Gate, Rw!ReadBoostCurve, Rw!ReadBoostStep, Rw!ReadThermal,
              Rw!MapReadOnce
<1>5. Rw!MapCurrentRead(c) => RwMoves(c)
  BY <1>1 DEF Rw!Goto, Rw!MapCurrentRead
<1>6. Rw!Apply(c) \/ Rw!ReadPps(c) \/ Rw!ReadBoostAgain(c) \/ Rw!ReadPpsAgain(c)
        \/ Rw!Write(c) => RwMoves(c)
  BY <1>1 DEF Rw!Goto, Rw!Apply, Rw!ReadPps, Rw!ReadBoostAgain, Rw!ReadPpsAgain, Rw!Write
<1>7. Rw!AttributeStep(c) \/ Rw!AttributePps(c) \/ Rw!Load(c) => RwMoves(c)
  BY <1>1 DEF Rw!AttributeStep, Rw!AttributePps, Rw!Load
<1>8. Rw!Return(c) => RwMoves(c) /\ rw_call'[c].pc = "idle"
  <2>1. Rw!IdleCall.pc = "idle" BY DEF Rw!IdleCall
  <2> QED BY <1>0, <2>1 DEF Rw!Return
<1>9. ASSUME NEW h, NEW v, Rw!Enter(c, h, v) PROVE RwMoves(c)
  BY <1>0, <1>9 DEF Rw!Enter
<1> QED BY <1>2, <1>3, <1>4, <1>5, <1>6, <1>7, <1>8, <1>9 DEF Rw!Handle

\* A step of an FG call.
LEMMA FgCallMoves ==
  ASSUME Together, NEW k \in FgTasks
  PROVE  /\ \A p, b : Fg!EnterProbed(k, p, b) \/ Fg!EnterMissed(k, p, b) =>
              FgMoves(k) /\ fg_call'[k].pc = "vendor"
         /\ Fg!VendorStores(k) \/ Fg!VendorFails(k) =>
              FgMoves(k) /\ fg_call'[k].pc \in {"return", "done"}
         /\ Fg!ReadCeiling(k) \/ Fg!ReadTemperature(k) \/ Fg!ReadSpoof(k) \/ Fg!Clamp(k)
              \/ Fg!Load(k) \/ Fg!Store(k) \/ Fg!Publish(k) =>
              FgMoves(k) /\ InFgHandler(k)
         /\ Fg!Return(k) => FgMoves(k) /\ fg_call'[k].pc = "idle"
<1>0. "pc" \in DOMAIN fg_call[k] /\ "pc" \in DOMAIN Fg!IdleCall
  BY DEF Together, Fg!IdleCall
<1>1. ASSUME NEW r, "pc" \in DOMAIN r, Fg!Become(k, r) PROVE FgMoves(k) /\ fg_call'[k] = r
  BY <1>1 DEF Together, FgMoves, Fg!Become
<1>2. ASSUME NEW l, Fg!Goto(k, l) PROVE FgMoves(k) /\ fg_call'[k].pc = l
  BY <1>0, <1>1, <1>2 DEF Fg!Goto
<1>3. ASSUME NEW p, NEW b, Fg!EnterProbed(k, p, b) \/ Fg!EnterMissed(k, p, b)
      PROVE  FgMoves(k) /\ fg_call'[k].pc = "vendor"
  <2> DEFINE probed == [Fg!IdleCall EXCEPT !.pc = "vendor", !.probe = p, !.probed = TRUE,
                                           !.arg1 = b]
             missed == [Fg!IdleCall EXCEPT !.pc = "vendor", !.probe = p, !.arg1 = b]
  <2>1. /\ "pc" \in DOMAIN probed /\ probed.pc = "vendor"
        /\ "pc" \in DOMAIN missed /\ missed.pc = "vendor"
    BY <1>0
  <2>2. Fg!Become(k, probed) \/ Fg!Become(k, missed)
    BY <1>3 DEF Fg!EnterProbed, Fg!EnterMissed
  <2> HIDE DEF probed, missed
  <2> QED BY <1>1, <2>1, <2>2
<1>4. Fg!AfterVendor(k) => FgMoves(k) /\ fg_call'[k].pc \in {"return", "done"}
  <2> DEFINE done == [fg_call[k] EXCEPT !.pc = "done", !.probed = FALSE]
  <2>1. "pc" \in DOMAIN done /\ done.pc = "done"
    BY <1>0
  <2>2. Fg!AfterVendor(k) => Fg!Goto(k, "return") \/ Fg!Become(k, done)
    BY DEF Fg!AfterVendor
  <2> HIDE DEF done
  <2> QED BY <1>1, <1>2, <2>1, <2>2
<1>5. Fg!ReadCeiling(k) \/ Fg!ReadTemperature(k) \/ Fg!Load(k) => FgMoves(k)
  BY <1>0, <1>1 DEF Fg!ReadCeiling, Fg!ReadTemperature, Fg!Load
<1>6. Fg!ReadSpoof(k) \/ Fg!Clamp(k) \/ Fg!Store(k) \/ Fg!Publish(k) => FgMoves(k)
  BY <1>2 DEF Fg!ReadSpoof, Fg!Clamp, Fg!Store, Fg!Publish, Fg!PublishValue
<1>7. Fg!ReadCeiling(k) \/ Fg!ReadTemperature(k) \/ Fg!ReadSpoof(k) \/ Fg!Clamp(k)
        \/ Fg!Load(k) \/ Fg!Store(k) \/ Fg!Publish(k) => InFgHandler(k)
  BY DEF InFgHandler, Fg!At, Fg!ReadCeiling, Fg!ReadTemperature, Fg!ReadSpoof, Fg!Clamp,
         Fg!Load, Fg!Store, Fg!Publish, Fg!PublishValue
<1>8. Fg!Return(k) => FgMoves(k) /\ fg_call'[k].pc = "idle"
  BY <1>0, <1>1 DEF Fg!Return, Fg!IdleCall
<1> QED BY <1>3, <1>4, <1>5, <1>6, <1>7, <1>8 DEF Fg!VendorStores, Fg!VendorFails

\* Init and exit do not touch the calls.
LEMMA LoadFrame ==
  Lc!Insmod(TRUE) \/ Lc!Loader \/ Lc!Rmmod => UNCHANGED probe_call
BY DEF Lc!Insmod, Lc!Loader, Lc!ReadArmed, Lc!RegisterOk, Lc!RegisterFails, Lc!Count,
       Lc!CountUpTo, Lc!Remove, Lc!RemoveEntry, Lc!GracePeriodEnds, Lc!Free, Lc!Rmmod

LEMMA InitTogether == Init => Together
BY DEF Init, Together, InFgHandler, Fg!Init, Rw!Init, Rw!Active, Rw!At, Fg!IdleCall,
       Rw!IdleCall

\* Each step starts or ends a handler and its place among the handlers in
\* progress together.
LEMMA StepTogether ==
  ASSUME LcP!LifecycleInv, Together, Next
  PROVE  Together'
<1> USE DEF lifecycle, fg, rewriting, LcMoves
<1>1. CASE Load
  BY <1>1, LoadFrame DEF Load, Together, InFgHandler, Rw!Active, Rw!At
<1>2. ASSUME NEW c \in CPUs, NEW e, NEW v, EnterRewrite(c, e, v) PROVE Together'
  BY <1>2, ProbeMoves, ActivationMoves, CpuTogether DEF EnterRewrite
<1>3. ASSUME NEW c \in CPUs, Rewrite(c) PROVE Together'
  <2>1. probe_call[c].pc = "entry"
    BY <1>3, ActivationMoves DEF Rewrite, Together
  <2> QED BY <1>3, <2>1, ActivationMoves, CpuTogether DEF Rewrite
<1>4. ASSUME NEW c \in CPUs, CallVendor(c) PROVE Together'
  BY <1>4, ProbeMoves, ActivationMoves, CpuTogether DEF CallVendor
<1>5. ASSUME NEW c \in CPUs, VendorDone(c) PROVE Together'
  <2>1. ~Rw!Active(c)
    BY <1>5, ProbeMoves DEF VendorDone, Together
  <2>2. RwMoves(c) /\ rw_call'[c].pc = "idle"
    BY <1>5, <2>1 DEF VendorDone, RwMoves, Together, Rw!Active, Rw!At
  <2> QED BY <1>5, <2>2, ProbeMoves, CpuTogether DEF VendorDone
<1>6. ASSUME NEW k \in FgTasks, NEW e, NEW b, EnterHooked(k, e, b) PROVE Together'
  BY <1>6, ProbeMoves, FgCallMoves, TaskTogether DEF EnterHooked, InFgHandler
<1>7. ASSUME NEW k \in FgTasks, NEW e, NEW b, EnterUnhooked(k, e, b) PROVE Together'
  BY <1>7, FgCallMoves, TaskTogether DEF EnterUnhooked, InFgHandler
<1>8. ASSUME NEW k \in FgTasks, FgEntryReturns(k) PROVE Together'
  <2>1. ~InFgHandler(k)
    BY <1>8, ProbeMoves DEF FgEntryReturns, Together
  <2>2. FgMoves(k) /\ ~InFgHandler(k)'
    BY <1>8, <2>1 DEF FgEntryReturns, FgMoves, Together, InFgHandler
  <2> QED BY <1>8, <2>2, ProbeMoves, TaskTogether DEF FgEntryReturns
<1>9. ASSUME NEW k \in FgTasks, ReadBattery(k) PROVE Together'
  <2>1. FgMoves(k) /\ fg_call'[k].pc \in {"return", "done"}
    BY <1>9, FgCallMoves DEF ReadBattery
  <2>2. CASE fg_call[k].probed
    BY <1>9, <2>1, <2>2, ProbeMoves, TaskTogether DEF ReadBattery, InFgHandler
  <2>3. CASE ~fg_call[k].probed
    <3>1. fg_call'[k].pc = "done"
      <4> DEFINE done == [fg_call[k] EXCEPT !.pc = "done", !.probed = FALSE]
      <4>1. Fg!Become(k, done)
        BY <1>9, <2>3 DEF ReadBattery, Fg!VendorStores, Fg!VendorFails, Fg!AfterVendor
      <4>2. done.pc = "done" BY DEF Together
      <4>3. fg_call'[k] = done BY <4>1 DEF Together, Fg!Become
      <4> QED BY <4>2, <4>3
    <3> QED BY <1>9, <2>1, <2>3, <3>1, TaskTogether DEF ReadBattery, InFgHandler
  <2> QED BY <2>2, <2>3
<1>10. ASSUME NEW k \in FgTasks, Publish(k) \/ FgHandle(k) PROVE Together'
  <2>1. FgMoves(k) /\ InFgHandler(k) /\ UNCHANGED <<probe_call, rw_call>>
    BY <1>10, FgCallMoves DEF Publish, FgHandle, Rw!PublishTemperature
  <2>2. probe_call[k].pc = "return"
    BY <2>1 DEF Together
  <2> QED BY <2>1, <2>2, TaskTogether
<1>11. ASSUME NEW k \in FgTasks, FgReturn(k) PROVE Together'
  <2>1. FgMoves(k) /\ ~InFgHandler(k)' /\ UNCHANGED rw_call
    BY <1>11, FgCallMoves DEF FgReturn, InFgHandler
  <2>2. LcMoves(k)
    BY <1>11, ProbeMoves DEF FgReturn
  <2> QED BY <2>1, <2>2, TaskTogether
<1>12. ASSUME NEW t, BatteryMoves(t) PROVE Together'
  BY <1>12 DEF BatteryMoves, Fg!SensorMoves, Together, InFgHandler, Rw!Active, Rw!At
<1>13. ASSUME NEW on, NEW u, RootSetsFg(on, u) PROVE Together'
  BY <1>13 DEF RootSetsFg, Fg!SetParams, Together, InFgHandler, Rw!Active, Rw!At
<1>14. ASSUME NEW p, NEW on, RootSetsSwitch(p, on) PROVE Together'
  BY <1>14 DEF RootSetsSwitch, Rw!SetParam, Together, InFgHandler, Rw!Active, Rw!At
<1> QED BY <1>1, <1>2, <1>3, <1>4, <1>5, <1>6, <1>7, <1>8, <1>9, <1>10, <1>11, <1>12, <1>13,
           <1>14
        DEF Next, Step, FgProgress

\* A step of the composition is a step of init, exit or the hooked calls.
LEMMA LifecycleStep ==
  ASSUME Next
  PROVE  [Lc!Next]_Lc!vars
<1> USE DEF Lc!Next, Lc!vars, Lc!loaderVars, lifecycle
<1>1. CASE Load BY <1>1 DEF Load
<1>2. ASSUME NEW c \in CPUs, NEW e \in RewriteEntries, NEW v, EnterRewrite(c, e, v)
      PROVE  Lc!Next
  BY <1>2 DEF EnterRewrite, RewriteEntries, Lc!Entries
<1>3. ASSUME NEW c \in CPUs, Rewrite(c) \/ CallVendor(c) \/ VendorDone(c)
      PROVE  [Lc!Next]_Lc!vars
  BY <1>3 DEF Rewrite, CallVendor, VendorDone
<1>4. ASSUME NEW k \in FgTasks, NEW e \in FgEntries, NEW b,
             EnterHooked(k, e, b) \/ EnterUnhooked(k, e, b)
      PROVE  [Lc!Next]_Lc!vars
  BY <1>4 DEF EnterHooked, EnterUnhooked, FgEntries, Lc!Entries
<1>5. ASSUME NEW k \in FgTasks, FgProgress(k) PROVE [Lc!Next]_Lc!vars
  BY <1>5 DEF FgProgress, FgEntryReturns, ReadBattery, Publish, FgHandle, FgReturn
<1>6. ASSUME NEW t, BatteryMoves(t) PROVE [Lc!Next]_Lc!vars
  BY <1>6 DEF BatteryMoves
<1>7. ASSUME NEW p, NEW on, NEW u, RootSetsFg(on, u) \/ RootSetsSwitch(p, on)
      PROVE  [Lc!Next]_Lc!vars
  BY <1>7 DEF RootSetsFg, RootSetsSwitch
<1> QED BY <1>1, <1>2, <1>3, <1>4, <1>5, <1>6, <1>7 DEF Next, Step

LEMMA FgStep ==
  ASSUME Next
  PROVE  [Fg!Next]_Fg!vars
<1> USE DEF Fg!Next, Fg!Progress, Fg!Enter, fg
<1>1. CASE UNCHANGED fg
  BY <1>1 DEF Fg!vars
<1>2. ASSUME NEW c \in CPUs, NEW e, NEW v, EnterRewrite(c, e, v) PROVE UNCHANGED fg
  BY <1>2 DEF EnterRewrite
<1>3. ASSUME NEW c \in CPUs, Rewrite(c) \/ CallVendor(c) \/ VendorDone(c) PROVE UNCHANGED fg
  BY <1>3 DEF Rewrite, CallVendor, VendorDone
<1>4. ASSUME NEW k \in FgTasks, NEW e \in FgEntries, NEW b \in Passes[k],
             EnterHooked(k, e, b) \/ EnterUnhooked(k, e, b)
      PROVE  Fg!Next
  BY <1>4 DEF EnterHooked, EnterUnhooked
<1>5. ASSUME NEW k \in FgTasks, FgProgress(k) PROVE [Fg!Next]_Fg!vars
  <2>1. CASE FgEntryReturns(k) BY <1>1, <2>1 DEF FgEntryReturns
  <2>2. CASE ReadBattery(k) BY <2>2 DEF ReadBattery
  <2>3. CASE Publish(k) BY <2>3 DEF Publish
  <2>4. CASE FgHandle(k) BY <2>4 DEF FgHandle
  <2>5. CASE FgReturn(k) BY <2>5 DEF FgReturn
  <2> QED BY <1>5, <2>1, <2>2, <2>3, <2>4, <2>5 DEF FgProgress
<1>6. ASSUME NEW t \in Readings, BatteryMoves(t) PROVE Fg!Next
  BY <1>6 DEF BatteryMoves
<1>7. CASE Load BY <1>1, <1>7 DEF Load
<1>8. ASSUME NEW on \in SpoofValues, NEW u \in Ceilings, RootSetsFg(on, u) PROVE Fg!Next
  BY <1>8 DEF RootSetsFg
<1>9. ASSUME NEW p, NEW on, RootSetsSwitch(p, on) PROVE UNCHANGED fg
  BY <1>9 DEF RootSetsSwitch
<1> QED BY <1>1, <1>2, <1>3, <1>4, <1>5, <1>6, <1>7, <1>8, <1>9 DEF Next, Step

\* Only Publish moves what the rewriting handlers read.
LEMMA FgLeavesRaw ==
  ASSUME NEW k, NEW p, NEW b, NEW t, NEW on, NEW u,
         \/ Fg!EnterProbed(k, p, b) \/ Fg!EnterMissed(k, p, b)
         \/ Fg!VendorStores(k) \/ Fg!VendorFails(k) \/ Fg!ReadCeiling(k)
         \/ Fg!ReadTemperature(k) \/ Fg!ReadSpoof(k) \/ Fg!Clamp(k) \/ Fg!Load(k)
         \/ Fg!Store(k) \/ Fg!Return(k) \/ Fg!SensorMoves(t)
         \/ Fg!SetParams(on, u)
  PROVE  UNCHANGED raw_fg_temperature
BY DEF Fg!EnterProbed, Fg!EnterMissed, Fg!VendorStores, Fg!VendorFails, Fg!ReadCeiling,
       Fg!ReadTemperature, Fg!ReadSpoof, Fg!Clamp, Fg!Load, Fg!Store, Fg!Return,
       Fg!SensorMoves, Fg!SetParams

LEMMA RewriteStep ==
  ASSUME FgP!TypeInv', RwP!TypeInv, Next
  PROVE  [Rw!Next]_Rw!vars
<1> USE DEF Rw!Next, rewriting
<1>1. CASE UNCHANGED <<rewriting, raw_fg_temperature>>
  BY <1>1 DEF Rw!vars
<1>2. CASE Load BY <1>1, <1>2 DEF Load, fg
<1>3. ASSUME NEW c \in CPUs, NEW e \in RewriteEntries, NEW v \in Inputs[Table[e]],
             EnterRewrite(c, e, v)
      PROVE  Rw!Next
  BY <1>3 DEF EnterRewrite
<1>4. ASSUME NEW c \in CPUs, Rewrite(c) \/ CallVendor(c) PROVE Rw!Next
  BY <1>4 DEF Rewrite, CallVendor
<1>5. ASSUME NEW c \in CPUs, VendorDone(c) PROVE UNCHANGED <<rewriting, raw_fg_temperature>>
  BY <1>5 DEF VendorDone, fg
<1>6. ASSUME NEW k \in FgTasks, NEW e, NEW b, EnterHooked(k, e, b) \/ EnterUnhooked(k, e, b)
      PROVE  UNCHANGED <<rewriting, raw_fg_temperature>>
  BY <1>6, FgLeavesRaw DEF EnterHooked, EnterUnhooked
<1>7. ASSUME NEW k \in FgTasks, Publish(k) PROVE Rw!Next
  BY <1>7 DEF Publish, FgP!TypeInv, FgP!TypeOK
<1>8. ASSUME NEW k \in FgTasks, FgProgress(k), ~Publish(k)
      PROVE  UNCHANGED <<rewriting, raw_fg_temperature>>
  BY <1>8, FgLeavesRaw DEF FgProgress, FgEntryReturns, ReadBattery, FgHandle, FgReturn, fg
<1>9. ASSUME NEW t, NEW on, NEW u, BatteryMoves(t) \/ RootSetsFg(on, u)
      PROVE  UNCHANGED <<rewriting, raw_fg_temperature>>
  BY <1>9, FgLeavesRaw DEF BatteryMoves, RootSetsFg
<1>10. ASSUME NEW p \in Switches, NEW on \in BOOLEAN, RootSetsSwitch(p, on) PROVE [Rw!Next]_Rw!vars
  <2>1. p \in DOMAIN param
    BY SwitchAssumption DEF RwP!TypeInv, RwP!TypeOK
  <2> QED BY <1>10, <2>1 DEF RootSetsSwitch
<1> QED BY <1>1, <1>2, <1>3, <1>4, <1>5, <1>6, <1>7, <1>8, <1>9, <1>10 DEF Next, Step

-----------------------------------------------------------------------------
(* A call that began after the FG hooks had settled on a hot reading, and   *)
(* while the battery stayed hot, has seen hot readings only.               *)

SeenHot(c) == warned[c] /\ Rw!Active(c) => \A t \in seen[c].temps : t >= 580

WarnedInv == \A c \in CPUs : SeenHot(c)

LEMMA WarnedIs ==
  ASSUME FgP!TypeInv', Next
  PROVE  /\ \A c \in CPUs : warned'[c] = (settled' /\ (warned[c] \/ Rw!At(c, "idle")))
         /\ warned' \in [CPUs -> BOOLEAN]
<1>1. settled' \in BOOLEAN
  BY DEF FgP!TypeInv, FgP!TypeOK
<1>2. warned' = [c \in CPUs |-> settled' /\ (warned[c] \/ Rw!At(c, "idle"))]
  BY DEF Next, Warn
<1> QED BY <1>1, <1>2, Zenon

LEMMA StepWarned ==
  ASSUME FgP!TypeInv', FgP!Steady', RwP!TypeInv, Together, WarnedInv, Next
  PROVE  WarnedInv'
<1>1. \A c \in CPUs : warned'[c] = (settled' /\ (warned[c] \/ Rw!At(c, "idle")))
  BY WarnedIs
<1>2. settled' => raw_fg_temperature' >= 580
  BY DEF FgP!Steady
<1>3. seen \in [CPUs -> [temps: SUBSET Nat, boost: SUBSET BOOLEAN,
                         pps: SUBSET BOOLEAN, thermal: SUBSET BOOLEAN]]
  BY DEF RwP!TypeInv, RwP!TypeOK
\* An activation that goes on, and has seen nothing new, is as warned as before.
<1>4. ASSUME NEW c \in CPUs, Rw!Active(c)' => Rw!Active(c), UNCHANGED seen[c]
      PROVE  SeenHot(c)'
  BY <1>1, <1>4 DEF SeenHot, WarnedInv, Rw!Active
<1>5. ASSUME UNCHANGED rewriting PROVE \A c \in CPUs : SeenHot(c)'
  BY <1>4, <1>5 DEF rewriting, Rw!Active, Rw!At
<1>6. ASSUME NEW c \in CPUs, NEW h, NEW v, Rw!Enter(c, h, v)
      PROVE  \A d \in CPUs : SeenHot(d)'
  <2>1. /\ seen' = [seen EXCEPT ![c] = Rw!Now]
        /\ Rw!Now.temps = {raw_fg_temperature} /\ UNCHANGED raw_fg_temperature
    BY <1>6 DEF Rw!Enter, Rw!Now
  <2>2. \A t \in seen'[c].temps : t = raw_fg_temperature'
    BY <1>3, <2>1
  <2>3. SeenHot(c)'
    BY <1>1, <1>2, <2>2 DEF SeenHot
  <2>4. ASSUME NEW d \in CPUs \ {c} PROVE SeenHot(d)'
    BY <1>3, <1>4, <1>6, <2>1, <2>4, ActivationMoves DEF RwMoves, Rw!Active, Rw!At
  <2> QED BY <2>3, <2>4
<1>7. ASSUME NEW c \in CPUs, Rw!Handle(c) PROVE \A d \in CPUs : SeenHot(d)'
  <2>1. RwMoves(c) /\ Rw!Active(c)
    BY <1>7, ActivationMoves
  <2>2. UNCHANGED seen
    BY <1>7 DEF Rw!Handle, Rw!Continue, Rw!Goto, Rw!Gate,
       Rw!ReadBoostCurve, Rw!ReadBoostStep, Rw!ReadThermal, Rw!MapReadOnce,
       Rw!MapCurrentRead, Rw!Apply, Rw!ReadPps, Rw!ReadBoostAgain, Rw!ReadPpsAgain,
       Rw!Write, Rw!AttributeStep, Rw!AttributePps, Rw!Load, Rw!Store, Rw!StoreValue
  <2> QED BY <1>4, <2>1, <2>2 DEF RwMoves, Rw!Active, Rw!At
<1>8. ASSUME NEW c \in CPUs, Rw!Return(c) PROVE \A d \in CPUs : SeenHot(d)'
  <2>1. RwMoves(c) /\ ~Rw!Active(c)'
    BY <1>8, ActivationMoves DEF Rw!Active, Rw!At
  <2>2. \A d \in CPUs \ {c} : seen'[d] = seen[d]
    BY <1>3, <1>8 DEF Rw!Return
  <2>3. SeenHot(c)'
    BY <2>1 DEF SeenHot
  <2> QED BY <1>4, <2>1, <2>2, <2>3 DEF RwMoves, Rw!Active, Rw!At
<1>9. ASSUME Rw!PublishTemperature(raw_fg_temperature') PROVE \A d \in CPUs : SeenHot(d)'
  <2> SUFFICES ASSUME NEW d \in CPUs, warned'[d], Rw!Active(d)',
                      NEW t \in seen'[d].temps
               PROVE  t >= 580
    BY DEF SeenHot
  <2>1. Rw!Active(d) /\ warned[d] /\ settled'
    BY <1>1, <1>9 DEF Rw!PublishTemperature, Rw!Active, Rw!At
  <2>2. t \in seen[d].temps \/ t = raw_fg_temperature'
    BY <1>3, <1>9, <2>1 DEF Rw!PublishTemperature, Rw!Observe, Rw!Active
  <2> QED BY <1>2, <2>1, <2>2 DEF WarnedInv, SeenHot
<1>10. \A c \in CPUs : SeenHot(c)'
  <2>1. CASE Load BY <1>5, <2>1 DEF Load
  <2>2. ASSUME NEW c \in CPUs, NEW e, NEW v, EnterRewrite(c, e, v)
        PROVE  \A d \in CPUs : SeenHot(d)'
    BY <1>6, <2>2 DEF EnterRewrite
  <2>3. ASSUME NEW c \in CPUs, Rewrite(c) \/ CallVendor(c) PROVE \A d \in CPUs : SeenHot(d)'
    BY <1>7, <1>8, <2>3 DEF Rewrite, CallVendor
  <2>4. ASSUME NEW c \in CPUs, VendorDone(c) PROVE \A d \in CPUs : SeenHot(d)'
    BY <1>5, <2>4 DEF VendorDone
  <2>5. ASSUME NEW k \in FgTasks, NEW e, NEW b, EnterHooked(k, e, b) \/ EnterUnhooked(k, e, b)
        PROVE  \A d \in CPUs : SeenHot(d)'
    BY <1>5, <2>5 DEF EnterHooked, EnterUnhooked
  <2>6. ASSUME NEW k \in FgTasks, FgProgress(k) PROVE \A d \in CPUs : SeenHot(d)'
    BY <1>5, <1>9, <2>6
       DEF FgProgress, FgEntryReturns, ReadBattery, Publish, FgHandle, FgReturn
  <2>7. ASSUME NEW t, NEW on, NEW u, BatteryMoves(t) \/ RootSetsFg(on, u)
        PROVE  \A d \in CPUs : SeenHot(d)'
    BY <1>5, <2>7 DEF BatteryMoves, RootSetsFg
  <2>8. ASSUME NEW p \in Switches, NEW on, RootSetsSwitch(p, on)
        PROVE  \A d \in CPUs : SeenHot(d)'
    <3>1. /\ UNCHANGED rw_call
          /\ seen' = [c \in CPUs |-> IF Rw!At(c, "idle") THEN seen[c]
                                      ELSE [seen[c] EXCEPT ![p] = @ \cup {on}]]
      BY <2>8 DEF RootSetsSwitch, Rw!SetParam, Rw!Observe
    <3>2. ASSUME NEW d \in CPUs PROVE seen'[d].temps = seen[d].temps
      BY <1>3, <3>1, SwitchAssumption
    <3> QED BY <1>1, <3>1, <3>2 DEF SeenHot, WarnedInv, Rw!Active, Rw!At
  <2> QED BY <2>1, <2>2, <2>3, <2>4, <2>5, <2>6, <2>7, <2>8 DEF Next, Step
<1> QED BY <1>10 DEF WarnedInv

-----------------------------------------------------------------------------
\* The invariant of the whole: those of the components and what joins them.
RuntimeInv ==
  /\ LcP!LifecycleInv
  /\ FgP!TypeInv
  /\ RwP!TypeInv /\ RwP!RetainInv /\ RwP!RecoveryInv
  /\ Together
  /\ warned \in [CPUs -> BOOLEAN]

\* ... and, of hot readings, with an int for each FG task and vendor calls that
\* store.
HotInv == FgP!FgInv /\ FgP!Steady /\ WarnedInv

LEMMA InitRuntime == Init => RuntimeInv /\ HotInv
<1> SUFFICES ASSUME Init PROVE RuntimeInv /\ HotInv
  OBVIOUS
<1>1. LcP!LifecycleInv
  BY LcConstants, LcP!InitInv, SameLifecycle DEF Init
<1>2. FgP!FgInv /\ FgP!Steady
  BY FgConstants, FgP!InitInv, FgP!InitSteady, SameFg DEF Init
<1>3. FgP!TypeInv
  BY <1>2 DEF Init, Fg!Init, Fg!IdleCall, FgP!FgInv, FgP!TypeInv, FgP!At
<1>4. RwP!TypeInv /\ RwP!RetainInv /\ RwP!RecoveryInv
  BY RwConstants, RwP!InitType, RwP!InitTemperatures, SameRewriting
     DEF Init, Rw!Gated, Rw!Curves, RwP!Gated, RwP!Curves
<1>5. Together
  BY InitTogether
<1>6. warned \in [CPUs -> BOOLEAN] /\ WarnedInv
  BY DEF Init, WarnedInv, SeenHot
<1> QED BY <1>1, <1>2, <1>3, <1>4, <1>5, <1>6 DEF RuntimeInv, HotInv

LEMMA NextRuntime ==
  ASSUME RuntimeInv, [Next]_vars
  PROVE  /\ RuntimeInv'
         /\ [Lc!Next]_Lc!vars /\ [Fg!Next]_Fg!vars /\ [Rw!Next]_Rw!vars
<1> USE DEF RuntimeInv
<1>1. CASE Next
  <2>1. [Lc!Next]_Lc!vars /\ LcP!LifecycleInv' BY <1>1, LifecycleStep, LcKeeps
  <2>2. [Fg!Next]_Fg!vars /\ FgP!TypeInv' BY <1>1, FgStep, FgKeepsTypes
  <2>3. [Rw!Next]_Rw!vars BY <1>1, <2>2, RewriteStep
  <2>4. RwP!TypeInv' /\ RwP!RetainInv' /\ RwP!RecoveryInv' BY <2>3, RwKeeps
  <2>5. Together' BY <1>1, StepTogether
  <2>6. warned' \in [CPUs -> BOOLEAN] BY <1>1, <2>2, WarnedIs
  <2> QED BY <2>1, <2>2, <2>3, <2>4, <2>5, <2>6
<1>2. CASE UNCHANGED vars
  <2> USE <1>2 DEF vars, lifecycle, fg, rewriting
  <2>1. UNCHANGED Lc!vars /\ UNCHANGED Fg!vars /\ UNCHANGED Rw!vars
    BY DEF Lc!vars, Lc!loaderVars, Fg!vars, Fg!params, Fg!histories, Rw!vars
  <2>2. LcP!LifecycleInv' BY <2>1, LcKeeps
  <2>3. FgP!TypeInv' BY <2>1, FgKeepsTypes
  <2>4. RwP!TypeInv' /\ RwP!RetainInv' /\ RwP!RecoveryInv' BY <2>1, RwKeeps
  <2>5. Together' BY DEF Together, InFgHandler, Rw!Active, Rw!At
  <2>6. UNCHANGED warned OBVIOUS
  <2> QED BY <2>1, <2>2, <2>3, <2>4, <2>5, <2>6
<1> QED BY <1>1, <1>2

LEMMA RuntimeInvariant == Spec => []RuntimeInv
<1>1. RuntimeInv /\ [Next]_vars => RuntimeInv'
  BY NextRuntime
<1> QED BY <1>1, InitRuntime, PTL DEF Spec

LEMMA NextHot ==
  ASSUME FgP!PrivateInts, ~VendorMayFail, RuntimeInv, HotInv, [Next]_vars
  PROVE  HotInv'
<1>1. FgP!FgInv' /\ FgP!Steady'
  BY NextRuntime, FgKeeps DEF HotInv
<1>2. CASE Next
  <2>1. WarnedInv'
    BY <1>1, <1>2, NextRuntime, StepWarned DEF RuntimeInv, HotInv
  <2> QED BY <1>1, <2>1 DEF HotInv
<1>3. CASE UNCHANGED vars
  <2>1. WarnedInv'
    BY <1>3 DEF vars, rewriting, HotInv, WarnedInv, SeenHot, Rw!Active, Rw!At
  <2> QED BY <1>1, <2>1 DEF HotInv
<1> QED BY <1>2, <1>3

\* The types of all three components, and of what they share.
THEOREM RuntimeTypeCorrect == Spec => []TypeOK
<1>1. RuntimeInv => TypeOK
  BY SameLifecycle, SameFg, SameRewriting
     DEF RuntimeInv, LcP!LifecycleInv, LcP!TypeInv, FgP!TypeInv, RwP!TypeInv, TypeOK
<1> QED BY <1>1, RuntimeInvariant, PTL

\* The stop-charge path end to end (README.md:39): for any number of callers
\* and FG tasks and any table, a call that begins once the FG hooks have settled
\* on 58 C or more, and while the battery stays there, is handed on with the
\* vendor's value, whatever FG calls come, whichever probes go and whatever root
\* writes meanwhile; given an int of its own for each FG task and vendor
\* functions that store through the pointer they are given.
THEOREM HotReadingIsObeyed ==
  FgP!PrivateInts /\ ~VendorMayFail /\ Spec => []HotReadingRetains
<1> SUFFICES ASSUME FgP!PrivateInts, ~VendorMayFail PROVE Spec => []HotReadingRetains
  OBVIOUS
<1>1. RuntimeInv /\ HotInv /\ [Next]_vars => HotInv'
  BY NextHot
<1>2. RuntimeInv /\ HotInv => HotReadingRetains
  BY DEF RuntimeInv, HotInv, HotReadingRetains, WarnedInv, SeenHot, RwP!RetainInv, RwP!Retained
<1> QED BY <1>1, <1>2, InitRuntime, RuntimeInvariant, PTL DEF Spec

\* The composition adds nothing to what its components do: each of them, seen
\* alone, behaves as its own module allows, so that the theorems about the
\* three modules hold in it.
THEOREM PartsBehave == Spec => Lc!Spec /\ Fg!Spec /\ Rw!Spec
<1>1. Init => Lc!Init /\ Fg!Init /\ Rw!Init
  BY DEF Init
<1>2. RuntimeInv /\ [Next]_vars => [Lc!Next]_Lc!vars /\ [Fg!Next]_Fg!vars /\ [Rw!Next]_Rw!vars
  BY NextRuntime
<1> QED BY <1>1, <1>2, RuntimeInvariant, PTL DEF Spec, Lc!Spec, Fg!Spec, Rw!Spec

\* So the properties proved of the components are properties of the whole: a
\* load leaves all probes or none, exit removes what init registered and the
\* memory outlives its handlers; what an FG hook returns is neither raised nor
\* above the ceiling; a rewrite keeps the vendor's value at 58 C and above.
THEOREM PartsKeepTheirPromises ==
  FgP!PrivateInts /\ Spec =>
    [](/\ LcP!CountNamesTheHooks /\ LcP!AllOrNothing /\ LcP!CodeOutlivesHandlers
       /\ FgP!NeverRaised /\ FgP!CeilingHolds
       /\ RwP!RetainedAbove58)
<1> SUFFICES ASSUME FgP!PrivateInts
             PROVE  Spec =>
               [](/\ LcP!CountNamesTheHooks /\ LcP!AllOrNothing /\ LcP!CodeOutlivesHandlers
                  /\ FgP!NeverRaised /\ FgP!CeilingHolds
                  /\ RwP!RetainedAbove58)
  OBVIOUS
<1>1. Lc!Spec => LcP!Spec
  BY SameLifecycle, PTL DEF Lc!Spec, LcP!Spec
<1>2. Fg!Spec => FgP!Spec
  BY SameFg, PTL DEF Fg!Spec, FgP!Spec
<1>3. Rw!Spec => RwP!Spec
  BY SameRewriting, PTL DEF Rw!Spec, RwP!Spec
<1>4. LcP!Spec => []LcP!CountNamesTheHooks
  BY LcConstants, LcP!CountIsExact
<1>5. LcP!Spec => []LcP!AllOrNothing
  BY LcConstants, LcP!LoadIsAllOrNothing
<1>6. LcP!Spec => []LcP!CodeOutlivesHandlers
  BY LcConstants, LcP!HandlersEndFirst
<1>7. FgP!Spec => []FgP!NeverRaised
  BY FgConstants, FgP!ClampOnlyLowers
<1>8. FgP!Spec => []FgP!CeilingHolds
  BY FgConstants, FgP!CeilingIsKept
<1>9. RwP!Spec => []RwP!RetainedAbove58
  BY RwConstants, RwP!Retained58 DEF Rw!Gated, RwP!Gated, Rw!Curves, RwP!Curves
<1> QED BY <1>1, <1>2, <1>3, <1>4, <1>5, <1>6, <1>7, <1>8, <1>9, PartsBehave, PTL

\* The same where the vendor's functions store through the pointer they are
\* given: what is published is a battery temperature, and a hot one stays.
THEOREM ReadingsReachTheHandlers ==
  FgP!PrivateInts /\ ~VendorMayFail /\ Spec =>
    [](FgP!RawIsUnmodified /\ FgP!HotReadingIsPublished)
<1> SUFFICES ASSUME FgP!PrivateInts, ~VendorMayFail
             PROVE  Spec => [](FgP!RawIsUnmodified /\ FgP!HotReadingIsPublished)
  OBVIOUS
<1>1. Fg!Spec => FgP!Spec
  BY SameFg, PTL DEF Fg!Spec, FgP!Spec
<1>2. FgP!Spec => []FgP!RawIsUnmodified
  BY FgConstants, FgP!PublishedIsUnmodified
<1>3. FgP!Spec => []FgP!HotReadingIsPublished
  BY FgConstants, FgP!PublishedStaysHot
<1> QED BY <1>1, <1>2, <1>3, PartsBehave, PTL

\* With the parameters as insmod set them, a rewrite answers for one
\* temperature except across the boundary at 58 C.
THEOREM RewritesForOneTemperature ==
  ~SysfsWrites /\ Spec => []RwP!OneTemperatureUnlessCrossing58
<1> SUFFICES ASSUME ~SysfsWrites PROVE Spec => []RwP!OneTemperatureUnlessCrossing58
  OBVIOUS
<1>1. Rw!Spec => RwP!Spec
  BY SameRewriting, PTL DEF Rw!Spec, RwP!Spec
<1>2. RwP!Spec => []RwP!OneTemperatureUnlessCrossing58
  BY RwConstants, RwP!OneTemperature58 DEF Rw!Gated, RwP!Gated, Rw!Curves, RwP!Curves
<1> QED BY <1>1, <1>2, PartsBehave, PTL

\* ... and so is the refinement: fed by the FG hooks and coming and going with
\* their probes, the rewriting handlers implement SnapshotRewrite.
THEOREM RewritingAsPromised == Spec => RwP!RewritesAsPromised
<1>1. Rw!Spec => RwP!Spec
  BY SameRewriting, PTL DEF Rw!Spec, RwP!Spec
<1>2. RwP!Spec => RwP!RewritesAsPromised
  BY RwConstants, RwP!RewritesKeepThePromise DEF Rw!Gated, RwP!Gated, Rw!Curves, RwP!Curves
<1> QED BY <1>1, <1>2, PartsBehave, PTL

=============================================================================
