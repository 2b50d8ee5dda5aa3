----------------------------- MODULE ChargeRuntime -----------------------------
(***************************************************************************)
(* The temperature path of K100PM_CHG_RUNTIME.c from the battery to the    *)
(* vendor's charging functions, over one load of the module: the probes    *)
(* come and go one by one in the order of k100pm_probes (ProbeLifecycle),  *)
(* the FG hooks publish what vendor tasks read (FgTemperature) and the     *)
(* rewriting handlers decide on what was published (RewriteProbes).        *)
(*                                                                         *)
(* The three share raw_fg_temperature and the life of the hooked calls;    *)
(* every action below is the joint step of the components that take part   *)
(* in it.  The cutoff hooks share neither and are left to CutoffProbes.    *)
(***************************************************************************)
EXTENDS ChargeMaps

CONSTANTS
  CPUs,        \* tasks that call a function hooked to rewrite its argument
  FgTasks,     \* tasks that read the FG temperature
  N, Table,    \* k100pm_probes: the handler, or the FG probe, of each entry
  Inputs,      \* see RewriteProbes
  ParamValues, MaxCalls,
  Buffers, NoBuffer, Passes, Readings, Ceilings, \* see FgTemperature
  SpoofValues, VendorMayFail, IntModulus, MaxActive,
  SysfsWrites, \* TRUE when root writes the parameters of the loaded module
  Switches,    \* those of boost, pps and thermal that root writes
  MayUnload    \* TRUE when root may run rmmod

FgProbes == {"get_temp", "get_thermal_temp"}
RewriteEntries == {e \in 0..(N - 1) : Table[e] \notin FgProbes}
FgEntries == 0..(N - 1) \ RewriteEntries

\* The FG hooks come after every rewriting hook (lines 610 and 616).
ASSUME OrderAssumption == \A e \in RewriteEntries, f \in FgEntries : e < f
ASSUME DisjointAssumption == CPUs \cap FgTasks = {} /\ MayUnload \in BOOLEAN

\* What the components ask of their constants.
ASSUME TableAssumption ==
  /\ N \in Nat \ {0}
  /\ \A e \in RewriteEntries :
       /\ Table[e] \in {"ichg", "cv", "fast", "single", "multi", "max", "thermal"}
       /\ Inputs[Table[e]] \subseteq Nat
ASSUME ParamAssumption ==
  ParamValues \subseteq [boost: BOOLEAN, pps: BOOLEAN, thermal: BOOLEAN] /\ MaxCalls \in Nat
ASSUME PointerAssumption ==
  NoBuffer \notin Buffers /\ \A k \in FgTasks : Passes[k] \subseteq Buffers \cup {NoBuffer}
ASSUME IntAssumption ==
  /\ IntModulus \in Nat /\ IntModulus % 2 = 0 /\ IntModulus > 4000
  /\ Readings \subseteq -1000..1500 /\ Ceilings \subseteq 0..(IntModulus - 1)
  /\ MaxActive \in Nat \ {0}
ASSUME SwitchAssumption ==
  /\ SpoofValues \subseteq BOOLEAN /\ Switches \subseteq {"boost", "pps", "thermal"}
  /\ SysfsWrites \in BOOLEAN /\ VendorMayFail \in BOOLEAN

VARIABLES
  loader, armed, i, k100pm_registered, hooked, readers, loads, probe_call,
  sensor, mem, temperature_spoof, temperature_ceiling, temperature_hits,
  fg_call, sample, published, settled,
  raw_fg_temperature,
  param, hits, rw_call, entered, counted, seen,
  warned  \* history: warned[c] when the FG hooks had settled on 58 C or more
          \* before c's call began, and the battery has stayed there

Lc == INSTANCE ProbeLifecycle WITH
        Tasks <- CPUs \cup FgTasks, ArmedValues <- {TRUE}, MaxLoads <- 1,
        call <- probe_call
Fg == INSTANCE FgTemperature WITH
        Tasks <- FgTasks, Probes <- {Table[e] : e \in FgEntries},
        ProbesMayGo <- TRUE, HitModulus <- 2, call <- fg_call
Rw == INSTANCE RewriteProbes WITH
        Handlers <- {Table[e] : e \in RewriteEntries},
        Temperatures <- 0..(IntModulus - 1), HitModulus <- 2, call <- rw_call

\* The state of each component; raw_fg_temperature is counted with the FG
\* hooks, its only writer.
lifecycle == <<loader, armed, i, k100pm_registered, hooked, readers, loads, probe_call>>
fg == <<sensor, mem, raw_fg_temperature, temperature_spoof, temperature_ceiling,
        temperature_hits, fg_call, sample, published, settled>>
rewriting == <<param, hits, rw_call, entered, counted, seen>>
vars == <<lifecycle, fg, rewriting, warned>>

Init ==
  /\ Lc!Init /\ Fg!Init /\ Rw!Init
  /\ warned = [c \in CPUs |-> FALSE]

-----------------------------------------------------------------------------
\* init, exit and the grace periods.
Load ==
  /\ Lc!Insmod(TRUE) \/ Lc!Loader \/ (MayUnload /\ Lc!Rmmod)
  /\ UNCHANGED <<fg, rewriting>>

\* Handlers of calls to functions whose argument is rewritten: the entry
\* handler is an activation of RewriteProbes, the return handler is
\* k100pm_noop_return.
EnterRewrite(c, e, v) ==
  /\ Lc!Enter(c, e)
  /\ Rw!Enter(c, Table[e], v)
  /\ UNCHANGED fg

Rewrite(c) ==
  /\ Rw!Handle(c)
  /\ UNCHANGED <<lifecycle, fg>>

CallVendor(c) ==
  /\ Rw!Return(c)
  /\ Lc!EntryReturns(c)
  /\ UNCHANGED fg

VendorDone(c) ==
  /\ Lc!BodyReturns(c) \/ Lc!HandlerReturns(c)
  /\ UNCHANGED <<fg, rewriting>>

-----------------------------------------------------------------------------
\* A call to an FG function, with its probe or without.
EnterHooked(k, e, b) ==
  /\ Lc!Enter(k, e)
  /\ Fg!EnterProbed(k, Table[e], b)
  /\ UNCHANGED rewriting

EnterUnhooked(k, e, b) ==
  /\ Fg!EnterMissed(k, Table[e], b)
  /\ UNCHANGED <<lifecycle, rewriting>>

FgEntryReturns(k) ==
  /\ Lc!EntryReturns(k)
  /\ UNCHANGED <<fg, rewriting>>

\* The vendor function reads the battery and returns to the return handler
\* or, when the call has no instance or its probe is gone, to its caller.
ReadBattery(k) ==
  /\ Fg!VendorStores(k) \/ Fg!VendorFails(k)
  /\ IF fg_call[k].probed
       THEN /\ Lc!BodyReturns(k)
            /\ probe_call'[k].pc = "return" <=> fg_call'[k].pc = "return"
       ELSE UNCHANGED lifecycle
  /\ UNCHANGED rewriting

\* WRITE_ONCE(raw_fg_temperature, raw): the step both components share.
Publish(k) ==
  /\ Fg!Publish(k)
  /\ Rw!PublishTemperature(raw_fg_temperature')
  /\ UNCHANGED lifecycle

FgHandle(k) ==
  /\ \/ Fg!ReadCeiling(k) \/ Fg!ReadTemperature(k) \/ Fg!ReadSpoof(k)
     \/ Fg!Clamp(k) \/ Fg!Load(k) \/ Fg!Store(k)
  /\ UNCHANGED <<lifecycle, rewriting>>

FgReturn(k) ==
  /\ Fg!Return(k)
  /\ IF probe_call[k].pc = "return" THEN Lc!HandlerReturns(k) ELSE UNCHANGED lifecycle
  /\ UNCHANGED rewriting

BatteryMoves(t) == Fg!SensorMoves(t) /\ UNCHANGED <<lifecycle, rewriting>>

\* The parameters are there, to be written, as long as the module is.
RootSetsFg(on, ceiling) ==
  /\ loader # "absent"
  /\ Fg!SetParams(on, ceiling)
  /\ UNCHANGED <<lifecycle, rewriting>>

RootSetsSwitch(p, on) ==
  /\ loader # "absent"
  /\ Rw!SetParam(p, on)
  /\ UNCHANGED <<lifecycle, fg>>

FgProgress(k) ==
  \/ FgEntryReturns(k) \/ ReadBattery(k) \/ Publish(k) \/ FgHandle(k) \/ FgReturn(k)

Step ==
  \/ Load
  \/ \E c \in CPUs :
       \/ \E e \in RewriteEntries : \E v \in Inputs[Table[e]] : EnterRewrite(c, e, v)
       \/ Rewrite(c) \/ CallVendor(c) \/ VendorDone(c)
  \/ \E k \in FgTasks :
       \/ \E e \in FgEntries, b \in Passes[k] : EnterHooked(k, e, b) \/ EnterUnhooked(k, e, b)
       \/ FgProgress(k)
  \/ \E t \in Readings : BatteryMoves(t)
  \/ \E on \in SpoofValues, u \in Ceilings : RootSetsFg(on, u)
  \/ \E p \in Switches, on \in BOOLEAN : RootSetsSwitch(p, on)

Warn == warned' = [c \in CPUs |-> settled' /\ (warned[c] \/ Rw!At(c, "idle"))]

Next == Step /\ Warn

Spec == Init /\ [][Next]_vars

\* init ends, FG calls return, and the charging policy keeps polling through
\* the hooked functions while they are hooked; nothing is asked of rmmod, of
\* the battery or of the calls that are rewritten.
Polls(k) == \E e \in FgEntries, b \in Passes[k] \ {NoBuffer} : EnterHooked(k, e, b)
Fairness ==
  /\ WF_vars(Lc!Loader /\ UNCHANGED <<fg, rewriting>> /\ Warn)
  /\ \A k \in FgTasks : WF_vars(FgProgress(k) /\ Warn)
  /\ SF_vars(\E k \in FgTasks : Polls(k) /\ Warn)
FairSpec == Spec /\ Fairness

-----------------------------------------------------------------------------
(* Properties.                                                             *)

\* Type invariant of the whole.
TypeOK == Lc!TypeOK /\ Fg!TypeOK /\ Rw!TypeOK /\ warned \in [CPUs -> BOOLEAN]

\* The stop-charge path end to end (README.md:39): once the FG hooks have
\* settled on 58 C or more, for as long as the battery stays there a call that
\* begins is handed on with the vendor's value, whatever FG calls come, whatever
\* their callers get, whichever probes are removed and whatever root writes
\* meanwhile.  It says nothing of the time before: a handler that read the
\* battery earlier may publish last, and after a removal nothing publishes.
HotReadingRetains == \A c \in CPUs : Rw!Active(c) /\ warned[c] => rw_call[c].reg = rw_call[c].old

\* Once the module is loaded with all its hooks and the battery stays at
\* 58 C or more, the rewriting handlers come to see it: the window in which
\* they run on the 0 of line 37, or on a reading from before, ends.
WindowCloses ==
  <>[](hooked = Lc!Entries /\ sensor >= 580) => <>[](TemperatureBand(raw_fg_temperature) = 2)
=============================================================================
