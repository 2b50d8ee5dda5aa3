---------------------------- MODULE FgTemperature ----------------------------
(***************************************************************************)
(* The two FG temperature hooks of K100PM_CHG_RUNTIME.c (lines 463-494, on *)
(* strategy_fg_ops_get_temp and strategy_fg_ops_get_thermal_temp).  A task *)
(* of the vendor's charging policy calls one of them with a pointer to an  *)
(* int; the entry handler keeps the pointer in the kretprobe instance, the *)
(* vendor function stores the battery temperature there, and the return    *)
(* handler publishes what it finds as raw_fg_temperature and then lowers   *)
(* the caller's int to temperature_ceiling.                                *)
(*                                                                         *)
(* Tasks interleave at every shared access.  The vendor function and the   *)
(* pool of maxactive kretprobe instances are external: they are modelled   *)
(* by what the handlers rely on.                                           *)
(***************************************************************************)
EXTENDS ChargeMaps, FiniteSets

CONSTANTS
  Tasks,        \* vendor tasks that read the FG temperature
  Probes,       \* the two hooked functions, each with its own instances
  MaxActive,    \* kretprobe.maxactive: 32 in the source
  Buffers,      \* the ints whose addresses are passed
  NoBuffer,     \* the NULL pointer
  Passes,       \* Passes[k]: the pointers task k may pass
  Readings,     \* battery temperatures, in 0.1 degrees C, signed
  IntModulus,   \* int and unsigned int are taken modulo 2^32 in the source
  Ceilings,     \* values of temperature_ceiling
  SpoofValues,  \* values of temperature_spoof
  SysfsWrites,  \* TRUE when root writes the parameters of the loaded module
  VendorMayFail,\* TRUE when the vendor function may return without storing
  ProbesMayGo,  \* TRUE when a probe may be unregistered while its calls run
  HitModulus    \* temperature_hits is an unsigned int

ASSUME IntAssumption ==
  /\ IntModulus \in Nat /\ IntModulus % 2 = 0 /\ IntModulus > 4000
  /\ Readings \subseteq -1000..1500
  /\ Ceilings \subseteq 0..(IntModulus - 1)
ASSUME PointerAssumption ==
  /\ NoBuffer \notin Buffers
  /\ \A k \in Tasks : Passes[k] \subseteq Buffers \cup {NoBuffer}
ASSUME PoolAssumption == MaxActive \in Nat \ {0} /\ HitModulus \in Nat \ {0, 1}
ASSUME SwitchAssumption ==
  /\ SpoofValues \subseteq BOOLEAN
  /\ SysfsWrites \in BOOLEAN /\ VendorMayFail \in BOOLEAN /\ ProbesMayGo \in BOOLEAN

VARIABLES
  sensor,             \* the battery temperature
  mem,                \* the callers' ints
  raw_fg_temperature, \* unsigned int
  temperature_spoof, temperature_ceiling,
  temperature_hits,
  call,               \* call[k]: the probed call task k is in
  sample,             \* history: what k's vendor call stored, whether the
                      \* battery has been at 58 C or more ever since, and
                      \* whether root has left the parameters alone ever since
  published,          \* history: the signed reading published last
  settled             \* history: while the battery has been at 58 C or more, a
                      \* reading of that heat was published with no call left
                      \* that still held an older one

vars == <<sensor, mem, raw_fg_temperature, temperature_spoof, temperature_ceiling,
          temperature_hits, call, sample, published, settled>>
params == <<temperature_spoof, temperature_ceiling>>
histories == <<sample, published, settled>>

AsUnsigned(i) == i % IntModulus
AsSigned(u) == IF u >= IntModulus \div 2 THEN u - IntModulus ELSE u

IdleCall == [pc |-> "idle", probe |-> "none", probed |-> FALSE, arg1 |-> NoBuffer,
             ceiling |-> 0, raw |-> 0, loaded |-> 0]
NoSample == [value |-> 0, hot |-> FALSE, kept |-> FALSE]

Init ==
  /\ sensor \in Readings
  /\ mem = [b \in Buffers |-> 0]
  /\ raw_fg_temperature = 0
  /\ temperature_spoof \in SpoofValues
  /\ temperature_ceiling \in Ceilings
  /\ temperature_hits = 0
  /\ call = [k \in Tasks |-> IdleCall]
  /\ sample = [k \in Tasks |-> NoSample]
  /\ published = 0
  /\ settled = FALSE

At(k, label) == call[k].pc = label

Become(k, record) == call' = [call EXCEPT ![k] = record]
Goto(k, label) == Become(k, [call[k] EXCEPT !.pc = label])

-----------------------------------------------------------------------------
(* The vendor's side and the kretprobe machinery.                          *)

InstancesUsed(p) == Cardinality({k \in Tasks : call[k].probed /\ call[k].probe = p})

\* The probe fires: an instance is taken from the pool and
\* k100pm_fg_temp_entry stores regs[1] in it.
EnterProbed(k, p, pointer) ==
  /\ At(k, "idle")
  /\ InstancesUsed(p) < MaxActive
  /\ Become(k, [IdleCall EXCEPT !.pc = "vendor", !.probe = p, !.probed = TRUE,
                                !.arg1 = pointer])
  /\ UNCHANGED <<sensor, mem, raw_fg_temperature, params, temperature_hits, histories>>

\* The function is not hooked, or the pool hands out no instance (none is
\* free, or its search misses one that is being returned): no handler runs.
EnterMissed(k, p, pointer) ==
  /\ At(k, "idle")
  /\ Become(k, [IdleCall EXCEPT !.pc = "vendor", !.probe = p, !.arg1 = pointer])
  /\ UNCHANGED <<sensor, mem, raw_fg_temperature, params, temperature_hits, histories>>

\* The vendor function returns: to the return handler, unless the call has no
\* instance or its probe was unregistered meanwhile.
AfterVendor(k) ==
  \/ call[k].probed /\ Goto(k, "return")
  \/ (call[k].probed => ProbesMayGo) /\ Become(k, [call[k] EXCEPT !.pc = "done", !.probed = FALSE])

VendorStores(k) ==
  /\ At(k, "vendor")
  /\ call[k].arg1 # NoBuffer
  /\ mem' = [mem EXCEPT ![call[k].arg1] = sensor]
  /\ sample' = [sample EXCEPT ![k] = [value |-> sensor, hot |-> sensor >= 580, kept |-> TRUE]]
  /\ AfterVendor(k)
  /\ UNCHANGED <<sensor, raw_fg_temperature, params, temperature_hits, published, settled>>

\* Without storing: a NULL pointer, or an error the return handler does not
\* look at.
VendorFails(k) ==
  /\ At(k, "vendor")
  /\ VendorMayFail \/ call[k].arg1 = NoBuffer
  /\ sample' = [sample EXCEPT ![k] =
       [value |-> IF call[k].arg1 = NoBuffer THEN 0 ELSE mem[call[k].arg1],
        hot |-> FALSE, kept |-> TRUE]]
  /\ AfterVendor(k)
  /\ UNCHANGED <<sensor, mem, raw_fg_temperature, params, temperature_hits, published, settled>>

-----------------------------------------------------------------------------
(* k100pm_fg_temp_return, one shared access at a time.                     *)

ReadCeiling(k) ==
  /\ At(k, "return")
  /\ Become(k, [call[k] EXCEPT !.ceiling = temperature_ceiling,
       !.pc = IF call[k].arg1 = NoBuffer THEN "done" ELSE "read"])
  /\ UNCHANGED <<sensor, mem, raw_fg_temperature, params, temperature_hits, histories>>

ReadTemperature(k) ==
  /\ At(k, "read")
  /\ Become(k, [call[k] EXCEPT !.raw = mem[call[k].arg1], !.pc = "publish"])
  /\ UNCHANGED <<sensor, mem, raw_fg_temperature, params, temperature_hits, histories>>

\* k is about to publish what the battery no longer is, or never was.
Overdue(k) ==
  /\ call[k].pc \in {"return", "read", "publish"}
  /\ call[k].arg1 # NoBuffer
  /\ ~sample[k].hot

PublishValue(k, u) ==
  /\ At(k, "publish")
  /\ raw_fg_temperature' = u
  /\ published' = call[k].raw
  /\ settled' = (settled \/ \A j \in Tasks : ~Overdue(j))
  /\ Goto(k, "spoof")
  /\ UNCHANGED <<sensor, mem, params, temperature_hits, sample>>

\* Mutants: no conversion to unsigned, the clamped value published, nothing
\* published unless the hook clamps.
PublishSigned(k) == PublishValue(k, call[k].raw)
PublishClamped(k) ==
  PublishValue(k, IF temperature_spoof /\ call[k].ceiling \in 1..(call[k].raw)
                    THEN call[k].ceiling ELSE AsUnsigned(call[k].raw))
PublishWhenClamping(k) ==
  PublishValue(k, IF temperature_spoof /\ call[k].ceiling \in 1..(call[k].raw)
                    THEN AsUnsigned(call[k].raw) ELSE raw_fg_temperature)

\* WRITE_ONCE(raw_fg_temperature, raw) converts int to unsigned int.
Publish(k) == PublishValue(k, AsUnsigned(call[k].raw))

\* Mutants: the comparison is dropped, or the wrong way round.
ReadSpoofUncompared(k) ==
  /\ At(k, "spoof")
  /\ Goto(k, IF ~temperature_spoof \/ call[k].ceiling = 0 THEN "done" ELSE "clamp")
  /\ UNCHANGED <<sensor, mem, raw_fg_temperature, params, temperature_hits, histories>>
ReadSpoofReversed(k) ==
  LET r == call[k] IN
  /\ At(k, "spoof")
  /\ Goto(k, IF ~temperature_spoof \/ r.ceiling = 0 \/ r.raw >= AsSigned(r.ceiling)
               THEN "done" ELSE "clamp")
  /\ UNCHANGED <<sensor, mem, raw_fg_temperature, params, temperature_hits, histories>>

ReadSpoof(k) ==
  LET r == call[k] IN
  /\ At(k, "spoof")
  /\ Goto(k, IF ~temperature_spoof \/ r.ceiling = 0 \/ r.raw <= AsSigned(r.ceiling)
               THEN "done" ELSE "clamp")
  /\ UNCHANGED <<sensor, mem, raw_fg_temperature, params, temperature_hits, histories>>

Clamp(k) ==
  /\ At(k, "clamp")
  /\ mem' = [mem EXCEPT ![call[k].arg1] = AsSigned(call[k].ceiling)]
  /\ Goto(k, "load")
  /\ UNCHANGED <<sensor, raw_fg_temperature, params, temperature_hits, histories>>

Load(k) ==
  /\ At(k, "load")
  /\ Become(k, [call[k] EXCEPT !.loaded = temperature_hits, !.pc = "store"])
  /\ UNCHANGED <<sensor, mem, raw_fg_temperature, params, temperature_hits, histories>>

Store(k) ==
  /\ At(k, "store")
  /\ temperature_hits' = (call[k].loaded + 1) % HitModulus
  /\ Goto(k, "done")
  /\ UNCHANGED <<sensor, mem, raw_fg_temperature, params, histories>>

\* The caller goes on with the int it passed; the instance is recycled.
Return(k) ==
  /\ At(k, "done")
  /\ Become(k, IdleCall)
  /\ sample' = [sample EXCEPT ![k] = NoSample]
  /\ UNCHANGED <<sensor, mem, raw_fg_temperature, params, temperature_hits, published, settled>>

-----------------------------------------------------------------------------
SensorMoves(t) ==
  /\ sensor' = t
  /\ sample' = [k \in Tasks |-> [sample[k] EXCEPT !.hot = @ /\ t >= 580]]
  /\ settled' = (settled /\ t >= 580)
  /\ UNCHANGED <<mem, raw_fg_temperature, params, temperature_hits, call, published>>

SetParams(spoof, ceiling) ==
  /\ SysfsWrites
  /\ \/ spoof = temperature_spoof
     \/ ceiling = temperature_ceiling
  /\ temperature_spoof' = spoof
  /\ temperature_ceiling' = ceiling
  /\ sample' = [k \in Tasks |-> [sample[k] EXCEPT !.kept = FALSE]]
  /\ UNCHANGED <<sensor, mem, raw_fg_temperature, temperature_hits, call, published, settled>>

Enter(k, p, pointer) == EnterProbed(k, p, pointer) \/ EnterMissed(k, p, pointer)

Progress(k) ==
  \/ VendorStores(k) \/ VendorFails(k) \/ ReadCeiling(k) \/ ReadTemperature(k)
  \/ Publish(k) \/ ReadSpoof(k) \/ Clamp(k) \/ Load(k) \/ Store(k) \/ Return(k)

Next ==
  \/ \E k \in Tasks, p \in Probes : \E b \in Passes[k] : Enter(k, p, b)
  \/ \E k \in Tasks : Progress(k)
  \/ \E t \in Readings : SensorMoves(t)
  \/ \E s \in SpoofValues, u \in Ceilings : SetParams(s, u)

Spec == Init /\ [][Next]_vars

\* The vendor function and the straight-line handlers terminate, and the
\* charging policy polls the temperature for as long as it runs.
Fairness ==
  /\ \A k \in Tasks : WF_vars(Progress(k))
  /\ SF_vars(\E k \in Tasks, p \in Probes : \E b \in Passes[k] \ {NoBuffer} :
               EnterProbed(k, p, b))
FairSpec == Spec /\ Fairness

-----------------------------------------------------------------------------
(* Properties.                                                             *)

Labels == {"idle", "vendor", "return", "read", "publish", "spoof", "clamp", "load",
           "store", "done"}

\* Type invariant of the FG hooks.
TypeOK ==
  /\ sensor \in Readings
  /\ mem \in [Buffers -> Int]
  /\ raw_fg_temperature \in 0..(IntModulus - 1)
  /\ temperature_spoof \in BOOLEAN
  /\ temperature_ceiling \in Ceilings
  /\ temperature_hits \in 0..(HitModulus - 1)
  /\ call \in [Tasks ->
       [pc: Labels, probe: Probes \cup {"none"}, probed: BOOLEAN,
        arg1: Buffers \cup {NoBuffer}, ceiling: Ceilings \cup {0}, raw: Int,
        loaded: 0..(HitModulus - 1)]]
  /\ sample \in [Tasks -> [value: Int, hot: BOOLEAN, kept: BOOLEAN]]
  /\ published \in Int
  /\ settled \in BOOLEAN

\* The bands use the unmodified FG temperature and do not depend on the
\* ceiling (README.md:31).  With the battery at 58 C or more, a reading of that
\* heat published and no call left holding an older one, raw_fg_temperature
\* selects the retain band until the battery cools: no clamp, no call to come
\* and no probe that goes takes it out.  Until then a handler that read the
\* battery before it was hot may publish last; and a vendor call that returns
\* without storing would break this at any time (RawIsUnmodified).
HotReadingIsPublished == settled => raw_fg_temperature >= 580

\* raw_fg_temperature is the "last unmodified charging FG temperature" (lines
\* 66-67): before the first publish 0, and then something the battery was,
\* never what the hooks made of it.  A vendor call that returns without storing
\* into an int the hooks had lowered would make it the ceiling.
RawIsUnmodified == raw_fg_temperature \in {0} \cup {AsUnsigned(t) : t \in Readings}

\* What the charging policy gets from a hooked call: what the vendor's
\* function left, or the ceiling its own handler read when that is lower.  The
\* hook never raises a temperature, whatever root writes to the parameters, and
\* a call without an instance gets what the vendor's function left.  A ceiling
\* that is negative as an int lowers every reading, as the code has it.
NeverRaised ==
  \A k \in Tasks : At(k, "done") /\ call[k].arg1 # NoBuffer =>
    \/ mem[call[k].arg1] = sample[k].value
    \/ /\ call[k].probed
       /\ mem[call[k].arg1] = AsSigned(call[k].ceiling)
       /\ mem[call[k].arg1] < sample[k].value

\* temperature_ceiling is a ceiling (line 54): with the clamp on and a
\* positive int in temperature_ceiling, no hooked call that gets an instance
\* returns more than it, unless root wrote a parameter while it was handled:
\* then the value its handler read before may be the one that held.
CeilingHolds ==
  \A k \in Tasks :
    /\ At(k, "done") /\ call[k].probed /\ call[k].arg1 # NoBuffer /\ sample[k].kept
    /\ temperature_spoof /\ temperature_ceiling \in 1..(IntModulus \div 2 - 1)
    => mem[call[k].arg1] <= temperature_ceiling

\* Band 2 is "58 C and above" (line 85).
RetainBandIsHot == TemperatureBand(raw_fg_temperature) = 2 => published >= 580

\* When the battery settles, so does raw_fg_temperature, at the battery's
\* value: an older reading published late by another task is overwritten.
RawFollowsBattery ==
  \A t \in Readings :
    <>[](sensor = t) => <>[](raw_fg_temperature = AsUnsigned(t))
=============================================================================
