# Verification of K100PM_CHG_RUNTIME

TLA+ models, TLC runs and TLAPS proofs for the K100PM charging module: one
kernel module (`src/K100PM_CHG_RUNTIME.c`, 682 lines) that hooks sixteen vendor
functions with kretprobes, a KernelSU service that loads it at boot, and the
scripts that build and package it. Line numbers without a file name are lines of
`src/K100PM_CHG_RUNTIME.c`; `README.md:n` is the repository's README.

## 1. Inventory

| Component | Code | State | Operations | Interacts with |
| --- | --- | --- | --- | --- |
| Rewrite tables | 79-292 | reads `raw_fg_temperature` | `k100pm_temperature_band`, `k100pm_apply_temperature_current`, `k100pm_map_*` | called by the entry handlers |
| Rewriting entry handlers | 294-461, table entries 561-608 | the argument register, `boost`, `pps`, `thermal`, five hit counters | buck current and voltage, fast curve, divider voters (single, multi), current cap, thermal voter | vendor calls on any CPU; FG hooks through `raw_fg_temperature`; root through sysfs |
| FG temperature hooks | 463-494 | `raw_fg_temperature`, `temperature_spoof`, `temperature_ceiling`, `temperature_hits`, the caller's int, the kretprobe instance | keep the pointer at entry; publish and clamp at return | two vendor functions; the entry handlers |
| Shutdown-threshold hooks | 496-552 | three words of the vendor's FG context, `cutoff`, `cutoff_*_mv`, `cutoff_hits` | keep the context at entry; validate, compare and write at return | two vendor functions on one context |
| Hit counters | 74-77 | seven `unsigned int` | `k100pm_count` | every handler; read by the user (README.md:69) |
| Registration and removal | 560-676 | the probe table, `k100pm_registered`, `armed` | `init` with unwinding, `exit` | all handlers start and stop with it |
| Kretprobe instance pool | `kheaders/include/linux/objpool.h`, `kprobes.h` | per-CPU rings of instances, `head`, `tail`, `last` | `objpool_pop` at entry, `objpool_push` after return | the FG and cutoff hooks keep their pointer in an instance |
| Logging | `observe` | - | `pr_info` | - |
| Boot service | `kernelsu/*` | profile, attempt counter, `/sys/module` | wait for vendor modules, one `insmod`; uninstall | init of the module |
| Build and packaging | `scripts/*` | `out/`, the stage directory, the zip | link, then check sections, KCFI, imports, CRCs; copy, zip, test | the service ships its result |
| Baselines | `abi/`, `crc/`, `kfci/` | data files | - | the build script |
| Kernel headers | the rest of `kheaders/` | vendored, 1.1 million lines of declarations | - | kprobes behaviour is external |

What is hard here: there is no lock anywhere. Handlers of different functions,
or of one function on different CPUs, run at the same time; the temperature a
handler uses is a global that another handler stores while it runs; root may
write every parameter while the handlers read it, several times each; the vendor
writes the shutdown thresholds while the hooks check and replace them; integers
change sign; probes can be missed; the module may be removed, or its `init` may
back out half way, while vendor tasks are in its handlers; the scripts test a file
or a directory and act on it later. None of it is reachable by the tests of the
repository, which has build checks only. `PROJECT.json` lists the hazards with
the line where each bites and the property that would catch it.

Per component, what makes it correct:

* tables and entry handlers: a rewrite is the answer of the tables for one
  temperature and one setting of the switches in force during the call (in the divider
  and cap handlers, for one to raise and one to limit); the
  vendor's value is retained from 58 °C on; nothing but the recovery target is
  substituted from 55 °C on; hits are attributed to an enabled feature;
* FG hooks: the tables see a reading of the battery, never the clamp, and once the
  hooks have settled on a hot one it stays until the battery cools; callers never get
  a raised temperature, nor one above a ceiling that stands; the published value
  settles at the battery's;
* threshold hooks: after the races settle, and once a handler has followed the last
  store, the context holds the module's three thresholds; memory that does not look
  like thresholds is left alone;
* counters: never more hits than rewrites, and some hits after some rewrite;
* registration: what `exit` and the error path of `init` remove is what `init`
  registered, no handler outlives the module's memory, a loaded module has all of
  its probes or none;
* the whole path: once the hooks have settled on 58 °C or more, the vendor's value
  is retained, and the time in which handlers of a loaded module run on an older value
  ends;
* instance pool: an instance belongs to one call at a time and is never lost, and
  a call is left without one only when the pool is exhausted or in motion;
* service: it ends, it inserts the module only when the three vendor modules are
  there, it does not give up untried while they are, and `uninstall.sh` leaves no
  module behind whose `init` was over;
* build and packaging: the reported zip is whole, and a module whose build ended
  successfully has passed its checks.

## 2. Modules

| Module | What it is |
| --- | --- |
| `ChargeMaps` | the bands and tables as pure operators of the temperature that was read |
| `RewriteProbes` | the entry handlers, one shared access per action |
| `SnapshotRewrite` | the abstract promise of a rewriting probe, and the policy it is about |
| `FgTemperature` | the FG hooks, the callers' ints and the kretprobe instances |
| `CutoffProbes` | the threshold hooks, the FG context and the vendor's writes to it |
| `ProbeLifecycle` | `init`, its unwinding, `exit`, and the hooked calls in flight meanwhile |
| `ChargeRuntime` | composition of the FG hooks and the rewriting handlers under `ProbeLifecycle` |
| `InstancePool` | the lock-free rings the kretprobe instances come from |
| `InstanceOwners` | the abstract promise of the pool: one owner per instance |
| `BootService` | `service.sh` and `uninstall.sh` against the vendor's modules and root |
| `BuildGate` | the build and the packaging script around the files they share |
| `MC...` | instances of these modules for TLC |
| `RewriteProofs` | theorems about `RewriteProbes` |
| `FgProofs` | theorems about `FgTemperature` |
| `LifecycleProofs` | theorems about `ProbeLifecycle` |
| `CutoffProofs` | theorems about `CutoffProbes` |
| `RuntimeProofs` | theorems about `ChargeRuntime`, from those of its three components |
| `BootProofs` | theorems about `BootService` |
| `BuildProofs` | theorems about `BuildGate` |
| `PoolProofs` | theorems about `InstancePool` |

**RewriteProbes.** `call[c]` is the handler activation on CPU `c`: `old` and
`value` are the C locals, `reg` the argument register, `table` and `then` say
which `k100pm_map_*` is being evaluated and where its result goes. Each
`READ_ONCE` or `WRITE_ONCE` of a global is one action: `Gate` is the band check of
358/391/424, `ReadBoostCurve` and `ReadBoostStep` the first read of `boost`,
`ReadPps` the read of `pps`, `MapReadOnce` and `MapCurrentRead` the read in a map,
`Apply` the second read of the temperature in `k100pm_apply_temperature_current`,
`ReadBoostAgain` and `ReadPpsAgain` the condition of line 371, `Write` the store to
the register, `AttributeStep` and `AttributePps` the choice of the counter with its
own reads, `Load` and `Store` the two halves of `k100pm_count`. Handlers run with
preemption off, so an activation owns its CPU; the number of CPUs is the number of
simultaneous activations. The six divider voters run two handlers, the two
fast-curve voters one: the handler is what is modelled, any function can call it.
`PublishTemperature` stands for the FG hooks (any value at any time) and `SetParam`
for sysfs. `seen[c]` is a history variable: the temperatures and parameter values
in force at some moment of the activation on `c`. `counted` counts the completed
increments.

**SnapshotRewrite.** The abstract handler answers in one step, with the vendor's
value or with what the tables make of it for values among those seen (`Allowed`). A
handler without a gate takes one look, at one temperature and one setting of the
switches: `Policy` is its body evaluated in one go. The divider and cap handlers read
the switches once to raise the value (361-370) and once to limit it (371), and root may
turn them in between: `TwoLookAnswers` allows a temperature and a setting for each
(`FirstLook`, `SecondLook`), and nothing without a temperature below 58 °C.
`RewriteProbes` implements it under `view <- View`: an activation is busy until its
handler is done, and its answer becomes visible then. `Policy` of the gated handlers is
what `OneTemperatureUnlessCrossing58` holds them to while root does not write.

**FgTemperature.** A task calls one of the two functions with a pointer. The
probe takes an instance (`EnterProbed`) or misses, or is not there
(`EnterMissed`); the vendor function stores the sensor's value or fails (external)
and returns to the return handler, unless its probe was unregistered meanwhile
(`AfterVendor`); the return handler is
`ReadCeiling`, `ReadTemperature`, `Publish`, `ReadSpoof`, `Clamp`, `Load`, `Store`. Ints
are signed, `raw_fg_temperature` and `temperature_ceiling` unsigned, converted by
`AsUnsigned` and `AsSigned` modulo `IntModulus`. Three variables are history.
`sample[k]` is what the vendor left in `k`'s int, whether the battery has been at 58 °C
or more ever since (`hot`), and whether root has left the parameters alone since
(`kept`). `published` is the signed reading published last. `settled` becomes true when
a reading is published with no call left that still holds one from before the
battery was hot (`Overdue`), and only a battery that cools makes it false: what a
later call publishes, stale or not, cannot.

**CutoffProbes.** `mem[x]` holds the three words of context `x`. The vendor
function of a call stores its thresholds field by field in any order, or none of
them (external). A call may have no probe or no instance (`probed`), or lose its probe
while it runs (`VendorReturnsUnseen`): no handler looks at what it stored. The return
handler is `ReadCutoff`, three `ReadField`, up to three `Compare`, then `Fetch` and
`Write` for each field, `Load` and `Store`. History: `handled`, the contexts a handler
has been through since the last store that no handler followed (`Disturb`), `clean`, the
calls in progress whose handler began since then, and `changed`, that root has
written a parameter.

**ProbeLifecycle.** `loader` is the place of insmod, `init`, `exit` or rmmod:
`ReadArmed` is the early return of 642, `RegisterOk`, `RegisterFails` and `Count` the
loop of 647-662 (the registration and the increment are separate, because vendor
calls see the hook before the count does), `Remove`, `GracePeriodEnds` and `Free`
both removal loops (656, 670) and the end of the module's memory. `call[k]` is a hooked
call: in its entry handler, in the vendor function, or in its return handler.
External: `unregister_kretprobe` disarms one entry and waits for the handlers
running at that moment (`readers`), not for calls inside the vendor function, whose
instance is then orphaned (`rp->rph` of `kprobes.h`, 133-144 and 195-211): they return
without their handler, also when a later load hooks the same function.

**ChargeRuntime.** Each action is the joint step of the components that take part,
by conjunction of their actions: a vendor call enters if the lifecycle has its entry
hooked *and* its handler starts (`EnterRewrite`, `EnterHooked`), a handler's return
is the end of its activation and of its place among the readers, and `Publish` is
one step of the FG hooks and of the rewriting handlers. `ReadBattery` makes the two
views agree on whether the return handler runs; `RootSetsFg` and `RootSetsSwitch` are
root's writes while the module is there. `warned[c]` is history (`Warn`): the FG hooks
had settled on 58 °C or more before `c`'s call began and have not left it since.

**InstancePool.** One action per access of `objpool_pop` (`LoadHead`, `LoadLast`,
`CheckStale`, `Reload`, `Fetch`, `Cas`, and on to the next CPU's ring) and of
`objpool_push` (`LoadTail`, `LoadHeadAgain`, `ClaimTail`, `Put`, `Publish`). Interrupts
are off in both, so `Free(c)` lets one operation run per CPU; CPUs interleave.
Counters wrap modulo `Modulus`. The code relies on no head coming round while a pop
compares it: `overlap[k]` counts the pops that began since `k`'s search did, and `Enter`
keeps it within `MaxOverlap`. It implements `InstanceOwners` under
`owned <- held`: an instance is taken by the successful compare-and-exchange and
given up by the store to `last`.

**BootService.** One action per test of `service.sh`: `SourceProfile`, `TestLoaded`,
`TestFile`, `While`, `Test` (one directory at a time), `Sleep`, `Insmod`; `InitSucceeds`
and `InitFails` are `init` as the insmod in progress sees it. The insmod may refuse the
module, and an armed `init` may fail, for any reason (another vermagic or CRC, a missing
symbol, no memory). `uninstall.sh` is its test and its rmmod. The profile is complete
(armed or inert), lacks an assignment, cannot be read, or does not parse. History:
`ready`, whether the three modules were there when the attempt began, `tried`, and
`touched`, whether the module has been inserted, or being inserted, since the test of
`uninstall.sh`.

**BuildGate.** A module file is the set of defects it has. Builders run the build
script side by side, each in `out/` or in another output directory; what they share
there is the module file and `crc_check`. `Link` replaces the file, each `Check...`
looks for one kind of defect in the file that is there now and stops the build when it
finds it, leaving the file; the comparison of CRCs is `ReadCrcs` and `WriteCrcs` (node)
and `CompareCrcs` (the loop of 164-168); `Report` ends a successful build. Packaging is
one action per command that reads or writes files. Builds may be interrupted; a signal
to packaging runs its trap, which removes the stage directory and goes on; `out/` may
be cleaned at any time. History: `own`, the module file is still the one this build
linked; `alone`, no other build has been in its directory so far; `vouched` of a file,
that the build that linked it ended successfully, alone or beside another.

Definitions named after a change of a handler and marked *Mutant* are plausible
mistakes in the code. They belong to no specification: replacing the definition
after them by a use of theirs makes a run fail, which shows that the property of
that run depends on the code it is about (`mutants` in `PROJECT.json`).

## 3. Runs

| Run | Checks | Bounds (distinct states) |
| --- | --- | --- |
| `rewrite_toggled` | `RetainedAbove58`, `UngatedRecoverAbove55`, refinement of `SnapshotRewrite` | 1 call of any of the seven handlers, three bands, root toggling every switch (813,000) |
| `rewrite_fixed` | `TypeOK`, `OneTemperatureUnlessCrossing58`, `HitsNeverOvercount`, `ZeroHitsMeansNoRewrite`, `PpsHitsNeedPps` | 2 CPUs, 2 calls of any of the seven handlers, both sides of 58 °C, counters modulo 3 (4.6 million) |
| `rewrite_crossing` | `RecoveryOnlyAbove55` is violated | 1 call of a gated handler |
| `fg` | `TypeOK`, `HotReadingIsPublished`, `RawIsUnmodified`, `NeverRaised`, `CeilingHolds`, `RawFollowsBattery` | 2 tasks in one function with 2 instances, NULL pointers, calls without an instance, root writing, with fairness (1.0 million) |
| `fg_failed` | `RawIsUnmodified` is violated | 2 tasks, 2 functions, vendor calls that may return without storing |
| `fg_negative` | `RetainBandIsHot` is violated | 2 tasks, 2 functions, a battery below 0 °C |
| `cutoff` | `TypeOK`, `QuiescentTarget`, `ForeignObjectUntouched`, `ThresholdsSettle` | 2 tasks, one FG context, one object of another layout whose words change, calls without a handler, root toggling `cutoff` and moving two thresholds one by one, with fairness (758,000) |
| `lifecycle` | `TypeOK`, `CountNamesTheHooks`, `CodeOutlivesHandlers`, `AllOrNothing`, `LoaderCompletes` | 3 entries, 3 tasks, 2 loads, a failure at any entry, with fairness (71,000) |
| `runtime` | `TypeOK`, `HotReadingRetains`, `WindowCloses` | 1 load and unload, the current cap and one FG function, 1 rewriting call, 2 FG tasks, with fairness (577,000) |
| `pool_safety` | `TypeOK`, refinement of `InstanceOwners`, `NothingLost`, `NeverWarns`, `MissedOnlyInMotion` | 2 CPUs, 2 instances, 6 calls of 3 tasks, counters of four values (1.2 million) |
| `boot` | `TypeOK`, `UninstallLeavesNothing`, `InsmodWhenReady`, `ServiceEnds` | 3 awaited modules and one more with symbols, 3 attempts, insmod and `init` failing at will, root inserting and removing, with fairness (17,000) |
| `build_safety` | `TypeOK`, `ReportedZipIsWhole`, `VouchedIsChecked` | 3 builds of any outcome by 2 builders in 2 directories, 2 packagings (2.1 million) |

Why the bounds are enough. *One or two calls* of a rewriting handler: activations
on different CPUs share the counters and nothing else, so what a handler answers
depends on the temperature and the switches only, which the environment changes
freely; two activations are what the counters need to lose an increment, and the
theorems hold for any number of CPUs and calls. *Three temperatures*: the first of
each band the handlers tell apart (bands -1 and 0 are treated alike by every
handler); `rewrite_fixed` also has the last below 58 °C. *Inputs*: for each handler
a key of its own tables, keys of the tables it chains, values another stage
produces and, in `rewrite_toggled`, a value no table names. *Counters modulo 3* are
not reached by two calls: the wrap is in `fg` (modulo 2). `cutoff` has `HitModulus` 1,
which leaves the counter out of the state: nothing reads it, and its races are those of
`rewrite_fixed`. *Two tasks* on a hook are an early and a late one; a third adds nothing
to a handler that keeps one value across its accesses. *Instances* (32 in the source):
a call may find none at any time (`EnterMissed`; `probed` in `CutoffProbes`), whatever
their number. *Two settings* of the thresholds differ in two words, so that root passes
through two half-written ones, and one of them is at the lower bound. The vendor's
triple agrees with each setting in some words, so that the comparison finds equal and
unequal ones. The *foreign object* has two triples, one of which passes the check in
two places, so its words change while they are read. *IntModulus* 65536 instead of
2^32 only needs to be larger than the readings; the ceilings include one that is negative as an int. The readings are
below zero, ordinary, and hot. The initial value 0 of `raw_fg_temperature` is in
every run. *Three entries* of the probe table are a first, a last and one in
between: the loops treat all entries alike. *Two loads* let a call of the first
return under the second. *Two entries* in `runtime` are one before and one of the FG
hooks, which the order of the table distinguishes; the clamp is off there and root
does not write, which the theorem `HotReadingIsObeyed` covers for any ceilings and writes.
*Six calls* of two instances take counters of four values all the way round, but not within one search
(`MaxOverlap` is 2, the most that `RingAssumption` allows here; with 3, TLC loses an
instance to the ABA case). *Three attempts* (90 in the source) are a first, a middle and
a last one. *Three builds by two builders and two packagings* let two builds run side by side, or one
after the other around every step of packaging, and a packaging follow another.

Deadlock is checked in `rewrite_*`, `fg_*` and `cutoff`, where the sensor may always
move and vendor tasks may always call. It is off where the bounds or the system end
the behaviour: loads (`lifecycle`, `runtime`), calls (`pool_safety`), builds
(`build_safety`), and the boot scripts, which end.

Symmetry is used where CPUs, calls or builders are interchangeable
and the run checks safety only.

**Fairness.** `FgTemperature`: a handler, being straight-line code with preemption
off, and the vendor function terminate (weak fairness of each task's step); the
charging policy polls the temperature as long as it runs, and instances are
returned, so a probed call with a valid pointer keeps happening (strong fairness).
`CutoffProbes`: the same for the calls with an instance of each context; `ThresholdsSettle`
asks, besides, that calls without a handler come to an end, since one that keeps storing
would undo the module's values for ever. `ProbeLifecycle`: `init` and `exit` run on, and handlers end (weak fairness); a vendor function may
sleep for ever, and `LoaderCompletes` holds all the same. `ChargeRuntime`: `init` and
`exit`, the FG calls, and polling through the FG hooks for as long as they are hooked;
nothing is asked of the rewritten calls. `BootService`: the shell, and `init` under an
insmod in progress; the vendor's modules need not come up. No fairness is assumed of
root, of rmmod, of the battery or of which task calls. `InstancePool` and `BuildGate`
state safety only.

## 4. What the violation runs show

* `rewrite_crossing`: the divider and cap handlers check for 58 °C, raise the
  current, and read the temperature a second time before limiting it. If the
  battery is at 55-58 °C for the first read and a reading of 58 °C or more is
  published before the second, the raised current (up to 22 A) is handed to the
  vendor unmodified. `OneTemperatureUnlessCrossing58` says that this is the only way
  to mix two temperatures when the switches do not change.
* `fg_negative`: a reading below 0 °C, stored as unsigned, reads as band 2 and
  shows as about 4294967246 in sysfs.
* `fg_failed`: the return handler does not look at what the vendor function returned. If
  that function returns without storing, into an int which its caller has used before,
  what is published is the ceiling that an earlier call's hook left there, and the tables
  run on the clamp they are documented not to depend on. Whether the vendor's functions
  can fail like this is not visible in the repository. Where they always store,
  `RawIsUnmodified` holds (run `fg`, theorem `PublishedIsUnmodified`).

Read off the code while modelling, and not the subject of a run:

* README.md:37 promises 4.52 V between 48 and 55 °C; the voltage table (179-183) makes
  no difference there and yields 4540 or 4530 mV for two vendor values.
* README.md:39 says that the vendor's value is kept from 58 °C on. The twelve rewriting
  entries are registered before the FG hooks and removed after them, and
  `raw_fg_temperature` starts at 0: until the first reading is published a call is
  rewritten as if the battery were cold. `HotReadingRetains` therefore speaks of
  hooks that have settled, and `WindowCloses` says that the window at the start ends. At
  the end there is no such promise: between the removal of the FG hooks and that of the
  rewriting ones the last value stays, whatever the battery does.
* Nothing orders two tasks that publish (482-483): a handler that read the battery before
  it reached 58 °C may publish after one that read it later, and the tables go on with the
  older reading until the next call. `HotReadingIsPublished` begins when no such call is
  left, `RawFollowsBattery` says that the last word is the battery's.
* A `temperature_ceiling` of 2^31 or more is a negative int (486): every reading above it
  is replaced by a negative one. `NeverRaised` allows it, `CeilingHolds` is about ceilings
  that are positive ints.
* service.sh runs insmod once (20): a failure that waiting would have mended, as that of a
  hooked symbol whose module comes up later, or a lack of memory, leaves the device
  without the module until the next boot. `InsmodWhenReady` says when it tries, not that
  trying succeeds.
* uninstall.sh leaves behind a module that is still in `init` at its rmmod, and drops the
  message (4). `UninstallLeavesNothing` excepts it, and the run `boot` reaches it.
* README.md:118-120 lists vermagic and the architecture among what the build checks;
  the script prints vermagic (170) and compares neither.
* Packaging asks only whether `out/K100PM_CHG_RUNTIME.ko` exists (16), and a build that
  fails a check leaves it there: `VouchedIsChecked` is about modules of builds that
  ended successfully.
* Two builds may use one output directory. The sections, type ids and imports of a file
  that its own build reports have been checked all the same, but `crc_check` (162) may
  have been overwritten by the other build between node and the comparison, so that the
  build ends successfully with a module whose CRCs differ. `VouchedIsChecked` therefore
  promises the CRCs only for a build that was alone in its directory.
* A cutoff parameter outside 2500-3300 is written into the context once and then fails
  the range check of line 520, so that no later setting is applied unless the vendor
  stores its own thresholds again. `ThresholdsSettle` is about settings in range.

## 5. Proofs

`RewriteProofs` proves, for any CPUs, handlers, inputs, temperatures, parameter
sets, counter width and number of calls (assumptions: the named `ASSUME`s of
`RewriteProbes`, which only give the constants their types):

* `TypeCorrect`: `TypeOK` with `ShapeOK`, which says what is set in an activation at
  each label. Type correctness alone is not inductive: a map step jumps to `then`,
  so one must know that it was set, and a store indexes the counters by a field
  that may hold anything before attribution.
* `Retained58`: `RetainedAbove58`. Inductive with `RetainInv`: the temperature in
  force is among those seen; while all of these are 58 °C or more, the local value
  is still the argument and a gated handler is at its gate or done.
* `Recovery55`: `UngatedRecoverAbove55`. Inductive with `RecoveryInv`: the local value,
  too, is the argument or the recovery target. Of the gated handlers it is false:
  `rewrite_crossing` is the counterexample.
* `HitCountersSound` (`HitsNeverOvercount`) and `SomeHitsAreShown`
  (`ZeroHitsMeansNoRewrite`). Inductive with: what an activation has loaded does not
  exceed the increments completed (`CountInvariant`).
* `RewritesKeepThePromise`: the refinement `RewritesAsPromised`, for all seven handlers
  and whatever root writes. Initial states map to initial states, and every step to an
  answer of `SnapshotRewrite`, to a step of its environment or to a stutter (`InitMaps`,
  `StepMaps`). The invariants behind it explain at each place what the handler has
  computed by what it has seen. `ExplainInv`, for the handlers without a gate: the state
  in force is among what has been seen (`Current`), and until its last table has been
  applied, the value is the argument or what one table makes of it at one temperature
  (`Curved`). A call that goes through two tables still answers for one temperature
  because of `TablesDoNotChain`: no target of the fast curve is a key of the PPS table.
  `LookInv`, for the gated handlers: what the second half reads is unrelated to what the
  first one read, so a raised value may go out unlimited, also at one constant
  temperature. Nothing else can happen: `Looked` says which settings have been seen at
  each place, and that the value is the argument or one that a first look finds. The
  argument itself may be one that no first look finds: the PPS map reads the temperature
  twice and leaves the value alone when the first read is of the recovery band and the
  second is not. It ends as an answer all the same, because a first look keeps every key
  of the recovery band among the keys (`RecoveryAnswer`).
* `OneTemperature58`: `OneTemperatureUnlessCrossing58` for all seven handlers, while root
  does not write. The gated handlers read `boost` and `pps` twice; with constant
  parameters `Stepped` relates the second read to what was computed after the first.
* `PpsHitsAreEarned`: `PpsHitsNeedPps`, while root does not write, by `AttributeInv`: an
  activation on its way to `pps_hits` has been rewriting with `pps` on.

Each step that a handler makes changes one activation; `HandleFrame` states that
once, and the invariants are then proved action by action.

`FgProofs` proves, for any tasks, hooked functions, instances, int width and
ceilings, with root writing and probes going at any time, `FgTypeCorrect`,
`ClampOnlyLowers` (`NeverRaised`), `CeilingIsKept` (`CeilingHolds`), `PublishedStaysHot`
(`HotReadingIsPublished`) and `PublishedIsUnmodified` (`RawIsUnmodified`). All but the
first rest on an assumption about code that is not in the repository, `PrivateInts`: no
two callers pass the address of one int. Without it a handler could read what another
one has lowered. The last two also assume that vendor calls store (`~VendorMayFail`):
`fg_failed` is the counterexample without it.

* Types need no more than that a handler goes on to read only where its pointer is not
  NULL (`TypeInv`).
* `ClampOnlyLowers` follows from `FgInv` (`FgInvariant`): at each place of the return
  handler, `Held` says how the caller's int, the handler's copy of it and the ceiling it
  read relate to what the vendor left. `OthersHeld` is the frame (a step of one task does
  not disturb `Held` of another, by `PrivateInts`), and there is a lemma for each group of
  steps.
* `CeilingIsKept` needs `CeilInv` besides: while root has not written since the vendor
  function returned (`kept`), the ceiling a handler has read is still the parameter's
  value, and one that is done has not left more in the int. When root lowers the ceiling
  during a call, that call may still return more, which is why the property excepts it.
* The two about what is published follow from `Steady`: what is published is a reading of
  the battery; a sample marked hot is one of 58 °C or more, which the conversion to
  unsigned does not change; and while the hooks are settled no call is overdue, so that
  the next to publish publishes a hot one. That needs more than the state of the last
  handler, which is why `settled` speaks of all calls in progress.

`LifecycleProofs` proves, for a table of any length and any number of loads and of
tasks with calls in flight, `LifecycleTypeCorrect`, `CountIsExact`
(`CountNamesTheHooks`), `LoadIsAllOrNothing` (`AllOrNothing`) and `HandlersEndFirst`
(`CodeOutlivesHandlers`), all from `LifecycleInv`. Its strengthenings are `LoopInv`
(the loop variable and `k100pm_registered` move together, so an entry is left when one
is registered) and `HandlersHeld` (a running handler belongs to this load and to an
armed entry, or the grace period in progress waits for it). `CodeOutlivesHandlers`
alone does not say why the memory may go: that needs `HandlersHeld` at the end of the
last grace period.

`CutoffProofs` proves, for any tasks, contexts, thresholds of the vendor and parameters,
with calls that have no handler or lose it, `CutoffTypeCorrect`, `ForeignIsSafe`
(`ForeignObjectUntouched`) and `ThresholdsReplaced` (`QuiescentTarget`), from `CutoffInv`.
`ForeignInv` says that an implausible field stays so in memory and in what a handler has
read of it: the three reads need not be of one moment, and no handler comes past
`Compare` all the same. `QuiescentTarget` says something of quiet states only, and is
about the last of several racing calls. The invariant behind it says of every state that
a field which differs from the module's value in a context that a clean handler is in,
or has been through, has a call in progress that is going to fix it, or at least to look
(`WillFix`): the vendor function of a call with a handler, or a handler whose loop has
not passed the field. A call that stores without a handler ends this for its context
until a handler has begun after it. When a handler decides that nothing is to be
written, a field that differs must have been stored after the read, by a call that is
itself still in progress.

`RuntimeProofs` proves, for the composition with any table of the required order, callers
and FG tasks, and root writing:

* `RuntimeTypeCorrect` and `PartsBehave`: the composition implements `ProbeLifecycle`,
  `FgTemperature` and `RewriteProbes`, so that every theorem above holds in it, under the
  assumptions it has there;
* `HotReadingIsObeyed` (`HotReadingRetains`), assuming `PrivateInts` and `~VendorMayFail`;
* `PartsKeepTheirPromises`, assuming `PrivateInts`: six safety properties of the three
  components together; `ReadingsReachTheHandlers` (`RawIsUnmodified` and
  `HotReadingIsPublished`), assuming `~VendorMayFail`, too; `RewritesForOneTemperature`, while
  root does not write;
* `RewritingAsPromised`: the refinement of `SnapshotRewrite`.

The three proof modules are instantiated and their step lemmas used as they are;
`SameLifecycle`, `SameFg` and `SameRewriting` identify the definitions of the component
with those its proofs are about. New in the composition are the invariant that an
activation in progress is one the lifecycle counts among its readers (`Together`), and
`WarnedInv`: while the FG hooks are settled, every temperature that a call has seen since
its warning is one of 58 °C or more.

`BootProofs` proves, for any list of awaited modules and number of attempts, with root
acting at any time, `BootTypeCorrect`, `ServiceTriesWhenReady` (`InsmodWhenReady`) and
`UninstallIsClean` (`UninstallLeavesNothing`). `BootInv` adds that the service waits for
its own insmod only, that directories it has seen stay, that an attempt that ends in a
sleep began before the modules were all there, and that between the test of
`uninstall.sh` and its rmmod no initialisation is in progress that is not `touched`.

`BuildProofs` proves, for any builders and number of builds and packagings,
`BuildTypeCorrect`, `VouchedPassedTheChecks` (`VouchedIsChecked`) and `ReportIsTrue`
(`ReportedZipIsWhole`). `LinkedPasses` says which defects the file of a build that is
still its own cannot have at each label and, with `CrcPasses`, that in a directory with one
build what node has read, and `crc_check` after it, are those of the file
there; `StillAlone`, that a build which has been alone has no other beside it; `Staged`,
what the stage directory and the archive hold before each command.

`PoolProofs` proves, for any number of CPUs, calls and instances, any capacity and
width of the counters, and rings whose counters stand anywhere, `PoolTypeCorrect`,
`InstancesAreKept` (`NothingLost`), `RingsHaveRoom` (`NeverWarns`), `RestingIsFound`
(`MissedOnlyInMotion`) and `OneOwner` (`ExclusiveOwnership`, the refinement of
`InstanceOwners`). All follow from `PoolInv`:

* `OwnInv`: every instance is at one live position of one ring or held by one call. The
  positions are those from `head` up to `last`, as values of the wrapping counters.
* `PushInv`: a push has its CPU's ring to itself (`SoloInv`: interrupts are off), so
  that `tail` is what it read and the entry it wrote is still there when it moves `last`.
* `MoveInv`: each step of a head ends the search of a call of its own, so that the way
  a head has come since a pop read it, with the searches in progress, does not exceed
  the pops begun since, with one for each CPU, which is less than `Modulus`. A head that
  equals what a pop has read has therefore not moved since: this excludes the ABA case.
* `SearchInv`: while the head is the one a pop has read, the entry at it is the one it
  has fetched. This is why the compare-and-exchange of an entry read before it is sound.
* `RestInv`: an instance that has been at rest since a pop began lies at a position
  that the pop has not gone past.

`RingsHaveRoom` needs that a ring never holds more than all the instances (`RoomInv`,
an injection of live positions into `Instances`). The proof shows that safety does not
rest on the comparison of line 65 of `objpool.h` against a stale `head`, which only
saves an attempt. One limit remains, which the code has, too: the pops that overlap one
search are fewer than a counter has values (`NumCPUs + MaxOverlap <= Modulus` in
`RingAssumption`; 2^32 in the source). It is a limit on what happens during one search,
where it cannot be dispensed with, not on the calls of a behaviour: `MaxCalls` is any
number, and the counters come round as often as they may.

What the theorems assume, besides the types of the constants, in one place:

* `PrivateInts`, of code outside the repository, for `ClampOnlyLowers`, `CeilingIsKept`,
  `PublishedStaysHot`, `PublishedIsUnmodified`, `HotReadingIsObeyed`,
  `PartsKeepTheirPromises` and `ReadingsReachTheHandlers`;
* `~VendorMayFail`, also of that code: a vendor function stores through a pointer that is
  not NULL, for `PublishedStaysHot`, `PublishedIsUnmodified`, `HotReadingIsObeyed` and
  `ReadingsReachTheHandlers`. The runs `fg` and `runtime` make the same assumption;
* root does not write, for `OneTemperature58`, `PpsHitsAreEarned` and
  `RewritesForOneTemperature`; `ThresholdsReplaced` says it in its property (`~changed`),
  `CeilingIsKept` for one call at a time;
* fewer pops overlap one search than a counter has values, for `InstancePool`;
* of `ChargeRuntime`, `OrderAssumption`, `DisjointAssumption`, `TableAssumption`,
  `ParamAssumption`, `PointerAssumption`, `IntAssumption` and `SwitchAssumption`: the order of
  the table, and what the three components ask of their own constants.

Only model-checked: liveness (`RawFollowsBattery`, `ThresholdsSettle`, `LoaderCompletes`,
`WindowCloses`, `ServiceEnds`). It depends on fairness and so on ENABLED, which the
prover does not handle. The properties of the two violation runs are false of the
code and have counterexamples instead of proofs. Every other property of a run is
stated by a theorem.

## 6. Plan

1. Done: every component of the inventory with state of its own, the composition of
   the temperature path, and the theorems of section 5.
2. Done: every safety property and both refinements that a run checks are theorems.
3. Done: what the gated handlers promise while the parameters do change, and the
   invariants of the three components as theorems of their composition.
4. Left: a second load in `ChargeRuntime`, whose `MaxLoads` is 1, where
   `raw_fg_temperature` and the parameters start again from their initial values.

## 7. Not modelled

* Logging (`observe`) has no state but the flag it prints under.
* The baselines (`abi/`, `crc/`, `kfci/`) are data; the build models what is compared
  with them by its outcome.
* `kheaders/` is 1.1 million lines of the target kernel's declarations, nearly all of
  the repository's text. The inline code the module's behaviour depends on (the
  instance pool, the orphaning of instances) is modelled; the rest is not this
  project's program, so the modelled share of all lines stays small by nature. Of the
  682 lines of the module and the scripts next to it every statement that changes
  state is modelled; the ELF parsing of `extract_module_crcs.mjs` is part of the
  outcome of `ReadCrcs`.
* The vendor's functions and kprobes itself are modelled from what the module relies on.
* Memory ordering: accesses are interleaved as if memory were sequentially consistent.
  The compiler keeps `READ_ONCE` and `WRITE_ONCE` accesses in order, but the reordering
  of accesses to different globals by an arm64 CPU is not modelled.
* `ChargeRuntime` covers one load; a second one is in `lifecycle`. It leaves out the
  cutoff hooks, which share no state with the temperature path.
* What a vendor function does in the composition other than storing: `VendorMayFail` and
  root's writes are FALSE in the run `runtime`, where they would multiply the states, and
  unrestricted in `RuntimeProofs` but for the assumptions listed in section 5.
* `llvm-nm` failing on a file that exists (build script, 153), and the removal of old
  configuration files by `service.sh` (9), which nothing reads.
