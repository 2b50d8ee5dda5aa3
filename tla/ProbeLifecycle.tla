---------------------------- MODULE ProbeLifecycle ----------------------------
(***************************************************************************)
(* Registration and removal of the probes of K100PM_CHG_RUNTIME.c (lines   *)
(* 560-676): init registers the entries of k100pm_probes one by one and    *)
(* unwinds when one of them fails, exit removes them in reverse order.     *)
(* Vendor tasks call the hooked functions all the while, and the memory of *)
(* the module, with the handlers in it, goes away as soon as a failed init *)
(* or exit returns.                                                        *)
(*                                                                         *)
(* External, modelled by what init and exit rely on: insmod and rmmod run  *)
(* one at a time; register_kretprobe arms one entry or fails;              *)
(* unregister_kretprobe disarms one and then waits for the handlers that   *)
(* are running (a grace period), but not for calls that are still inside   *)
(* the vendor function.                                                    *)
(***************************************************************************)
EXTENDS Integers

CONSTANTS
  N,           \* ARRAY_SIZE(k100pm_probes): 16 in the source
  Tasks,       \* tasks that call hooked functions
  ArmedValues, \* values of armed, at insmod and through sysfs
  MaxLoads     \* bound on the number of insmods

ASSUME TableAssumption == N \in Nat \ {0}
ASSUME LoadAssumption == ArmedValues \subseteq BOOLEAN /\ MaxLoads \in Nat

Entries == 0..(N - 1)

VARIABLES
  loader,      \* where insmod, init, exit or rmmod is
  armed,       \* the parameter
  i,           \* init's loop index
  k100pm_registered,
  hooked,      \* the entries whose kretprobe is armed
  readers,     \* the handlers the grace period in progress waits for
  loads,       \* number of insmods so far; names the current module instance
  call         \* call[k]: the hooked call task k is in

loaderVars == <<loader, armed, i, k100pm_registered, hooked, loads>>
vars == <<loaderVars, readers, call>>

IdleCall == [pc |-> "idle", probe |-> 0, load |-> 0]

Init ==
  /\ loader = "absent"
  /\ armed \in ArmedValues
  /\ i = 0
  /\ k100pm_registered = 0
  /\ hooked = {}
  /\ readers = {}
  /\ loads = 0
  /\ call = [k \in Tasks |-> IdleCall]

\* The tasks whose call is executing a handler, that is, code of the module.
InHandler == {k \in Tasks : call[k].pc \in {"entry", "return"}}

-----------------------------------------------------------------------------
(* The loader.                                                             *)

\* insmod maps a fresh image (statics at their initial values), sets the
\* parameters and calls init.
Insmod(a) ==
  /\ loader = "absent"
  /\ loads < MaxLoads
  /\ loader' = "init"
  /\ armed' = a
  /\ i' = 0
  /\ k100pm_registered' = 0
  /\ loads' = loads + 1
  /\ UNCHANGED <<hooked, readers, call>>

\* if (!READ_ONCE(armed)) return 0;
ReadArmed ==
  /\ loader = "init"
  /\ loader' = IF armed THEN "register" ELSE "loaded"
  /\ UNCHANGED <<armed, i, k100pm_registered, hooked, readers, loads, call>>

\* ret = register_kretprobe(&k100pm_probes[i]): from here on vendor calls run
\* the handlers of entry i.
RegisterOk ==
  /\ loader = "register"
  /\ hooked' = hooked \cup {i}
  /\ loader' = "count"
  /\ UNCHANGED <<armed, i, k100pm_registered, readers, loads, call>>

\* -ENOENT for a missing symbol, -ENOMEM, ...: back out.
RegisterFails ==
  /\ loader = "register"
  /\ loader' = "unwind"
  /\ UNCHANGED <<armed, i, k100pm_registered, hooked, readers, loads, call>>

CountUpTo(last) ==
  /\ loader = "count"
  /\ k100pm_registered' = k100pm_registered + 1
  /\ i' = i + 1
  /\ loader' = IF i + 1 < last THEN "register" ELSE "loaded"
  /\ UNCHANGED <<armed, hooked, readers, loads, call>>

\* Mutants: the loop stops one entry early, or runs past the table.
CountShort == CountUpTo(N - 1)
CountLong == CountUpTo(N + 1)

\* k100pm_registered++ and the loop's i++ and test.
Count == CountUpTo(N)

\* rmmod calls exit.
Rmmod ==
  /\ loader = "loaded"
  /\ loader' = "exit"
  /\ UNCHANGED <<armed, i, k100pm_registered, hooked, readers, loads, call>>

Waiting(at) == CASE at = "unwind" -> "unwindWait" [] at = "exit" -> "exitWait"
Resumed(at) == CASE at = "unwindWait" -> "unwind" [] at = "exitWait" -> "exit"

\* A turn of the loop that unregisters entry e: it is disarmed at once, and
\* the grace period waits for the handlers that are running now.
RemoveEntry(e, remaining) ==
  /\ loader \in {"unwind", "exit"}
  /\ k100pm_registered > 0
  /\ k100pm_registered' = remaining
  /\ hooked' = hooked \ {e}
  /\ readers' = InHandler
  /\ loader' = Waiting(loader)
  /\ UNCHANGED <<armed, i, loads, call>>

\* Mutants: the index is decremented after its use, or not at all.
RemovePostDecrement == RemoveEntry(k100pm_registered, k100pm_registered - 1)
RemoveUncounted == RemoveEntry(k100pm_registered - 1, k100pm_registered)

\* while (k100pm_registered)
\*         unregister_kretprobe(&k100pm_probes[--k100pm_registered]);
Remove == RemoveEntry(k100pm_registered - 1, k100pm_registered - 1)

GracePeriodEnds ==
  /\ loader \in {"unwindWait", "exitWait"}
  /\ readers = {}
  /\ loader' = Resumed(loader)
  /\ UNCHANGED <<armed, i, k100pm_registered, hooked, readers, loads, call>>

\* Mutant: the error path of init returns without unwinding.
FreeUnwound ==
  /\ loader = "unwind" \/ (loader = "exit" /\ k100pm_registered = 0)
  /\ loader' = "absent"
  /\ UNCHANGED <<armed, i, k100pm_registered, hooked, readers, loads, call>>

\* init returns ret, or exit returns: the module's memory is freed.
Free ==
  /\ loader \in {"unwind", "exit"}
  /\ k100pm_registered = 0
  /\ loader' = "absent"
  /\ UNCHANGED <<armed, i, k100pm_registered, hooked, readers, loads, call>>

\* Root writes armed (mode 0600) while the module is there.
SetArmed(a) ==
  /\ loader # "absent"
  /\ armed' = a
  /\ UNCHANGED <<loader, i, k100pm_registered, hooked, readers, loads, call>>

Loader ==
  \/ ReadArmed \/ RegisterOk \/ RegisterFails \/ Count
  \/ Remove \/ GracePeriodEnds \/ Free

-----------------------------------------------------------------------------
(* Vendor calls.  A call that finds no probe, or no free instance, runs no *)
(* code of the module and is not tracked.                                  *)

Become(k, record) ==
  /\ call' = [call EXCEPT ![k] = record]
  /\ UNCHANGED loaderVars

\* The probe fires: the entry handler runs.
Enter(k, e) ==
  /\ call[k].pc = "idle"
  /\ e \in hooked
  /\ Become(k, [pc |-> "entry", probe |-> e, load |-> loads])
  /\ UNCHANGED readers

EntryReturns(k) ==
  /\ call[k].pc = "entry"
  /\ Become(k, [call[k] EXCEPT !.pc = "body"])
  /\ readers' = readers \ {k}

\* The vendor function returns into the kretprobe trampoline, which looks the
\* probe up: the instance of a probe that was removed meanwhile finds none,
\* even when a later load has hooked the same function again.
BodyReturns(k) ==
  /\ call[k].pc = "body"
  /\ Become(k, IF call[k].probe \in hooked /\ call[k].load = loads
                 THEN [call[k] EXCEPT !.pc = "return"] ELSE IdleCall)
  /\ UNCHANGED readers

\* k100pm_fg_temp_return, k100pm_cutoff_return or k100pm_noop_return ends.
HandlerReturns(k) ==
  /\ call[k].pc = "return"
  /\ Become(k, IdleCall)
  /\ readers' = readers \ {k}

Next ==
  \/ Loader \/ Rmmod
  \/ \E a \in ArmedValues : Insmod(a) \/ SetArmed(a)
  \/ \E k \in Tasks :
       \/ \E e \in Entries : Enter(k, e)
       \/ EntryReturns(k) \/ BodyReturns(k) \/ HandlerReturns(k)

Spec == Init /\ [][Next]_vars

\* init, exit and the handlers are straight-line code and the kernel schedules
\* them; a vendor function may sleep for ever, and nobody has to load or
\* unload the module.
Fairness ==
  /\ WF_vars(Loader)
  /\ \A k \in Tasks : WF_vars(EntryReturns(k) \/ HandlerReturns(k))
FairSpec == Spec /\ Fairness

-----------------------------------------------------------------------------
(* Properties.                                                             *)

InitLabels == {"init", "register", "count"}
Labels == InitLabels \cup {"absent", "loaded", "unwind", "unwindWait", "exit", "exitWait"}

\* Type invariant of the loader and the calls.
TypeOK ==
  /\ loader \in Labels
  /\ armed \in BOOLEAN
  /\ i \in 0..N
  /\ k100pm_registered \in 0..N
  /\ hooked \subseteq Entries
  /\ readers \subseteq Tasks
  /\ loads \in 0..MaxLoads
  /\ call \in [Tasks -> [pc: {"idle", "entry", "body", "return"},
                         probe: Entries, load: 0..MaxLoads]]

\* k100pm_registered is all that exit and the error path of init know of what
\* init did (lines 656 and 670): it names the armed entries exactly, so that
\* no armed entry is left behind and none is unregistered twice, except
\* between a registration and the increment after it.
CountNamesTheHooks ==
  hooked = IF loader = "count" THEN 0..k100pm_registered ELSE 0..(k100pm_registered - 1)

\* The code of the module outlives its handlers: when the memory is freed,
\* after a registration that failed at any entry or after rmmod, no entry is
\* armed and no task is in a handler, whatever calls were in progress.
CodeOutlivesHandlers == loader = "absent" => hooked = {} /\ InHandler = {}

\* armed registers the hooks during module load (line 42): a module that
\* loaded has all of its probes or none of them, and root's later writes to
\* armed neither add nor remove one.
AllOrNothing == loader = "loaded" => hooked \in {{}, Entries}

\* Loading and unloading never hang: init ends with the module loaded or
\* backed out, and rmmod returns, although tasks keep calling the hooked
\* functions and although some never return from the vendor function.
LoaderCompletes ==
  /\ loader \in InitLabels ~> loader \in {"loaded", "absent"}
  /\ loader \in {"exit", "unwind"} ~> loader = "absent"
=============================================================================
