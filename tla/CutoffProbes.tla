----------------------------- MODULE CutoffProbes -----------------------------
(***************************************************************************)
(* The shutdown-threshold hooks of K100PM_CHG_RUNTIME.c (lines 496-552, on *)
(* fg_update_status and mca_battery_shutdown_update_vcutoff_para).  After  *)
(* the vendor function returns, the handler reads the three vcutoff fields *)
(* of the FG context it was called with and, when they look like           *)
(* thresholds, replaces them by the module's.                              *)
(*                                                                         *)
(* Nothing orders the two hooks, the vendor's own writes to the fields and *)
(* root's writes to the parameters: every action makes one shared access.  *)
(* What the vendor functions store is external: the handler assumes no     *)
(* more than that they may store the fields, in any order.  A call may run *)
(* without the module: begun before its probe was registered, missed for   *)
(* want of an instance (maxactive 32), or its probe unregistered before it *)
(* returned.  What such a call stores, no handler looks at.                *)
(***************************************************************************)
EXTENDS Integers

CONSTANTS
  Tasks,         \* tasks that call a hooked function
  Contexts,      \* FG contexts (regs[0] of the calls)
  NullContext,   \* a NULL regs[0]
  VendorTriples, \* VendorTriples[x]: the thresholds the vendor stores in x
  VendorStored,  \* VendorStored[x]: the sets of fields a call may store in x
  Targets,       \* values of cutoff_fw_mv, cutoff_delay_mv, cutoff_sw_mv
  CutoffValues,  \* values of cutoff
  SysfsWrites,   \* TRUE when root writes the parameters of the loaded module
  HitModulus     \* cutoff_hits is an unsigned int

Fields == {"fw", "delay", "sw"}
Triples == [Fields -> Nat]

ASSUME ContextAssumption ==
  /\ NullContext \notin Contexts
  /\ \A x \in Contexts : VendorTriples[x] \subseteq Triples /\ VendorTriples[x] # {}
  /\ \A x \in Contexts : VendorStored[x] \subseteq SUBSET Fields
ASSUME TargetAssumption == Targets \subseteq Triples /\ CutoffValues \subseteq BOOLEAN
ASSUME EnvironmentAssumption == SysfsWrites \in BOOLEAN
ASSUME ModulusAssumption == HitModulus \in Nat \ {0}

VARIABLES
  mem,         \* mem[x]: the three fields of context x
  cutoff, target,  \* the parameters
  cutoff_hits,
  call,        \* call[k]: the hooked call task k is in
  handled,     \* history: the contexts a handler has been through since the
               \* last call without one stored in them
  clean,       \* history: the tasks whose handler began since then
  changed      \* history: root has written a parameter

parameters == <<cutoff, target, changed>>
history == <<handled, clean>>
vars == <<mem, cutoff_hits, call, parameters, history>>

Zeros == [f \in Fields |-> 0]
IdleCall == [pc |-> "idle", arg0 |-> NullContext, probed |-> FALSE, storing |-> {},
             field |-> "fw", old |-> Zeros, value |-> 0, loaded |-> 0]

Init ==
  /\ mem \in [Contexts -> UNION {VendorTriples[x] : x \in Contexts}]
  /\ \A x \in Contexts : mem[x] \in VendorTriples[x]
  /\ handled = {} /\ clean = {}
  /\ changed = FALSE
  /\ cutoff \in CutoffValues
  /\ target \in Targets
  /\ cutoff_hits = 0
  /\ call = [k \in Tasks |-> IdleCall]

At(k, label) == call[k].pc = label

\* A step of k's call that writes nothing shared.
Continue(k, record) ==
  /\ call' = [call EXCEPT ![k] = record]
  /\ UNCHANGED <<mem, cutoff_hits, parameters, history>>

\* The order in which the handler visits the fields, and where it goes after
\* the last one.
NextField(f) == CASE f = "fw" -> "delay" [] f = "delay" -> "sw" [] OTHER -> "fw"
Advance(r, next) ==
  [r EXCEPT !.field = NextField(@), !.pc = IF r.field = "sw" THEN next ELSE @]

\* The call is about to return to its caller.
Leaving(r) == [IdleCall EXCEPT !.pc = "done", !.arg0 = r.arg0, !.probed = r.probed]

(* k100pm_cutoff_values_valid.                                             *)

\* Mutant: the lower bound is excluded.
PlausibleExclusive(v) == v > 2500 /\ v <= 3300

Plausible(v) == v >= 2500 /\ v <= 3300
\* Mutant: the software threshold is not checked.
ValuesValidTwo(triple) == \A f \in Fields \ {"sw"} : Plausible(triple[f])

ValuesValid(triple) == \A f \in Fields : Plausible(triple[f])

\* The contexts in which the vendor only ever stores such values.
Ordinary(x) == \A triple \in VendorTriples[x] : ValuesValid(triple)
FgContexts == {x \in Contexts : Ordinary(x)}

\* No handler follows a store in context x.
Disturb(x) ==
  /\ handled' = handled \ {x}
  /\ clean' = {k \in clean : call[k].arg0 # x}

-----------------------------------------------------------------------------
\* k100pm_cutoff_entry keeps regs[0], if the call has a probe and an instance;
\* the vendor function runs and may store thresholds in its context.
Enter(k, x, fields, probed) ==
  /\ At(k, "idle")
  /\ Continue(k, [IdleCall EXCEPT !.pc = "vendor", !.arg0 = x, !.probed = probed,
                                  !.storing = fields])

VendorStores(k, f) ==
  LET r == call[k] IN
  /\ At(k, "vendor")
  /\ f \in r.storing
  /\ \E triple \in VendorTriples[r.arg0] : mem' = [mem EXCEPT ![r.arg0][f] = triple[f]]
  /\ call' = [call EXCEPT ![k].storing = @ \ {f}]
  /\ IF r.probed THEN UNCHANGED history ELSE Disturb(r.arg0)
  /\ UNCHANGED <<cutoff_hits, parameters>>

Returning(k) == At(k, "vendor") /\ call[k].storing = {}

\* The call returns into k100pm_cutoff_return.
VendorReturns(k) ==
  /\ Returning(k) /\ call[k].probed
  /\ call' = [call EXCEPT ![k].pc = "return"]
  /\ clean' = IF call[k].arg0 \in FgContexts THEN clean \cup {k} ELSE clean
  /\ UNCHANGED <<mem, cutoff_hits, parameters, handled>>

\* The call returns to its caller: it had no instance, or lost its probe.
VendorReturnsUnseen(k) ==
  /\ Returning(k)
  /\ call' = [call EXCEPT ![k] = [Leaving(@) EXCEPT !.probed = FALSE]]
  /\ IF call[k].probed THEN Disturb(call[k].arg0) ELSE UNCHANGED history
  /\ UNCHANGED <<mem, cutoff_hits, parameters>>

-----------------------------------------------------------------------------
(* k100pm_apply_cutoff.                                                    *)

ReadCutoff(k) ==
  /\ At(k, "return")
  /\ Continue(k, IF cutoff /\ call[k].arg0 # NullContext
                 THEN [call[k] EXCEPT !.pc = "read"] ELSE Leaving(call[k]))

\* old_fw, old_delay and old_sw are read one after the other, then checked.
ReadField(k) ==
  LET r   == call[k]
      old == [r.old EXCEPT ![r.field] = mem[r.arg0][r.field]]
  IN  /\ At(k, "read")
      /\ Continue(k, IF r.field = "sw" /\ ~ValuesValid(old) THEN Leaving(r)
                     ELSE Advance([r EXCEPT !.old = old], "compare"))

\* Mutant: || instead of &&.
CompareAny(k) ==
  LET r == call[k] IN
  /\ At(k, "compare")
  /\ Continue(k, IF r.old[r.field] = target[r.field] THEN Leaving(r) ELSE Advance(r, "fetch"))

\* old_fw == READ_ONCE(cutoff_fw_mv) && ...
Compare(k) ==
  LET r == call[k] IN
  /\ At(k, "compare")
  /\ Continue(k, IF r.old[r.field] # target[r.field]
                   THEN [r EXCEPT !.pc = "fetch", !.field = "fw", !.old = Zeros]
                 ELSE IF r.field = "sw" THEN Leaving(r)
                 ELSE [r EXCEPT !.field = NextField(@)])

\* WRITE_ONCE(*fw, READ_ONCE(cutoff_fw_mv)): a read and then a write.
Fetch(k) ==
  LET r == call[k] IN
  /\ At(k, "fetch")
  /\ Continue(k, [r EXCEPT !.pc = "write", !.value = target[r.field]])

Write(k) ==
  LET r == call[k] IN
  /\ At(k, "write")
  /\ mem' = [mem EXCEPT ![r.arg0][r.field] = r.value]
  /\ call' = [call EXCEPT ![k] = Advance([r EXCEPT !.pc = "fetch", !.value = 0], "load")]
  /\ UNCHANGED <<cutoff_hits, parameters, history>>

Load(k) ==
  /\ At(k, "load")
  /\ Continue(k, [call[k] EXCEPT !.pc = "store", !.loaded = cutoff_hits])

\* Mutant: the counter does not wrap.
StoreUnwrapped(k) ==
  /\ At(k, "store")
  /\ cutoff_hits' = call[k].loaded + 1
  /\ call' = [call EXCEPT ![k] = Leaving(@)]
  /\ UNCHANGED <<mem, parameters, history>>

Store(k) ==
  /\ At(k, "store")
  /\ cutoff_hits' = (call[k].loaded + 1) % HitModulus
  /\ call' = [call EXCEPT ![k] = Leaving(@)]
  /\ UNCHANGED <<mem, parameters, history>>

Return(k) ==
  /\ At(k, "done")
  /\ call' = [call EXCEPT ![k] = IdleCall]
  /\ handled' = handled \cup {call[j].arg0 : j \in clean \cap {k}}
  /\ clean' = clean \ {k}
  /\ UNCHANGED <<mem, cutoff_hits, parameters>>

-----------------------------------------------------------------------------
\* Root writes one parameter.
SetTarget(f, v) ==
  /\ SysfsWrites
  /\ changed' = TRUE
  /\ target' = [target EXCEPT ![f] = v]
  /\ UNCHANGED <<mem, cutoff, cutoff_hits, call, history>>

SetCutoff(on) ==
  /\ SysfsWrites
  /\ changed' = TRUE
  /\ cutoff' = on
  /\ UNCHANGED <<mem, target, cutoff_hits, call, history>>

\* A call on a context.
Call(k, x, probed) ==
  \E fields \in VendorStored[x] : Enter(k, x, fields, probed)

Progress(k) ==
  \/ \E f \in Fields : VendorStores(k, f)
  \/ VendorReturns(k) \/ VendorReturnsUnseen(k) \/ ReadCutoff(k) \/ ReadField(k) \/ Compare(k)
  \/ Fetch(k) \/ Write(k) \/ Load(k) \/ Store(k) \/ Return(k)

Next ==
  \/ \E k \in Tasks, x \in Contexts, probed \in BOOLEAN : Call(k, x, probed)
  \/ \E k \in Tasks : Enter(k, NullContext, {}, TRUE)
  \/ \E k \in Tasks : Progress(k)
  \/ \E f \in Fields, t \in Targets : SetTarget(f, t[f])
  \/ \E on \in CutoffValues : SetCutoff(on)

Spec == Init /\ [][Next]_vars

\* The vendor polls the FG status of every context, in calls that get an
\* instance, and its functions return.
Fairness ==
  /\ \A k \in Tasks : WF_vars(Progress(k))
  /\ \A x \in Contexts : SF_vars(\E k \in Tasks : Call(k, x, TRUE))
FairSpec == Spec /\ Fairness

-----------------------------------------------------------------------------
(* Properties.                                                             *)

Labels == {"idle", "vendor", "return", "read", "compare", "fetch", "write", "load",
           "store", "done"}

\* Type invariant of the shutdown-threshold hooks.
TypeOK ==
  /\ mem \in [Contexts -> Triples]
  /\ cutoff \in BOOLEAN
  /\ target \in Triples
  /\ cutoff_hits \in 0..(HitModulus - 1)
  /\ call \in [Tasks ->
       [pc: Labels, arg0: Contexts \cup {NullContext}, probed: BOOLEAN,
        storing: SUBSET Fields, field: Fields, old: Triples, value: Nat, loaded: Nat]]
  /\ handled \subseteq FgContexts /\ clean \subseteq Tasks
  /\ changed \in BOOLEAN

AllIdle == \A k \in Tasks : At(k, "idle")

\* The thresholds are rewritten to the module's (README.md:43-49): with the
\* parameters as insmod set them and in range, a context that a handler has
\* been through since the last store no handler followed (a call without probe
\* or instance, or one that lost its probe) holds exactly the module's three
\* values whenever no call is in progress, however the two hooks, the vendor's
\* writes and the calls without a handler raced.
QuiescentTarget ==
  AllIdle /\ ~changed /\ cutoff /\ ValuesValid(target) =>
    \A x \in handled : mem[x] = target

\* The range check of lines 496-500 tells a threshold block from anything
\* else (line 520): an object that always has a value out of range in
\* the place of one of the fields is never written by the module, whatever
\* is stored in the others while the three are read.
Foreign(x) == \E f \in Fields : \A triple \in VendorTriples[x] : ~Plausible(triple[f])
ForeignObjectUntouched ==
  \A k \in Tasks : call[k].pc \in {"fetch", "write", "load", "store"} => ~Foreign(call[k].arg0)

\* The settings root can reach by writing one parameter at a time.
Settings == {t \in [Fields -> UNION {{s[f] : f \in Fields} : s \in Targets}] :
               \A f \in Fields : \E s \in Targets : t[f] = s[f]}

\* Every call in progress on a context is one a handler will look after.
Covered == \A k \in Tasks : ~At(k, "idle") /\ call[k].arg0 \in Contexts => call[k].probed

\* Root may write the three parameters and cutoff one by one, and calls may
\* run without a handler, while others compare and store: when root stops with
\* cutoff on and values in range, and calls get their handlers again, every
\* context settles at the values root left.
ThresholdsSettle ==
  \A t \in {s \in Settings : ValuesValid(s)} :
    <>[](target = t /\ cutoff /\ Covered) =>
      <>[](AllIdle => \A x \in FgContexts : mem[x] = t)
=============================================================================
