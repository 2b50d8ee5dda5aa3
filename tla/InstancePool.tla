----------------------------- MODULE InstancePool -----------------------------
(***************************************************************************)
(* The pool of kretprobe instances behind a hooked function: objpool_pop   *)
(* and objpool_push of kheaders/include/linux/objpool.h, which struct      *)
(* kretprobe_holder of kprobes.h uses on the target kernel.  The data of   *)
(* an instance (struct k100pm_probe_ctx) is what the FG and cutoff hooks   *)
(* keep from entry to return, so nobody else may be given the instance.    *)
(*                                                                         *)
(* Each CPU has a ring; a pop looks into the ring of its own CPU and then  *)
(* into the others, a push goes to the ring of the CPU it runs on.  Both   *)
(* run with interrupts off, so a CPU executes one operation at a time, but *)
(* CPUs interleave at every access.  Objects are pre-populated by          *)
(* objpool_init, which is external.                                        *)
(***************************************************************************)
EXTENDS Naturals, FiniteSets, Sequences

CONSTANTS
  NumCPUs,   \* pool->nr_possible_cpus
  Calls,     \* calls of the hooked function
  Instances, \* the objects; maxactive of them
  None,      \* NULL
  Capacity,  \* slot->mask + 1: a power of two, at least nr_objs
  Modulus,   \* head, tail and last are uint32_t
  Start,     \* where the rings' counters stand: anywhere after enough use
  Initial,   \* Initial[c]: the sequence of objects in the ring of c
  MaxCalls,  \* bound on the number of calls
  MaxOverlap \* bound on the pops that begin during one search.  With those
             \* of the other CPUs they are fewer than Modulus, so that no
             \* head comes round between its load and its compare-and-exchange

ASSUME RingAssumption ==
  /\ NumCPUs \in Nat \ {0} /\ Capacity \in Nat \ {0} /\ Modulus \in Nat \ {0}
  /\ Modulus % Capacity = 0 /\ Start \in 0..(Modulus - 1)
  /\ IsFiniteSet(Instances) /\ Cardinality(Instances) <= Capacity
  /\ Capacity < Modulus  \* OBJPOOL_NR_OBJECT_MAX is 1 << 24
  /\ None \notin Instances /\ MaxCalls \in Nat
  /\ MaxOverlap \in Nat /\ NumCPUs + MaxOverlap <= Modulus

CPUs == 0..(NumCPUs - 1)

\* objpool_init puts every object into one ring.
ASSUME InitialAssumption ==
  /\ Initial \in [CPUs -> Seq(Instances)]
  /\ \A o \in Instances : \E c \in CPUs : \E n \in 1..Len(Initial[c]) : Initial[c][n] = o
  /\ \A c, d \in CPUs : \A m \in 1..Len(Initial[c]), n \in 1..Len(Initial[d]) :
       Initial[c][m] = Initial[d][n] => c = d /\ m = n

NrObjs == Cardinality(Instances)
Plus(x, y) == (x + y) % Modulus
Minus(x, y) == (x + Modulus - y) % Modulus

VARIABLES
  slot,    \* slot[c]: the ring of CPU c
  call,    \* call[k]: the operation of call k, and the instance it holds
  calls,   \* number of calls so far
  overlap, \* history: the pops that began since k's search did
  resting  \* history: the instances that have been free in one ring ever
           \* since k's search began

vars == <<slot, call, calls, overlap, resting>>

IdleCall == [pc |-> "idle", cpu |-> 0, ring |-> 0, tries |-> 0, head |-> 0, tail |-> 0,
             obj |-> None, held |-> None]

Cells == 0..(Capacity - 1)
InitialEntry(c, j) ==
  LET places == {n \in 1..Len(Initial[c]) : (Start + n - 1) % Capacity = j}
  IN  IF places = {} THEN None ELSE Initial[c][CHOOSE n \in places : TRUE]

Init ==
  /\ slot = [c \in CPUs |->
       LET end == Plus(Start, Len(Initial[c]))
       IN  [head |-> Start, tail |-> end, last |-> end,
            entries |-> [j \in Cells |-> InitialEntry(c, j)]]]
  /\ call = [k \in Calls |-> IdleCall]
  /\ calls = 0
  /\ overlap = [k \in Calls |-> 0]
  /\ resting = [k \in Calls |-> {}]

At(k, label) == call[k].pc = label

Searching == {"head", "last", "stale", "reload", "fetch", "cas"}
Returning == {"tail", "warn", "claim", "put", "publish"}

\* Interrupts are off: nothing else runs on the CPU of an operation.
Free(c) == \A k \in Calls : call[k].cpu = c => call[k].pc \notin Searching \cup Returning

\* The cells of a ring that hold free instances: [head, last).
Window(c) == {j \in 0..(NrObjs - 1) : j < Minus(slot[c].last, slot[c].head)}
EntryAt(c, j) == slot[c].entries[Plus(slot[c].head, j) % Capacity]
InRing(c) == {EntryAt(c, j) : j \in Window(c)}

\* A step that writes nothing shared.
Continue(k, record) ==
  /\ call' = [call EXCEPT ![k] = record]
  /\ UNCHANGED <<slot, calls, overlap, resting>>
Goto(k, label) == Continue(k, [call[k] EXCEPT !.pc = label])

-----------------------------------------------------------------------------
(* objpool_pop, at the entry of a call.                                    *)

Enter(k, c) ==
  /\ At(k, "idle")
  /\ Free(c)
  /\ calls < MaxCalls
  /\ calls' = calls + 1
  /\ \A j \in Calls : call[j].pc \in Searching => overlap[j] < MaxOverlap
  /\ overlap' = [j \in Calls |-> IF call[j].pc \in Searching THEN overlap[j] + 1 ELSE 0]
  /\ call' = [call EXCEPT ![k] = [IdleCall EXCEPT !.pc = "head", !.cpu = c, !.ring = c]]
  /\ resting' = [resting EXCEPT ![k] = UNION {InRing(d) : d \in CPUs}]
  /\ UNCHANGED slot

\* smp_load_acquire(&slot->head)
LoadHead(k) ==
  LET r == call[k] IN
  /\ At(k, "head")
  /\ Continue(k, [r EXCEPT !.pc = "last", !.head = slot[r.ring].head])

SearchUpTo(k, limit) ==
  LET r == call[k] IN
  /\ At(k, "last")
  /\ Continue(k,
       CASE r.head # slot[r.ring].last -> [r EXCEPT !.pc = "stale"]
         [] r.head = slot[r.ring].last /\ r.tries + 1 < limit ->
              [r EXCEPT !.pc = "head", !.ring = (@ + 1) % NumCPUs, !.tries = @ + 1]
         [] OTHER -> [r EXCEPT !.pc = "missed"])

\* Mutant: the last ring is not looked into.
LoadLastShort(k) == SearchUpTo(k, NumCPUs - 1)

\* while (head != READ_ONCE(slot->last)): an empty ring, on to the next CPU's;
\* after the last one the result is NULL.
LoadLast(k) == SearchUpTo(k, NumCPUs)

\* if (READ_ONCE(slot->last) - head - 1 >= pool->nr_objs)
CheckStale(k) ==
  LET r == call[k] IN
  /\ At(k, "stale")
  /\ Goto(k, IF Minus(Minus(slot[r.ring].last, r.head), 1) >= NrObjs THEN "reload" ELSE "fetch")

Reload(k) ==
  LET r == call[k] IN
  /\ At(k, "reload")
  /\ Continue(k, [r EXCEPT !.pc = "last", !.head = slot[r.ring].head])

Fetch(k) ==
  LET r == call[k] IN
  /\ At(k, "fetch")
  /\ Continue(k, [r EXCEPT !.pc = "cas", !.obj = slot[r.ring].entries[r.head % Capacity]])

TakeIf(k, success) ==
  LET r == call[k] IN
  /\ At(k, "cas")
  /\ IF success
       THEN /\ slot' = [slot EXCEPT ![r.ring].head = Plus(r.head, 1)]
            /\ call' = [call EXCEPT ![k] = [r EXCEPT !.pc = "running", !.held = r.obj]]
            /\ overlap' = [overlap EXCEPT ![k] = 0]
            /\ resting' = [j \in Calls |-> resting[j] \ {r.obj}]
            /\ UNCHANGED calls
       ELSE Continue(k, [r EXCEPT !.pc = "last", !.head = slot[r.ring].head])

\* Mutant: a plain store in place of the compare-and-exchange.
CasBlind(k) == TakeIf(k, TRUE)

\* try_cmpxchg_release(&slot->head, &head, head + 1)
Cas(k) == TakeIf(k, slot[call[k].ring].head = call[k].head)

\* The call goes on without an instance; kretprobes counts it in nmissed.
Miss(k) ==
  /\ At(k, "missed")
  /\ call' = [call EXCEPT ![k] = IdleCall]
  /\ overlap' = [overlap EXCEPT ![k] = 0]
  /\ resting' = [resting EXCEPT ![k] = {}]
  /\ UNCHANGED <<slot, calls>>

-----------------------------------------------------------------------------
(* objpool_push, when the return handler is done, on whatever CPU that is. *)

Recycle(k, c) ==
  /\ At(k, "running")
  /\ Free(c)
  /\ Continue(k, [call[k] EXCEPT !.pc = "tail", !.cpu = c, !.ring = c])

LoadTail(k) ==
  LET r == call[k] IN
  /\ At(k, "tail")
  /\ Continue(k, [r EXCEPT !.pc = "warn", !.tail = slot[r.ring].tail])

\* head = READ_ONCE(slot->head), for the WARN_ON_ONCE.
LoadHeadAgain(k) ==
  LET r == call[k] IN
  /\ At(k, "warn")
  /\ Continue(k, [r EXCEPT !.pc = "claim", !.head = slot[r.ring].head])

\* try_cmpxchg_acquire(&slot->tail, &tail, tail + 1)
ClaimTail(k) ==
  LET r == call[k] IN
  /\ At(k, "claim")
  /\ IF slot[r.ring].tail = r.tail
       THEN /\ slot' = [slot EXCEPT ![r.ring].tail = Plus(r.tail, 1)]
            /\ call' = [call EXCEPT ![k].pc = "put"]
            /\ UNCHANGED <<calls, overlap, resting>>
       ELSE Continue(k, [r EXCEPT !.pc = "warn", !.tail = slot[r.ring].tail])

\* Mutant: the object goes one cell too far.
PutBeyond(k) ==
  LET r == call[k] IN
  /\ At(k, "put")
  /\ slot' = [slot EXCEPT ![r.ring].entries[Plus(r.tail, 1) % Capacity] = r.held]
  /\ call' = [call EXCEPT ![k].pc = "publish"]
  /\ UNCHANGED <<calls, overlap, resting>>

Put(k) ==
  LET r == call[k] IN
  /\ At(k, "put")
  /\ slot' = [slot EXCEPT ![r.ring].entries[r.tail % Capacity] = r.held]
  /\ call' = [call EXCEPT ![k].pc = "publish"]
  /\ UNCHANGED <<calls, overlap, resting>>

\* Mutant: the counter does not wrap.
PublishUnwrapped(k) ==
  LET r == call[k] IN
  /\ At(k, "publish")
  /\ slot' = [slot EXCEPT ![r.ring].last = r.tail + 1]
  /\ call' = [call EXCEPT ![k] = IdleCall]
  /\ resting' = [resting EXCEPT ![k] = {}]
  /\ UNCHANGED <<calls, overlap>>

\* smp_store_release(&slot->last, tail + 1): the instance is free.
Publish(k) ==
  LET r == call[k] IN
  /\ At(k, "publish")
  /\ slot' = [slot EXCEPT ![r.ring].last = Plus(r.tail, 1)]
  /\ call' = [call EXCEPT ![k] = IdleCall]
  /\ resting' = [resting EXCEPT ![k] = {}]
  /\ UNCHANGED <<calls, overlap>>

Next ==
  \E k \in Calls :
    \/ \E c \in CPUs : Enter(k, c) \/ Recycle(k, c)
    \/ LoadHead(k) \/ LoadLast(k) \/ CheckStale(k) \/ Reload(k) \/ Fetch(k) \/ Cas(k)
    \/ Miss(k) \/ LoadTail(k) \/ LoadHeadAgain(k) \/ ClaimTail(k) \/ Put(k) \/ Publish(k)

Spec == Init /\ [][Next]_vars

-----------------------------------------------------------------------------
(* Properties.                                                             *)

\* Type invariant of the pool.
TypeOK ==
  /\ slot \in [CPUs -> [head: 0..(Modulus - 1), tail: 0..(Modulus - 1),
                        last: 0..(Modulus - 1), entries: [Cells -> Instances \cup {None}]]]
  /\ call \in [Calls -> [pc: {"idle", "missed", "running"} \cup Searching \cup Returning,
                         cpu: CPUs, ring: CPUs, tries: CPUs,
                         head: 0..(Modulus - 1), tail: 0..(Modulus - 1),
                         obj: Instances \cup {None}, held: Instances \cup {None}]]
  /\ calls \in 0..MaxCalls
  /\ overlap \in [Calls -> 0..MaxOverlap]
  /\ resting \in [Calls -> SUBSET Instances]

\* The refinement of exclusive ownership: two CPUs that pop from one ring at
\* the same time, with the counters about to wrap, never get one instance,
\* and a returned instance is not handed out before it is back.
Owners == INSTANCE InstanceOwners WITH owned <- [k \in Calls |-> call[k].held]
ExclusiveOwnership == Owners!Spec

\* No instance is lost or doubled: each one is held by a call or lies in one
\* cell of one ring, at every step of every operation.
Holders(o) == {k \in Calls : call[k].held = o}
CellsOf(o) == {place \in CPUs \X (0..(NrObjs - 1)) :
                 place[2] \in Window(place[1]) /\ EntryAt(place[1], place[2]) = o}
NothingLost == \A o \in Instances : Cardinality(Holders(o)) + Cardinality(CellsOf(o)) = 1

\* The assertion of line 116: the ring a CPU pushes to has room.
NeverWarns == \A k \in Calls : At(k, "claim") => Minus(call[k].tail, call[k].head) <= NrObjs

\* A hooked call runs without its handlers only if the pool is exhausted or
\* in motion: an instance that stays free in its ring during a whole search
\* is found, however the other instances move between the rings meanwhile.
MissedOnlyInMotion == \A k \in Calls : At(k, "missed") => resting[k] = {}
=============================================================================
