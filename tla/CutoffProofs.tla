----------------------------- MODULE CutoffProofs -----------------------------
(***************************************************************************)
(* Theorems about CutoffProbes, for any tasks, contexts, vendor thresholds *)
(* and parameters, with root writing the parameters at any time and calls  *)
(* that run without a handler.                                             *)
(***************************************************************************)
EXTENDS CutoffProbes, TLAPS

Calls ==
  [pc: Labels, arg0: Contexts \cup {NullContext}, probed: BOOLEAN,
   storing: SUBSET Fields, field: Fields, old: Triples, value: Nat, loaded: Nat]

Reading == {"read", "compare"}
Writing == {"fetch", "write"}

\* What an activation looks like at each place of k100pm_apply_cutoff.
Shaped(r) ==
  /\ r.pc = "vendor" /\ r.storing # {} => r.arg0 \in Contexts
  /\ r.pc \in {"vendor", "return"} => r.field = "fw"
  /\ r.pc \in Reading \cup Writing => r.arg0 \in Contexts

\* The handlers that began since the last store nobody follows are in the
\* return handler of a call on an FG context.
CleanInv ==
  \A k \in clean : call[k].pc \notin {"idle", "vendor"} /\ call[k].arg0 \in FgContexts

TypeInv == TypeOK /\ CleanInv /\ \A k \in Tasks : Shaped(call[k])

\* The fields that a loop at field f has left, and those it is done with.
Left(f) == CASE f = "fw" -> Fields [] f = "delay" -> {"delay", "sw"} [] OTHER -> {"sw"}
Past(f) == Fields \ Left(f)

-----------------------------------------------------------------------------
(* An object of another layout.                                            *)

Bad(x, f) == \A triple \in VendorTriples[x] : ~Plausible(triple[f])

\* The implausible field of a foreign object stays implausible in memory and in
\* what a handler has read of it, so that no handler comes to write it.
ForeignInv ==
  /\ \A x \in Contexts, f \in Fields : Bad(x, f) => ~Plausible(mem[x][f])
  /\ \A k \in Tasks : call[k].pc = "read" =>
       \A f \in Past(call[k].field) : Bad(call[k].arg0, f) => ~Plausible(call[k].old[f])
  /\ \A k \in Tasks : call[k].pc \in {"compare", "fetch", "write", "load", "store"} =>
       ~Foreign(call[k].arg0)

-----------------------------------------------------------------------------
(* An FG context.                                                          *)

Undisturbed == ~changed /\ cutoff /\ ValuesValid(target)

\* Activation r is going to store the module's value in field f of context x,
\* or at least to look whether it is there.
WillFix(r, x, f) ==
  /\ r.arg0 = x
  /\ \/ r.pc = "vendor" /\ r.probed
     \/ r.pc = "return"
     \/ r.pc = "read" /\ f \in Left(r.field)
     \/ r.pc = "read" /\ \E g \in Past(r.field) : r.old[g] # target[g]
     \/ r.pc = "compare" /\ \E g \in Left(r.field) : r.old[g] # target[g]
     \/ r.pc \in Writing /\ f \in Left(r.field)

Visited(x) == x \in handled \/ \E k \in clean : call[k].arg0 = x

\* Everything in an FG context and in what handlers read of it is a threshold;
\* in one that handlers have been through, a field that differs from the
\* module's has a call in progress to fix it.
SettleInv ==
  Undisturbed => \A x \in Contexts : Ordinary(x) =>
    /\ \A f \in Fields : Plausible(mem[x][f])
    /\ \A k \in Tasks : call[k].arg0 = x =>
         /\ call[k].pc = "read" => \A f \in Past(call[k].field) : Plausible(call[k].old[f])
         /\ call[k].pc = "write" => call[k].value = target[call[k].field]
    /\ Visited(x) => \A f \in Fields :
         mem[x][f] # target[f] => \E k \in Tasks : WillFix(call[k], x, f)

CutoffInv == TypeInv /\ ForeignInv /\ SettleInv
-----------------------------------------------------------------------------
(* What the steps of an activation do to it.                               *)

\* A step of task k changes k's activation only.
Moves(k) == call' \in [Tasks -> Calls] /\ \A j \in Tasks \ {k} : call'[j] = call[j]

LEMMA MoveIs ==
  ASSUME TypeInv, NEW k \in Tasks, NEW r \in Calls, call' = [call EXCEPT ![k] = r]
  PROVE  Moves(k) /\ call'[k] = r
BY DEF TypeInv, TypeOK, Calls, Moves

LEMMA IdleIsTyped == IdleCall \in Calls /\ Zeros \in Triples
<1>1. Zeros \in Triples
  BY DEF Zeros, Triples
<1>2. {} \in SUBSET Fields
  OBVIOUS
<1> QED BY <1>1, <1>2 DEF IdleCall, Calls, Labels, Fields

\* The loops visit the fields in order.
LEMMA LoopOrder ==
  /\ Left("fw") = Fields /\ Past("fw") = {}
  /\ Left("sw") = {"sw"} /\ Past("sw") = Fields \ {"sw"}
  /\ \A f \in Fields :
       /\ NextField(f) \in Fields
       /\ f \in Left(f)
       /\ f # "sw" => Left(f) = {f} \cup Left(NextField(f)) /\ f \notin Left(NextField(f))
       /\ f = "sw" => NextField(f) = "fw"
BY DEF Left, Past, Fields, NextField

\* A turn of a loop of k100pm_apply_cutoff.
LEMMA AdvanceIs ==
  ASSUME NEW r \in Calls, NEW next \in Labels
  PROVE  LET s == Advance(r, next) IN
         /\ s \in Calls
         /\ s.field = NextField(r.field)
         /\ s.pc = IF r.field = "sw" THEN next ELSE r.pc
         /\ s.arg0 = r.arg0 /\ s.old = r.old /\ s.value = r.value
<1>1. NextField(r.field) \in Fields
  BY LoopOrder DEF Calls
<1>2. (IF r.field = "sw" THEN next ELSE r.pc) \in Labels
  BY DEF Calls
<1> QED BY <1>1, <1>2 DEF Advance, Calls

LEMMA LeavingIs ==
  ASSUME NEW r \in Calls
  PROVE  Leaving(r) \in Calls /\ Leaving(r).pc = "done" /\ Leaving(r).arg0 = r.arg0
BY IdleIsTyped DEF Leaving, Calls, Labels, IdleCall

LEMMA EnterIs ==
  ASSUME TypeInv, NEW k \in Tasks, NEW x \in Contexts \cup {NullContext},
         NEW fields \in SUBSET Fields, NEW probed \in BOOLEAN, Enter(k, x, fields, probed)
  PROVE  /\ Moves(k) /\ call[k].pc = "idle"
         /\ call'[k].pc = "vendor" /\ call'[k].arg0 = x
         /\ call'[k].storing = fields /\ call'[k].field = "fw"
         /\ UNCHANGED <<mem, cutoff_hits, parameters, history>>
<1> DEFINE r == [IdleCall EXCEPT !.pc = "vendor", !.arg0 = x, !.probed = probed,
                                 !.storing = fields]
<1>1. r \in Calls
  BY IdleIsTyped DEF Calls, Labels
<1>2. r.pc = "vendor" /\ r.arg0 = x /\ r.storing = fields /\ r.field = "fw"
  BY DEF IdleCall
<1>3. call' = [call EXCEPT ![k] = r]
  BY DEF Enter, Continue
<1> QED BY <1>1, <1>2, <1>3, MoveIs DEF Enter, At, Continue

LEMMA VendorStoresIs ==
  ASSUME TypeInv, NEW k \in Tasks, NEW f \in Fields, VendorStores(k, f)
  PROVE  LET r == call[k]  s == call'[k] IN
         /\ Moves(k) /\ r.pc = "vendor" /\ s.pc = "vendor"
         /\ s.arg0 = r.arg0 /\ s.probed = r.probed /\ s.field = r.field
         /\ r.arg0 \in Contexts
         /\ \E triple \in VendorTriples[r.arg0] : mem' = [mem EXCEPT ![r.arg0][f] = triple[f]]
         /\ IF r.probed THEN UNCHANGED history ELSE Disturb(r.arg0)
         /\ UNCHANGED <<cutoff_hits, parameters>>
<1> DEFINE r == call[k]
           s == [r EXCEPT !.storing = @ \ {f}]
<1>1. r \in Calls /\ Shaped(r)
  BY DEF TypeInv, TypeOK, Calls
<1>2. s \in Calls
  BY <1>1 DEF Calls
<1>3. call' = [call EXCEPT ![k] = s]
  BY DEF VendorStores
<1>4. s.pc = r.pc /\ s.arg0 = r.arg0 /\ s.probed = r.probed /\ s.field = r.field
  BY <1>1 DEF Calls
<1>5. r.pc = "vendor" /\ f \in r.storing
  BY DEF VendorStores, At
<1>6. Moves(k) /\ call'[k] = s
  BY <1>2, <1>3, MoveIs
<1>7. r.arg0 \in Contexts
  BY <1>1, <1>5 DEF Shaped
<1> QED BY <1>4, <1>5, <1>6, <1>7 DEF VendorStores

LEMMA VendorReturnsIs ==
  ASSUME TypeInv, NEW k \in Tasks, VendorReturns(k)
  PROVE  LET r == call[k]  s == call'[k] IN
         /\ Moves(k) /\ r.pc = "vendor" /\ s.pc = "return"
         /\ s.arg0 = r.arg0 /\ s.field = r.field
         /\ clean' = IF r.arg0 \in FgContexts THEN clean \cup {k} ELSE clean
         /\ UNCHANGED <<mem, cutoff_hits, parameters, handled>>
<1> DEFINE r == call[k]
           s == [r EXCEPT !.pc = "return"]
<1>1. r \in Calls
  BY DEF TypeInv, TypeOK, Calls
<1>2. s \in Calls /\ s.pc = "return" /\ s.arg0 = r.arg0 /\ s.field = r.field
  BY <1>1 DEF Calls, Labels
<1>3. call' = [call EXCEPT ![k] = s] /\ r.pc = "vendor"
  BY DEF VendorReturns, Returning, At
<1> QED BY <1>2, <1>3, MoveIs DEF VendorReturns

LEMMA VendorReturnsUnseenIs ==
  ASSUME TypeInv, NEW k \in Tasks, VendorReturnsUnseen(k)
  PROVE  LET r == call[k]  s == call'[k] IN
         /\ Moves(k) /\ r.pc = "vendor" /\ s.pc = "done" /\ s.arg0 = r.arg0
         /\ IF r.probed THEN Disturb(r.arg0) ELSE UNCHANGED history
         /\ UNCHANGED <<mem, cutoff_hits, parameters>>
<1> DEFINE r == call[k]
           l == Leaving(r)
           s == [l EXCEPT !.probed = FALSE]
<1>1. l \in Calls /\ l.pc = "done" /\ l.arg0 = r.arg0
  BY LeavingIs DEF TypeInv, TypeOK, Calls
<1>2. call' = [call EXCEPT ![k] = s] /\ r.pc = "vendor"
  BY DEF VendorReturnsUnseen, Returning, At
<1> HIDE DEF l
<1>3. s \in Calls /\ s.pc = "done" /\ s.arg0 = r.arg0
  BY <1>1 DEF Calls
<1> QED BY <1>2, <1>3, MoveIs DEF VendorReturnsUnseen

LEMMA ReadCutoffIs ==
  ASSUME TypeInv, NEW k \in Tasks, ReadCutoff(k)
  PROVE  LET r == call[k]  s == call'[k] IN
         /\ Moves(k) /\ r.pc = "return" /\ r.field = "fw" /\ s.arg0 = r.arg0
         /\ IF cutoff /\ r.arg0 # NullContext THEN s.pc = "read" /\ s.field = "fw"
                                              ELSE s.pc = "done"
         /\ UNCHANGED <<mem, cutoff_hits, parameters, history>>
<1> DEFINE r == call[k]
           m == [r EXCEPT !.pc = "read"]
           l == Leaving(r)
<1>1. r \in Calls /\ Shaped(r) /\ r.pc = "return"
  BY DEF TypeInv, TypeOK, Calls, ReadCutoff, At
<1>2. r.field = "fw"
  BY <1>1 DEF Shaped
<1>3. m \in Calls /\ m.pc = "read" /\ m.arg0 = r.arg0 /\ m.field = r.field
  BY <1>1 DEF Calls, Labels
<1>4. l \in Calls /\ l.pc = "done" /\ l.arg0 = r.arg0
  BY <1>1, LeavingIs
<1>5. /\ call' = [call EXCEPT ![k] = IF cutoff /\ r.arg0 # NullContext THEN m ELSE l]
      /\ UNCHANGED <<mem, cutoff_hits, parameters, history>>
  BY DEF ReadCutoff, Continue
<1> HIDE DEF m, l
<1> QED BY <1>1, <1>2, <1>3, <1>4, <1>5, MoveIs

LEMMA ReadFieldIs ==
  ASSUME TypeInv, NEW k \in Tasks, ReadField(k)
  PROVE  LET r == call[k]  s == call'[k]
             old == [r.old EXCEPT ![r.field] = mem[r.arg0][r.field]]
         IN
         /\ Moves(k) /\ r.pc = "read" /\ r.arg0 \in Contexts /\ s.arg0 = r.arg0
         /\ IF r.field = "sw" /\ ~ValuesValid(old)
              THEN s.pc = "done"
              ELSE /\ s.old = old /\ s.field = NextField(r.field)
                   /\ s.pc = IF r.field = "sw" THEN "compare" ELSE "read"
         /\ UNCHANGED <<mem, cutoff_hits, parameters, history>>
<1> DEFINE r == call[k]
           old == [r.old EXCEPT ![r.field] = mem[r.arg0][r.field]]
           m == [r EXCEPT !.old = old]
           t == Advance(m, "compare")
           l == Leaving(r)
<1>1. r \in Calls /\ Shaped(r) /\ r.pc = "read"
  BY DEF TypeInv, TypeOK, Calls, ReadField, At
<1>2. r.arg0 \in Contexts
  BY <1>1 DEF Shaped, Reading
<1>3. old \in Triples
  BY <1>1, <1>2 DEF TypeInv, TypeOK, Calls, Triples
<1>4. m \in Calls
  BY <1>1, <1>3 DEF Calls
<1>5. m.pc = "read" /\ m.field = r.field /\ m.arg0 = r.arg0 /\ m.old = old
  BY <1>1 DEF Calls
<1>6. l \in Calls /\ l.pc = "done" /\ l.arg0 = r.arg0
  BY <1>1, LeavingIs
<1>7. /\ call' = [call EXCEPT ![k] = IF r.field = "sw" /\ ~ValuesValid(old) THEN l ELSE t]
      /\ UNCHANGED <<mem, cutoff_hits, parameters, history>>
  BY DEF ReadField, Continue
<1> HIDE DEF m, l
<1>8. /\ t \in Calls /\ t.field = NextField(r.field) /\ t.arg0 = r.arg0 /\ t.old = old
      /\ t.pc = IF r.field = "sw" THEN "compare" ELSE "read"
  BY <1>4, <1>5, AdvanceIs DEF Labels
<1> HIDE DEF t, old
<1>9. CASE r.field = "sw" /\ ~ValuesValid(old)
  <2>1. Moves(k) /\ call'[k] = l
    BY <1>6, <1>7, <1>9, MoveIs
  <2> QED BY <1>1, <1>2, <1>6, <1>7, <1>9, <2>1 DEF old
<1>10. CASE ~(r.field = "sw" /\ ~ValuesValid(old))
  <2>1. Moves(k) /\ call'[k] = t
    BY <1>7, <1>8, <1>10, MoveIs
  <2> QED BY <1>1, <1>2, <1>7, <1>8, <1>10, <2>1 DEF old
<1> QED BY <1>9, <1>10

LEMMA CompareIs ==
  ASSUME TypeInv, NEW k \in Tasks, Compare(k)
  PROVE  LET r == call[k]  s == call'[k] IN
         /\ Moves(k) /\ r.pc = "compare" /\ r.arg0 \in Contexts
         /\ s.arg0 = r.arg0
         /\ IF r.old[r.field] # target[r.field] THEN s.pc = "fetch" /\ s.field = "fw"
            ELSE IF r.field = "sw" THEN s.pc = "done"
            ELSE s.pc = "compare" /\ s.field = NextField(r.field) /\ s.old = r.old
         /\ UNCHANGED <<mem, cutoff_hits, parameters, history>>
<1> DEFINE r == call[k]
<1>1. r \in Calls /\ Shaped(r) /\ r.pc = "compare"
  BY DEF TypeInv, TypeOK, Calls, Compare, At
<1>2. r.arg0 \in Contexts
  BY <1>1 DEF Shaped, Reading
<1>3. CASE r.old[r.field] # target[r.field]
  <2> DEFINE s == [r EXCEPT !.pc = "fetch", !.field = "fw", !.old = Zeros]
  <2>1. s \in Calls
    BY <1>1, IdleIsTyped DEF Calls, Labels, Fields
  <2>2. s.field = "fw" /\ s.pc = "fetch" /\ s.arg0 = r.arg0
    BY <1>1 DEF Calls
  <2>3. /\ call' = [call EXCEPT ![k] = s]
        /\ UNCHANGED <<mem, cutoff_hits, parameters, history>>
    BY <1>3 DEF Compare, Continue
  <2> QED BY <1>1, <1>2, <1>3, <2>1, <2>2, <2>3, MoveIs
<1>4. CASE r.old[r.field] = target[r.field] /\ r.field = "sw"
  <2>1. /\ call' = [call EXCEPT ![k] = Leaving(r)]
        /\ UNCHANGED <<mem, cutoff_hits, parameters, history>>
    BY <1>4 DEF Compare, Continue
  <2> QED BY <1>1, <1>2, <1>4, <2>1, LeavingIs, MoveIs
<1>5. CASE r.old[r.field] = target[r.field] /\ r.field # "sw"
  <2> DEFINE s == [r EXCEPT !.field = NextField(@)]
  <2>1. s \in Calls
    BY <1>1, LoopOrder DEF Calls
  <2>2. s.field = NextField(r.field) /\ s.pc = "compare" /\ s.arg0 = r.arg0 /\ s.old = r.old
    BY <1>1 DEF Calls
  <2>3. /\ call' = [call EXCEPT ![k] = s]
        /\ UNCHANGED <<mem, cutoff_hits, parameters, history>>
    BY <1>5 DEF Compare, Continue
  <2> QED BY <1>1, <1>2, <1>5, <2>1, <2>2, <2>3, MoveIs
<1> QED BY <1>3, <1>4, <1>5

LEMMA FetchIs ==
  ASSUME TypeInv, NEW k \in Tasks, Fetch(k)
  PROVE  LET r == call[k]  s == call'[k] IN
         /\ Moves(k) /\ r.pc = "fetch" /\ r.arg0 \in Contexts /\ s.pc = "write"
         /\ s.arg0 = r.arg0 /\ s.field = r.field /\ s.value = target[r.field]
         /\ UNCHANGED <<mem, cutoff_hits, parameters, history>>
<1> DEFINE r == call[k]
           s == [r EXCEPT !.pc = "write", !.value = target[r.field]]
<1>1. r \in Calls /\ Shaped(r) /\ r.pc = "fetch"
  BY DEF TypeInv, TypeOK, Calls, Fetch, At
<1>2. target[r.field] \in Nat
  BY <1>1 DEF TypeInv, TypeOK, Calls, Triples
<1>3. s \in Calls
  BY <1>1, <1>2 DEF Calls, Labels
<1>4. s.pc = "write" /\ s.arg0 = r.arg0 /\ s.field = r.field /\ s.value = target[r.field]
  BY <1>1 DEF Calls
<1>5. /\ call' = [call EXCEPT ![k] = s]
      /\ UNCHANGED <<mem, cutoff_hits, parameters, history>>
  BY DEF Fetch, Continue
<1> QED BY <1>1, <1>3, <1>4, <1>5, MoveIs DEF Shaped, Writing

LEMMA WriteIs ==
  ASSUME TypeInv, NEW k \in Tasks, Write(k)
  PROVE  LET r == call[k]  s == call'[k] IN
         /\ Moves(k) /\ r.pc = "write" /\ r.arg0 \in Contexts
         /\ r.value \in Nat /\ r.field \in Fields
         /\ s.arg0 = r.arg0 /\ s.field = NextField(r.field)
         /\ s.pc = IF r.field = "sw" THEN "load" ELSE "fetch"
         /\ mem' = [mem EXCEPT ![r.arg0][r.field] = r.value]
         /\ UNCHANGED <<cutoff_hits, parameters, history>>
<1> DEFINE r == call[k]
           m == [r EXCEPT !.pc = "fetch", !.value = 0]
           s == Advance(m, "load")
<1>1. r \in Calls /\ Shaped(r) /\ r.pc = "write"
  BY DEF TypeInv, TypeOK, Calls, Write, At
<1>2. m \in Calls /\ m.pc = "fetch" /\ m.arg0 = r.arg0 /\ m.field = r.field
  BY <1>1 DEF Calls, Labels
<1>3. call' = [call EXCEPT ![k] = s]
  BY DEF Write
<1> HIDE DEF m
<1>4. /\ s \in Calls /\ s.field = NextField(r.field) /\ s.arg0 = r.arg0
      /\ s.pc = IF r.field = "sw" THEN "load" ELSE "fetch"
  BY <1>2, AdvanceIs DEF Labels
<1>5. Moves(k) /\ call'[k] = s
  BY <1>3, <1>4, MoveIs
<1>6. r.arg0 \in Contexts /\ r.value \in Nat /\ r.field \in Fields
  BY <1>1 DEF Shaped, Writing, Calls
<1> QED BY <1>1, <1>4, <1>5, <1>6 DEF Write

\* Counting the hit.
LEMMA CountIs ==
  ASSUME TypeInv, NEW k \in Tasks, Load(k) \/ Store(k)
  PROVE  LET r == call[k]  s == call'[k] IN
         /\ Moves(k) /\ r.pc \in {"load", "store"} /\ s.pc \in {"store", "done"}
         /\ s.arg0 = r.arg0
         /\ cutoff_hits' \in 0..(HitModulus - 1)
         /\ UNCHANGED <<mem, parameters, history>>
<1> DEFINE r == call[k]
<1>1. r \in Calls
  BY DEF TypeInv, TypeOK, Calls
<1>2. CASE Load(k)
  <2> DEFINE s == [r EXCEPT !.pc = "store", !.loaded = cutoff_hits]
  <2>1. cutoff_hits \in Nat /\ cutoff_hits \in 0..(HitModulus - 1)
    BY ModulusAssumption DEF TypeInv, TypeOK
  <2>2. s \in Calls
    BY <1>1, <2>1 DEF Calls, Labels
  <2>3. s.pc = "store" /\ s.arg0 = r.arg0
    BY <1>1 DEF Calls
  <2>4. call' = [call EXCEPT ![k] = s] /\ r.pc = "load"
        /\ UNCHANGED <<mem, cutoff_hits, parameters, history>>
    BY <1>2 DEF Load, Continue, At
  <2> QED BY <2>1, <2>2, <2>3, <2>4, MoveIs
<1>3. CASE Store(k)
  <2>1. (r.loaded + 1) % HitModulus \in 0..(HitModulus - 1)
    BY <1>1, ModulusAssumption DEF Calls
  <2>2. call' = [call EXCEPT ![k] = Leaving(r)] /\ r.pc = "store"
        /\ cutoff_hits' = (r.loaded + 1) % HitModulus
        /\ UNCHANGED <<mem, parameters, history>>
    BY <1>3 DEF Store, At
  <2> QED BY <1>1, <2>1, <2>2, LeavingIs, MoveIs
<1> QED BY <1>2, <1>3

\* The return to the caller.
LEMMA ReturnIs ==
  ASSUME TypeInv, NEW k \in Tasks, Return(k)
  PROVE  /\ Moves(k) /\ call[k].pc = "done" /\ call'[k].pc = "idle"
         /\ handled' = handled \cup {call[j].arg0 : j \in clean \cap {k}}
         /\ clean' = clean \ {k}
         /\ UNCHANGED <<mem, cutoff_hits, parameters>>
<1>1. IdleCall.pc = "idle" /\ IdleCall \in Calls
  BY IdleIsTyped DEF IdleCall
<1>2. call' = [call EXCEPT ![k] = IdleCall] /\ call[k].pc = "done"
  BY DEF Return, At
<1> QED BY <1>1, <1>2, MoveIs DEF Return

-----------------------------------------------------------------------------
(* What the steps do to the history.                                       *)

HistoryOK ==
  /\ handled' \subseteq FgContexts /\ clean' \subseteq Tasks
  /\ \A j \in clean' : call'[j].pc \notin {"idle", "vendor"} /\ call'[j].arg0 \in FgContexts

\* A step within a vendor function, from one to the other, or within a handler.
LEMMA HistoryKept ==
  ASSUME TypeInv, NEW k \in Tasks, Moves(k), UNCHANGED history,
         \/ call[k].pc \in {"idle", "vendor"}
         \/ call'[k].pc \notin {"idle", "vendor"} /\ call'[k].arg0 = call[k].arg0
  PROVE  HistoryOK /\ \A x : Visited(x)' => Visited(x)
<1>1. handled' = handled /\ clean' = clean /\ clean \subseteq Tasks /\ handled \subseteq FgContexts
  BY DEF history, TypeInv, TypeOK
<1>2. \A j \in clean : call[j].pc \notin {"idle", "vendor"} /\ call[j].arg0 \in FgContexts
  BY DEF TypeInv, CleanInv
<1>3. \A j \in clean : call'[j].pc \notin {"idle", "vendor"} /\ call'[j].arg0 = call[j].arg0
  <2> SUFFICES ASSUME NEW j \in clean
               PROVE  call'[j].pc \notin {"idle", "vendor"} /\ call'[j].arg0 = call[j].arg0
    OBVIOUS
  <2>1. CASE j = k BY <1>2, <2>1
  <2>2. CASE j # k
    <3>1. call'[j] = call[j] BY <1>1, <2>2 DEF Moves
    <3> QED BY <1>2, <3>1
  <2> QED BY <2>1, <2>2
<1> QED BY <1>1, <1>2, <1>3 DEF HistoryOK, Visited

\* A store in x that no handler follows.
LEMMA HistoryDisturbed ==
  ASSUME TypeInv, NEW k \in Tasks, Moves(k), call[k].pc = "vendor", NEW y, Disturb(y)
  PROVE  HistoryOK /\ \A x : Visited(x)' => Visited(x) /\ x # y
<1>1. /\ handled' = handled \ {y} /\ handled \subseteq FgContexts /\ clean \subseteq Tasks
      /\ clean' = {j \in clean : call[j].arg0 # y}
  BY DEF Disturb, TypeInv, TypeOK
<1>2. \A j \in clean : /\ call[j].pc \notin {"idle", "vendor"} /\ call[j].arg0 \in FgContexts
                       /\ call'[j] = call[j]
  BY <1>1 DEF TypeInv, CleanInv, Moves
<1> QED BY <1>1, <1>2 DEF HistoryOK, Visited

\* A handler begins.
LEMMA HistoryBegun ==
  ASSUME TypeInv, NEW k \in Tasks, VendorReturns(k)
  PROVE  HistoryOK /\ \A x : Visited(x)' => Visited(x) \/ x = call[k].arg0
<1>1. /\ Moves(k) /\ call[k].pc = "vendor" /\ call'[k].pc = "return"
      /\ call'[k].arg0 = call[k].arg0 /\ handled' = handled
      /\ clean' = IF call[k].arg0 \in FgContexts THEN clean \cup {k} ELSE clean
      /\ handled \subseteq FgContexts /\ clean \subseteq Tasks
  BY VendorReturnsIs DEF TypeInv, TypeOK
<1>2. \A j \in clean : /\ call[j].pc \notin {"idle", "vendor"} /\ call[j].arg0 \in FgContexts
                       /\ call'[j] = call[j]
  BY <1>1 DEF TypeInv, CleanInv, Moves
<1> QED BY <1>1, <1>2 DEF HistoryOK, Visited

\* A handler has been through.
LEMMA HistoryEnded ==
  ASSUME TypeInv, NEW k \in Tasks, Return(k)
  PROVE  HistoryOK /\ \A x : Visited(x)' => Visited(x)
<1>1. /\ Moves(k) /\ handled' = handled \cup {call[j].arg0 : j \in clean \cap {k}}
      /\ clean' = clean \ {k}
      /\ handled \subseteq FgContexts /\ clean \subseteq Tasks
  BY ReturnIs DEF TypeInv, TypeOK
<1>2. \A j \in clean : /\ call[j].pc \notin {"idle", "vendor"} /\ call[j].arg0 \in FgContexts
                       /\ j # k => call'[j] = call[j]
  BY <1>1 DEF TypeInv, CleanInv, Moves
<1> QED BY <1>1, <1>2 DEF HistoryOK, Visited

-----------------------------------------------------------------------------
(* The initial state.                                                      *)

LEMMA InitInv == Init => CutoffInv
<1> SUFFICES ASSUME Init PROVE CutoffInv
  OBVIOUS
<1>1. \A x \in Contexts : mem[x] \in VendorTriples[x] /\ mem[x] \in Triples
  BY ContextAssumption DEF Init
<1>2. TypeInv
  <2>1. mem \in [Contexts -> Triples]
    BY <1>1 DEF Init
  <2>2. call \in [Tasks -> Calls] /\ \A k \in Tasks : call[k] = IdleCall
    BY IdleIsTyped DEF Init
  <2>3. cutoff \in BOOLEAN /\ target \in Triples /\ cutoff_hits \in 0..(HitModulus - 1)
    BY TargetAssumption, ModulusAssumption DEF Init
  <2> QED BY <2>1, <2>2, <2>3
          DEF Init, TypeInv, TypeOK, CleanInv, Calls, Shaped, IdleCall, Reading, Writing
<1>3. ForeignInv
  <2>1. \A k \in Tasks : call[k].pc = "idle"
    BY DEF Init, IdleCall
  <2> QED BY <1>1, <2>1 DEF ForeignInv, Bad
<1>4. SettleInv
  <2>1. \A k \in Tasks : call[k].pc = "idle"
    BY DEF Init, IdleCall
  <2>2. \A x \in Contexts : Ordinary(x) => \A f \in Fields : Plausible(mem[x][f])
    BY <1>1 DEF Ordinary, ValuesValid
  <2>3. \A x : ~Visited(x)
    BY <2>1 DEF Visited, Init
  <2> QED BY <2>1, <2>2, <2>3 DEF SettleInv
<1> QED BY <1>2, <1>3, <1>4 DEF CutoffInv

-----------------------------------------------------------------------------
(* Types.                                                                  *)

LEMMA StepTypes ==
  ASSUME TypeInv, NEW k \in Tasks, Moves(k), Shaped(call'[k]),
         mem' \in [Contexts -> Triples], cutoff_hits' \in 0..(HitModulus - 1),
         UNCHANGED parameters, HistoryOK
  PROVE  TypeInv'
<1>1. TypeOK'
  BY DEF TypeInv, TypeOK, Moves, Calls, parameters, HistoryOK, FgContexts, Ordinary,
         ValuesValid, Plausible
<1>2. \A j \in Tasks : Shaped(call'[j])
  BY DEF TypeInv, Moves
<1>3. \A j \in Tasks : Shaped(call[j])'
  BY <1>2 DEF Shaped
<1>4. CleanInv'
  BY DEF HistoryOK, CleanInv, FgContexts, Ordinary, ValuesValid, Plausible
<1> QED BY <1>1, <1>3, <1>4 DEF TypeInv

\* A store to one field of one context is a store of a threshold.
LEMMA StoreIsTyped ==
  ASSUME TypeInv, NEW x \in Contexts, NEW f \in Fields, NEW v \in Nat,
         mem' = [mem EXCEPT ![x][f] = v]
  PROVE  /\ mem' \in [Contexts -> Triples]
         /\ mem'[x][f] = v
         /\ \A y \in Contexts, g \in Fields : y # x => mem'[y][g] = mem[y][g]
         /\ \A y \in Contexts, g \in Fields : g # f => mem'[y][g] = mem[y][g]
BY DEF TypeInv, TypeOK, Triples

LEMMA EnterTypes ==
  ASSUME TypeInv, NEW k \in Tasks, NEW x \in Contexts \cup {NullContext},
         NEW fields \in SUBSET Fields, NEW probed \in BOOLEAN, Enter(k, x, fields, probed),
         fields # {} => x \in Contexts
  PROVE  TypeInv'
<1>1. Shaped(call'[k])
  BY EnterIs DEF Shaped, Reading, Writing
<1>2. /\ Moves(k) /\ call[k].pc = "idle"
      /\ UNCHANGED <<mem, cutoff_hits, parameters, history>>
  BY EnterIs
<1>3. mem \in [Contexts -> Triples] /\ cutoff_hits \in 0..(HitModulus - 1)
  BY DEF TypeInv, TypeOK
<1>4. HistoryOK
  BY <1>2, HistoryKept
<1> QED BY <1>1, <1>2, <1>3, <1>4, StepTypes

LEMMA ProgressTypes ==
  ASSUME TypeInv, NEW k \in Tasks, Progress(k)
  PROVE  TypeInv'
<1> USE DEF Shaped, Reading, Writing
<1>0. /\ mem \in [Contexts -> Triples] /\ cutoff_hits \in 0..(HitModulus - 1)
      /\ call[k] \in Calls /\ Shaped(call[k])
  BY DEF TypeInv, TypeOK, Calls
<1>1. ASSUME NEW f \in Fields, VendorStores(k, f) PROVE TypeInv'
  <2>1. PICK triple \in VendorTriples[call[k].arg0] :
          mem' = [mem EXCEPT ![call[k].arg0][f] = triple[f]]
    BY <1>1, VendorStoresIs
  <2>2. call[k].arg0 \in Contexts /\ triple[f] \in Nat
    <3>1. call[k].arg0 \in Contexts BY <1>1, VendorStoresIs
    <3> QED BY <3>1, ContextAssumption DEF Triples
  <2>3. mem' \in [Contexts -> Triples]
    BY <2>1, <2>2, StoreIsTyped
  <2>4. Shaped(call'[k])
    BY <1>0, <1>1, VendorStoresIs
  <2>5. HistoryOK
    BY <1>1, VendorStoresIs, HistoryKept, HistoryDisturbed
  <2> QED BY <1>0, <1>1, <2>3, <2>4, <2>5, VendorStoresIs, StepTypes
<1>2. CASE VendorReturns(k)
  <2>1. Shaped(call'[k])
    BY <1>0, <1>2, VendorReturnsIs
  <2>2. HistoryOK
    BY <1>2, HistoryBegun
  <2> QED BY <1>0, <1>2, <2>1, <2>2, VendorReturnsIs, StepTypes
<1>3. CASE VendorReturnsUnseen(k)
  <2>1. Shaped(call'[k])
    BY <1>3, VendorReturnsUnseenIs
  <2>2. HistoryOK
    BY <1>3, VendorReturnsUnseenIs, HistoryKept, HistoryDisturbed
  <2> QED BY <1>0, <1>3, <2>1, <2>2, VendorReturnsUnseenIs, StepTypes
<1>4. CASE ReadCutoff(k)
  <2>1. call[k].arg0 \in Contexts \cup {NullContext}
    BY <1>0 DEF Calls
  <2>2. Shaped(call'[k])
    BY <1>4, <2>1, ReadCutoffIs
  <2>3. HistoryOK
    BY <1>4, ReadCutoffIs, HistoryKept
  <2> QED BY <1>0, <1>4, <2>2, <2>3, ReadCutoffIs, StepTypes
<1>5. CASE ReadField(k)
  <2>1. Shaped(call'[k])
    BY <1>5, ReadFieldIs
  <2>2. HistoryOK
    BY <1>5, ReadFieldIs, HistoryKept
  <2> QED BY <1>0, <1>5, <2>1, <2>2, ReadFieldIs, StepTypes
<1>6. CASE Compare(k)
  <2>1. Shaped(call'[k])
    BY <1>6, CompareIs
  <2>2. HistoryOK
    BY <1>6, CompareIs, HistoryKept
  <2> QED BY <1>0, <1>6, <2>1, <2>2, CompareIs, StepTypes
<1>7. CASE Fetch(k)
  <2>1. Shaped(call'[k])
    BY <1>7, FetchIs
  <2>2. HistoryOK
    BY <1>7, FetchIs, HistoryKept
  <2> QED BY <1>0, <1>7, <2>1, <2>2, FetchIs, StepTypes
<1>8. CASE Write(k)
  <2>1. Shaped(call'[k])
    BY <1>8, WriteIs
  <2>2. /\ call[k].arg0 \in Contexts /\ call[k].field \in Fields /\ call[k].value \in Nat
        /\ mem' = [mem EXCEPT ![call[k].arg0][call[k].field] = call[k].value]
    BY <1>8, WriteIs
  <2>3. mem' \in [Contexts -> Triples]
    BY <2>2, StoreIsTyped
  <2>4. HistoryOK
    BY <1>8, WriteIs, HistoryKept
  <2> QED BY <1>0, <1>8, <2>1, <2>3, <2>4, WriteIs, StepTypes
<1>9. CASE Load(k) \/ Store(k)
  <2>1. Shaped(call'[k])
    BY <1>9, CountIs
  <2>2. HistoryOK
    BY <1>9, CountIs, HistoryKept
  <2> QED BY <1>0, <1>9, <2>1, <2>2, CountIs, StepTypes
<1>10. CASE Return(k)
  <2>1. Shaped(call'[k])
    BY <1>10, ReturnIs
  <2>2. HistoryOK
    BY <1>10, HistoryEnded
  <2> QED BY <1>0, <1>10, <2>1, <2>2, ReturnIs, StepTypes
<1> QED BY <1>1, <1>2, <1>3, <1>4, <1>5, <1>6, <1>7, <1>8, <1>9, <1>10 DEF Progress
-----------------------------------------------------------------------------
(* An object of another layout is not written.                             *)

\* What a step of k must do for ForeignInv.
LEMMA ForeignStep ==
  ASSUME ForeignInv, NEW k \in Tasks, Moves(k),
         \A x \in Contexts, f \in Fields : Bad(x, f) => ~Plausible(mem'[x][f]),
         call'[k].pc = "read" =>
           \A f \in Past(call'[k].field) :
             Bad(call'[k].arg0, f) => ~Plausible(call'[k].old[f]),
         call'[k].pc \in {"compare", "fetch", "write", "load", "store"} =>
           ~Foreign(call'[k].arg0)
  PROVE  ForeignInv'
<1>1. (\A x \in Contexts, f \in Fields : Bad(x, f) => ~Plausible(mem[x][f]))'
  BY DEF Bad, Plausible
<1>2. (\A j \in Tasks : call[j].pc = "read" =>
         \A f \in Past(call[j].field) : Bad(call[j].arg0, f) => ~Plausible(call[j].old[f]))'
  BY DEF ForeignInv, Moves, Bad, Plausible, Past, Left
<1>3. (\A j \in Tasks : call[j].pc \in {"compare", "fetch", "write", "load", "store"} =>
         ~Foreign(call[j].arg0))'
  BY DEF ForeignInv, Moves, Foreign, Plausible
<1> QED BY <1>1, <1>2, <1>3 DEF ForeignInv

LEMMA EnterForeign ==
  ASSUME TypeInv, ForeignInv, NEW k \in Tasks, NEW x \in Contexts \cup {NullContext},
         NEW fields \in SUBSET Fields, NEW probed \in BOOLEAN, Enter(k, x, fields, probed)
  PROVE  ForeignInv'
<1>1. Moves(k) /\ mem' = mem /\ call'[k].pc = "vendor"
  BY EnterIs
<1> QED BY <1>1, ForeignStep DEF ForeignInv

LEMMA ProgressForeign ==
  ASSUME TypeInv, ForeignInv, NEW k \in Tasks, Progress(k)
  PROVE  ForeignInv'
<1> DEFINE r == call[k]
           s == call'[k]
<1>0. /\ mem \in [Contexts -> Triples]
      /\ \A x \in Contexts, f \in Fields : Bad(x, f) => ~Plausible(mem[x][f])
      /\ r \in Calls /\ Shaped(r)
      /\ r.pc = "read" => \A f \in Past(r.field) : Bad(r.arg0, f) => ~Plausible(r.old[f])
      /\ r.pc \in {"compare", "fetch", "write", "load", "store"} => ~Foreign(r.arg0)
  BY DEF TypeInv, TypeOK, Calls, ForeignInv
\* The vendor stores what it always stores.
<1>1. ASSUME NEW g \in Fields, VendorStores(k, g) PROVE ForeignInv'
  <2>1. Moves(k) /\ s.pc = "vendor" /\ r.arg0 \in Contexts
    BY <1>1, VendorStoresIs
  <2>2. PICK triple \in VendorTriples[r.arg0] : mem' = [mem EXCEPT ![r.arg0][g] = triple[g]]
    BY <1>1, VendorStoresIs
  <2>3. /\ mem'[r.arg0][g] = triple[g]
        /\ \A y \in Contexts, f \in Fields : y # r.arg0 => mem'[y][f] = mem[y][f]
        /\ \A y \in Contexts, f \in Fields : f # g => mem'[y][f] = mem[y][f]
    BY <1>0, <2>1, <2>2 DEF Triples
  <2>4. \A x \in Contexts, f \in Fields : Bad(x, f) => ~Plausible(mem'[x][f])
    <3> SUFFICES ASSUME NEW x \in Contexts, NEW f \in Fields, Bad(x, f)
                 PROVE  ~Plausible(mem'[x][f])
      OBVIOUS
    <3>1. CASE x = r.arg0 /\ f = g
      BY <2>1, <2>3, <3>1 DEF Bad
    <3>2. CASE ~(x = r.arg0 /\ f = g)
      <4>1. mem'[x][f] = mem[x][f] BY <2>3, <3>2
      <4> QED BY <1>0, <4>1
    <3> QED BY <3>1, <3>2
  <2> QED BY <2>1, <2>4, ForeignStep
<1>2. CASE VendorReturns(k) \/ VendorReturnsUnseen(k)
  <2>1. Moves(k) /\ s.pc \in {"return", "done"} /\ mem' = mem
    BY <1>2, VendorReturnsIs, VendorReturnsUnseenIs
  <2> QED BY <1>0, <2>1, ForeignStep
<1>3. CASE ReadCutoff(k)
  <2>1. /\ Moves(k) /\ mem' = mem /\ s.pc \in {"read", "done"}
        /\ s.pc = "read" => s.field = "fw"
    BY <1>3, ReadCutoffIs
  <2>2. s.pc = "read" => Past(s.field) = {}
    BY <2>1, LoopOrder
  <2> QED BY <1>0, <2>1, <2>2, ForeignStep
\* Once all three fields are read, none of them has been implausible.
<1>4. CASE ReadField(k)
  <2> DEFINE old == [r.old EXCEPT ![r.field] = mem[r.arg0][r.field]]
  <2>1. /\ Moves(k) /\ r.pc = "read" /\ r.arg0 \in Contexts /\ s.arg0 = r.arg0 /\ mem' = mem
        /\ IF r.field = "sw" /\ ~ValuesValid(old)
             THEN s.pc = "done"
             ELSE /\ s.old = old /\ s.field = NextField(r.field)
                  /\ s.pc = IF r.field = "sw" THEN "compare" ELSE "read"
    BY <1>4, ReadFieldIs
  <2>2. r.field \in Fields /\ r.old \in [Fields -> Nat]
    BY <1>0 DEF Calls, Triples
  <2>3. \A f \in Past(r.field) \cup {r.field} : Bad(r.arg0, f) => ~Plausible(old[f])
    <3> SUFFICES ASSUME NEW f \in Past(r.field) \cup {r.field}, Bad(r.arg0, f)
                 PROVE  ~Plausible(old[f])
      OBVIOUS
    <3>1. f \in Fields BY <2>2 DEF Past
    <3>2. CASE f = r.field
      <4>1. old[f] = mem[r.arg0][f] BY <2>2, <3>2
      <4> QED BY <1>0, <2>1, <3>1, <4>1
    <3>3. CASE f # r.field
      <4>1. old[f] = r.old[f] BY <2>2, <3>1, <3>3
      <4> QED BY <1>0, <2>1, <3>3, <4>1
    <3> QED BY <3>2, <3>3
  <2> HIDE DEF old
  <2>4. CASE r.field # "sw"
    <3>1. s.old = old /\ s.field = NextField(r.field) /\ s.pc = "read"
      BY <2>1, <2>4
    <3>2. Past(s.field) = Past(r.field) \cup {r.field}
      <4>1. CASE r.field = "fw"
        BY <3>1, <4>1 DEF NextField, Past, Left, Fields
      <4>2. CASE r.field = "delay"
        BY <3>1, <4>2 DEF NextField, Past, Left, Fields
      <4> QED BY <2>2, <2>4, <4>1, <4>2 DEF Fields
    <3> QED BY <1>0, <2>1, <2>3, <3>1, <3>2, ForeignStep
  <2>5. CASE r.field = "sw"
    <3>1. \A f \in Fields : Bad(r.arg0, f) => ~Plausible(old[f])
      BY <2>3, <2>5, LoopOrder
    <3>2. ValuesValid(old) => ~Foreign(r.arg0)
      BY <3>1 DEF ValuesValid, Foreign, Bad
    <3>3. s.pc \in {"compare", "done"} /\ (s.pc = "compare" => ValuesValid(old))
      BY <2>1, <2>5
    <3> QED BY <1>0, <2>1, <3>2, <3>3, ForeignStep
  <2> QED BY <2>4, <2>5
<1>5. CASE Compare(k)
  <2>1. /\ Moves(k) /\ r.pc = "compare" /\ s.arg0 = r.arg0 /\ mem' = mem
        /\ s.pc \in {"compare", "fetch", "done"}
    BY <1>5, CompareIs
  <2> QED BY <1>0, <2>1, ForeignStep
<1>6. CASE Fetch(k)
  <2>1. Moves(k) /\ r.pc = "fetch" /\ s.pc = "write" /\ s.arg0 = r.arg0 /\ mem' = mem
    BY <1>6, FetchIs
  <2> QED BY <1>0, <2>1, ForeignStep
\* What the handler writes to is not foreign.
<1>7. CASE Write(k)
  <2>1. /\ Moves(k) /\ r.pc = "write" /\ s.arg0 = r.arg0 /\ s.pc \in {"fetch", "load"}
        /\ r.arg0 \in Contexts /\ r.field \in Fields /\ r.value \in Nat
        /\ mem' = [mem EXCEPT ![r.arg0][r.field] = r.value]
    BY <1>7, WriteIs
  <2>2. \A y \in Contexts, f \in Fields : y # r.arg0 => mem'[y][f] = mem[y][f]
    BY <2>1, StoreIsTyped
  <2>3. ~Foreign(r.arg0)
    BY <1>0, <2>1
  <2>4. \A x \in Contexts, f \in Fields : Bad(x, f) => ~Plausible(mem'[x][f])
    BY <1>0, <2>2, <2>3 DEF Foreign, Bad
  <2> QED BY <2>1, <2>3, <2>4, ForeignStep
<1>8. CASE Load(k) \/ Store(k)
  <2>1. /\ Moves(k) /\ r.pc \in {"load", "store"} /\ s.pc \in {"store", "done"}
        /\ s.arg0 = r.arg0 /\ mem' = mem
    BY <1>8, CountIs
  <2> QED BY <1>0, <2>1, ForeignStep
<1>9. CASE Return(k)
  <2>1. Moves(k) /\ s.pc = "idle" /\ mem' = mem
    BY <1>9, ReturnIs
  <2> QED BY <1>0, <2>1, ForeignStep
<1> QED BY <1>1, <1>2, <1>3, <1>4, <1>5, <1>6, <1>7, <1>8, <1>9 DEF Progress
-----------------------------------------------------------------------------
(* An FG context settles.                                                  *)

\* What a step of k must do for context x: what k stores and reads are
\* thresholds, a visit begins with all fields still to be looked at, and in a
\* context that is visited a field that is wrong after the step is k's to fix,
\* or was wrong and somebody else's before.
Settling(k, x) ==
  /\ \A f \in Fields : Plausible(mem'[x][f])
  /\ call'[k].arg0 = x =>
       /\ call'[k].pc = "read" => \A f \in Past(call'[k].field) : Plausible(call'[k].old[f])
       /\ call'[k].pc = "write" => call'[k].value = target[call'[k].field]
  /\ Visited(x)' => Visited(x) \/ \A f \in Fields : WillFix(call'[k], x, f)
  /\ Visited(x)' => \A f \in Fields : mem'[x][f] # target[f] =>
       WillFix(call'[k], x, f) \/ (mem[x][f] # target[f] /\ ~WillFix(call[k], x, f))

LEMMA SettleStep ==
  ASSUME SettleInv, NEW k \in Tasks, Moves(k), UNCHANGED parameters,
         Undisturbed => \A x \in Contexts : Ordinary(x) => Settling(k, x)
  PROVE  SettleInv'
<1>0. UNCHANGED <<cutoff, target, changed>>
  BY DEF parameters
<1>1. Undisturbed' => Undisturbed
  BY <1>0 DEF Undisturbed, ValuesValid, Plausible
<1> SUFFICES ASSUME Undisturbed, NEW x \in Contexts, Ordinary(x)
             PROVE  /\ \A f \in Fields : Plausible(mem'[x][f])
                    /\ \A j \in Tasks : call'[j].arg0 = x =>
                         /\ call'[j].pc = "read" =>
                              \A f \in Past(call'[j].field) : Plausible(call'[j].old[f])
                         /\ call'[j].pc = "write" => call'[j].value = target'[call'[j].field]
                    /\ Visited(x)' => \A f \in Fields :
                         mem'[x][f] # target'[f] => \E j \in Tasks : WillFix(call[j], x, f)'
  BY <1>0, <1>1 DEF SettleInv, Ordinary, ValuesValid, Plausible, Past, Left
<1>2. Settling(k, x)
  OBVIOUS
<1>3. \A j \in Tasks \ {k} : call'[j] = call[j]
  BY DEF Moves
<1>4. \A j \in Tasks : call'[j].arg0 = x =>
        /\ call'[j].pc = "read" => \A f \in Past(call'[j].field) : Plausible(call'[j].old[f])
        /\ call'[j].pc = "write" => call'[j].value = target'[call'[j].field]
  BY <1>0, <1>2, <1>3 DEF SettleInv, Settling
<1>5. ASSUME Visited(x)', NEW f \in Fields, mem'[x][f] # target'[f]
      PROVE  \E j \in Tasks : WillFix(call[j], x, f)'
  <2>1. WillFix(call'[k], x, f) => WillFix(call[k], x, f)'
    BY <1>0 DEF WillFix, Past, Left
  <2>2. CASE WillFix(call'[k], x, f)
    BY <2>1, <2>2
  <2>3. CASE ~WillFix(call'[k], x, f)
    <3>1. Visited(x) /\ mem[x][f] # target[f] /\ ~WillFix(call[k], x, f)
      BY <1>0, <1>2, <1>5, <2>3 DEF Settling
    <3>2. PICK j \in Tasks : WillFix(call[j], x, f)
      BY <3>1 DEF SettleInv
    <3>3. j # k
      BY <3>1, <3>2
    <3>4. WillFix(call[j], x, f)'
      BY <1>0, <1>3, <3>2, <3>3 DEF WillFix, Past, Left
    <3> QED BY <3>4
  <2> QED BY <2>2, <2>3
<1> QED BY <1>2, <1>4, <1>5 DEF Settling

\* A step that writes nothing shared.
LEMMA PrivateSettles ==
  ASSUME SettleInv, Undisturbed, NEW k \in Tasks, NEW x \in Contexts, Ordinary(x),
         Moves(k), mem' = mem, Visited(x)' => Visited(x),
         call'[k].arg0 = call[k].arg0,
         call[k].arg0 = x =>
           /\ call'[k].pc = "read" => \A f \in Past(call'[k].field) : Plausible(call'[k].old[f])
           /\ call'[k].pc = "write" => call'[k].value = target[call'[k].field]
           /\ \A f \in Fields :
                mem[x][f] # target[f] /\ WillFix(call[k], x, f) => WillFix(call'[k], x, f)
  PROVE  Settling(k, x)
<1>1. \A f \in Fields : Plausible(mem'[x][f])
  BY DEF SettleInv
<1>2. \A f \in Fields : mem'[x][f] # target[f] =>
        WillFix(call'[k], x, f) \/ (mem[x][f] # target[f] /\ ~WillFix(call[k], x, f))
  <2>1. CASE call[k].arg0 = x BY <2>1
  <2>2. CASE call[k].arg0 # x BY <2>2 DEF WillFix
  <2> QED BY <2>1, <2>2
<1> QED BY <1>1, <1>2 DEF Settling

\* A call begins: nothing is done yet.
LEMMA EnterSettles ==
  ASSUME TypeInv, SettleInv, Undisturbed, NEW k \in Tasks, NEW x \in Contexts, Ordinary(x),
         NEW y \in Contexts \cup {NullContext}, NEW fields \in SUBSET Fields,
         NEW probed \in BOOLEAN, Enter(k, y, fields, probed)
  PROVE  Settling(k, x)
<1>1. /\ Moves(k) /\ call[k].pc = "idle" /\ call'[k].pc = "vendor"
      /\ mem' = mem /\ UNCHANGED history
  BY EnterIs
<1>2. \A f \in Fields : Plausible(mem'[x][f])
  BY <1>1 DEF SettleInv
<1>3. Visited(x)' => Visited(x)
  BY <1>1, HistoryKept
<1>4. \A f \in Fields : ~WillFix(call[k], x, f)
  BY <1>1 DEF WillFix, Writing
<1> QED BY <1>1, <1>2, <1>3, <1>4 DEF Settling

\* The vendor stores its own thresholds: the handler comes after it, or the
\* context counts as unvisited.
LEMMA VendorSettles ==
  ASSUME TypeInv, SettleInv, Undisturbed, NEW k \in Tasks, NEW x \in Contexts, Ordinary(x),
         NEW g \in Fields, VendorStores(k, g)
  PROVE  Settling(k, x)
<1> DEFINE r == call[k]
           s == call'[k]
<1>1. /\ Moves(k) /\ r.pc = "vendor" /\ s.pc = "vendor" /\ s.arg0 = r.arg0
      /\ s.probed = r.probed /\ r.arg0 \in Contexts
      /\ IF r.probed THEN UNCHANGED history ELSE Disturb(r.arg0)
  BY VendorStoresIs
<1>2. PICK triple \in VendorTriples[r.arg0] : mem' = [mem EXCEPT ![r.arg0][g] = triple[g]]
  BY VendorStoresIs
<1>3. mem \in [Contexts -> [Fields -> Nat]]
  BY DEF TypeInv, TypeOK, Triples
<1>4. \A f \in Fields : Plausible(mem'[x][f])
  <2> SUFFICES ASSUME NEW f \in Fields PROVE Plausible(mem'[x][f])
    OBVIOUS
  <2>1. CASE x = r.arg0 /\ f = g
    <3>1. mem'[x][f] = triple[f] BY <1>2, <1>3, <2>1
    <3> QED BY <1>2, <2>1, <3>1 DEF Ordinary, ValuesValid
  <2>2. CASE ~(x = r.arg0 /\ f = g)
    <3>1. mem'[x][f] = mem[x][f] BY <1>2, <1>3, <2>2
    <3> QED BY <3>1 DEF SettleInv
  <2> QED BY <2>1, <2>2
<1>5. Visited(x)' => Visited(x) /\ (r.probed \/ x # r.arg0)
  <2>1. CASE r.probed
    <3>1. UNCHANGED history BY <1>1, <2>1
    <3> QED BY <1>1, <2>1, <3>1, HistoryKept
  <2>2. CASE ~r.probed
    <3>1. Disturb(r.arg0) BY <1>1, <2>2
    <3> QED BY <1>1, <3>1, HistoryDisturbed
  <2> QED BY <2>1, <2>2
<1>6. Visited(x)' => \A f \in Fields : mem'[x][f] # target[f] =>
        WillFix(s, x, f) \/ (mem[x][f] # target[f] /\ ~WillFix(r, x, f))
  <2>1. CASE r.arg0 = x /\ r.probed BY <1>1, <2>1 DEF WillFix
  <2>2. CASE r.arg0 # x
    <3>1. \A f \in Fields : mem'[x][f] = mem[x][f] BY <1>1, <1>2, <1>3, <2>2
    <3> QED BY <2>2, <3>1 DEF WillFix
  <2> QED BY <1>5, <2>1, <2>2
<1>7. s.pc \notin {"read", "write"}
  BY <1>1
<1> QED BY <1>4, <1>5, <1>6, <1>7 DEF Settling

\* The return handler begins: it will look at every field.
LEMMA ReturnsSettles ==
  ASSUME TypeInv, SettleInv, Undisturbed, NEW k \in Tasks, NEW x \in Contexts, Ordinary(x),
         VendorReturns(k)
  PROVE  Settling(k, x)
<1> DEFINE r == call[k]
           s == call'[k]
<1>1. Moves(k) /\ r.pc = "vendor" /\ s.pc = "return" /\ s.arg0 = r.arg0 /\ mem' = mem
  BY VendorReturnsIs
<1>2. Visited(x)' => Visited(x) \/ x = r.arg0
  BY HistoryBegun
<1>3. \A f \in Fields : Plausible(mem'[x][f])
  BY <1>1 DEF SettleInv
<1>4. CASE r.arg0 = x
  <2>1. \A f \in Fields : WillFix(s, x, f) BY <1>1, <1>4 DEF WillFix
  <2> QED BY <1>1, <1>3, <2>1 DEF Settling
<1>5. CASE r.arg0 # x
  <2>1. \A f \in Fields : ~WillFix(r, x, f) BY <1>5 DEF WillFix
  <2> QED BY <1>1, <1>2, <1>3, <1>5, <2>1 DEF Settling
<1> QED BY <1>4, <1>5

\* A call returns with no handler: it had nothing to fix, or its context
\* counts as unvisited.
LEMMA UnseenSettles ==
  ASSUME TypeInv, SettleInv, Undisturbed, NEW k \in Tasks, NEW x \in Contexts, Ordinary(x),
         VendorReturnsUnseen(k)
  PROVE  Settling(k, x)
<1> DEFINE r == call[k]
           s == call'[k]
<1>1. /\ Moves(k) /\ r.pc = "vendor" /\ s.pc = "done" /\ mem' = mem
      /\ IF r.probed THEN Disturb(r.arg0) ELSE UNCHANGED history
  BY VendorReturnsUnseenIs
<1>2. \A f \in Fields : Plausible(mem'[x][f])
  BY <1>1 DEF SettleInv
<1>3. Visited(x)' => Visited(x) /\ (~r.probed \/ x # r.arg0)
  <2>1. CASE r.probed
    <3>1. Disturb(r.arg0) BY <1>1, <2>1
    <3> QED BY <1>1, <3>1, HistoryDisturbed
  <2>2. CASE ~r.probed
    <3>1. UNCHANGED history BY <1>1, <2>2
    <3> QED BY <1>1, <2>2, <3>1, HistoryKept
  <2> QED BY <2>1, <2>2
<1>4. Visited(x)' => \A f \in Fields : ~WillFix(r, x, f)
  BY <1>1, <1>3 DEF WillFix, Writing
<1> QED BY <1>1, <1>2, <1>3, <1>4 DEF Settling

\* The cutoff flag is read; a NULL context is not visited.
LEMMA ApproachSettles ==
  ASSUME TypeInv, SettleInv, Undisturbed, NEW k \in Tasks, NEW x \in Contexts, Ordinary(x),
         ReadCutoff(k)
  PROVE  Settling(k, x)
<1> DEFINE r == call[k]
           s == call'[k]
<1>1. /\ Moves(k) /\ r.pc = "return" /\ s.arg0 = r.arg0 /\ mem' = mem /\ UNCHANGED history
      /\ IF cutoff /\ r.arg0 # NullContext THEN s.pc = "read" /\ s.field = "fw"
                                           ELSE s.pc = "done"
  BY ReadCutoffIs
<1>2. Visited(x)' => Visited(x)
  BY <1>1, HistoryKept
<1>3. r.arg0 = x => s.pc = "read" /\ Past(s.field) = {} /\ Left(s.field) = Fields
  BY <1>1, LoopOrder, ContextAssumption DEF Undisturbed
<1>4. r.arg0 = x => \A f \in Fields : WillFix(s, x, f)
  BY <1>1, <1>3 DEF WillFix
<1> QED BY <1>1, <1>2, <1>3, <1>4, PrivateSettles

\* A field that is read while it is wrong is remembered as wrong; the range
\* check does not end the handler early.
LEMMA ReadSettles ==
  ASSUME TypeInv, SettleInv, Undisturbed, NEW k \in Tasks, NEW x \in Contexts, Ordinary(x),
         ReadField(k)
  PROVE  Settling(k, x)
<1> DEFINE r == call[k]
           s == call'[k]
           old == [r.old EXCEPT ![r.field] = mem[r.arg0][r.field]]
<1>1. /\ Moves(k) /\ r.pc = "read" /\ s.arg0 = r.arg0 /\ mem' = mem /\ UNCHANGED history
      /\ IF r.field = "sw" /\ ~ValuesValid(old)
           THEN s.pc = "done"
           ELSE /\ s.old = old /\ s.field = NextField(r.field)
                /\ s.pc = IF r.field = "sw" THEN "compare" ELSE "read"
  BY ReadFieldIs
<1>2. r.field \in Fields /\ r.old \in [Fields -> Nat]
  BY DEF TypeInv, TypeOK, Triples
<1>3. Visited(x)' => Visited(x)
  <2>1. s.pc \in {"read", "compare", "done"} BY <1>1
  <2> QED BY <1>1, <2>1, HistoryKept
<1>4. /\ old[r.field] = mem[r.arg0][r.field]
      /\ \A f \in Fields : f # r.field => old[f] = r.old[f]
  BY <1>2
<1> HIDE DEF old
<1>5. ASSUME r.arg0 # x PROVE Settling(k, x)
  BY <1>1, <1>3, <1>5, PrivateSettles
<1>6. ASSUME r.arg0 = x PROVE Settling(k, x)
  <2>1. \A f \in Past(r.field) \cup {r.field} : f \in Fields /\ Plausible(old[f])
    <3>1. Plausible(old[r.field]) BY <1>2, <1>4, <1>6 DEF SettleInv
    <3>2. \A f \in Past(r.field) : f \in Fields /\ Plausible(r.old[f])
      BY <1>1, <1>6 DEF SettleInv, Past
    <3>3. \A f \in Past(r.field) : f # r.field => Plausible(old[f])
      BY <1>4, <3>2
    <3> QED BY <1>2, <3>1, <3>2, <3>3
  <2>2. ASSUME NEW f \in Fields, mem[x][f] # target[f], WillFix(r, x, f)
        PROVE  \/ f \in Left(r.field) \ {r.field}
               \/ \E g \in Past(r.field) \cup {r.field} : old[g] # target[g]
    <3>1. CASE f = r.field
      BY <1>4, <1>6, <2>2, <3>1
    <3>2. CASE f # r.field /\ f \in Left(r.field)
      BY <3>2
    <3>3. CASE \E g \in Past(r.field) : r.old[g] # target[g]
      <4>1. PICK g \in Past(r.field) : r.old[g] # target[g] BY <3>3
      <4>2. g \in Fields /\ g # r.field BY <1>2, <4>1, LoopOrder DEF Past
      <4> QED BY <1>4, <4>1, <4>2
    <3> QED BY <1>1, <2>2, <3>1, <3>2, <3>3 DEF WillFix, Writing
  <2>3. CASE r.field # "sw"
    <3>1. s.old = old /\ s.field = NextField(r.field) /\ s.pc = "read"
      BY <1>1, <2>3
    <3>2. /\ Past(s.field) = Past(r.field) \cup {r.field}
          /\ Left(s.field) = Left(r.field) \ {r.field}
      <4>1. CASE r.field = "fw"
        BY <3>1, <4>1 DEF NextField, Past, Left, Fields
      <4>2. CASE r.field = "delay"
        BY <3>1, <4>2 DEF NextField, Past, Left, Fields
      <4> QED BY <1>2, <2>3, <4>1, <4>2 DEF Fields
    <3>3. \A f \in Fields : mem[x][f] # target[f] /\ WillFix(r, x, f) => WillFix(s, x, f)
      BY <1>1, <1>6, <2>2, <3>1, <3>2 DEF WillFix
    <3> QED BY <1>1, <1>3, <2>1, <3>1, <3>2, <3>3, PrivateSettles
  <2>4. CASE r.field = "sw"
    <3>1. Past(r.field) \cup {r.field} = Fields /\ Left(r.field) \ {r.field} = {}
      BY <1>2, <2>4, LoopOrder
    <3>2. ValuesValid(old) BY <2>1, <3>1 DEF ValuesValid
    <3>3. s.old = old /\ s.field = NextField(r.field) /\ s.pc = "compare"
      BY <1>1, <2>4, <3>2
    <3>4. Left(s.field) = Fields BY <2>4, <3>3, LoopOrder DEF NextField
    <3>5. \A f \in Fields : mem[x][f] # target[f] /\ WillFix(r, x, f) => WillFix(s, x, f)
      BY <1>1, <1>6, <2>2, <3>1, <3>3, <3>4 DEF WillFix
    <3> QED BY <1>1, <1>3, <3>3, <3>5, PrivateSettles
  <2> QED BY <2>3, <2>4
<1> QED BY <1>5, <1>6

\* The comparison ends the handler only when all three were right.
LEMMA CompareSettles ==
  ASSUME TypeInv, SettleInv, Undisturbed, NEW k \in Tasks, NEW x \in Contexts, Ordinary(x),
         Compare(k)
  PROVE  Settling(k, x)
<1> DEFINE r == call[k]
           s == call'[k]
<1>1. /\ Moves(k) /\ r.pc = "compare" /\ s.arg0 = r.arg0 /\ mem' = mem /\ UNCHANGED history
      /\ IF r.old[r.field] # target[r.field] THEN s.pc = "fetch" /\ s.field = "fw"
         ELSE IF r.field = "sw" THEN s.pc = "done"
         ELSE s.pc = "compare" /\ s.field = NextField(r.field) /\ s.old = r.old
  BY CompareIs
<1>2. r.field \in Fields
  BY DEF TypeInv, TypeOK
<1>3. s.pc \in {"fetch", "done", "compare"}
  BY <1>1
<1>4. Visited(x)' => Visited(x)
  BY <1>1, <1>3, HistoryKept
<1>5. ASSUME r.arg0 = x, NEW f \in Fields, WillFix(r, x, f)
      PROVE  WillFix(s, x, f)
  <2>1. PICK g \in Left(r.field) : r.old[g] # target[g]
    BY <1>1, <1>5 DEF WillFix, Writing
  <2>2. CASE r.old[r.field] # target[r.field]
    <3>1. s.pc = "fetch" /\ f \in Left(s.field) BY <1>1, <2>2, LoopOrder
    <3> QED BY <1>1, <1>5, <3>1 DEF WillFix, Writing
  <2>3. CASE r.old[r.field] = target[r.field]
    <3>1. g # r.field BY <2>1, <2>3
    <3>2. r.field # "sw" BY <1>2, <2>1, <3>1, LoopOrder
    <3>3. s.pc = "compare" /\ s.field = NextField(r.field) /\ s.old = r.old
      BY <1>1, <2>3, <3>2
    <3>4. g \in Left(s.field) BY <1>2, <2>1, <3>1, <3>2, <3>3, LoopOrder
    <3> QED BY <1>1, <1>5, <2>1, <3>3, <3>4 DEF WillFix
  <2> QED BY <2>2, <2>3
<1> QED BY <1>1, <1>3, <1>4, <1>5, PrivateSettles

LEMMA FetchSettles ==
  ASSUME TypeInv, SettleInv, Undisturbed, NEW k \in Tasks, NEW x \in Contexts, Ordinary(x),
         Fetch(k)
  PROVE  Settling(k, x)
<1> DEFINE r == call[k]
           s == call'[k]
<1>1. /\ Moves(k) /\ r.pc = "fetch" /\ s.pc = "write" /\ s.arg0 = r.arg0
      /\ s.field = r.field /\ s.value = target[r.field]
      /\ mem' = mem /\ UNCHANGED history
  BY FetchIs
<1>2. \A f \in Fields : WillFix(r, x, f) => WillFix(s, x, f)
  BY <1>1 DEF WillFix, Writing
<1>3. Visited(x)' => Visited(x)
  BY <1>1, HistoryKept
<1> QED BY <1>1, <1>2, <1>3, PrivateSettles

\* The module's value is stored: that field is right, the ones before it are
\* no longer this handler's business.
LEMMA WriteSettles ==
  ASSUME TypeInv, SettleInv, Undisturbed, NEW k \in Tasks, NEW x \in Contexts, Ordinary(x),
         Write(k)
  PROVE  Settling(k, x)
<1> DEFINE r == call[k]
           s == call'[k]
<1>1. /\ Moves(k) /\ r.pc = "write" /\ r.arg0 \in Contexts /\ r.field \in Fields
      /\ s.arg0 = r.arg0 /\ s.field = NextField(r.field)
      /\ s.pc = IF r.field = "sw" THEN "load" ELSE "fetch"
      /\ mem' = [mem EXCEPT ![r.arg0][r.field] = r.value]
      /\ UNCHANGED history
  BY WriteIs
<1>2. mem \in [Contexts -> [Fields -> Nat]]
  BY DEF TypeInv, TypeOK, Triples
<1>3. \A f \in Fields : x # r.arg0 \/ f # r.field => mem'[x][f] = mem[x][f]
  BY <1>1, <1>2
<1>4. x = r.arg0 => mem'[x][r.field] = target[r.field]
  <2>1. x = r.arg0 => r.value = target[r.field]
    BY <1>1 DEF SettleInv
  <2>2. x = r.arg0 => mem'[x][r.field] = r.value
    BY <1>1, <1>2
  <2> QED BY <2>1, <2>2
<1>5. \A f \in Fields : Plausible(mem'[x][f])
  <2> SUFFICES ASSUME NEW f \in Fields PROVE Plausible(mem'[x][f])
    OBVIOUS
  <2>1. CASE x = r.arg0 /\ f = r.field
    BY <1>4, <2>1 DEF Undisturbed, ValuesValid
  <2>2. CASE x # r.arg0 \/ f # r.field
    <3>1. mem'[x][f] = mem[x][f] BY <1>3, <2>2
    <3> QED BY <3>1 DEF SettleInv
  <2> QED BY <2>1, <2>2
<1>6. Visited(x)' => Visited(x)
  <2>1. s.pc \notin {"idle", "vendor"} BY <1>1
  <2> QED BY <1>1, <2>1, HistoryKept
<1>7. ASSUME NEW f \in Fields, mem'[x][f] # target[f], WillFix(r, x, f)
      PROVE  WillFix(s, x, f)
  <2>1. r.arg0 = x /\ f \in Left(r.field)
    BY <1>1, <1>7 DEF WillFix
  <2>2. f # r.field
    BY <1>4, <1>7, <2>1
  <2>3. r.field # "sw" /\ f \in Left(s.field)
    BY <1>1, <2>1, <2>2, LoopOrder
  <2> QED BY <1>1, <2>1, <2>3 DEF WillFix, Writing
<1>8. ASSUME NEW f \in Fields, mem'[x][f] # target[f]
      PROVE  WillFix(s, x, f) \/ (mem[x][f] # target[f] /\ ~WillFix(r, x, f))
  <2>1. mem'[x][f] = mem[x][f]
    BY <1>3, <1>4, <1>8
  <2> QED BY <1>7, <1>8, <2>1
<1>9. s.pc \notin {"read", "write"}
  BY <1>1
<1> QED BY <1>5, <1>6, <1>8, <1>9 DEF Settling

\* Counting the hit and returning fix nothing.
LEMMA CountSettles ==
  ASSUME TypeInv, SettleInv, Undisturbed, NEW k \in Tasks, NEW x \in Contexts, Ordinary(x),
         Load(k) \/ Store(k) \/ Return(k)
  PROVE  Settling(k, x)
<1> DEFINE r == call[k]
           s == call'[k]
<1>1. /\ Moves(k) /\ r.pc \in {"load", "store", "done"} /\ s.pc \in {"store", "done", "idle"}
      /\ mem' = mem
  BY CountIs, ReturnIs
<1>2. Visited(x)' => Visited(x)
  <2>1. CASE Load(k) \/ Store(k)
    <3>1. UNCHANGED history /\ s.pc \in {"store", "done"} /\ s.arg0 = r.arg0
      BY <2>1, CountIs
    <3> QED BY <1>1, <3>1, HistoryKept
  <2>2. CASE Return(k) BY <2>2, HistoryEnded
  <2> QED BY <2>1, <2>2
<1>3. \A f \in Fields : Plausible(mem'[x][f])
  BY <1>1 DEF SettleInv
<1>4. \A f \in Fields : ~WillFix(r, x, f)
  BY <1>1 DEF WillFix, Writing
<1> QED BY <1>1, <1>2, <1>3, <1>4 DEF Settling
-----------------------------------------------------------------------------
(* The steps of the specification.                                         *)

LEMMA EnterInv ==
  ASSUME CutoffInv, NEW k \in Tasks, NEW x \in Contexts \cup {NullContext},
         NEW fields \in SUBSET Fields, NEW probed \in BOOLEAN, Enter(k, x, fields, probed),
         fields # {} => x \in Contexts
  PROVE  CutoffInv'
<1>1. TypeInv /\ ForeignInv /\ SettleInv
  BY DEF CutoffInv
<1>2. TypeInv'
  BY <1>1, EnterTypes
<1>3. ForeignInv'
  BY <1>1, EnterForeign
<1>4. SettleInv'
  <2>1. Moves(k) /\ UNCHANGED parameters
    BY <1>1, EnterIs
  <2>2. Undisturbed => \A y \in Contexts : Ordinary(y) => Settling(k, y)
    BY <1>1, EnterSettles
  <2> QED BY <1>1, <2>1, <2>2, SettleStep
<1> QED BY <1>2, <1>3, <1>4 DEF CutoffInv

LEMMA ProgressInv ==
  ASSUME CutoffInv, NEW k \in Tasks, Progress(k)
  PROVE  CutoffInv'
<1>1. TypeInv /\ ForeignInv /\ SettleInv
  BY DEF CutoffInv
<1>2. TypeInv'
  BY <1>1, ProgressTypes
<1>3. ForeignInv'
  BY <1>1, ProgressForeign
<1>4. Moves(k) /\ UNCHANGED parameters
  <2>1. ASSUME NEW f \in Fields, VendorStores(k, f) PROVE Moves(k) /\ UNCHANGED parameters
    BY <1>1, <2>1, VendorStoresIs
  <2>2. CASE VendorReturns(k) BY <1>1, <2>2, VendorReturnsIs
  <2>3. CASE VendorReturnsUnseen(k) BY <1>1, <2>3, VendorReturnsUnseenIs
  <2>4. CASE ReadCutoff(k) BY <1>1, <2>4, ReadCutoffIs
  <2>5. CASE ReadField(k) BY <1>1, <2>5, ReadFieldIs
  <2>6. CASE Compare(k) BY <1>1, <2>6, CompareIs
  <2>7. CASE Fetch(k) BY <1>1, <2>7, FetchIs
  <2>8. CASE Write(k) BY <1>1, <2>8, WriteIs
  <2>9. CASE Load(k) \/ Store(k) BY <1>1, <2>9, CountIs
  <2>10. CASE Return(k) BY <1>1, <2>10, ReturnIs
  <2> QED BY <2>1, <2>2, <2>3, <2>4, <2>5, <2>6, <2>7, <2>8, <2>9, <2>10 DEF Progress
<1>5. ASSUME Undisturbed, NEW x \in Contexts, Ordinary(x) PROVE Settling(k, x)
  <2>1. ASSUME NEW f \in Fields, VendorStores(k, f) PROVE Settling(k, x)
    BY <1>1, <1>5, <2>1, VendorSettles
  <2>2. CASE VendorReturns(k) BY <1>1, <1>5, <2>2, ReturnsSettles
  <2>3. CASE VendorReturnsUnseen(k) BY <1>1, <1>5, <2>3, UnseenSettles
  <2>4. CASE ReadCutoff(k) BY <1>1, <1>5, <2>4, ApproachSettles
  <2>5. CASE ReadField(k) BY <1>1, <1>5, <2>5, ReadSettles
  <2>6. CASE Compare(k) BY <1>1, <1>5, <2>6, CompareSettles
  <2>7. CASE Fetch(k) BY <1>1, <1>5, <2>7, FetchSettles
  <2>8. CASE Write(k) BY <1>1, <1>5, <2>8, WriteSettles
  <2>9. CASE Load(k) \/ Store(k) \/ Return(k) BY <1>1, <1>5, <2>9, CountSettles
  <2> QED BY <2>1, <2>2, <2>3, <2>4, <2>5, <2>6, <2>7, <2>8, <2>9 DEF Progress
<1>6. SettleInv'
  BY <1>1, <1>4, <1>5, SettleStep
<1> QED BY <1>2, <1>3, <1>6 DEF CutoffInv

\* Root writes a parameter: nothing is settled any more, and the values that
\* handlers have read are what they were.
LEMMA RootInv ==
  ASSUME CutoffInv,
         \/ \E f \in Fields, t \in Targets : SetTarget(f, t[f])
         \/ \E on \in CutoffValues : SetCutoff(on)
  PROVE  CutoffInv'
<1>1. TypeInv /\ ForeignInv
  BY DEF CutoffInv
<1>2. UNCHANGED <<mem, cutoff_hits, call, handled, clean>> /\ changed' = TRUE
  BY DEF SetTarget, SetCutoff, history
<1>3. target' \in Triples /\ cutoff' \in BOOLEAN
  BY <1>1, TargetAssumption DEF SetTarget, SetCutoff, TypeInv, TypeOK, Triples
<1>4. TypeInv'
  BY <1>1, <1>2, <1>3 DEF TypeInv, TypeOK, CleanInv, Shaped, FgContexts, Ordinary,
                          ValuesValid, Plausible
<1>5. ForeignInv'
  BY <1>1, <1>2 DEF ForeignInv, Bad, Foreign, Plausible, Past, Left
<1>6. SettleInv'
  BY <1>2 DEF SettleInv, Undisturbed
<1> QED BY <1>4, <1>5, <1>6 DEF CutoffInv

LEMMA StutterInv == CutoffInv /\ UNCHANGED vars => CutoffInv'
<1> SUFFICES ASSUME CutoffInv, UNCHANGED vars PROVE CutoffInv'
  OBVIOUS
<1>1. TypeInv'
  BY DEF CutoffInv, TypeInv, TypeOK, CleanInv, Shaped, FgContexts, Ordinary, ValuesValid,
         Plausible, vars, parameters, history
<1>2. ForeignInv'
  BY DEF CutoffInv, ForeignInv, Bad, Foreign, Plausible, Past, Left, vars, parameters, history
<1>3. SettleInv'
  BY DEF CutoffInv, SettleInv, Undisturbed, Ordinary, ValuesValid, Plausible, Past, Left,
         Visited, WillFix, vars, parameters, history
<1> QED BY <1>1, <1>2, <1>3 DEF CutoffInv

LEMMA NextInv == CutoffInv /\ [Next]_vars => CutoffInv'
<1> SUFFICES ASSUME CutoffInv, [Next]_vars PROVE CutoffInv'
  OBVIOUS
<1>1. ASSUME NEW k \in Tasks, NEW x \in Contexts, NEW probed \in BOOLEAN, Call(k, x, probed)
      PROVE  CutoffInv'
  <2>1. PICK fields \in VendorStored[x] : Enter(k, x, fields, probed)
    BY <1>1 DEF Call
  <2>2. fields \in SUBSET Fields
    BY ContextAssumption
  <2> QED BY <2>1, <2>2, EnterInv
<1>2. ASSUME NEW k \in Tasks, Enter(k, NullContext, {}, TRUE) PROVE CutoffInv'
  BY <1>2, EnterInv
<1>3. ASSUME NEW k \in Tasks, Progress(k) PROVE CutoffInv'
  BY <1>3, ProgressInv
<1>4. CASE \/ \E f \in Fields, t \in Targets : SetTarget(f, t[f])
           \/ \E on \in CutoffValues : SetCutoff(on)
  BY <1>4, RootInv
<1>5. CASE UNCHANGED vars
  BY <1>5, StutterInv
<1> QED BY <1>1, <1>2, <1>3, <1>4, <1>5 DEF Next

LEMMA SpecInv == Spec => []CutoffInv
BY InitInv, NextInv, PTL DEF Spec

-----------------------------------------------------------------------------
\* Type correctness of the shutdown-threshold hooks: the fields, the
\* parameters and the counter keep their types, and so does every activation of
\* k100pm_apply_cutoff (lines 496-552).
THEOREM CutoffTypeCorrect == Spec => []TypeOK
<1>1. CutoffInv => TypeOK BY DEF CutoffInv, TypeInv
<1> QED BY <1>1, SpecInv, PTL

\* An object with an implausible value in the place of one of the fields is
\* never written by the module (lines 496-500 and 520), whatever the vendor
\* stores in the others while the three are read.
THEOREM ForeignIsSafe == Spec => []ForeignObjectUntouched
<1>1. CutoffInv => ForeignObjectUntouched
  BY DEF CutoffInv, ForeignInv, ForeignObjectUntouched
<1> QED BY <1>1, SpecInv, PTL

\* However the two hooks, the vendor's writes and calls without a handler race,
\* a context that a handler has been through since the last store no handler
\* followed holds the module's three values whenever no call is in progress
\* (lines 517-537; README.md:43-49).
THEOREM ThresholdsReplaced == Spec => []QuiescentTarget
<1>1. CutoffInv => QuiescentTarget
  <2> SUFFICES ASSUME CutoffInv, AllIdle, Undisturbed,
                      NEW x \in handled
               PROVE  mem[x] = target
    BY DEF QuiescentTarget, Undisturbed
  <2>0. x \in Contexts /\ Ordinary(x)
    BY DEF CutoffInv, TypeInv, TypeOK, FgContexts
  <2>1. \A k \in Tasks, f \in Fields : ~WillFix(call[k], x, f)
    BY DEF AllIdle, At, WillFix, Writing
  <2>2. \A f \in Fields : mem[x][f] = target[f]
    BY <2>0, <2>1 DEF CutoffInv, SettleInv, Visited
  <2>3. mem[x] \in [Fields -> Nat] /\ target \in [Fields -> Nat]
    BY <2>0 DEF CutoffInv, TypeInv, TypeOK, Triples
  <2> QED BY <2>2, <2>3
<1> QED BY <1>1, SpecInv, PTL
=============================================================================
