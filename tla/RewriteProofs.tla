---------------------------- MODULE RewriteProofs ----------------------------
(***************************************************************************)
(* Proofs about RewriteProbes for any number of CPUs, any inputs and any   *)
(* temperatures.                                                           *)
(***************************************************************************)
EXTENDS RewriteProbes, TLAPS

(* Which fields of an activation are meaningful where: a map knows its     *)
(* table and its continuation, only the fast-curve handler maps on the way *)
(* to a counter, and a counter is chosen by the time it is loaded.         *)
Shaped(r) ==
  /\ r.pc = "idle" => r = IdleCall
  /\ r.pc # "idle" => r.handler \in Handlers
  /\ r.pc \in {"map", "apply"} =>
       /\ r.then # "none"
       /\ r.then \in {"load", "pps"} => r.handler = "fast"
       /\ r.then = "boostAgain" => r.handler \in Gated
  /\ r.pc = "map" => /\ r.table # "none"
                     /\ r.table = "cv" <=> r.handler = "cv"
                     /\ r.table = "thermal" <=> r.handler = "thermal"
  /\ r.pc = "apply" => r.handler \notin {"cv", "thermal"}
  /\ r.pc \in {"gate", "attribute", "boostAgain", "ppsAgain"} => r.handler \in Gated
  /\ r.pc = "ppsAgain" => r.then = "write"
  /\ r.pc = "boost" => r.handler # "thermal"
  /\ r.pc = "pps" => r.handler \in Gated \cup {"fast"}
  /\ r.pc = "thermal" => r.handler = "thermal"
  /\ r.pc = "attributePps" => r.handler = "fast"
  /\ r.pc = "load" => r.handler = "fast" \/ r.counter \in HitCounters
  /\ r.pc = "store" => r.counter \in HitCounters

ShapeOK == \A c \in CPUs : Shaped(call[c])

TypeInv == TypeOK /\ ShapeOK

-----------------------------------------------------------------------------
(* Lemmas about the operators the handlers are built from.                 *)

\* The unsigned increment: a remainder is below the modulus, never above the
\* number itself, and equal to it while it fits.
LEMMA Remainder ==
  ASSUME NEW a \in Nat, NEW m \in Nat \ {0}
  PROVE  /\ a % m \in 0..(m - 1)
         /\ a < m => a % m = a
         /\ a % m <= a
<1>1. a % m \in 0..(m - 1)
  OBVIOUS
<1>2. a < m => a % m = a
  OBVIOUS
<1>3. a % m <= a
  <2>1. CASE a < m
    BY <1>2, <2>1
  <2>2. CASE ~(a < m)
    BY <1>1, <2>2
  <2> QED
    BY <2>1, <2>2
<1> QED
  BY <1>1, <1>2, <1>3

\* Every table maps a value to a value.
LEMMA TablesAreTyped ==
  ASSUME NEW v \in Nat, NEW t \in Nat
  PROVE  /\ ApplyTemperatureCurrent(t, v) \in Nat
         /\ MapCv(t, v) \in Nat
         /\ MapThermal(t, v) \in Nat
         /\ SingleTable(v) \in Nat
         /\ MultiTable(v) \in Nat
         /\ CurrMaxTable(v) \in Nat
         /\ \A table \in {"ichg", "fast", "pps"} : CurrentTable(table, v) \in Nat
<1>1. ApplyTemperatureCurrent(t, v) \in Nat
  BY DEF ApplyTemperatureCurrent, RecoveryCurrent
<1>2. MapCv(t, v) \in Nat
  BY DEF MapCv, CvTable, RecoveryVoltage, TemperatureBand
<1>3. MapThermal(t, v) \in Nat
  BY DEF MapThermal, RecoveryCurrent, TemperatureBand
<1>4. SingleTable(v) \in Nat /\ MultiTable(v) \in Nat /\ CurrMaxTable(v) \in Nat
  BY DEF SingleTable, MultiTable, CurrMaxTable
<1>5. IchgTable(v) \in Nat
  BY DEF IchgTable
<1>6. FastCurveTable(v) \in Nat
  BY DEF FastCurveTable
<1>7. PpsTable(v) \in Nat
  BY DEF PpsTable
<1> QED
  BY <1>1, <1>2, <1>3, <1>4, <1>5, <1>6, <1>7 DEF CurrentTable

-----------------------------------------------------------------------------
(* Type correctness.                                                       *)

\* A step of one activation keeps the invariant when the new record is typed
\* and shaped.
LEMMA ContinuePreservesType ==
  ASSUME TypeInv, NEW c \in CPUs, NEW r \in Activations, Shaped(r), Continue(c, r)
  PROVE  TypeInv'
<1>1. call' \in [CPUs -> Activations]
  BY DEF TypeInv, TypeOK, Continue
<1>2. TypeOK'
  BY <1>1 DEF TypeInv, TypeOK, Continue
<1>3. ASSUME NEW d \in CPUs PROVE Shaped(call'[d])
  BY DEF TypeInv, TypeOK, ShapeOK, Continue
<1>4. ShapeOK'
  BY <1>3 DEF ShapeOK
<1> QED
  BY <1>2, <1>4 DEF TypeInv

LEMMA IdleIsTyped == IdleCall \in Activations /\ Shaped(IdleCall)
  BY DEF IdleCall, Activations, Labels, Shaped, Gated

LEMMA InitType == Init => TypeInv
<1> SUFFICES ASSUME Init PROVE TypeInv
  OBVIOUS
<1>1. call \in [CPUs -> Activations] /\ ShapeOK
  BY IdleIsTyped DEF Init, ShapeOK
<1>2. seen \in [CPUs -> [temps: SUBSET Nat, boost: SUBSET BOOLEAN,
                         pps: SUBSET BOOLEAN, thermal: SUBSET BOOLEAN]]
  BY DEF Init, NothingSeen
<1>3. hits \in [HitCounters -> 0..(HitModulus - 1)]
  BY HitModulusAssumption DEF Init
<1>4. counted \in [HitCounters -> Nat]
  BY DEF Init
<1>5. param \in [boost: BOOLEAN, pps: BOOLEAN, thermal: BOOLEAN]
  BY ParamAssumption DEF Init
<1> QED
  BY <1>1, <1>2, <1>3, <1>4, <1>5 DEF Init, TypeInv, TypeOK

\* What the fields of an activation may be set to.
Tables == {"none", "ichg", "cv", "fast", "pps", "thermal"}
Places == {"none", "pps", "write", "boostAgain", "load"}

\* The steps of a handler that read: what the activation becomes is typed and
\* shaped.
LEMMA HandleType ==
  ASSUME TypeInv, NEW c \in CPUs, Handle(c), ~Store(c)
  PROVE  TypeInv'
<1> DEFINE r == call[c]
           OK(x) == x \in Activations /\ Shaped(x)
<1>0. OK(r) /\ raw_fg_temperature \in Nat
  BY DEF TypeInv, TypeOK, ShapeOK
<1>a. ASSUME NEW x, NEW y, OK(x), OK(y), Continue(c, x) \/ Continue(c, y) PROVE TypeInv'
  BY <1>a, ContinuePreservesType
<1>1. CASE Gate(c)
  <2>1. OK([r EXCEPT !.pc = "done"]) /\ OK([r EXCEPT !.pc = "boost"])
    BY <1>0, <1>1 DEF Gate, At, Activations, Labels, Shaped, IdleCall, Gated
  <2>2. Continue(c, [r EXCEPT !.pc = "done"]) \/ Continue(c, [r EXCEPT !.pc = "boost"])
    <3>1. CASE TemperatureBand(raw_fg_temperature) = 2
      BY <1>1, <3>1 DEF Gate, Goto
    <3>2. CASE TemperatureBand(raw_fg_temperature) # 2
      BY <1>1, <3>2 DEF Gate, Goto
    <3> QED BY <3>1, <3>2
  <2> HIDE DEF OK
  <2> QED BY <1>a, <2>1, <2>2
<1>2. CASE ReadBoostCurve(c)
  <2>0. r.handler \in Handlers /\ r.handler \in {"ichg", "cv", "fast"}
    BY <1>0, <1>2 DEF ReadBoostCurve, At, Shaped, Curves
  <2>1. OK([r EXCEPT !.pc = "map", !.table = r.handler,
               !.then = IF r.handler = "fast" THEN "pps" ELSE "write"])
    <3> DEFINE then == IF r.handler = "fast" THEN "pps" ELSE "write"
               x == [r EXCEPT !.pc = "map", !.table = r.handler, !.then = then]
    <3>1. /\ then \in Places /\ then \in {"pps", "write"} /\ (then = "pps" => r.handler = "fast")
          /\ "map" \in Labels /\ r.handler \in Tables
      BY <2>0 DEF Labels, Places, Tables
    <3> HIDE DEF then
    <3>4. x \in Activations
      BY <1>0, <3>1, ZenonT(60) DEF Activations, Places, Tables
    <3>2. /\ x.pc = "map" /\ x.handler = r.handler
          /\ x.table = r.handler /\ x.then = then
      BY <1>0 DEF Activations
    <3> HIDE DEF x
    <3>3. Shaped(x)
      BY <2>0, <3>1, <3>2 DEF Shaped
    <3> QED BY <3>3, <3>4 DEF x, then
  <2>2. OK([r EXCEPT !.pc = IF r.handler = "fast" THEN "pps" ELSE "done"])
    <3> DEFINE l == IF r.handler = "fast" THEN "pps" ELSE "done"
               x == [r EXCEPT !.pc = l]
    <3>1. l \in Labels /\ l \in {"pps", "done"} /\ (l = "pps" => r.handler = "fast")
      BY DEF Labels
    <3> HIDE DEF l
    <3>2. x \in Activations /\ x.pc = l /\ x.handler = r.handler
      BY <1>0, <3>1 DEF Activations
    <3> HIDE DEF x
    <3>3. Shaped(x)
      BY <2>0, <3>1, <3>2 DEF Shaped
    <3> QED BY <3>2, <3>3 DEF x, l
  <2> HIDE DEF OK
  <2> QED BY <1>a, <1>2, <2>1, <2>2 DEF ReadBoostCurve, Goto
<1>3. CASE ReadBoostStep(c)
  <2>0. r.value \in Nat /\ r.pc = "boost" /\ r.handler \in {"single", "multi", "max"}
    BY <1>0, <1>3 DEF ReadBoostStep, At, Gated, Activations
  <2>1. StepTable(r.handler, r.value) \in Nat
    BY <2>0, TablesAreTyped DEF StepTable
  <2>2. ASSUME NEW v \in Nat
        PROVE  OK([r EXCEPT !.pc = "boostAgain", !.value = v])
    BY <1>0, <2>0, ZenonT(60) DEF Activations, Labels, Shaped, IdleCall, Gated
  <2>3. OK([r EXCEPT !.pc = "pps"])
    BY <1>0, <2>0 DEF Activations, Labels, Shaped, IdleCall, Gated
  <2> DEFINE raised == [r EXCEPT !.pc = "boostAgain", !.value = StepTable(r.handler, r.value)]
  <2>4. Continue(c, raised) \/ Continue(c, [r EXCEPT !.pc = "pps"])
    BY <1>3 DEF ReadBoostStep, Goto
  <2>5. OK(raised)
    BY <2>1, <2>2
  <2> HIDE DEF raised, OK
  <2> QED BY <1>a, <2>3, <2>4, <2>5
<1>4. CASE ReadThermal(c)
  <2>1. /\ OK([r EXCEPT !.pc = "map", !.table = "thermal", !.then = "write"])
        /\ OK([r EXCEPT !.pc = "done"])
    BY <1>0, <1>4, ZenonT(60) DEF At, ReadThermal, Activations, Labels, Shaped, IdleCall, Gated
  <2> HIDE DEF OK
  <2> QED BY <1>a, <1>4, <2>1 DEF ReadThermal, Goto
<1>5. CASE MapReadOnce(c)
  <2>1. SingleReadMap(r.table, raw_fg_temperature, r.value) \in Nat
    BY <1>0, TablesAreTyped DEF SingleReadMap, Activations
  <2>2. OK([r EXCEPT !.pc = r.then,
              !.value = SingleReadMap(r.table, raw_fg_temperature, r.value)])
    BY <1>0, <1>5, <2>1
       DEF At, MapReadOnce, Activations, Labels, Shaped, IdleCall, Gated
  <2> HIDE DEF OK
  <2> QED BY <1>a, <1>5, <2>2 DEF MapReadOnce
<1>6. CASE MapCurrentRead(c)
  <2>1. CurrentTable(r.table, r.value) \in Nat
    BY <1>0, <1>6, TablesAreTyped DEF MapCurrentRead, At, Activations, Shaped
  <2>2. /\ OK([r EXCEPT !.pc = r.then])
        /\ OK([r EXCEPT !.pc = "apply"])
        /\ OK([r EXCEPT !.pc = r.then, !.value = CurrentTable(r.table, r.value)])
    <3>1. /\ r.then \in {"pps", "write", "boostAgain", "load"}
          /\ r.then \in {"load", "pps"} => r.handler = "fast"
          /\ r.then = "boostAgain" => r.handler \in Gated
          /\ r.handler \in Handlers /\ r.handler \notin {"cv", "thermal"}
      BY <1>0, <1>6 DEF MapCurrentRead, At, Activations, Shaped
    <3>2. ASSUME NEW v \in Nat, NEW l \in {"pps", "write", "boostAgain", "load", "apply"},
                 l = r.then \/ l = "apply"
          PROVE  OK([r EXCEPT !.pc = l]) /\ OK([r EXCEPT !.pc = l, !.value = v])
      <4> DEFINE x == [r EXCEPT !.pc = l]
                 y == [r EXCEPT !.pc = l, !.value = v]
      <4>1. l \in Labels
        BY DEF Labels
      <4>2. /\ x \in Activations /\ x.pc = l /\ x.handler = r.handler /\ x.then = r.then
            /\ y \in Activations /\ y.pc = l /\ y.handler = r.handler /\ y.then = r.then
        BY <1>0, <3>2, <4>1 DEF Activations
      <4> HIDE DEF x, y
      <4>3. Shaped(x) /\ Shaped(y)
        BY <3>1, <3>2, <4>2 DEF Shaped
      <4> QED BY <4>2, <4>3 DEF x, y
    <3> HIDE DEF OK
    <3> QED BY <2>1, <3>1, <3>2
  <2> DEFINE x == [r EXCEPT !.pc = r.then, !.value = CurrentTable(r.table, r.value)]
  <2>3. CASE TemperatureBand(raw_fg_temperature) = 2
    <3>1. Continue(c, [r EXCEPT !.pc = r.then])
      BY <1>6, <2>3 DEF MapCurrentRead, Goto
    <3> HIDE DEF OK
    <3> QED BY <1>a, <2>2, <3>1
  <2>4. CASE TemperatureBand(raw_fg_temperature) = 1
    <3>1. Continue(c, [r EXCEPT !.pc = "apply"])
      BY <1>6, <2>4 DEF MapCurrentRead, Goto
    <3> HIDE DEF OK
    <3> QED BY <1>a, <2>2, <3>1
  <2>5. CASE TemperatureBand(raw_fg_temperature) \notin {1, 2}
    <3>1. Continue(c, x)
      BY <1>6, <2>5 DEF MapCurrentRead
    <3> HIDE DEF OK
    <3> QED BY <1>a, <2>2, <3>1
  <2> QED BY <2>3, <2>4, <2>5
<1>7. CASE Apply(c)
  <2>1. ApplyTemperatureCurrent(raw_fg_temperature, r.value) \in Nat
    BY <1>0, TablesAreTyped DEF Activations
  <2>2. OK([r EXCEPT !.pc = r.then,
              !.value = ApplyTemperatureCurrent(raw_fg_temperature, r.value)])
    BY <1>0, <1>7, <2>1 DEF At, Apply, Activations, Labels, Shaped, IdleCall, Gated
  <2> HIDE DEF OK
  <2> QED BY <1>a, <1>7, <2>2 DEF Apply
<1>8. CASE ReadPps(c)
  <2> DEFINE after == IF r.handler = "fast" THEN "write" ELSE "boostAgain"
  <2>1. /\ OK([r EXCEPT !.pc = "map", !.table = "pps", !.then = after])
        /\ OK([r EXCEPT !.pc = after])
    <3> DEFINE x == [r EXCEPT !.pc = "map", !.table = "pps", !.then = after]
               y == [r EXCEPT !.pc = after]
    <3>1. /\ after \in Places /\ after \in Labels /\ "map" \in Labels /\ "pps" \in Tables
          /\ after \in {"write", "boostAgain"}
      BY DEF Places, Tables, Labels
    <3>2. r.handler \in Handlers /\ (after = "boostAgain" => r.handler \in Gated)
          /\ r.handler \notin {"cv", "thermal"}
      BY <1>0, <1>8 DEF ReadPps, At, Shaped, Gated
    <3> HIDE DEF after
    <3>5. x \in Activations /\ y \in Activations
      BY <1>0, <3>1, ZenonT(60) DEF Activations, Places, Tables
    <3>3. /\ x.pc = "map" /\ x.handler = r.handler /\ x.table = "pps" /\ x.then = after
          /\ y.pc = after /\ y.handler = r.handler
      BY <1>0 DEF Activations
    <3> HIDE DEF x, y
    <3>4. Shaped(x) /\ Shaped(y)
      BY <3>1, <3>2, <3>3 DEF Shaped
    <3> QED BY <3>4, <3>5 DEF x, y
  <2> HIDE DEF OK
  <2> QED BY <1>a, <1>8, <2>1 DEF ReadPps, Goto
<1>9. CASE ReadBoostAgain(c)
  <2>1. \A l \in {"apply", "ppsAgain"} : OK([r EXCEPT !.pc = l, !.then = "write"])
    BY <1>0, <1>9, ZenonT(60) DEF At, ReadBoostAgain, Activations, Labels, Shaped, IdleCall, Gated
  <2> HIDE DEF OK
  <2> QED BY <1>a, <1>9, <2>1 DEF ReadBoostAgain
<1>10. CASE ReadPpsAgain(c)
  <2>1. /\ OK([r EXCEPT !.pc = "apply"])
        /\ OK([r EXCEPT !.pc = "write"])
    BY <1>0, <1>10 DEF At, ReadPpsAgain, Activations, Labels, Shaped, IdleCall, Gated
  <2> HIDE DEF OK
  <2> QED BY <1>a, <1>10, <2>1 DEF ReadPpsAgain, Goto
<1>11. CASE Write(c)
  <2> DEFINE next == CASE r.handler \in Gated  -> "attribute"
                       [] r.handler = "fast"   -> "attributePps"
                       [] OTHER                -> "load"
  <2>1. OK([r EXCEPT !.pc = "done"])
    BY <1>0, <1>11 DEF At, Write, Activations, Labels, Shaped, IdleCall, Gated
  <2>2. r.handler \in Handlers /\ r.value \in Nat
    BY <1>0, <1>11 DEF At, Write, Activations, Shaped
  <2>3. /\ next \in {"attribute", "attributePps", "load"}
        /\ next = "attribute" => r.handler \in Gated
        /\ next = "attributePps" => r.handler = "fast"
        /\ next = "load" => r.handler \in {"ichg", "cv", "thermal"}
    BY <2>2, HandlersAssumption DEF Gated, Curves
  <2> HIDE DEF next
  <2> DEFINE after == [r EXCEPT !.reg = r.value, !.pc = next, !.counter = r.handler]
  <2>4. after \in Activations
    BY <1>0, <2>2, <2>3, ZenonT(60) DEF Activations, Labels
  <2>5. after.pc = next /\ after.handler = r.handler /\ after.counter = r.handler
    BY <1>0 DEF Activations
  <2> HIDE DEF after
  <2>6. Shaped(after)
    BY <2>2, <2>3, <2>5 DEF Shaped, HitCounters
  <2>7. OK(after)
    BY <2>4, <2>6
  <2>8. CASE r.value = r.old
    <3>1. Continue(c, [r EXCEPT !.pc = "done"])
      BY <1>11, <2>8 DEF Write
    <3> HIDE DEF OK
    <3> QED BY <1>a, <2>1, <3>1
  <2>9. CASE r.value # r.old
    <3>1. Continue(c, after)
      BY <1>11, <2>9 DEF Write, next, after
    <3> HIDE DEF OK
    <3> QED BY <1>a, <2>7, <3>1
  <2> QED BY <2>8, <2>9
<1>12. CASE AttributeStep(c)
  <2>1. \A k \in {"curve", "pps"} : OK([r EXCEPT !.pc = "load", !.counter = k])
    BY <1>0, <1>12, ZenonT(60)
       DEF At, AttributeStep, Activations, Labels, Shaped, IdleCall, Gated, HitCounters
  <2> HIDE DEF OK
  <2> QED BY <1>a, <1>12, <2>1 DEF AttributeStep
<1>13. CASE AttributePps(c)
  <2>1. /\ OK([r EXCEPT !.pc = "map", !.value = r.old, !.table = "pps", !.then = "load"])
        /\ OK([r EXCEPT !.pc = "load", !.value = r.old])
    BY <1>0, <1>13, ZenonT(60) DEF At, AttributePps, Activations, Labels, Shaped, IdleCall, Gated
  <2> HIDE DEF OK
  <2> QED BY <1>a, <1>13, <2>1 DEF AttributePps
<1>14. CASE Load(c)
  <2>1. CounterOf(r) \in HitCounters
    BY <1>0, <1>14 DEF At, Load, CounterOf, Shaped, HitCounters
  <2>2. hits[CounterOf(r)] \in Nat
    BY <2>1, HitModulusAssumption DEF TypeInv, TypeOK
  <2>3. OK([r EXCEPT !.pc = "store", !.counter = CounterOf(r),
                     !.loaded = hits[CounterOf(r)]])
    BY <1>0, <1>14, <2>1, <2>2, ZenonT(60)
       DEF At, Load, Activations, Labels, Shaped, IdleCall, Gated
  <2> HIDE DEF OK
  <2> QED BY <1>a, <1>14, <2>3 DEF Load
<1> QED
  BY <1>1, <1>2, <1>3, <1>4, <1>5, <1>6, <1>7, <1>8, <1>9, <1>10, <1>11, <1>12,
     <1>13, <1>14 DEF Handle

LEMMA StoreType ==
  ASSUME TypeInv, NEW c \in CPUs, Store(c)
  PROVE  TypeInv'
<1> DEFINE k == call[c].counter
<1>0. call[c] \in Activations /\ Shaped(call[c]) /\ call[c].pc = "store"
  BY DEF TypeInv, TypeOK, ShapeOK, Store, StoreValue, At
<1>1. k \in HitCounters /\ call[c].loaded \in Nat
  BY <1>0 DEF Shaped, Activations
<1>2. (call[c].loaded + 1) % HitModulus \in 0..(HitModulus - 1)
  <2>1. call[c].loaded + 1 \in Nat /\ HitModulus \in Nat \ {0}
    BY <1>1, HitModulusAssumption
  <2> QED
    BY <2>1, Remainder
<1> DEFINE n == (call[c].loaded + 1) % HitModulus
           Unsigned == 0..(HitModulus - 1)
<1>3. hits' \in [HitCounters -> Unsigned]
  <2>1. hits \in [HitCounters -> Unsigned] /\ n \in Unsigned
    BY <1>2 DEF TypeInv, TypeOK
  <2>2. hits' = [hits EXCEPT ![k] = n]
    BY DEF Store, StoreValue
  <2> HIDE DEF n, Unsigned
  <2> QED
    BY <2>1, <2>2, <1>1
<1>4. counted' \in [HitCounters -> Nat]
  BY <1>1 DEF Store, StoreValue, TypeInv, TypeOK
<1> DEFINE after == [call[c] EXCEPT !.pc = "done"]
<1>5. after \in Activations /\ Shaped(after)
  BY <1>0 DEF Activations, Labels, Shaped
<1>6. call' = [call EXCEPT ![c] = after]
  BY DEF Store, StoreValue
<1> HIDE DEF after
<1>7. call' \in [CPUs -> Activations] /\ ShapeOK'
  BY <1>5, <1>6 DEF TypeInv, TypeOK, ShapeOK
<1> QED
  BY <1>3, <1>4, <1>7 DEF Store, StoreValue, TypeInv, TypeOK

\* The environment's steps: calls that begin and end, a published
\* temperature, a parameter written.
LEMMA ObserveIsTyped ==
  ASSUME NEW field \in {"temps", "boost", "pps", "thermal"}, NEW x,
         field = "temps" => x \in Nat, field # "temps" => x \in BOOLEAN,
         TypeOK, Observe(field, x)
  PROVE  seen' \in [CPUs -> [temps: SUBSET Nat, boost: SUBSET BOOLEAN,
                             pps: SUBSET BOOLEAN, thermal: SUBSET BOOLEAN]]
<1> DEFINE S == [temps: SUBSET Nat, boost: SUBSET BOOLEAN,
                 pps: SUBSET BOOLEAN, thermal: SUBSET BOOLEAN]
<1>1. ASSUME NEW c \in CPUs
      PROVE  [seen[c] EXCEPT ![field] = @ \cup {x}] \in S
  <2>1. seen[c] \in S
    BY DEF TypeOK
  <2>2. CASE field = "temps"
    BY <2>1, <2>2
  <2>3. CASE field = "boost"
    BY <2>1, <2>3
  <2>4. CASE field = "pps"
    BY <2>1, <2>4
  <2>5. CASE field = "thermal"
    BY <2>1, <2>5
  <2> QED
    BY <2>2, <2>3, <2>4, <2>5
<1> QED
  BY <1>1 DEF Observe, TypeOK

LEMMA EnvironmentType ==
  ASSUME TypeInv,
         \/ \E c \in CPUs : Return(c)
         \/ \E c \in CPUs, h \in Handlers : \E v \in Inputs[h] : Enter(c, h, v)
         \/ \E t \in Temperatures : PublishTemperature(t)
         \/ \E p \in DOMAIN param, on \in BOOLEAN : SetParam(p, on)
  PROVE  TypeInv'
<1> DEFINE S == [temps: SUBSET Nat, boost: SUBSET BOOLEAN,
                 pps: SUBSET BOOLEAN, thermal: SUBSET BOOLEAN]
<1>1. ASSUME NEW c \in CPUs, Return(c) PROVE TypeInv'
  <2>1. NothingSeen \in S
    BY DEF NothingSeen
  <2>2. seen' \in [CPUs -> S]
    BY <1>1, <2>1 DEF Return, TypeInv, TypeOK
  <2>3. call' \in [CPUs -> Activations] /\ ShapeOK'
    BY <1>1, IdleIsTyped DEF Return, TypeInv, TypeOK, ShapeOK
  <2> QED
    BY <1>1, <2>2, <2>3 DEF Return, TypeInv, TypeOK
<1>2. ASSUME NEW c \in CPUs, NEW h \in Handlers, NEW v \in Inputs[h], Enter(c, h, v)
      PROVE  TypeInv'
  <2> DEFINE r == [IdleCall EXCEPT
                     !.pc = EntryPoint(h), !.handler = h, !.old = v, !.value = v, !.reg = v]
  <2>1. Now \in S
    BY DEF Now, TypeInv, TypeOK
  <2>2. seen' \in [CPUs -> S]
    BY <1>2, <2>1 DEF Enter, TypeInv, TypeOK
  <2>3. v \in Nat /\ h \in Gated \cup Curves \cup {"thermal"}
    BY InputsAssumption, HandlersAssumption
  <2>4. /\ h \in Gated => EntryPoint(h) = "gate"
        /\ h \in Curves => EntryPoint(h) = "boost"
        /\ h = "thermal" => EntryPoint(h) = "thermal"
    BY DEF EntryPoint, Gated, Curves
  <2>5. \A l \in Labels : [IdleCall EXCEPT !.pc = l, !.handler = h, !.old = v,
                                           !.value = v, !.reg = v] \in Activations
    BY <2>3 DEF IdleCall, Activations
  <2>6. r \in Activations /\ r.pc = EntryPoint(h) /\ r.handler = h
    BY <2>3, <2>4, <2>5 DEF IdleCall, Labels
  <2> HIDE DEF r
  <2>7. Shaped(r)
    BY <2>3, <2>4, <2>6 DEF Shaped, Gated, Curves
  <2>8. call' = [call EXCEPT ![c] = r]
    BY <1>2 DEF Enter, r
  <2>9. call' \in [CPUs -> Activations] /\ ShapeOK'
    BY <2>6, <2>7, <2>8 DEF TypeInv, TypeOK, ShapeOK
  <2>10. entered' \in Nat
    <3>1. entered \in Nat
      BY DEF TypeInv, TypeOK
    <3>2. entered' = entered + 1
      BY <1>2 DEF Enter
    <3> QED
      BY <3>1, <3>2
  <2> QED
    BY <1>2, <2>2, <2>9, <2>10 DEF Enter, TypeInv, TypeOK
<1>3. ASSUME NEW t \in Temperatures, PublishTemperature(t) PROVE TypeInv'
  <2>1. seen' \in [CPUs -> S]
    BY <1>3, ObserveIsTyped, TemperaturesAssumption DEF PublishTemperature, TypeInv
  <2> QED
    BY <1>3, <2>1, TemperaturesAssumption DEF PublishTemperature, TypeInv, TypeOK, ShapeOK
<1>4. ASSUME NEW p \in DOMAIN param, NEW on \in BOOLEAN, SetParam(p, on) PROVE TypeInv'
  <2>1. p \in {"boost", "pps", "thermal"}
    BY DEF TypeInv, TypeOK
  <2>2. seen' \in [CPUs -> S]
    BY <1>4, <2>1, ObserveIsTyped DEF SetParam, TypeInv
  <2>3. param' \in [boost: BOOLEAN, pps: BOOLEAN, thermal: BOOLEAN]
    BY <1>4, <2>1 DEF SetParam, TypeInv, TypeOK
  <2> QED
    BY <1>4, <2>2, <2>3 DEF SetParam, TypeInv, TypeOK, ShapeOK
<1> QED
  BY <1>1, <1>2, <1>3, <1>4

LEMMA StepType == TypeInv /\ [Next]_vars => TypeInv'
<1> SUFFICES ASSUME TypeInv, [Next]_vars PROVE TypeInv'
  OBVIOUS
<1>1. CASE UNCHANGED vars
  BY <1>1 DEF vars, TypeInv, TypeOK, ShapeOK
<1>2. CASE Next
  BY <1>2, HandleType, StoreType, EnvironmentType DEF Next
<1> QED
  BY <1>1, <1>2

\* In every reachable state the handlers' variables have the types the code
\* gives them, and each activation's locals are set where its handler uses
\* them.
THEOREM TypeCorrect == Spec => [](TypeOK /\ ShapeOK)
<1>1. Spec => []TypeInv
  BY InitType, StepType, PTL DEF Spec
<1> QED
  BY <1>1, PTL DEF TypeInv

-----------------------------------------------------------------------------
(* The frame of a handler's step: it changes no other activation, not what *)
(* was readable, and neither the argument nor the handler it runs; only    *)
(* Load leads to a store and only Store counts.                            *)

Frame(c) ==
  /\ call' \in [CPUs -> Activations]
  /\ \A d \in CPUs \ {c} : call'[d] = call[d]
  /\ call'[c].pc # "idle"
  /\ call'[c].handler = call[c].handler
  /\ call'[c].old = call[c].old
  /\ UNCHANGED <<param, raw_fg_temperature, seen, entered>>
  /\ Load(c) \/ call'[c].pc # "store"
  /\ Store(c) \/ UNCHANGED <<hits, counted>>

LEMMA HandleFrame ==
  ASSUME TypeInv, NEW c \in CPUs, Handle(c)
  PROVE  Frame(c) /\ TypeInv'
<1> DEFINE r == call[c]
<1>0. /\ call \in [CPUs -> Activations]
      /\ r \in Activations /\ Shaped(r) /\ r.handler \in Handlers
  BY DEF TypeInv, TypeOK, ShapeOK, Handle, Gate, ReadBoostCurve, ReadBoostStep, ReadThermal,
     MapReadOnce, MapCurrentRead, Apply, ReadPps, ReadBoostAgain, ReadPpsAgain, Write,
     AttributeStep, AttributePps, Load, Store, StoreValue, At, Shaped
<1>1. TypeInv'
  BY HandleType, StoreType
<1>2. call' \in [CPUs -> Activations]
  BY <1>1 DEF TypeInv, TypeOK
<1> DEFINE Framed == /\ \A d \in CPUs \ {c} : call'[d] = call[d]
                     /\ call'[c].pc # "idle"
                     /\ call'[c].handler = r.handler
                     /\ call'[c].old = r.old
                     /\ UNCHANGED <<param, raw_fg_temperature, seen, entered>>
                     /\ Load(c) \/ call'[c].pc # "store"
                     /\ Store(c) \/ UNCHANGED <<hits, counted>>
<1>3. ASSUME Gate(c) PROVE Framed
  BY <1>0, <1>3 DEF Gate, At, Goto, Continue, Activations, Shaped
<1>4. ASSUME ReadBoostCurve(c) PROVE Framed
  <2>1. CASE param.boost
    <3>1. Continue(c, [r EXCEPT !.pc = "map", !.table = r.handler,
                          !.then = IF r.handler = "fast" THEN "pps" ELSE "write"])
      BY <1>4, <2>1 DEF ReadBoostCurve
    <3> QED
      BY <1>0, <1>4, <3>1 DEF At, Continue, Activations, Shaped
  <2>2. CASE ~(param.boost)
    BY <1>0, <1>4, <2>2 DEF ReadBoostCurve, At, Goto, Continue, Activations, Shaped
  <2> QED
    BY <2>1, <2>2
<1>5. ASSUME ReadBoostStep(c) PROVE Framed
  <2>1. CASE param.boost /\ (r.handler = "max" => r.value = 17500)
    <3>1. Continue(c, [r EXCEPT !.pc = "boostAgain", !.value = StepTable(r.handler, r.value)])
      BY <1>5, <2>1 DEF ReadBoostStep
    <3> QED
      BY <1>0, <1>5, <3>1 DEF At, Continue, Activations, Shaped
  <2>2. CASE ~(param.boost /\ (r.handler = "max" => r.value = 17500))
    BY <1>0, <1>5, <2>2 DEF ReadBoostStep, At, Goto, Continue, Activations, Shaped
  <2> QED
    BY <2>1, <2>2
<1>6. ASSUME ReadThermal(c) PROVE Framed
  <2>1. CASE param.thermal
    <3>1. Continue(c, [r EXCEPT !.pc = "map", !.table = "thermal", !.then = "write"])
      BY <1>6, <2>1 DEF ReadThermal
    <3> QED
      BY <1>0, <1>6, <3>1 DEF At, Continue, Activations, Shaped
  <2>2. CASE ~(param.thermal)
    BY <1>0, <1>6, <2>2 DEF ReadThermal, At, Goto, Continue, Activations, Shaped
  <2> QED
    BY <2>1, <2>2
<1>7. ASSUME MapReadOnce(c) PROVE Framed
  BY <1>0, <1>7 DEF MapReadOnce, At, Continue, Activations, Shaped
<1>8. ASSUME MapCurrentRead(c) PROVE Framed
  <2> DEFINE band == TemperatureBand(raw_fg_temperature)
  <2>1. CASE band = 2
    BY <2>1, <1>0, <1>8 DEF MapCurrentRead, At, Goto, Continue, Activations, Shaped
  <2>2. CASE band = 1
    BY <2>2, <1>0, <1>8 DEF MapCurrentRead, At, Goto, Continue, Activations, Shaped
  <2>3. CASE band \notin {1, 2}
    <3>1. Continue(c, [r EXCEPT !.pc = r.then, !.value = CurrentTable(r.table, r.value)])
      BY <1>8, <2>3 DEF MapCurrentRead
    <3>2. r.then \notin {"none", "idle"}
      BY <1>0, <1>8 DEF MapCurrentRead, At, Activations, Shaped
    <3> QED
      BY <1>0, <3>1, <3>2 DEF Continue, Activations
  <2> QED
    BY <2>1, <2>2, <2>3
<1>9. ASSUME Apply(c) PROVE Framed
  BY <1>0, <1>9 DEF Apply, At, Continue, Activations, Shaped
<1>10. ASSUME ReadPps(c) PROVE Framed
  <2>1. CASE param.pps
    <3>1. Continue(c, [r EXCEPT !.pc = "map", !.table = "pps",
                          !.then = IF r.handler = "fast" THEN "write" ELSE "boostAgain"])
      BY <1>10, <2>1 DEF ReadPps
    <3> QED
      BY <1>0, <1>10, <3>1 DEF At, Continue, Activations, Shaped
  <2>2. CASE ~(param.pps)
    BY <1>0, <1>10, <2>2 DEF ReadPps, At, Goto, Continue, Activations, Shaped
  <2> QED
    BY <2>1, <2>2
<1>11. ASSUME ReadBoostAgain(c) PROVE Framed
  BY <1>0, <1>11 DEF ReadBoostAgain, At, Continue, Activations, Shaped
<1>12. ASSUME ReadPpsAgain(c) PROVE Framed
  BY <1>0, <1>12 DEF ReadPpsAgain, At, Goto, Continue, Activations, Shaped
<1>13. ASSUME Write(c) PROVE Framed
  BY <1>0, <1>13 DEF Write, At, Continue, Activations, Shaped
<1>14. ASSUME AttributeStep(c) PROVE Framed
  BY <1>0, <1>14 DEF AttributeStep, At, Continue, Activations, Shaped
<1>15. ASSUME AttributePps(c) PROVE Framed
  BY <1>0, <1>15 DEF AttributePps, At, Continue, Activations, Shaped
<1>16. ASSUME Load(c) PROVE Framed
  BY <1>0, <1>16 DEF Load, At, Continue, Activations, Shaped
<1>17. ASSUME Store(c) PROVE Framed
  BY <1>0, <1>17 DEF Store, StoreValue, At, Activations
<1> QED
  BY <1>1, <1>2, <1>3, <1>4, <1>5, <1>6, <1>7, <1>8, <1>9, <1>10, <1>11, <1>12, <1>13,
     <1>14, <1>15, <1>16, <1>17 DEF Handle, Frame

-----------------------------------------------------------------------------
(* RetainedAbove58.  The inductive invariant adds what the property leaves *)
(* out: the temperature in force is one the activation has seen, the local *)
(* value is still the argument, and a gated handler never got past its     *)
(* gate.                                                                   *)

Retained(r, s) ==
  (\A t \in s.temps : t >= 580) =>
    /\ r.value = r.old
    /\ r.reg = r.old
    /\ r.handler \in Gated => r.pc \in {"gate", "done"}

SeenCurrent == \A c \in CPUs : Active(c) => raw_fg_temperature \in seen[c].temps

RetainInv == SeenCurrent /\ \A c \in CPUs : Retained(call[c], seen[c])

LEMMA HandleRetains ==
  ASSUME TypeInv, RetainInv, NEW c \in CPUs, Handle(c)
  PROVE  RetainInv'
<1> DEFINE r == call[c]
<1>0. /\ call \in [CPUs -> Activations]
      /\ r \in Activations /\ Shaped(r) /\ raw_fg_temperature \in Nat
      /\ r.pc # "idle"
  BY DEF TypeInv, TypeOK, ShapeOK, Handle, Gate, ReadBoostCurve, ReadBoostStep, ReadThermal,
     MapReadOnce, MapCurrentRead, Apply, ReadPps, ReadBoostAgain, ReadPpsAgain, Write,
     AttributeStep, AttributePps, Load, Store, StoreValue, At
<1>1. Frame(c)
  BY HandleFrame
<1>2. SeenCurrent'
  BY <1>0, <1>1 DEF SeenCurrent, RetainInv, Frame, Active, At
<1>3. ASSUME \A t \in seen[c].temps : t >= 580
      PROVE  /\ call'[c].value = r.old
             /\ call'[c].reg = r.old
             /\ r.handler \in Gated => call'[c].pc \in {"gate", "done"}
  <2>0. /\ TemperatureBand(raw_fg_temperature) = 2
        /\ r.value = r.old /\ r.reg = r.old
        /\ r.handler \in Gated => r.pc \in {"gate", "done"}
    <3>1. raw_fg_temperature >= 580
      BY <1>0, <1>3 DEF RetainInv, SeenCurrent, Active, At
    <3> QED
      BY <1>3, <3>1 DEF TemperatureBand, RetainInv, Retained
  <2>1. CASE Gate(c)
    BY <1>0, <2>0, <2>1 DEF Gate, Goto, Continue, Activations
  <2>2. CASE ReadBoostCurve(c)
    <3>0. r.handler \notin Gated
      BY <1>0, <2>0, <2>2 DEF ReadBoostCurve, Curves, Gated
    <3>1. CASE param.boost
      <4>1. Continue(c, [r EXCEPT !.pc = "map", !.table = r.handler,
                            !.then = IF r.handler = "fast" THEN "pps" ELSE "write"])
        BY <2>2, <3>1 DEF ReadBoostCurve
      <4> QED
        BY <1>0, <2>0, <3>0, <4>1 DEF Continue, Activations
    <3>2. CASE ~(param.boost)
      BY <1>0, <2>0, <2>2, <3>2 DEF ReadBoostCurve, Goto, Continue, Activations, Curves, Gated
    <3> QED
      BY <3>1, <3>2
  <2>3. CASE ReadBoostStep(c)
    BY <2>0, <2>3 DEF ReadBoostStep, At
  <2>4. CASE ReadThermal(c)
    <3>0. r.handler \notin Gated
      BY <1>0, <2>0, <2>4 DEF ReadThermal, At, Shaped, Gated
    <3>1. CASE param.thermal
      <4>1. Continue(c, [r EXCEPT !.pc = "map", !.table = "thermal", !.then = "write"])
        BY <2>4, <3>1 DEF ReadThermal
      <4> QED
        BY <1>0, <2>0, <3>0, <4>1 DEF Continue, Activations
    <3>2. CASE ~(param.thermal)
      BY <1>0, <2>0, <2>4, <3>2 DEF ReadThermal, At, Goto, Continue, Activations, Shaped, Gated
    <3> QED
      BY <3>1, <3>2
  <2>5. CASE MapReadOnce(c)
    <3>1. SingleReadMap(r.table, raw_fg_temperature, r.value) = r.value
      BY <2>0 DEF SingleReadMap, MapCv, MapThermal
    <3> QED
      BY <1>0, <2>0, <2>5, <3>1 DEF MapReadOnce, At, Continue, Activations
  <2>6. CASE MapCurrentRead(c)
    BY <1>0, <2>0, <2>6 DEF MapCurrentRead, At, Goto, Continue, Activations
  <2>7. CASE Apply(c)
    <3>1. ApplyTemperatureCurrent(raw_fg_temperature, r.value) = r.value
      BY <2>0 DEF ApplyTemperatureCurrent
    <3> QED
      BY <1>0, <2>0, <2>7, <3>1 DEF Apply, At, Continue, Activations
  <2>8. CASE ReadPps(c)
    <3>0. r.handler \notin Gated
      BY <1>0, <2>0, <2>8 DEF ReadPps, At
    <3>1. CASE param.pps
      <4>1. Continue(c, [r EXCEPT !.pc = "map", !.table = "pps",
                            !.then = IF r.handler = "fast" THEN "write" ELSE "boostAgain"])
        BY <2>8, <3>1 DEF ReadPps
      <4> QED
        BY <1>0, <2>0, <3>0, <4>1 DEF Continue, Activations
    <3>2. CASE ~(param.pps)
      BY <1>0, <2>0, <2>8, <3>2 DEF ReadPps, At, Goto, Continue, Activations
    <3> QED
      BY <3>1, <3>2
  <2>9. CASE ReadBoostAgain(c)
    BY <1>0, <2>0, <2>9 DEF ReadBoostAgain, At, Continue, Activations, Shaped
  <2>10. CASE ReadPpsAgain(c)
    BY <1>0, <2>0, <2>10 DEF ReadPpsAgain, At, Shaped
  <2>11. CASE Write(c)
    BY <1>0, <2>0, <2>11 DEF Write, At, Continue, Activations
  <2>12. CASE AttributeStep(c)
    BY <1>0, <2>0, <2>12 DEF AttributeStep, At, Shaped
  <2>13. CASE AttributePps(c)
    BY <1>0, <2>0, <2>13 DEF AttributePps, At, Continue, Activations
  <2>14. CASE Load(c)
    BY <1>0, <2>0, <2>14 DEF Load, At, Continue, Activations
  <2>15. CASE Store(c)
    BY <1>0, <2>0, <2>15 DEF Store, StoreValue, At, Activations
  <2> QED
    BY <2>1, <2>2, <2>3, <2>4, <2>5, <2>6, <2>7, <2>8, <2>9, <2>10, <2>11, <2>12,
       <2>13, <2>14, <2>15 DEF Handle
<1>4. \A d \in CPUs : Retained(call[d], seen[d])'
  BY <1>1, <1>3 DEF Retained, RetainInv, Frame
<1> QED
  BY <1>2, <1>4 DEF RetainInv

-----------------------------------------------------------------------------
(* UngatedRecoverAbove55.  Once every temperature seen is at least 55 C the  *)
(* ungated handlers only ever compute the vendor's value or the recovery   *)
(* target: both bands they can read leave the tables out.                  *)

Target(h) == IF h = "cv" THEN RecoveryVoltage ELSE RecoveryCurrent

Recovering(r, s) ==
  r.handler \notin Gated /\ (\A t \in s.temps : t >= 550) =>
    /\ r.value \in {r.old, Target(r.handler)}
    /\ r.reg \in {r.old, Target(r.handler)}

RecoveryInv == \A c \in CPUs : Recovering(call[c], seen[c])

LEMMA RecoveryBands ==
  ASSUME NEW t \in Nat, t >= 550, NEW v
  PROVE  /\ TemperatureBand(t) \in {1, 2}
         /\ MapCv(t, v) \in {v, RecoveryVoltage}
         /\ MapThermal(t, v) \in {v, RecoveryCurrent}
         /\ ApplyTemperatureCurrent(t, v) \in {v, RecoveryCurrent}
<1>1. TemperatureBand(t) \in {1, 2}
  BY DEF TemperatureBand
<1>2. MapCv(t, v) \in {v, RecoveryVoltage}
  <2>1. CASE TemperatureBand(t) = 2
    BY <2>1 DEF MapCv
  <2>2. CASE TemperatureBand(t) = 1 /\ v >= 4080
    BY <2>2 DEF MapCv
  <2>3. CASE TemperatureBand(t) = 1 /\ ~(v >= 4080)
    BY <2>3 DEF MapCv, CvTable
  <2> QED
    BY <1>1, <2>1, <2>2, <2>3
<1>3. MapThermal(t, v) \in {v, RecoveryCurrent}
  BY <1>1 DEF MapThermal
<1>4. ApplyTemperatureCurrent(t, v) \in {v, RecoveryCurrent}
  BY DEF ApplyTemperatureCurrent
<1> QED
  BY <1>1, <1>2, <1>3, <1>4

LEMMA HandleRecovers ==
  ASSUME TypeInv, SeenCurrent, RecoveryInv, NEW c \in CPUs, Handle(c)
  PROVE  RecoveryInv'
<1> DEFINE r == call[c]
           raw == raw_fg_temperature
           Allowed == {r.old, Target(r.handler)}
<1>0. /\ call \in [CPUs -> Activations]
      /\ r \in Activations /\ Shaped(r) /\ raw \in Nat /\ r.pc # "idle"
  BY DEF TypeInv, TypeOK, ShapeOK, Handle, Gate, ReadBoostCurve, ReadBoostStep, ReadThermal,
     MapReadOnce, MapCurrentRead, Apply, ReadPps, ReadBoostAgain, ReadPpsAgain, Write,
     AttributeStep, AttributePps, Load, Store, StoreValue, At
<1>1. Frame(c)
  BY HandleFrame
<1>2. ASSUME r.handler \notin Gated, \A t \in seen[c].temps : t >= 550
      PROVE  call'[c].value \in Allowed /\ call'[c].reg \in Allowed
  <2>0. r.value \in Allowed /\ r.reg \in Allowed
    BY <1>2 DEF RecoveryInv, Recovering
  <2>1. raw >= 550 /\ TemperatureBand(raw) \in {1, 2}
    <3>1. raw >= 550
      BY <1>0, <1>2 DEF SeenCurrent, Active, At
    <3> QED
      BY <1>0, <3>1, RecoveryBands
  <2>2. CASE Gate(c)
    BY <1>0, <1>2, <2>2 DEF Gate, At, Shaped
  <2>3. CASE ReadBoostCurve(c)
    <3>1. CASE param.boost
      <4>1. Continue(c, [r EXCEPT !.pc = "map", !.table = r.handler,
                           !.then = IF r.handler = "fast" THEN "pps" ELSE "write"])
        BY <2>3, <3>1 DEF ReadBoostCurve
      <4> QED
        BY <1>0, <2>0, <4>1 DEF Continue, Activations
    <3>2. CASE ~param.boost
      BY <1>0, <2>0, <2>3, <3>2 DEF ReadBoostCurve, Goto, Continue, Activations
    <3> QED
      BY <3>1, <3>2
  <2>4. CASE ReadBoostStep(c)
    BY <1>2, <2>4 DEF ReadBoostStep
  <2>5. CASE ReadThermal(c)
    <3>1. CASE param.thermal
      <4>1. Continue(c, [r EXCEPT !.pc = "map", !.table = "thermal", !.then = "write"])
        BY <2>5, <3>1 DEF ReadThermal
      <4> QED
        BY <1>0, <2>0, <4>1 DEF Continue, Activations
    <3>2. CASE ~param.thermal
      BY <1>0, <2>0, <2>5, <3>2 DEF ReadThermal, Goto, Continue, Activations
    <3> QED
      BY <3>1, <3>2
  <2>6. CASE MapReadOnce(c)
    <3> DEFINE v == SingleReadMap(r.table, raw, r.value)
    <3>1. ASSUME r.table = "cv" PROVE v \in Allowed
      <4>1. r.handler = "cv"
        BY <1>0, <2>6, <3>1 DEF MapReadOnce, At, Shaped
      <4>2. v \in {r.value, RecoveryVoltage}
        BY <1>0, <2>1, <3>1, RecoveryBands DEF SingleReadMap
      <4> QED
        BY <2>0, <4>1, <4>2 DEF Target
    <3>2. ASSUME r.table = "thermal" PROVE v \in Allowed
      <4>1. r.handler = "thermal"
        BY <1>0, <2>6, <3>2 DEF MapReadOnce, At, Shaped
      <4>2. v \in {r.value, RecoveryCurrent}
        BY <1>0, <2>1, <3>2, RecoveryBands DEF SingleReadMap
      <4> QED
        BY <2>0, <4>1, <4>2 DEF Target
    <3>3. v \in Allowed
      BY <2>6, <3>1, <3>2 DEF MapReadOnce
    <3>4. Continue(c, [r EXCEPT !.pc = r.then, !.value = v])
      BY <2>6 DEF MapReadOnce
    <3> HIDE DEF v
    <3> QED
      BY <1>0, <2>0, <3>3, <3>4 DEF Continue, Activations
  <2>7. CASE MapCurrentRead(c)
    <3>1. CASE TemperatureBand(raw) = 2
      BY <1>0, <2>0, <2>7, <3>1 DEF MapCurrentRead, Goto, Continue, Activations
    <3>2. CASE TemperatureBand(raw) = 1
      BY <1>0, <2>0, <2>7, <3>2 DEF MapCurrentRead, Goto, Continue, Activations
    <3> QED
      BY <2>1, <3>1, <3>2
  <2>8. CASE Apply(c)
    <3> DEFINE v == ApplyTemperatureCurrent(raw, r.value)
    <3>1. v \in {r.value, RecoveryCurrent}
      BY <1>0, <2>1, RecoveryBands
    <3>2. r.handler # "cv"
      BY <1>0, <2>8 DEF Apply, At, Shaped
    <3>3. v \in Allowed
      BY <2>0, <3>1, <3>2 DEF Target
    <3>4. Continue(c, [r EXCEPT !.pc = r.then, !.value = v])
      BY <2>8 DEF Apply
    <3> HIDE DEF v
    <3> QED
      BY <1>0, <2>0, <3>3, <3>4 DEF Continue, Activations
  <2>9. CASE ReadPps(c)
    <3>1. CASE param.pps
      <4>1. Continue(c, [r EXCEPT !.pc = "map", !.table = "pps",
                           !.then = IF r.handler = "fast" THEN "write" ELSE "boostAgain"])
        BY <2>9, <3>1 DEF ReadPps
      <4> QED
        BY <1>0, <2>0, <4>1 DEF Continue, Activations
    <3>2. CASE ~param.pps
      BY <1>0, <2>0, <2>9, <3>2 DEF ReadPps, Goto, Continue, Activations
    <3> QED
      BY <3>1, <3>2
  <2>10. CASE ReadBoostAgain(c)
    BY <1>0, <2>0, <2>10 DEF ReadBoostAgain, Continue, Activations
  <2>11. CASE ReadPpsAgain(c)
    BY <1>0, <2>0, <2>11 DEF ReadPpsAgain, Goto, Continue, Activations
  <2>12. CASE Write(c)
    BY <1>0, <2>0, <2>12 DEF Write, Continue, Activations
  <2>13. CASE AttributeStep(c)
    BY <1>0, <2>0, <2>13 DEF AttributeStep, Continue, Activations
  <2>14. CASE AttributePps(c)
    BY <1>0, <2>0, <2>14 DEF AttributePps, Continue, Activations
  <2>15. CASE Load(c)
    BY <1>0, <2>0, <2>15 DEF Load, Continue, Activations
  <2>16. CASE Store(c)
    BY <1>0, <2>0, <2>16 DEF Store, StoreValue, Activations
  <2> QED
    BY <2>2, <2>3, <2>4, <2>5, <2>6, <2>7, <2>8, <2>9, <2>10, <2>11, <2>12, <2>13,
       <2>14, <2>15, <2>16 DEF Handle
<1> QED
  BY <1>1, <1>2 DEF RecoveryInv, Recovering, Frame

\* The environment never makes a temperature of the past go away: what an
\* activation has seen only grows until it returns.
LEMMA EnvironmentKeepsSeen ==
  ASSUME TypeInv, SeenCurrent,
         \/ \E t \in Temperatures : PublishTemperature(t)
         \/ \E p \in DOMAIN param, on \in BOOLEAN : SetParam(p, on)
  PROVE  /\ SeenCurrent'
         /\ UNCHANGED call
         /\ \A c \in CPUs : seen[c].temps \subseteq seen'[c].temps
<1> DEFINE S == [temps: SUBSET Nat, boost: SUBSET BOOLEAN,
                 pps: SUBSET BOOLEAN, thermal: SUBSET BOOLEAN]
<1>0. seen \in [CPUs -> S]
  BY DEF TypeInv, TypeOK
<1>1. ASSUME NEW t \in Temperatures, PublishTemperature(t)
      PROVE  /\ \A c \in CPUs : seen[c].temps \subseteq seen'[c].temps
             /\ \A c \in CPUs : Active(c) => raw_fg_temperature' \in seen'[c].temps
  BY <1>0, <1>1 DEF PublishTemperature, Observe, Active
<1>2. ASSUME NEW p \in DOMAIN param, NEW on \in BOOLEAN, SetParam(p, on)
      PROVE  \A c \in CPUs : seen'[c].temps = seen[c].temps
  <2>1. p \in {"boost", "pps", "thermal"}
    BY DEF TypeInv, TypeOK
  <2>2. ASSUME NEW c \in CPUs
        PROVE  [seen[c] EXCEPT ![p] = @ \cup {on}].temps = seen[c].temps
    BY <1>0, <2>1
  <2> QED
    BY <1>2, <2>2 DEF SetParam, Observe
<1> QED
  BY <1>1, <1>2 DEF PublishTemperature, SetParam, SeenCurrent, Active, At

LEMMA StepTemperatures ==
  TypeInv /\ RetainInv /\ RecoveryInv /\ [Next]_vars => RetainInv' /\ RecoveryInv'
<1> SUFFICES ASSUME TypeInv, RetainInv, RecoveryInv, [Next]_vars
             PROVE  RetainInv' /\ RecoveryInv'
  OBVIOUS
<1>0. /\ call \in [CPUs -> Activations]
      /\ seen \in [CPUs -> [temps: SUBSET Nat, boost: SUBSET BOOLEAN,
                            pps: SUBSET BOOLEAN, thermal: SUBSET BOOLEAN]]
  BY DEF TypeInv, TypeOK
<1>1. ASSUME NEW c \in CPUs, Handle(c) PROVE RetainInv' /\ RecoveryInv'
  BY <1>1, HandleRetains, HandleRecovers DEF RetainInv
<1>2. ASSUME NEW c \in CPUs, Return(c) PROVE RetainInv' /\ RecoveryInv'
  <2>1. /\ call'[c] = IdleCall /\ seen'[c] = NothingSeen
        /\ \A d \in CPUs \ {c} : call'[d] = call[d] /\ seen'[d] = seen[d]
        /\ raw_fg_temperature' = raw_fg_temperature
    BY <1>0, <1>2 DEF Return
  <2>2. /\ Retained(IdleCall, NothingSeen)
        /\ Recovering(IdleCall, NothingSeen)
        /\ IdleCall.pc = "idle"
    BY DEF Retained, Recovering, IdleCall, Gated
  <2> QED
    BY <2>1, <2>2 DEF RetainInv, RecoveryInv, SeenCurrent, Active, At
<1>3. ASSUME NEW c \in CPUs, NEW h \in Handlers, NEW v \in Inputs[h], Enter(c, h, v)
      PROVE  RetainInv' /\ RecoveryInv'
  <2> DEFINE r == [IdleCall EXCEPT
                     !.pc = EntryPoint(h), !.handler = h, !.old = v, !.value = v, !.reg = v]
  <2>1. /\ call'[c] = r /\ seen'[c] = Now
        /\ \A d \in CPUs \ {c} : call'[d] = call[d] /\ seen'[d] = seen[d]
        /\ raw_fg_temperature' = raw_fg_temperature
    BY <1>0, <1>3 DEF Enter
  <2>2. /\ r.value = v /\ r.old = v /\ r.reg = v /\ r.handler = h
        /\ r.pc = EntryPoint(h)
    BY DEF IdleCall
  <2>3. h \in Gated => EntryPoint(h) = "gate"
    BY DEF EntryPoint, Gated, Curves
  <2>4. Now.temps = {raw_fg_temperature}
    BY DEF Now
  <2> HIDE DEF r
  <2>5. Retained(r, Now) /\ Recovering(r, Now)
    BY <2>2, <2>3 DEF Retained, Recovering
  <2> QED
    BY <2>1, <2>4, <2>5 DEF RetainInv, RecoveryInv, SeenCurrent, Active, At
<1>4. ASSUME \/ \E t \in Temperatures : PublishTemperature(t)
             \/ \E p \in DOMAIN param, on \in BOOLEAN : SetParam(p, on)
      PROVE  RetainInv' /\ RecoveryInv'
  BY <1>4, EnvironmentKeepsSeen DEF RetainInv, RecoveryInv, Retained, Recovering
<1>5. CASE UNCHANGED vars
  BY <1>5 DEF vars, RetainInv, RecoveryInv, SeenCurrent, Active, At
<1> QED
  BY <1>1, <1>2, <1>3, <1>4, <1>5 DEF Next

LEMMA InitTemperatures == Init => RetainInv /\ RecoveryInv
  BY DEF Init, RetainInv, RecoveryInv, SeenCurrent, Active, At, Retained, Recovering,
     IdleCall, NothingSeen, Gated

THEOREM TemperatureInvariants == Spec => [](TypeInv /\ RetainInv /\ RecoveryInv)
<1>1. Init => TypeInv /\ RetainInv /\ RecoveryInv
  BY InitType, InitTemperatures
<1>2. (TypeInv /\ RetainInv /\ RecoveryInv) /\ [Next]_vars
        => (TypeInv /\ RetainInv /\ RecoveryInv)'
  BY StepType, StepTemperatures
<1> QED
  BY <1>1, <1>2, PTL DEF Spec

\* The vendor's stop-charge path is retained at 58 C and above (line 85,
\* README.md:39), for all handlers, inputs, temperatures and parameter
\* writes: a handler that only saw temperatures of that band hands the
\* vendor function its own argument.
THEOREM Retained58 == Spec => []RetainedAbove58
<1>1. TypeInv /\ RetainInv /\ RecoveryInv => RetainedAbove58
  BY DEF RetainInv, Retained, RetainedAbove58
<1> QED
  BY <1>1, TemperatureInvariants, PTL

\* But for the three handlers that gate and then read again, nothing except the
\* recovery target is ever substituted from 55 C on, wherever the temperature
\* moves and whatever root writes meanwhile.
THEOREM Recovery55 == Spec => []UngatedRecoverAbove55
<1>1. RecoveryInv => UngatedRecoverAbove55
  BY DEF RecoveryInv, Recovering, Target, UngatedRecoverAbove55, HotFrom55, OnlyRecovery
<1> QED
  BY <1>1, TemperatureInvariants, PTL

-----------------------------------------------------------------------------
(* The hit counters.  What an activation has loaded may be stale when it   *)
(* stores, but it never exceeds the increments completed by then.          *)

CountInv ==
  /\ HitsNeverOvercount
  /\ ZeroHitsMeansNoRewrite
  /\ \A c \in CPUs : At(c, "store") => call[c].loaded <= counted[call[c].counter]

LEMMA CountInit == Init => CountInv
  BY DEF Init, CountInv, HitsNeverOvercount, ZeroHitsMeansNoRewrite, At, IdleCall

\* A store adds one to what was loaded and may wrap to zero, but not before
\* HitModulus increments.
LEMMA StoreCounts ==
  ASSUME TypeInv, CountInv, NEW c \in CPUs, Store(c)
  PROVE  CountInv'
<1> DEFINE k == call[c].counter
           n == (call[c].loaded + 1) % HitModulus
<1>0. /\ k \in HitCounters /\ call[c].loaded \in Nat
      /\ \A j \in HitCounters : counted[j] \in Nat /\ hits[j] \in Nat
      /\ hits \in [HitCounters -> Nat] /\ counted \in [HitCounters -> Nat]
      /\ call \in [CPUs -> Activations]
  BY HitModulusAssumption DEF TypeInv, TypeOK, ShapeOK, Shaped, Store, StoreValue, At, Activations
<1>1. call[c].loaded <= counted[k]
  BY DEF CountInv, Store, StoreValue
<1>2. n <= counted[k] + 1 /\ n \in Nat /\ (counted[k] + 1 < HitModulus => n > 0)
  <2> DEFINE a == call[c].loaded + 1
  <2>1. a \in Nat /\ HitModulus \in Nat \ {0} /\ a = call[c].loaded + 1
    BY <1>0, HitModulusAssumption
  <2>2. /\ n \in Nat /\ n <= call[c].loaded + 1
        /\ call[c].loaded + 1 < HitModulus => n = call[c].loaded + 1
    <3>1. n = a % HitModulus
      OBVIOUS
    <3> HIDE DEF a, n
    <3>2. a % HitModulus \in 0..(HitModulus - 1) /\ a % HitModulus <= a
          /\ (a < HitModulus => a % HitModulus = a)
      BY <2>1, Remainder
    <3>3. a % HitModulus \in Nat
      BY <2>1, <3>2
    <3> QED BY <2>1, <3>1, <3>2, <3>3
  <2> HIDE DEF n
  <2> QED
    BY <1>0, <1>1, <2>1, <2>2
<1>3. /\ hits' = [hits EXCEPT ![k] = n]
      /\ counted' = [counted EXCEPT ![k] = counted[k] + 1]
      /\ call' = [call EXCEPT ![c].pc = "done"]
  BY DEF Store, StoreValue
<1> HIDE DEF n
<1>4. /\ hits'[k] = n /\ counted'[k] = counted[k] + 1
      /\ \A j \in HitCounters \ {k} : hits'[j] = hits[j] /\ counted'[j] = counted[j]
  BY <1>0, <1>3
<1>5. HitsNeverOvercount'
  BY <1>0, <1>2, <1>4 DEF CountInv, HitsNeverOvercount
<1>6. ZeroHitsMeansNoRewrite'
  <2> SUFFICES ASSUME NEW j \in HitCounters, counted'[j] \in 1..(HitModulus - 1)
               PROVE  hits'[j] > 0
    BY DEF ZeroHitsMeansNoRewrite
  <2>1. CASE j = k
    BY <2>1, <1>0, <1>2, <1>4, HitModulusAssumption
  <2>2. CASE j # k
    BY <2>2, <1>0, <1>4 DEF CountInv, ZeroHitsMeansNoRewrite
  <2> QED
    BY <2>1, <2>2
<1>7. ASSUME NEW d \in CPUs, At(d, "store")'
      PROVE  call'[d].loaded <= counted'[call'[d].counter]
  <2>1. d # c /\ call'[d] = call[d]
    BY <1>0, <1>3, <1>7 DEF At, Activations
  <2>2. /\ call[d].counter \in HitCounters /\ call[d].loaded \in Nat
        /\ call[d].loaded <= counted[call[d].counter]
    BY <1>7, <2>1 DEF At, CountInv, TypeInv, TypeOK, ShapeOK, Shaped, Activations
  <2>3. counted[call[d].counter] <= counted'[call[d].counter]
    BY <1>0, <1>4, <2>2
  <2>4. counted[call[d].counter] \in Nat /\ counted'[call[d].counter] \in Nat
    BY <1>0, <1>4, <2>2
  <2> QED
    BY <2>1, <2>2, <2>3, <2>4
<1> QED
  BY <1>5, <1>6, <1>7 DEF CountInv

LEMMA StepCounts == TypeInv /\ CountInv /\ [Next]_vars => CountInv'
<1> SUFFICES ASSUME TypeInv, CountInv, [Next]_vars PROVE CountInv'
  OBVIOUS
<1>0. call \in [CPUs -> Activations]
  BY DEF TypeInv, TypeOK
<1>1. ASSUME NEW c \in CPUs, Store(c) PROVE CountInv'
  BY <1>1, StoreCounts
<1>2. ASSUME NEW c \in CPUs, Handle(c), ~Store(c) PROVE CountInv'
  <2>1. Frame(c)
    BY <1>2, HandleFrame
  <2>2. CASE call'[c].pc # "store"
    BY <1>2, <2>1, <2>2 DEF Frame, CountInv, HitsNeverOvercount, ZeroHitsMeansNoRewrite, At
  <2>3. CASE Load(c)
    <3>1. /\ call[c] \in Activations
          /\ CounterOf(call[c]) \in HitCounters
      BY <1>0, <2>3 DEF TypeInv, ShapeOK, Load, At, CounterOf, Shaped, HitCounters
    <3>2. /\ call'[c].counter = CounterOf(call[c])
          /\ call'[c].loaded = hits[CounterOf(call[c])]
      BY <1>0, <2>3, <3>1 DEF Load, Continue, Activations
    <3>3. call'[c].loaded <= counted'[call'[c].counter]
      BY <1>2, <2>1, <3>1, <3>2 DEF Frame, CountInv, HitsNeverOvercount
    <3> QED
      BY <1>2, <2>1, <3>3 DEF Frame, CountInv, HitsNeverOvercount, ZeroHitsMeansNoRewrite, At
  <2> QED
    BY <2>1, <2>2, <2>3 DEF Frame
<1>3. ASSUME NEW c \in CPUs, call'[c].pc # "store", UNCHANGED <<hits, counted>>,
             \A d \in CPUs \ {c} : call'[d] = call[d]
      PROVE  CountInv'
  BY <1>3 DEF CountInv, HitsNeverOvercount, ZeroHitsMeansNoRewrite, At
<1>4. ASSUME NEW c \in CPUs, Return(c) PROVE CountInv'
  <2>1. call'[c].pc # "store" /\ \A d \in CPUs \ {c} : call'[d] = call[d]
    BY <1>0, <1>4 DEF Return, IdleCall
  <2> QED
    BY <1>3, <1>4, <2>1 DEF Return
<1>5. ASSUME NEW c \in CPUs, NEW h \in Handlers, NEW v \in Inputs[h], Enter(c, h, v)
      PROVE  CountInv'
  <2>1. h \in Gated \cup Curves \cup {"thermal"}
    BY HandlersAssumption
  <2>2. EntryPoint(h) \in {"gate", "boost", "thermal"}
    BY <2>1 DEF EntryPoint, Gated, Curves
  <2>3. call'[c].pc = EntryPoint(h) /\ \A d \in CPUs \ {c} : call'[d] = call[d]
    BY <1>0, <1>5 DEF Enter, IdleCall
  <2> QED
    BY <1>3, <1>5, <2>2, <2>3 DEF Enter
<1>6. ASSUME UNCHANGED <<call, hits, counted>> PROVE CountInv'
  BY <1>6 DEF CountInv, HitsNeverOvercount, ZeroHitsMeansNoRewrite, At
<1>7. CASE \/ \E t \in Temperatures : PublishTemperature(t)
           \/ \E p \in DOMAIN param, on \in BOOLEAN : SetParam(p, on)
           \/ UNCHANGED vars
  BY <1>6, <1>7 DEF PublishTemperature, SetParam, vars
<1> QED
  BY <1>1, <1>2, <1>4, <1>5, <1>7 DEF Next

LEMMA CountInvariant == Spec => [](TypeInv /\ CountInv)
<1>1. Init => TypeInv /\ CountInv
  BY InitType, CountInit
<1>2. (TypeInv /\ CountInv) /\ [Next]_vars => (TypeInv /\ CountInv)'
  BY StepType, StepCounts
<1> QED
  BY <1>1, <1>2, PTL DEF Spec

\* The counters a user reads to verify the module (README.md:69) never show
\* more rewrites than happened, for any number of handlers racing in
\* k100pm_count (lines 74-77).
THEOREM HitCountersSound == Spec => []HitsNeverOvercount
<1>1. CountInv => HitsNeverOvercount
  BY DEF CountInv
<1> QED
  BY <1>1, CountInvariant, PTL

\* Short of a wrap they show some when some happened, although k100pm_count
\* loses increments.
THEOREM SomeHitsAreShown == Spec => []ZeroHitsMeansNoRewrite
<1>1. CountInv => ZeroHitsMeansNoRewrite
  BY DEF CountInv
<1> QED
  BY <1>1, CountInvariant, PTL

-----------------------------------------------------------------------------
(* OneTemperatureUnlessCrossing58, and the ungated half of                 *)
(* RewritesAsPromised.  The inductive invariant explains, at each place of *)
(* a handler, the value it has computed so far by what it has seen: until  *)
(* its last table has been applied, the value is the argument or what one  *)
(* table makes of it at one temperature.                                   *)

\* What a handler active in this state has seen includes this state.
Current(s) ==
  /\ raw_fg_temperature \in s.temps
  /\ param.boost \in s.boost /\ param.pps \in s.pps /\ param.thermal \in s.thermal

\* What table `of' at one temperature may have made of the argument.
Mapped(of, r, s) == r.value = r.old \/ \E t \in s.temps : r.value = MapCurrent(of, t, r.old)

Answered(x, r, s) == x \in Promise!Answers(r.handler, s, r.old)

\* The handlers without a gate, whatever root writes.
Curved(r, s) ==
  /\ r.pc \in {"boost", "thermal"} => r.value = r.old
  /\ r.pc \in {"map", "apply"} /\ r.handler \in {"ichg", "cv"} =>
       r.value = r.old /\ TRUE \in s.boost /\ r.then = "write"
  /\ r.pc = "map" /\ r.handler = "ichg" => r.table = "ichg"
  /\ r.pc = "map" /\ r.handler = "thermal" =>
       r.value = r.old /\ TRUE \in s.thermal /\ r.then = "write"
  /\ r.pc \in {"map", "apply"} /\ r.handler = "fast" => r.then \in {"pps", "write", "load"}
  /\ r.pc \in {"map", "apply"} /\ r.handler = "fast" /\ r.then = "pps" =>
       r.value = r.old /\ TRUE \in s.boost
  /\ r.pc \in {"map", "apply"} /\ r.handler = "fast" /\ r.then = "write" => TRUE \in s.pps
  /\ r.pc = "map" /\ r.handler = "fast" => r.table = IF r.then = "pps" THEN "fast" ELSE "pps"
  /\ \/ r.pc = "pps"
     \/ r.pc \in {"map", "apply"} /\ r.handler = "fast" /\ r.then = "write"
     => Mapped("fast", r, s) /\ (r.value # r.old => TRUE \in s.boost)
  /\ r.pc = "write" => Answered(r.value, r, s)
  /\ Answered(r.reg, r, s)

\* With boost on, a divider voter and, for the one value its table names, the
\* cap handler take the value from their own table.
Named(h, v) == h = "max" => v = 17500
Raises(r) == param.boost /\ Named(r.handler, r.old)

\* Both sides of 58 C were published during the call, with boost on.
Crossed(s) == param.boost /\ \E t, u \in s.temps : t \in 550..579 /\ u >= 580

\* The gated handlers, while root leaves the parameters alone.
Stepped(r, s) ==
  /\ r.pc \notin {"gate", "done"} => \E t \in s.temps : TemperatureBand(t) # 2
  /\ r.pc \in {"gate", "boost", "pps"} => r.value = r.old
  /\ r.pc \in {"map", "apply"} => r.then \in {"boostAgain", "write"}
  /\ r.pc \in {"map", "apply"} /\ r.then = "boostAgain" => r.value = r.old /\ param.pps
  /\ r.pc = "map" => r.table = "pps" /\ r.then = "boostAgain"
  /\ r.pc = "pps" \/ (r.pc \in {"map", "apply"} /\ r.then = "boostAgain") => ~Raises(r)
  /\ r.pc \in {"boostAgain", "ppsAgain"} \/ (r.pc = "apply" /\ r.then = "write") =>
       IF Raises(r) THEN r.value = StepTable(r.handler, r.old)
                    ELSE Mapped("pps", r, s) /\ (r.value # r.old => param.pps)
  /\ r.pc = "ppsAgain" => ~param.boost
  /\ r.pc = "apply" /\ r.then = "write" => param.boost \/ param.pps
  /\ r.pc = "write" => Answered(r.value, r, s) \/ Crossed(s)
  /\ Answered(r.reg, r, s) \/ Crossed(s)

Explained(r, s) ==
  /\ Current(s)
  /\ r.handler \notin Gated => Curved(r, s)
  /\ r.handler \in Gated /\ ~SysfsWrites => Stepped(r, s)

ExplainInv == \A c \in CPUs : Active(c) => Explained(call[c], seen[c])

\* The tables of the abstract module are those of the handlers.
LEMMA SameTables ==
  ASSUME NEW t, NEW v
  PROVE  /\ Promise!TemperatureBand(t) = TemperatureBand(t)
         /\ Promise!ApplyTemperatureCurrent(t, v) = ApplyTemperatureCurrent(t, v)
         /\ Promise!MapCv(t, v) = MapCv(t, v)
         /\ Promise!MapThermal(t, v) = MapThermal(t, v)
         /\ Promise!SingleTable(v) = SingleTable(v)
         /\ Promise!MultiTable(v) = MultiTable(v)
         /\ Promise!CurrMaxTable(v) = CurrMaxTable(v)
         /\ Promise!MapCurrent("ichg", t, v) = MapCurrent("ichg", t, v)
         /\ Promise!MapCurrent("fast", t, v) = MapCurrent("fast", t, v)
         /\ Promise!MapCurrent("pps", t, v) = MapCurrent("pps", t, v)
<1>1. Promise!TemperatureBand(t) = TemperatureBand(t)
  BY DEF Promise!TemperatureBand, TemperatureBand
<1>2. Promise!ApplyTemperatureCurrent(t, v) = ApplyTemperatureCurrent(t, v)
  BY <1>1 DEF Promise!ApplyTemperatureCurrent, ApplyTemperatureCurrent, Promise!RecoveryKeys,
              RecoveryKeys, Promise!RecoveryCurrent, RecoveryCurrent
<1>3. Promise!MapCv(t, v) = MapCv(t, v)
  BY <1>1 DEF Promise!MapCv, MapCv, Promise!CvTable, CvTable, Promise!RecoveryVoltage,
              RecoveryVoltage
<1>4. Promise!MapThermal(t, v) = MapThermal(t, v)
  BY <1>1 DEF Promise!MapThermal, MapThermal, Promise!ThermalKeys, ThermalKeys,
              Promise!RecoveryCurrent, RecoveryCurrent
<1>5. /\ Promise!SingleTable(v) = SingleTable(v)
      /\ Promise!MultiTable(v) = MultiTable(v)
      /\ Promise!CurrMaxTable(v) = CurrMaxTable(v)
  BY DEF Promise!SingleTable, SingleTable, Promise!MultiTable, MultiTable,
         Promise!CurrMaxTable, CurrMaxTable
<1>6. Promise!IchgTable(v) = IchgTable(v)
  BY DEF Promise!IchgTable, IchgTable
<1>7. Promise!FastCurveTable(v) = FastCurveTable(v)
  BY DEF Promise!FastCurveTable, FastCurveTable
<1>8. Promise!PpsTable(v) = PpsTable(v)
  BY DEF Promise!PpsTable, PpsTable
<1>9. /\ Promise!MapCurrent("ichg", t, v) = MapCurrent("ichg", t, v)
      /\ Promise!MapCurrent("fast", t, v) = MapCurrent("fast", t, v)
      /\ Promise!MapCurrent("pps", t, v) = MapCurrent("pps", t, v)
  BY <1>1, <1>2, <1>6, <1>7, <1>8
     DEF Promise!MapCurrent, MapCurrent, Promise!CurrentTable, CurrentTable
<1> QED BY <1>1, <1>2, <1>3, <1>4, <1>5, <1>9

\* How the tables chain: no target of the fast curve is a key of the PPS
\* table, no key of one is a key of the other, every key and every PPS target
\* is limited in the recovery band, and the recovery current is no key.
LEMMA TablesDoNotChain ==
  ASSUME NEW v \in Nat
  PROVE  /\ FastCurveTable(v) # v =>
              v \in RecoveryKeys /\ PpsTable(FastCurveTable(v)) = FastCurveTable(v)
         /\ PpsTable(v) # v =>
              /\ v \in RecoveryKeys /\ PpsTable(v) \in RecoveryKeys
              /\ FastCurveTable(v) = v
         /\ RecoveryCurrent \notin RecoveryKeys
         /\ PpsTable(RecoveryCurrent) = RecoveryCurrent
<1>1. FastCurveTable(v) # v =>
        v \in RecoveryKeys /\ PpsTable(FastCurveTable(v)) = FastCurveTable(v)
  BY DEF FastCurveTable, PpsTable, RecoveryKeys
<1>2. PpsTable(v) # v =>
        /\ v \in RecoveryKeys /\ PpsTable(v) \in RecoveryKeys
        /\ FastCurveTable(v) = v
  BY DEF FastCurveTable, PpsTable, RecoveryKeys
<1>3. RecoveryCurrent \notin RecoveryKeys /\ PpsTable(RecoveryCurrent) = RecoveryCurrent
  BY DEF RecoveryCurrent, RecoveryKeys, PpsTable
<1> QED BY <1>1, <1>2, <1>3

\* A current map at one temperature, by band.
LEMMA MapByBand ==
  ASSUME NEW t \in Nat, NEW v \in Nat
  PROVE  LET a == ApplyTemperatureCurrent(t, v) IN
         /\ TemperatureBand(t) \in {-1, 0, 1, 2}
         /\ a \in {v, RecoveryCurrent}
         /\ a = IF TemperatureBand(t) = 1 /\ v \in RecoveryKeys THEN RecoveryCurrent ELSE v
         /\ TemperatureBand(t) = 2 => \A of \in {"ichg", "fast", "pps"} : MapCurrent(of, t, v) = v
         /\ TemperatureBand(t) = 1 => \A of \in {"ichg", "fast", "pps"} : MapCurrent(of, t, v) = a
         /\ TemperatureBand(t) \notin {1, 2} =>
              \A of \in {"ichg", "fast", "pps"} : MapCurrent(of, t, v) = CurrentTable(of, v)
         /\ CurrentTable("fast", v) = FastCurveTable(v) /\ CurrentTable("pps", v) = PpsTable(v)
<1>1. TemperatureBand(t) \in {-1, 0, 1, 2}
  BY DEF TemperatureBand
<1>2. CurrentTable("fast", v) = FastCurveTable(v) /\ CurrentTable("pps", v) = PpsTable(v)
  BY DEF CurrentTable
<1>3. ApplyTemperatureCurrent(t, v)
        = IF TemperatureBand(t) = 1 /\ v \in RecoveryKeys THEN RecoveryCurrent ELSE v
  BY DEF ApplyTemperatureCurrent
<1> HIDE DEF RecoveryKeys, RecoveryCurrent
<1>4. ApplyTemperatureCurrent(t, v) \in {v, RecoveryCurrent}
  BY <1>3
<1>5. /\ TemperatureBand(t) = 2 => \A of \in {"ichg", "fast", "pps"} : MapCurrent(of, t, v) = v
      /\ TemperatureBand(t) = 1 =>
           \A of \in {"ichg", "fast", "pps"} : MapCurrent(of, t, v) = ApplyTemperatureCurrent(t, v)
      /\ TemperatureBand(t) \notin {1, 2} =>
           \A of \in {"ichg", "fast", "pps"} : MapCurrent(of, t, v) = CurrentTable(of, v)
  BY DEF MapCurrent
<1> QED BY <1>1, <1>2, <1>3, <1>4, <1>5

\* An answer is the argument or the policy's for values that were seen.
LEMMA AnswerIs ==
  ASSUME NEW s, NEW t \in s.temps, NEW b \in s.boost, NEW p \in s.pps, NEW th \in s.thermal,
         NEW h, NEW v
  PROVE  /\ v \in Promise!Answers(h, s, v)
         /\ Promise!Policy(h, t, b, p, th, v) \in Promise!Answers(h, s, v)
BY DEF Promise!Answers

Views == [temps: SUBSET Nat, boost: SUBSET BOOLEAN, pps: SUBSET BOOLEAN, thermal: SUBSET BOOLEAN]

\* The two tables of the fast curve, each applied at a temperature of its own,
\* answer as both do at one of the two.
LEMMA FastAnswers ==
  ASSUME NEW s \in Views, NEW v \in Nat, NEW x \in Nat, NEW u \in s.temps,
         NEW b \in s.boost, NEW p \in s.pps, NEW th \in s.thermal,
         x # v => TRUE \in s.boost /\ \E t \in s.temps : x = MapCurrent("fast", t, v)
  PROVE  /\ x \in Promise!Answers("fast", s, v)
         /\ TRUE \in s.pps => /\ MapCurrent("pps", u, x) \in Promise!Answers("fast", s, v)
                             /\ ApplyTemperatureCurrent(u, x) \in Promise!Answers("fast", s, v)
<1> DEFINE A == Promise!Answers("fast", s, v)
           Both(t) == MapCurrent("pps", t, MapCurrent("fast", t, v))
<1>1. b \in BOOLEAN /\ p \in BOOLEAN /\ u \in Nat /\ s.temps \subseteq Nat
  BY DEF Views
<1>2. v \in A /\ \A t \in s.temps, c \in s.boost, q \in s.pps :
                  Promise!Policy("fast", t, c, q, th, v) \in A
  BY AnswerIs
<1>3. \A t \in s.temps :
        /\ Promise!Policy("fast", t, TRUE, FALSE, th, v) = MapCurrent("fast", t, v)
        /\ Promise!Policy("fast", t, TRUE, TRUE, th, v) = Both(t)
        /\ Promise!Policy("fast", t, FALSE, TRUE, th, v) = MapCurrent("pps", t, v)
  BY SameTables DEF Promise!Policy, Promise!FastPolicy
<1> HIDE DEF A
<1>4. ASSUME NEW t \in s.temps, MapCurrent("fast", t, v) # v
      PROVE  /\ Both(t) = MapCurrent("fast", t, v)
             /\ v \in RecoveryKeys
             /\ MapCurrent("fast", t, v) \in {FastCurveTable(v), RecoveryCurrent}
             /\ PpsTable(MapCurrent("fast", t, v)) = MapCurrent("fast", t, v)
  <2>1. TemperatureBand(t) \in {-1, 0, 1}
    BY <1>1, <1>4, MapByBand
  <2>2. CASE TemperatureBand(t) = 1
    <3>1. v \in RecoveryKeys /\ MapCurrent("fast", t, v) = RecoveryCurrent
      BY <1>1, <1>4, <2>2, MapByBand
    <3>2. RecoveryCurrent \in Nat
      BY DEF RecoveryCurrent
    <3>3. MapCurrent("pps", t, RecoveryCurrent) = RecoveryCurrent
      BY <1>1, <2>2, <3>2, MapByBand
    <3> QED BY <3>1, <3>3, TablesDoNotChain
  <2>3. CASE TemperatureBand(t) \in {-1, 0}
    <3>1. MapCurrent("fast", t, v) = FastCurveTable(v)
      BY <1>1, <2>3, MapByBand
    <3>2. v \in RecoveryKeys /\ PpsTable(FastCurveTable(v)) = FastCurveTable(v)
      BY <1>4, <3>1, TablesDoNotChain
    <3>3. FastCurveTable(v) \in Nat
      BY DEF FastCurveTable
    <3>4. MapCurrent("pps", t, FastCurveTable(v)) = FastCurveTable(v)
      BY <1>1, <2>3, <3>2, <3>3, MapByBand
    <3> QED BY <3>1, <3>2, <3>4
  <2> QED BY <2>1, <2>2, <2>3
<1>5. x \in A
  <2>1. CASE x = v
    BY <1>2, <2>1
  <2>2. CASE x # v
    <3>1. PICK t \in s.temps : x = MapCurrent("fast", t, v)
      BY <2>2
    <3>2. Promise!Policy("fast", t, TRUE, p, th, v) = x
      BY <1>1, <1>3, <1>4, <2>2, <3>1
    <3> QED BY <1>2, <2>2, <3>2
  <2> QED BY <2>1, <2>2
<1>6. ASSUME TRUE \in s.pps PROVE MapCurrent("pps", u, x) \in A
  <2>1. Both(u) \in A \/ TRUE \notin s.boost
    BY <1>2, <1>3, <1>6
  <2>2. CASE x = v /\ b = FALSE
    BY <1>2, <1>3, <1>6, <2>2
  <2>3. CASE x = v /\ b = TRUE
    <3>1. MapCurrent("pps", u, v) \in {v, Both(u)}
      <4>1. CASE TemperatureBand(u) = 2
        BY <1>1, <4>1, MapByBand
      <4>2. CASE TemperatureBand(u) = 1
        <5>1. MapCurrent("pps", u, v) = MapCurrent("fast", u, v)
          BY <1>1, <4>2, MapByBand
        <5>2. CASE MapCurrent("fast", u, v) = v
          BY <5>1, <5>2
        <5>3. CASE MapCurrent("fast", u, v) # v
          BY <1>4, <5>1, <5>3
        <5> QED BY <5>2, <5>3
      <4>3. CASE TemperatureBand(u) \in {-1, 0}
        <5>1. /\ MapCurrent("pps", u, v) = PpsTable(v)
              /\ MapCurrent("fast", u, v) = FastCurveTable(v)
          BY <1>1, <4>3, MapByBand
        <5>2. PpsTable(v) # v => FastCurveTable(v) = v
          BY TablesDoNotChain
        <5> QED BY <5>1, <5>2
      <4> QED BY <1>1, <4>1, <4>2, <4>3, MapByBand
    <3> QED BY <1>2, <2>1, <2>3, <3>1
  <2>4. CASE x # v
    <3>1. PICK t \in s.temps : x = MapCurrent("fast", t, v)
      BY <2>4
    <3>2. v \in RecoveryKeys /\ PpsTable(x) = x
      BY <1>4, <2>4, <3>1
    <3>3. CASE TemperatureBand(u) # 1
      <4>1. MapCurrent("pps", u, x) = x
        BY <1>1, <3>2, <3>3, MapByBand
      <4> QED BY <1>5, <4>1
    <3>4. CASE TemperatureBand(u) = 1
      <4>1. MapCurrent("pps", u, x) \in {x, RecoveryCurrent}
        BY <1>1, <3>4, MapByBand
      <4>2. MapCurrent("fast", u, v) = RecoveryCurrent /\ RecoveryCurrent # v
        BY <1>1, <3>2, <3>4, MapByBand, TablesDoNotChain
      <4>3. Both(u) = RecoveryCurrent
        BY <1>4, <4>2
      <4> QED BY <1>5, <2>1, <2>4, <4>1, <4>3
    <3> QED BY <3>3, <3>4
  <2> QED BY <1>1, <2>2, <2>3, <2>4
<1>7. ASSUME TRUE \in s.pps PROVE ApplyTemperatureCurrent(u, x) \in A
  <2>1. CASE TemperatureBand(u) = 1
    <3>1. ApplyTemperatureCurrent(u, x) = MapCurrent("pps", u, x)
      BY <1>1, <2>1, MapByBand
    <3> QED BY <1>6, <1>7, <3>1
  <2>2. CASE TemperatureBand(u) # 1
    <3>1. ApplyTemperatureCurrent(u, x) = x
      BY <1>1, <2>2, MapByBand
    <3> QED BY <1>5, <3>1
  <2> QED BY <2>1, <2>2
<1> QED BY <1>5, <1>6, <1>7 DEF A

\* The policy of a gated handler below 58 C, when it takes the value from its
\* own table.
LEMMA RaisedPolicy ==
  ASSUME NEW h, NEW v, NEW t, h \in Gated, v \in Nat, t \in Nat, TemperatureBand(t) # 2,
         NEW b, NEW p, b = TRUE, p \in {TRUE, FALSE}, NEW th, Named(h, v)
  PROVE  Promise!Policy(h, t, b, p, th, v) = ApplyTemperatureCurrent(t, StepTable(h, v))
<1> DEFINE T == IF h = "single" THEN SingleTable(v) ELSE MultiTable(v)
<1>1. Promise!TemperatureBand(t) # 2
  BY SameTables
<1>2. ASSUME h \in {"single", "multi"}
      PROVE  Promise!Policy(h, t, b, p, th, v) = ApplyTemperatureCurrent(t, StepTable(h, v))
  <2>1. StepTable(h, v) = T
    BY <1>2 DEF StepTable
  <2>2. Promise!Policy(h, t, b, p, th, v) = Promise!StepPolicy(T, t, b, p, v)
    <3>1. CASE h = "single"
      BY <3>1, SameTables DEF Promise!Policy
    <3>2. CASE h = "multi"
      BY <3>2, SameTables DEF Promise!Policy
    <3> QED BY <1>2, <3>1, <3>2
  <2> HIDE DEF T
  <2>3. Promise!StepPolicy(T, t, b, p, v) = ApplyTemperatureCurrent(t, T)
    BY <1>1, SameTables DEF Promise!StepPolicy
  <2> QED BY <2>1, <2>2, <2>3
<1>3. ASSUME h = "max"
      PROVE  Promise!Policy(h, t, b, p, th, v) = ApplyTemperatureCurrent(t, StepTable(h, v))
  <2>1. Promise!Policy(h, t, b, p, th, v) = Promise!CurrMaxPolicy(t, b, p, v)
    BY <1>3 DEF Promise!Policy
  <2>2. v = 17500
    BY <1>3 DEF Named
  <2>3. Promise!CurrMaxPolicy(t, b, p, v) = ApplyTemperatureCurrent(t, CurrMaxTable(v))
    BY <1>1, <2>2, SameTables DEF Promise!CurrMaxPolicy
  <2>4. StepTable(h, v) = CurrMaxTable(v)
    BY <1>3 DEF StepTable
  <2> QED BY <2>1, <2>3, <2>4
<1> QED BY <1>2, <1>3 DEF Gated

\* ... and when it does not: the value x the PPS map makes of the argument, if
\* that is on, and then the limit of the recovery band.
Unraised(h, v, t, b, p, x) ==
  /\ b \in BOOLEAN /\ p \in BOOLEAN
  /\ b \/ p
  /\ ~(b /\ Named(h, v))
  /\ x = IF p THEN MapCurrent("pps", t, v) ELSE v

LEMMA MappedPolicy ==
  ASSUME NEW h, NEW v, NEW t, h \in Gated, v \in Nat, t \in Nat, TemperatureBand(t) # 2,
         NEW b, NEW p, NEW th, NEW x, Unraised(h, v, t, b, p, x)
  PROVE  Promise!Policy(h, t, b, p, th, v) = ApplyTemperatureCurrent(t, x)
<1> DEFINE m == MapCurrent("pps", t, v)
           T == IF h = "single" THEN SingleTable(v) ELSE MultiTable(v)
           policy == Promise!Policy(h, t, b, p, th, v)
           answer == ApplyTemperatureCurrent(t, x)
<1>1. ApplyTemperatureCurrent(t, m) = m
  <2>1. CASE TemperatureBand(t) = 1
    <3>1. m = ApplyTemperatureCurrent(t, v) /\ RecoveryCurrent \in Nat
      BY <2>1, MapByBand DEF RecoveryCurrent
    <3>2. m \in {v, RecoveryCurrent} /\ RecoveryCurrent \notin RecoveryKeys
      BY <3>1, MapByBand, TablesDoNotChain
    <3>3. m # RecoveryCurrent => v \notin RecoveryKeys /\ m = v
      BY <2>1, <3>1, MapByBand
    <3>4. m \in Nat /\ m \notin RecoveryKeys
      BY <3>1, <3>2, <3>3
    <3> QED BY <3>4, MapByBand
  <2>2. CASE TemperatureBand(t) \in {-1, 0}
    <3>1. m = PpsTable(v)
      BY <2>2, MapByBand
    <3>2. m \in Nat
      BY <3>1 DEF PpsTable
    <3> QED BY <2>2, <3>2, MapByBand
  <2> QED BY <2>1, <2>2, MapByBand
<1>0. /\ b \in BOOLEAN /\ p \in BOOLEAN
      /\ b \/ p
      /\ ~(b /\ Named(h, v))
      /\ p => x = m
      /\ ~p => x = v
  BY DEF Unraised
<1>2. Promise!TemperatureBand(t) # 2 /\ Promise!MapCurrent("pps", t, v) = m
  BY SameTables
<1>3. ASSUME h \in {"single", "multi"} PROVE policy = answer
  <2>1. ~b /\ p
    BY <1>0, <1>3 DEF Named
  <2>2. policy = Promise!StepPolicy(T, t, b, p, v)
    <3>1. CASE h = "single"
      BY <3>1, SameTables DEF Promise!Policy
    <3>2. CASE h = "multi"
      BY <3>2, SameTables DEF Promise!Policy
    <3> QED BY <1>3, <3>1, <3>2
  <2>3. x = m
    BY <1>0, <2>1
  <2> HIDE DEF T, m
  <2>4. Promise!StepPolicy(T, t, b, p, v) = m
    BY <1>2, <2>1 DEF Promise!StepPolicy
  <2> HIDE DEF policy
  <2> QED BY <1>1, <2>2, <2>3, <2>4
<1>4. ASSUME h = "max" PROVE policy = answer
  <2>1. policy = Promise!CurrMaxPolicy(t, b, p, v)
    BY <1>4 DEF Promise!Policy
  <2>2. ~(b /\ v = 17500)
    BY <1>0, <1>4 DEF Named
  <2> HIDE DEF m
  <2>3. Promise!CurrMaxPolicy(t, b, p, v) = answer
    BY <1>0, <1>2, <2>2, SameTables DEF Promise!CurrMaxPolicy
  <2> HIDE DEF policy, answer
  <2> QED BY <2>1, <2>3
<1>5. policy = answer
  BY <1>3, <1>4 DEF Gated
<1> QED BY <1>5

\* What a gated handler that took nothing from its table answers with.
LEMMA MappedAnswer ==
  ASSUME NEW s \in Views, NEW h \in Gated, NEW v \in Nat, NEW t \in s.temps,
         NEW b \in s.boost, NEW p \in s.pps, NEW th \in s.thermal,
         TemperatureBand(t) # 2, NEW x, Unraised(h, v, t, b, p, x)
  PROVE  ApplyTemperatureCurrent(t, x) \in Promise!Answers(h, s, v)
<1>1. t \in Nat
  BY DEF Views
<1>2. Promise!Policy(h, t, b, p, th, v) = ApplyTemperatureCurrent(t, x)
  BY <1>1, MappedPolicy
<1>3. Promise!Policy(h, t, b, p, th, v) \in Promise!Answers(h, s, v)
  BY AnswerIs
<1> QED BY <1>2, <1>3

\* What a gated handler with boost on answers with below 58 C.
LEMMA RaisedAnswer ==
  ASSUME NEW s \in Views, NEW h \in Gated, NEW v \in Nat, NEW t \in s.temps,
         NEW b \in s.boost, NEW p \in s.pps, NEW th \in s.thermal, b = TRUE,
         Named(h, v), TemperatureBand(t) # 2
  PROVE  ApplyTemperatureCurrent(t, StepTable(h, v)) \in Promise!Answers(h, s, v)
<1>1. t \in Nat /\ p \in {TRUE, FALSE}
  BY DEF Views
<1>2. Promise!Policy(h, t, b, p, th, v) = ApplyTemperatureCurrent(t, StepTable(h, v))
  BY <1>1, RaisedPolicy
<1>3. Promise!Policy(h, t, b, p, th, v) \in Promise!Answers(h, s, v)
  BY AnswerIs
<1> QED BY <1>2, <1>3

RaisedIsAnswer(h, s, v, u) ==
  ApplyTemperatureCurrent(u, StepTable(h, v)) \in Promise!Answers(h, s, v)
Apart(g, u) == g \in 550..579 /\ u >= 580

\* A gated handler that raised a current and then applies the limit of one
\* temperature answers for that temperature, or for the one its gate saw,
\* unless the two lie on both sides of 58 C.
LEMMA RaisedAnswers ==
  ASSUME NEW s \in Views, NEW h \in Gated, NEW v \in Nat, NEW u \in s.temps, NEW g \in s.temps,
         TRUE \in s.boost, s.pps # {}, s.thermal # {}, Named(h, v), TemperatureBand(g) # 2
  PROVE  RaisedIsAnswer(h, s, v, u) \/ Apart(g, u)
<1> USE DEF RaisedIsAnswer, Apart
<1> DEFINE x == StepTable(h, v)
           A == Promise!Answers(h, s, v)
<1>1. u \in Nat /\ g \in Nat /\ s.temps \subseteq Nat
  BY DEF Views
<1>2. \A t \in s.temps : TemperatureBand(t) # 2 => ApplyTemperatureCurrent(t, x) \in A
  <2>1. PICK p \in s.pps, th \in s.thermal : TRUE
    OBVIOUS
  <2> QED BY RaisedAnswer
<1>3. x \in Nat
  BY TablesAreTyped DEF StepTable, Gated
<1> HIDE DEF x, A
<1>4. CASE TemperatureBand(u) # 2
  BY <1>2, <1>4 DEF x, A
<1>5. CASE TemperatureBand(u) = 2 /\ TemperatureBand(g) # 1
  <2>1. ApplyTemperatureCurrent(u, x) = x /\ ApplyTemperatureCurrent(g, x) = x
    BY <1>1, <1>3, <1>5, MapByBand
  <2> QED BY <1>2, <2>1 DEF x, A
<1>6. CASE TemperatureBand(u) = 2 /\ TemperatureBand(g) = 1
  BY <1>1, <1>6 DEF TemperatureBand
<1> QED BY <1>4, <1>5, <1>6

\* One that did not raise it answers for one temperature, whatever the others.
LEMMA MappedAnswers ==
  ASSUME NEW s \in Views, NEW h \in Gated, NEW v \in Nat, NEW x \in Nat, NEW u \in s.temps,
         NEW b \in s.boost, NEW p \in s.pps, NEW th \in s.thermal,
         b \/ p, ~(b /\ Named(h, v)),
         x # v => p /\ \E t \in s.temps : x = MapCurrent("pps", t, v)
  PROVE  ApplyTemperatureCurrent(u, x) \in Promise!Answers(h, s, v)
<1> DEFINE A == Promise!Answers(h, s, v)
           Y(t) == ApplyTemperatureCurrent(t, IF p THEN MapCurrent("pps", t, v) ELSE v)
<1>1. u \in Nat /\ b \in BOOLEAN /\ p \in BOOLEAN /\ s.temps \subseteq Nat
  BY DEF Views
<1>2. ASSUME NEW t \in s.temps, TemperatureBand(t) # 2 PROVE Y(t) \in A
  <2> DEFINE y == IF p THEN MapCurrent("pps", t, v) ELSE v
  <2>1. Unraised(h, v, t, b, p, y)
    BY <1>1 DEF Unraised
  <2> HIDE DEF y
  <2>2. ApplyTemperatureCurrent(t, y) \in A
    BY <1>2, <2>1, MappedAnswer
  <2> QED BY <2>2 DEF y
<1>3. v \in A
  BY AnswerIs
<1> HIDE DEF A
<1>4. ASSUME x # v
      PROVE  x \in A /\ v \in RecoveryKeys /\ (x = RecoveryCurrent \/ x \in RecoveryKeys)
  <2>1. PICK t \in s.temps : x = MapCurrent("pps", t, v)
    BY <1>4
  <2>2. p /\ t \in Nat
    BY <1>1, <1>4
  <2>3. TemperatureBand(t) \in {-1, 0, 1}
    BY <1>4, <2>1, <2>2, MapByBand
  <2>4. CASE TemperatureBand(t) = 1
    <3>1. x = RecoveryCurrent /\ v \in RecoveryKeys
      BY <1>4, <2>1, <2>2, <2>4, MapByBand
    <3>2. ApplyTemperatureCurrent(t, x) = x
      BY <2>2, <3>1, TablesDoNotChain, MapByBand
    <3>3. Y(t) = x
      BY <2>1, <2>2, <3>2
    <3> QED BY <1>2, <2>4, <3>1, <3>3
  <2>5. CASE TemperatureBand(t) \in {-1, 0}
    <3>1. x = PpsTable(v)
      BY <2>1, <2>2, <2>5, MapByBand
    <3>2. v \in RecoveryKeys /\ x \in RecoveryKeys
      BY <1>4, <3>1, TablesDoNotChain
    <3>3. ApplyTemperatureCurrent(t, x) = x
      BY <2>2, <2>5, MapByBand
    <3>4. Y(t) = x
      BY <2>1, <2>2, <3>3
    <3> QED BY <1>2, <2>5, <3>2, <3>4
  <2> QED BY <2>3, <2>4, <2>5
<1>5. x \in A
  BY <1>3, <1>4
<1>6. CASE TemperatureBand(u) # 1
  <2>1. ApplyTemperatureCurrent(u, x) = x
    BY <1>1, <1>6, MapByBand
  <2> QED BY <1>5, <2>1 DEF A
<1>7. CASE TemperatureBand(u) = 1
  <2> DEFINE a == ApplyTemperatureCurrent(u, v)
  <2>1. Y(u) \in A
    BY <1>2, <1>7
  <2>2. a \in Nat /\ ApplyTemperatureCurrent(u, a) = a
    <3>1. a \in {v, RecoveryCurrent} /\ RecoveryCurrent \in Nat
      BY <1>1, MapByBand DEF RecoveryCurrent
    <3>2. a # RecoveryCurrent => a = v
      BY <3>1
    <3>3. CASE a = RecoveryCurrent
      BY <1>1, <3>1, <3>3, MapByBand, TablesDoNotChain
    <3>4. CASE a = v
      BY <3>4
    <3> QED BY <3>2, <3>3, <3>4
  <2>3. Y(u) = a
    <3>1. MapCurrent("pps", u, v) = a
      BY <1>1, <1>7, MapByBand
    <3> QED BY <2>2, <3>1
  <2>4. CASE x = v
    BY <2>1, <2>3, <2>4 DEF A
  <2>5. CASE x # v
    <3>1. a = RecoveryCurrent
      BY <1>1, <1>4, <1>7, <2>5, MapByBand
    <3>2. ApplyTemperatureCurrent(u, x) = RecoveryCurrent
      BY <1>1, <1>4, <1>7, <2>5, MapByBand
    <3> QED BY <2>1, <2>3, <3>1, <3>2 DEF A
  <2> QED BY <2>4, <2>5
<1> QED BY <1>6, <1>7

\* A handler that takes a step is in an activation of one of the handlers.
LEMMA HandlerIsActive ==
  ASSUME TypeInv, NEW c \in CPUs, Handle(c)
  PROVE  call[c].pc # "idle" /\ call[c].handler \in Handlers
<1>1. call[c].pc # "idle"
  BY DEF Handle, Gate, ReadBoostCurve, ReadBoostStep, ReadThermal, MapReadOnce, MapCurrentRead,
     Apply, ReadPps, ReadBoostAgain, ReadPpsAgain, Write, AttributeStep, AttributePps, Load,
     Store, StoreValue, At
<1> QED BY <1>1 DEF TypeInv, ShapeOK, Shaped

\* A handler without a gate keeps its explanation.
LEMMA HandleCurved ==
  ASSUME TypeInv, NEW c \in CPUs, Handle(c), call[c].handler \notin Gated,
         Current(seen[c]), Curved(call[c], seen[c])
  PROVE  Curved(call'[c], seen[c])
<1> DEFINE r == call[c]
           n == call'[c]
           s == seen[c]
           raw == raw_fg_temperature
           h == r.handler
           v == r.old
<1>1. /\ call \in [CPUs -> Activations]
      /\ r \in Activations /\ Shaped(r) /\ s \in Views
      /\ raw \in Nat /\ raw \in s.temps
      /\ v \in Nat /\ r.value \in Nat
  BY DEF TypeInv, TypeOK, ShapeOK, Views, Current, Activations
<1>2. /\ param.boost \in s.boost /\ param.boost \in BOOLEAN
      /\ param.pps \in s.pps /\ param.pps \in BOOLEAN
      /\ param.thermal \in s.thermal /\ param.thermal \in BOOLEAN
  BY DEF Current, TypeInv, TypeOK
<1>3. n.handler = h /\ n.old = v /\ h \in Handlers
  BY HandleFrame, HandlerIsActive DEF Frame
<1>4. h \in {"ichg", "cv", "fast", "thermal"}
  BY <1>3, HandlersAssumption DEF Curves
<1>5. Answered(v, r, s) /\ Answered(r.reg, r, s)
  BY <1>2, <1>1, AnswerIs DEF Answered, Curved
<1> HIDE DEF n
<1>6. ASSUME ReadBoostCurve(c) PROVE Curved(n, s)
  <2>1. r.pc = "boost" /\ r.value = v
    BY <1>6 DEF ReadBoostCurve, At, Curved
  <2>2. CASE param.boost
    <3>1. n = [r EXCEPT !.pc = "map", !.table = h, !.then = IF h = "fast" THEN "pps" ELSE "write"]
      BY <1>1, <1>6, <2>2 DEF ReadBoostCurve, Continue, n
    <3>2. /\ n.pc = "map" /\ n.table = h /\ n.then = IF h = "fast" THEN "pps" ELSE "write"
          /\ n.value = v /\ n.reg = r.reg
      BY <1>1, <2>1, <3>1 DEF Activations
    <3>3. TRUE \in s.boost
      BY <1>2, <2>2
    <3> QED BY <1>3, <1>4, <1>5, <3>2, <3>3, <1>6
         DEF Curved, Answered, ReadBoostCurve, Curves
  <2>3. CASE ~param.boost
    <3>1. n = [r EXCEPT !.pc = IF h = "fast" THEN "pps" ELSE "done"]
      BY <1>1, <1>6, <2>3 DEF ReadBoostCurve, Goto, Continue, n
    <3>2. /\ n.pc = IF h = "fast" THEN "pps" ELSE "done"
          /\ n.value = v /\ n.reg = r.reg
      BY <1>1, <2>1, <3>1 DEF Activations
    <3> QED BY <1>3, <1>5, <3>2 DEF Curved, Answered, Mapped
  <2> QED BY <2>2, <2>3
<1>7. ASSUME ReadThermal(c) PROVE Curved(n, s)
  <2>1. r.pc = "thermal" /\ r.value = v /\ h = "thermal"
    BY <1>1, <1>7 DEF ReadThermal, At, Curved, Shaped
  <2>2. CASE param.thermal
    <3>1. n = [r EXCEPT !.pc = "map", !.table = "thermal", !.then = "write"]
      BY <1>1, <1>7, <2>2 DEF ReadThermal, Continue, n
    <3>2. n.pc = "map" /\ n.then = "write" /\ n.value = v /\ n.reg = r.reg
      BY <1>1, <2>1, <3>1 DEF Activations
    <3>3. TRUE \in s.thermal
      BY <1>2, <2>2
    <3> QED BY <1>3, <1>5, <2>1, <3>2, <3>3 DEF Curved, Answered
  <2>3. CASE ~param.thermal
    <3>1. n = [r EXCEPT !.pc = "done"]
      BY <1>1, <1>7, <2>3 DEF ReadThermal, Goto, Continue, n
    <3>2. n.pc = "done" /\ n.reg = r.reg
      BY <1>1, <3>1 DEF Activations
    <3> QED BY <1>3, <1>5, <3>2 DEF Curved, Answered
  <2> QED BY <2>2, <2>3
<1>8. ASSUME MapReadOnce(c) PROVE Curved(n, s)
  <2> DEFINE x == SingleReadMap(r.table, raw, v)
  <2>1. /\ r.pc = "map" /\ r.table \in {"cv", "thermal"} /\ h = r.table
        /\ r.value = v /\ r.then = "write"
        /\ h = "cv" => TRUE \in s.boost
        /\ h = "thermal" => TRUE \in s.thermal
    BY <1>1, <1>8 DEF MapReadOnce, At, Shaped, Curved
  <2>2. n = [r EXCEPT !.pc = r.then, !.value = x]
    BY <1>1, <1>8, <2>1 DEF MapReadOnce, Continue, n
  <2>3. Answered(x, r, s)
    <3>1. CASE h = "cv"
      <4>1. Promise!Policy(h, raw, TRUE, param.pps, param.thermal, v) = x
        BY <2>1, <3>1, SameTables DEF Promise!Policy, SingleReadMap
      <4>2. Promise!Policy(h, raw, TRUE, param.pps, param.thermal, v) \in Promise!Answers(h, s, v)
        BY <1>1, <1>2, <2>1, <3>1, AnswerIs
      <4> QED BY <4>1, <4>2 DEF Answered
    <3>2. CASE h = "thermal"
      <4>1. Promise!Policy(h, raw, param.boost, param.pps, TRUE, v) = x
        BY <2>1, <3>2, SameTables DEF Promise!Policy, SingleReadMap
      <4>2. Promise!Policy(h, raw, param.boost, param.pps, TRUE, v) \in Promise!Answers(h, s, v)
        BY <1>1, <1>2, <2>1, <3>2, AnswerIs
      <4> QED BY <4>1, <4>2 DEF Answered
    <3> QED BY <2>1, <3>1, <3>2
  <2> HIDE DEF x
  <2>4. n.pc = "write" /\ n.value = x /\ n.reg = r.reg
    BY <1>1, <2>1, <2>2 DEF Activations
  <2> QED BY <1>3, <1>5, <2>3, <2>4 DEF Curved, Answered
<1>9. ASSUME MapCurrentRead(c) PROVE Curved(n, s)
  <2> DEFINE x == CurrentTable(r.table, r.value)
  <2>1. /\ r.pc = "map" /\ r.table \notin {"cv", "thermal"} /\ h \in {"ichg", "fast"}
        /\ h = "ichg" => r.table = "ichg" /\ r.value = v /\ TRUE \in s.boost /\ r.then = "write"
        /\ h = "fast" => /\ r.then \in {"pps", "write", "load"}
                         /\ r.table = IF r.then = "pps" THEN "fast" ELSE "pps"
                         /\ r.then = "pps" => r.value = v /\ TRUE \in s.boost
                         /\ r.then = "write" => TRUE \in s.pps
        /\ h = "fast" /\ r.then = "write" =>
             Mapped("fast", r, s) /\ (r.value # v => TRUE \in s.boost)
    BY <1>1, <1>4, <1>9 DEF MapCurrentRead, At, Shaped, Curved
  <2>2. h = "fast" /\ r.then = "write" =>
          Answered(r.value, r, s) /\ Answered(MapCurrent("pps", raw, r.value), r, s)
    BY <1>1, <1>2, <2>1, FastAnswers DEF Answered, Mapped
  <2>3. CASE TemperatureBand(raw) = 2
    <3>1. n = [r EXCEPT !.pc = r.then]
      BY <1>1, <1>9, <2>3 DEF MapCurrentRead, Goto, Continue, n
    <3>2. n.pc = r.then /\ n.then = r.then /\ n.value = r.value /\ n.reg = r.reg
      BY <1>1, <3>1 DEF Activations
    <3> QED BY <1>3, <1>5, <2>1, <2>2, <3>2 DEF Curved, Answered, Mapped
  <2>4. CASE TemperatureBand(raw) = 1
    <3>1. n = [r EXCEPT !.pc = "apply"]
      BY <1>1, <1>9, <2>4 DEF MapCurrentRead, Goto, Continue, n
    <3>2. n.pc = "apply" /\ n.then = r.then /\ n.value = r.value /\ n.reg = r.reg
      BY <1>1, <3>1 DEF Activations
    <3> QED BY <1>3, <1>5, <2>1, <3>2 DEF Curved, Answered, Mapped
  <2>5. CASE TemperatureBand(raw) \notin {1, 2}
    <3>1. n = [r EXCEPT !.pc = r.then, !.value = x]
      BY <1>1, <1>9, <2>5 DEF MapCurrentRead, Continue, n
    <3>2. x = MapCurrent(r.table, raw, r.value)
      <4>1. r.table \in {"ichg", "fast", "pps"}
        BY <2>1
      <4> QED BY <1>1, <2>5, <4>1, MapByBand
    <3>3. h = "ichg" => Answered(x, r, s)
      <4> SUFFICES ASSUME h = "ichg" PROVE Answered(x, r, s)
        OBVIOUS
      <4>1. Promise!Policy(h, raw, TRUE, param.pps, param.thermal, v) = x
        BY <2>1, <3>2, SameTables DEF Promise!Policy
      <4>2. Promise!Policy(h, raw, TRUE, param.pps, param.thermal, v) \in Promise!Answers(h, s, v)
        BY <1>1, <1>2, <2>1, AnswerIs
      <4> QED BY <4>1, <4>2 DEF Answered
    <3>4. h = "fast" /\ r.then = "write" => Answered(x, r, s)
      BY <2>1, <2>2, <3>2
    <3>5. h = "fast" /\ r.then = "pps" =>
            (\E t \in s.temps : x = MapCurrent("fast", t, v)) /\ TRUE \in s.boost
      BY <1>1, <2>1, <3>2
    <3> HIDE DEF x
    <3>6. n.pc = r.then /\ n.then = r.then /\ n.value = x /\ n.reg = r.reg
      BY <1>1, <3>1 DEF Activations
    <3> QED BY <1>3, <1>5, <2>1, <3>3, <3>4, <3>5, <3>6 DEF Curved, Answered, Mapped
  <2> QED BY <2>3, <2>4, <2>5
<1>10. ASSUME Apply(c) PROVE Curved(n, s)
  <2> DEFINE x == ApplyTemperatureCurrent(raw, r.value)
  <2>1. /\ r.pc = "apply" /\ h \in {"ichg", "fast"}
        /\ h = "ichg" => r.value = v /\ TRUE \in s.boost /\ r.then = "write"
        /\ h = "fast" => /\ r.then \in {"pps", "write", "load"}
                         /\ r.then = "pps" => r.value = v /\ TRUE \in s.boost
                         /\ r.then = "write" => TRUE \in s.pps
        /\ h = "fast" /\ r.then = "write" =>
             Mapped("fast", r, s) /\ (r.value # v => TRUE \in s.boost)
    BY <1>1, <1>4, <1>10 DEF Apply, At, Shaped, Curved
  <2>2. n = [r EXCEPT !.pc = r.then, !.value = x]
    BY <1>1, <1>10 DEF Apply, Continue, n
  <2>3. r.value = v => x = v \/ \A of \in {"ichg", "fast"} : x = MapCurrent(of, raw, v)
    <3>1. CASE TemperatureBand(raw) = 1
      BY <1>1, <3>1, MapByBand
    <3>2. CASE TemperatureBand(raw) # 1
      BY <1>1, <3>2, MapByBand
    <3> QED BY <3>1, <3>2
  <2>4. h = "ichg" => Answered(x, r, s)
    <3> SUFFICES ASSUME h = "ichg", x # v PROVE Answered(x, r, s)
      BY <1>5
    <3>1. x = MapCurrent("ichg", raw, v)
      BY <2>1, <2>3
    <3> HIDE DEF x
    <3>2. Promise!Policy(h, raw, TRUE, param.pps, param.thermal, v) = x
      BY <3>1, SameTables DEF Promise!Policy
    <3>3. Promise!Policy(h, raw, TRUE, param.pps, param.thermal, v) \in Promise!Answers(h, s, v)
      BY <1>1, <1>2, <2>1, AnswerIs
    <3> QED BY <3>2, <3>3 DEF Answered
  <2>5. h = "fast" /\ r.then = "write" => Answered(x, r, s)
    BY <1>1, <1>2, <2>1, FastAnswers DEF Answered, Mapped
  <2>6. h = "fast" /\ r.then = "pps" =>
          (x = v \/ \E t \in s.temps : x = MapCurrent("fast", t, v)) /\ TRUE \in s.boost
    BY <1>1, <2>1, <2>3
  <2> HIDE DEF x
  <2>7. n.pc = r.then /\ n.then = r.then /\ n.value = x /\ n.reg = r.reg
    BY <1>1, <2>2 DEF Activations
  <2> QED BY <1>3, <1>5, <2>1, <2>4, <2>5, <2>6, <2>7 DEF Curved, Answered, Mapped
<1>11. ASSUME ReadPps(c) PROVE Curved(n, s)
  <2>1. /\ r.pc = "pps" /\ h = "fast"
        /\ Mapped("fast", r, s) /\ (r.value # v => TRUE \in s.boost)
    BY <1>1, <1>11 DEF ReadPps, At, Curved, Shaped
  <2>2. Answered(r.value, r, s)
    BY <1>1, <1>2, <2>1, FastAnswers DEF Answered, Mapped
  <2>3. CASE param.pps
    <3>1. n = [r EXCEPT !.pc = "map", !.table = "pps", !.then = "write"]
      BY <1>1, <1>11, <2>1, <2>3 DEF ReadPps, Continue, n
    <3>2. /\ n.pc = "map" /\ n.table = "pps" /\ n.then = "write"
          /\ n.value = r.value /\ n.reg = r.reg
      BY <1>1, <3>1 DEF Activations
    <3>3. TRUE \in s.pps
      BY <1>2, <2>3
    <3> QED BY <1>3, <1>5, <2>1, <3>2, <3>3 DEF Curved, Answered, Mapped
  <2>4. CASE ~param.pps
    <3>1. n = [r EXCEPT !.pc = "write"]
      BY <1>1, <1>11, <2>1, <2>4 DEF ReadPps, Goto, Continue, n
    <3>2. n.pc = "write" /\ n.value = r.value /\ n.reg = r.reg
      BY <1>1, <3>1 DEF Activations
    <3> QED BY <1>3, <1>5, <2>2, <3>2 DEF Curved, Answered
  <2> QED BY <2>3, <2>4
<1>12. ASSUME Write(c) PROVE Curved(n, s)
  <2>1. Answered(r.value, r, s)
    BY <1>12 DEF Write, At, Curved
  <2>2. CASE r.value = v
    <3>1. n = [r EXCEPT !.pc = "done"]
      BY <1>1, <1>12, <2>2 DEF Write, Continue, n
    <3>2. n.pc = "done" /\ n.reg = r.reg
      BY <1>1, <3>1 DEF Activations
    <3> QED BY <1>3, <1>5, <3>2 DEF Curved, Answered
  <2>3. CASE r.value # v
    <3> DEFINE l == IF h = "fast" THEN "attributePps" ELSE "load"
    <3>1. n = [r EXCEPT !.reg = r.value, !.pc = l, !.counter = h]
      BY <1>1, <1>4, <1>12, <2>3 DEF Write, Continue, n, Gated
    <3>2. l \in {"attributePps", "load"}
      OBVIOUS
    <3> HIDE DEF l
    <3>3. n.pc = l /\ n.reg = r.value
      BY <1>1, <3>1 DEF Activations
    <3> QED BY <1>3, <2>1, <3>2, <3>3 DEF Curved, Answered
  <2> QED BY <2>2, <2>3
<1>13. ASSUME AttributePps(c) PROVE Curved(n, s)
  <2>1. h = "fast"
    BY <1>1, <1>13 DEF AttributePps, At, Shaped
  <2>2. CASE param.pps
    <3>1. n = [r EXCEPT !.pc = "map", !.value = v, !.table = "pps", !.then = "load"]
      BY <1>1, <1>13, <2>2 DEF AttributePps, Continue, n
    <3>2. n.pc = "map" /\ n.table = "pps" /\ n.then = "load" /\ n.reg = r.reg
      BY <1>1, <3>1 DEF Activations
    <3> QED BY <1>3, <1>5, <2>1, <3>2 DEF Curved, Answered
  <2>3. CASE ~param.pps
    <3>1. n = [r EXCEPT !.pc = "load", !.value = v]
      BY <1>1, <1>13, <2>3 DEF AttributePps, Continue, n
    <3>2. n.pc = "load" /\ n.reg = r.reg
      BY <1>1, <3>1 DEF Activations
    <3> QED BY <1>3, <1>5, <3>2 DEF Curved, Answered
  <2> QED BY <2>2, <2>3
<1>14. ASSUME Load(c) PROVE Curved(n, s)
  <2>1. n = [r EXCEPT !.pc = "store", !.counter = CounterOf(r), !.loaded = hits[CounterOf(r)]]
    BY <1>1, <1>14 DEF Load, Continue, n
  <2>2. n.pc = "store" /\ n.reg = r.reg
    BY <1>1, <2>1 DEF Activations
  <2> QED BY <1>3, <1>5, <2>2 DEF Curved, Answered
<1>15. ASSUME Store(c) PROVE Curved(n, s)
  <2>1. n = [r EXCEPT !.pc = "done"]
    BY <1>1, <1>15 DEF Store, StoreValue, n
  <2>2. n.pc = "done" /\ n.reg = r.reg
    BY <1>1, <2>1 DEF Activations
  <2> QED BY <1>3, <1>5, <2>2 DEF Curved, Answered
<1>16. ~(Gate(c) \/ ReadBoostStep(c) \/ ReadBoostAgain(c) \/ ReadPpsAgain(c) \/ AttributeStep(c))
  BY <1>1 DEF Gate, ReadBoostStep, ReadBoostAgain, ReadPpsAgain, AttributeStep, At, Shaped
<1> QED BY <1>6, <1>7, <1>8, <1>9, <1>10, <1>11, <1>12, <1>13, <1>14, <1>15, <1>16
     DEF Handle, n

\* A gated handler keeps its explanation, the parameters being left alone.
LEMMA HandleStepped ==
  ASSUME TypeInv, NEW c \in CPUs, Handle(c), call[c].handler \in Gated,
         Current(seen[c]), Stepped(call[c], seen[c])
  PROVE  Stepped(call'[c], seen[c])
<1> DEFINE r == call[c]
           n == call'[c]
           s == seen[c]
           raw == raw_fg_temperature
           h == r.handler
           v == r.old
           b == param.boost
           p == param.pps
<1>1. /\ call \in [CPUs -> Activations]
      /\ r \in Activations /\ Shaped(r) /\ s \in Views
      /\ raw \in Nat /\ raw \in s.temps
      /\ v \in Nat /\ r.value \in Nat
      /\ r.pc # "idle" /\ h \in Gated
  BY HandlerIsActive DEF TypeInv, TypeOK, ShapeOK, Views, Current, Activations
<1>2. /\ b \in s.boost /\ b \in BOOLEAN
      /\ p \in s.pps /\ p \in BOOLEAN
      /\ param.thermal \in s.thermal
  BY DEF Current, TypeInv, TypeOK
<1>3. n.handler = h /\ n.old = v
  BY HandleFrame DEF Frame
<1>4. /\ Answered(v, r, s)
      /\ Answered(r.reg, r, s) \/ Crossed(s)
      /\ r.pc \notin {"gate", "done"} => \E t \in s.temps : TemperatureBand(t) # 2
  BY <1>1, <1>2, AnswerIs DEF Answered, Stepped
<1>5. Raises(n) <=> Raises(r)
  BY <1>3 DEF Raises
<1> HIDE DEF n
<1>6. ASSUME Gate(c) PROVE Stepped(n, s)
  <2>1. r.pc = "gate" /\ r.value = v
    BY <1>6 DEF Gate, At, Stepped
  <2>2. CASE TemperatureBand(raw) = 2
    <3>1. n = [r EXCEPT !.pc = "done"]
      BY <1>1, <1>6, <2>2 DEF Gate, Goto, Continue, n
    <3>2. n.pc = "done" /\ n.reg = r.reg
      BY <1>1, <3>1 DEF Activations
    <3> QED BY <1>3, <1>4, <3>2 DEF Stepped, Answered
  <2>3. CASE TemperatureBand(raw) # 2
    <3>1. n = [r EXCEPT !.pc = "boost"]
      BY <1>1, <1>6, <2>3 DEF Gate, Goto, Continue, n
    <3>2. n.pc = "boost" /\ n.reg = r.reg /\ n.value = v
      BY <1>1, <2>1, <3>1 DEF Activations
    <3>3. \E t \in s.temps : TemperatureBand(t) # 2
      BY <1>1, <2>3
    <3> QED BY <1>3, <1>4, <3>2, <3>3 DEF Stepped, Answered
  <2> QED BY <2>2, <2>3
<1>7. ASSUME ReadBoostStep(c) PROVE Stepped(n, s)
  <2>1. r.pc = "boost" /\ r.value = v
    BY <1>7 DEF ReadBoostStep, At, Stepped
  <2>2. Raises(r) <=> param.boost /\ (h = "max" => r.value = 17500)
    BY <2>1 DEF Raises, Named
  <2>3. CASE Raises(r)
    <3> DEFINE x == StepTable(h, v)
    <3>1. n = [r EXCEPT !.pc = "boostAgain", !.value = x]
      BY <1>1, <1>7, <2>1, <2>2, <2>3 DEF ReadBoostStep, Continue, n
    <3> HIDE DEF x
    <3>2. n.pc = "boostAgain" /\ n.reg = r.reg /\ n.value = x
      BY <1>1, <3>1 DEF Activations
    <3> QED BY <1>3, <1>4, <1>5, <2>1, <2>3, <3>2 DEF Stepped, Answered, x
  <2>4. CASE ~Raises(r)
    <3>1. n = [r EXCEPT !.pc = "pps"]
      BY <1>1, <1>7, <2>2, <2>4 DEF ReadBoostStep, Goto, Continue, n
    <3>2. n.pc = "pps" /\ n.reg = r.reg /\ n.value = v
      BY <1>1, <2>1, <3>1 DEF Activations
    <3> QED BY <1>3, <1>4, <1>5, <2>1, <2>4, <3>2 DEF Stepped, Answered
  <2> QED BY <2>3, <2>4
<1>8. ASSUME MapCurrentRead(c) PROVE Stepped(n, s)
  <2>1. /\ r.pc = "map" /\ r.table = "pps" /\ r.then = "boostAgain"
        /\ r.value = v /\ p /\ ~Raises(r)
    BY <1>8 DEF MapCurrentRead, At, Stepped
  <2>2. CASE TemperatureBand(raw) = 2
    <3>1. n = [r EXCEPT !.pc = r.then]
      BY <1>1, <1>8, <2>2 DEF MapCurrentRead, Goto, Continue, n
    <3>2. n.pc = "boostAgain" /\ n.reg = r.reg /\ n.value = v
      BY <1>1, <2>1, <3>1 DEF Activations
    <3> QED BY <1>3, <1>4, <1>5, <2>1, <3>2 DEF Stepped, Answered, Mapped
  <2>3. CASE TemperatureBand(raw) = 1
    <3>1. n = [r EXCEPT !.pc = "apply"]
      BY <1>1, <1>8, <2>3 DEF MapCurrentRead, Goto, Continue, n
    <3>2. n.pc = "apply" /\ n.then = "boostAgain" /\ n.reg = r.reg /\ n.value = v
      BY <1>1, <2>1, <3>1 DEF Activations
    <3> QED BY <1>3, <1>4, <1>5, <2>1, <3>2 DEF Stepped, Answered
  <2>4. CASE TemperatureBand(raw) \notin {1, 2}
    <3> DEFINE x == CurrentTable("pps", v)
    <3>1. n = [r EXCEPT !.pc = r.then, !.value = x]
      BY <1>1, <1>8, <2>1, <2>4 DEF MapCurrentRead, Continue, n
    <3>2. x = MapCurrent("pps", raw, v)
      BY <1>1, <2>4, MapByBand
    <3> HIDE DEF x
    <3>3. n.pc = "boostAgain" /\ n.reg = r.reg /\ n.value = x
      BY <1>1, <2>1, <3>1 DEF Activations
    <3> QED BY <1>1, <1>3, <1>4, <1>5, <2>1, <3>2, <3>3 DEF Stepped, Answered, Mapped
  <2> QED BY <2>2, <2>3, <2>4
<1>9. ASSUME Apply(c) PROVE Stepped(n, s)
  <2> DEFINE x == ApplyTemperatureCurrent(raw, r.value)
  <2>1. /\ r.pc = "apply" /\ r.then \in {"boostAgain", "write"}
        /\ r.then = "boostAgain" => r.value = v /\ p /\ ~Raises(r)
        /\ r.then = "write" =>
             /\ IF Raises(r) THEN r.value = StepTable(h, v)
                             ELSE Mapped("pps", r, s) /\ (r.value # v => p)
             /\ b \/ p
    BY <1>9 DEF Apply, At, Stepped
  <2>2. n = [r EXCEPT !.pc = r.then, !.value = x]
    BY <1>1, <1>9 DEF Apply, Continue, n
  <2>3. r.then = "boostAgain" => x = v \/ x = MapCurrent("pps", raw, v)
    <3>1. CASE TemperatureBand(raw) = 1
      BY <1>1, <2>1, <3>1, MapByBand
    <3>2. CASE TemperatureBand(raw) # 1
      BY <1>1, <2>1, <3>2, MapByBand
    <3> QED BY <3>1, <3>2
  <2>4. r.then = "write" => Answered(x, r, s) \/ Crossed(s)
    <3> SUFFICES ASSUME r.then = "write" PROVE Answered(x, r, s) \/ Crossed(s)
      OBVIOUS
    <3>1. CASE Raises(r)
      <4>1. b = TRUE /\ Named(h, v) /\ r.value = StepTable(h, v)
        BY <1>2, <2>1, <3>1 DEF Raises
      <4>2. PICK g \in s.temps : TemperatureBand(g) # 2
        BY <1>4, <2>1
      <4>3. RaisedIsAnswer(h, s, v, raw) \/ Apart(g, raw)
        <5>1. s \in Views /\ h \in Gated /\ v \in Nat /\ raw \in s.temps
          BY <1>1
        <5>2. TRUE \in s.boost /\ s.pps # {} /\ s.thermal # {}
          BY <1>2, <4>1
        <5>3. Named(h, v) /\ g \in s.temps /\ TemperatureBand(g) # 2
          BY <4>1, <4>2
        <5> HIDE DEF h, v, b, p, s, raw
        <5> QED BY <5>1, <5>2, <5>3, RaisedAnswers
      <4> QED BY <1>1, <4>1, <4>2, <4>3 DEF Answered, Crossed, RaisedIsAnswer, Apart
    <3>2. CASE ~Raises(r)
      <4>1. ~(b /\ Named(h, v))
        BY <3>2 DEF Raises
      <4>2. r.value # v => p /\ \E t \in s.temps : r.value = MapCurrent("pps", t, v)
        BY <2>1, <3>2 DEF Mapped
      <4>3. b \/ p
        BY <2>1
      <4> QED BY <1>1, <1>2, <4>1, <4>2, <4>3, MappedAnswers DEF Answered
    <3> QED BY <3>1, <3>2
  <2> HIDE DEF x
  <2>5. n.pc = r.then /\ n.reg = r.reg /\ n.value = x
    BY <1>1, <2>2 DEF Activations
  <2>6. CASE r.then = "write"
    BY <1>3, <1>4, <2>1, <2>4, <2>5, <2>6 DEF Stepped, Answered
  <2>7. CASE r.then = "boostAgain"
    <3>1. Mapped("pps", n, s) /\ p /\ ~Raises(n)
      BY <1>1, <1>3, <1>5, <2>1, <2>3, <2>5, <2>7 DEF Mapped
    <3> QED BY <1>3, <1>4, <2>1, <2>5, <2>7, <3>1 DEF Stepped, Answered
  <2> QED BY <2>1, <2>6, <2>7
<1>10. ASSUME ReadPps(c) PROVE Stepped(n, s)
  <2>1. r.pc = "pps" /\ r.value = v /\ ~Raises(r) /\ h # "fast"
    BY <1>1, <1>10 DEF ReadPps, At, Stepped, Gated
  <2>2. CASE p
    <3>1. n = [r EXCEPT !.pc = "map", !.table = "pps", !.then = "boostAgain"]
      BY <1>1, <1>10, <2>1, <2>2 DEF ReadPps, Continue, n
    <3>2. /\ n.pc = "map" /\ n.table = "pps" /\ n.then = "boostAgain"
          /\ n.reg = r.reg /\ n.value = v
      BY <1>1, <2>1, <3>1 DEF Activations
    <3> QED BY <1>3, <1>4, <1>5, <2>1, <2>2, <3>2 DEF Stepped, Answered
  <2>3. CASE ~p
    <3>1. n = [r EXCEPT !.pc = "boostAgain"]
      BY <1>1, <1>10, <2>1, <2>3 DEF ReadPps, Goto, Continue, n
    <3>2. n.pc = "boostAgain" /\ n.reg = r.reg /\ n.value = v
      BY <1>1, <2>1, <3>1 DEF Activations
    <3> QED BY <1>3, <1>4, <1>5, <2>1, <3>2 DEF Stepped, Answered, Mapped
  <2> QED BY <2>2, <2>3
<1> DEFINE Found == IF Raises(r) THEN r.value = StepTable(h, v)
                                 ELSE Mapped("pps", r, s) /\ (r.value # v => p)
<1>11. ASSUME ReadBoostAgain(c) PROVE Stepped(n, s)
  <2> DEFINE l == IF b THEN "apply" ELSE "ppsAgain"
  <2>1. r.pc = "boostAgain" /\ Found
    BY <1>11 DEF ReadBoostAgain, At, Stepped
  <2>2. n = [r EXCEPT !.pc = l, !.then = "write"]
    BY <1>1, <1>11 DEF ReadBoostAgain, Continue, n
  <2>3. l \in {"apply", "ppsAgain"} /\ (l = "apply" => b) /\ (l = "ppsAgain" => ~b)
    OBVIOUS
  <2> HIDE DEF l
  <2>4. n.pc = l /\ n.then = "write" /\ n.reg = r.reg /\ n.value = r.value
    BY <1>1, <2>2 DEF Activations
  <2>5. IF Raises(n) THEN n.value = StepTable(n.handler, n.old)
                     ELSE Mapped("pps", n, s) /\ (n.value # n.old => p)
    BY <1>3, <1>5, <2>1, <2>4 DEF Mapped
  <2> QED BY <1>3, <1>4, <2>1, <2>3, <2>4, <2>5 DEF Stepped, Answered
<1>12. ASSUME ReadPpsAgain(c) PROVE Stepped(n, s)
  <2> DEFINE l == IF p THEN "apply" ELSE "write"
  <2>1. r.pc = "ppsAgain" /\ Found /\ ~b /\ r.then = "write"
    BY <1>1, <1>12 DEF ReadPpsAgain, At, Stepped, Shaped
  <2>2. n = [r EXCEPT !.pc = l]
    BY <1>1, <1>12 DEF ReadPpsAgain, Goto, Continue, n
  <2>3. l \in {"apply", "write"} /\ (l = "apply" => p) /\ (l = "write" => ~p)
    OBVIOUS
  <2> HIDE DEF l
  <2>4. n.pc = l /\ n.then = "write" /\ n.reg = r.reg /\ n.value = r.value
    BY <1>1, <2>1, <2>2 DEF Activations
  <2>5. IF Raises(n) THEN n.value = StepTable(n.handler, n.old)
                     ELSE Mapped("pps", n, s) /\ (n.value # n.old => p)
    BY <1>3, <1>5, <2>1, <2>4 DEF Mapped
  <2>6. ~p => Answered(n.value, n, s)
    <3>1. ~Raises(r)
      BY <2>1 DEF Raises
    <3> QED BY <1>3, <1>4, <2>1, <2>4, <3>1 DEF Answered
  <2> QED BY <1>3, <1>4, <2>1, <2>3, <2>4, <2>5, <2>6 DEF Stepped, Answered
<1>13. ASSUME Write(c) PROVE Stepped(n, s)
  <2>1. Answered(r.value, r, s) \/ Crossed(s)
    BY <1>13 DEF Write, At, Stepped
  <2>2. r.pc = "write"
    BY <1>13 DEF Write, At
  <2>3. CASE r.value = v
    <3>1. n = [r EXCEPT !.pc = "done"]
      BY <1>1, <1>13, <2>3 DEF Write, Continue, n
    <3>2. n.pc = "done" /\ n.reg = r.reg
      BY <1>1, <3>1 DEF Activations
    <3> QED BY <1>3, <1>4, <3>2 DEF Stepped, Answered
  <2>4. CASE r.value # v
    <3>1. n = [r EXCEPT !.reg = r.value, !.pc = "attribute", !.counter = h]
      BY <1>1, <1>13, <2>4 DEF Write, Continue, n, Gated
    <3>2. n.pc = "attribute" /\ n.reg = r.value
      BY <1>1, <3>1 DEF Activations
    <3> QED BY <1>3, <1>4, <2>1, <2>2, <3>2 DEF Stepped, Answered
  <2> QED BY <2>3, <2>4
<1>14. ASSUME AttributeStep(c) PROVE Stepped(n, s)
  <2> DEFINE k == IF b THEN "curve" ELSE "pps"
  <2>1. n = [r EXCEPT !.pc = "load", !.counter = k]
    BY <1>1, <1>14 DEF AttributeStep, Continue, n
  <2> HIDE DEF k
  <2>2. n.pc = "load" /\ n.reg = r.reg /\ r.pc = "attribute"
    BY <1>1, <1>14, <2>1 DEF AttributeStep, At, Activations
  <2> QED BY <1>3, <1>4, <2>2 DEF Stepped, Answered
<1>15. ASSUME Load(c) PROVE Stepped(n, s)
  <2>1. n = [r EXCEPT !.pc = "store", !.counter = CounterOf(r), !.loaded = hits[CounterOf(r)]]
    BY <1>1, <1>15 DEF Load, Continue, n
  <2>2. n.pc = "store" /\ n.reg = r.reg /\ r.pc = "load"
    BY <1>1, <1>15, <2>1 DEF Load, At, Activations
  <2> QED BY <1>3, <1>4, <2>2 DEF Stepped, Answered
<1>16. ASSUME Store(c) PROVE Stepped(n, s)
  <2>1. n = [r EXCEPT !.pc = "done"]
    BY <1>1, <1>16 DEF Store, StoreValue, n
  <2>2. n.pc = "done" /\ n.reg = r.reg
    BY <1>1, <2>1 DEF Activations
  <2> QED BY <1>3, <1>4, <2>2 DEF Stepped, Answered
<1>17. ~(ReadBoostCurve(c) \/ ReadThermal(c) \/ MapReadOnce(c) \/ AttributePps(c))
  BY <1>1 DEF ReadBoostCurve, ReadThermal, MapReadOnce, AttributePps, At, Shaped, Gated, Curves
<1> QED BY <1>6, <1>7, <1>8, <1>9, <1>10, <1>11, <1>12, <1>13, <1>14, <1>15, <1>16, <1>17
     DEF Handle, n

\* What explains an activation still does when it has seen more.
LEMMA ExplainedLater ==
  ASSUME NEW r, NEW s \in Views, NEW z \in Views, s.temps \subseteq z.temps,
         s.boost \subseteq z.boost, s.pps \subseteq z.pps, s.thermal \subseteq z.thermal
  PROVE  /\ Curved(r, s) => Curved(r, z)
         /\ Stepped(r, s) => Stepped(r, z)
<1>1. \A x : Answered(x, r, s) => Answered(x, r, z)
  BY DEF Answered, Promise!Answers
<1>2. \A of : Mapped(of, r, s) => Mapped(of, r, z)
  BY DEF Mapped
<1>3. Crossed(s) => Crossed(z)
  BY DEF Crossed
<1>4. Curved(r, s) => Curved(r, z)
  BY <1>1, <1>2 DEF Curved
<1>5. Stepped(r, s) => Stepped(r, z)
  BY <1>1, <1>2, <1>3 DEF Stepped
<1> QED BY <1>4, <1>5

\* ... and when the parameters and the temperature stay what they are.
LEMMA ExplainedNext ==
  ASSUME UNCHANGED <<param, raw_fg_temperature>>, NEW c, NEW n, NEW z,
         call'[c] = n, seen'[c] = z, Explained(n, z)
  PROVE  Explained(call[c], seen[c])'
<1>1. Current(seen[c])'
  BY DEF Explained, Current
<1>2. Curved(n, z) => Curved(call[c], seen[c])'
  BY DEF Curved
<1>3. /\ Raises(call[c])' <=> Raises(n)
      /\ Crossed(seen[c])' <=> Crossed(z)
  BY DEF Raises, Crossed
<1>4. Stepped(n, z) => Stepped(call[c], seen[c])'
  BY <1>3 DEF Stepped
<1> QED BY <1>1, <1>2, <1>4 DEF Explained

LEMMA InitExplain == Init => ExplainInv
  BY DEF Init, ExplainInv, Active, At, IdleCall

LEMMA HandleExplains ==
  ASSUME TypeInv, ExplainInv, NEW c \in CPUs, Handle(c)
  PROVE  ExplainInv'
<1>1. Frame(c)
  BY HandleFrame
<1>2. UNCHANGED <<param, raw_fg_temperature, seen>>
  BY <1>1 DEF Frame
<1>3. Active(c) /\ Explained(call[c], seen[c])
  BY HandlerIsActive DEF ExplainInv, Active, At
<1>4. call'[c].handler = call[c].handler
  BY <1>1 DEF Frame
<1>5. call[c].handler \notin Gated => Curved(call'[c], seen[c])
  BY <1>3, HandleCurved DEF Explained
<1>6. call[c].handler \in Gated /\ ~SysfsWrites => Stepped(call'[c], seen[c])
  BY <1>3, HandleStepped DEF Explained
<1>7. Explained(call'[c], seen[c])
  BY <1>3, <1>4, <1>5, <1>6 DEF Explained
<1>8. Explained(call[c], seen[c])'
  BY <1>2, <1>7, ExplainedNext
<1>9. ASSUME NEW d \in CPUs \ {c}, Active(d)' PROVE Explained(call[d], seen[d])'
  <2>1. call'[d] = call[d] /\ Active(d)
    BY <1>1, <1>9 DEF Frame, Active, At
  <2>2. Explained(call[d], seen[d])
    BY <2>1 DEF ExplainInv
  <2> QED BY <1>2, <2>1, <2>2, ExplainedNext
<1> QED BY <1>8, <1>9 DEF ExplainInv

LEMMA EnterExplains ==
  ASSUME TypeInv, ExplainInv, NEW c \in CPUs, NEW h \in Handlers, NEW v \in Inputs[h],
         Enter(c, h, v)
  PROVE  ExplainInv'
<1> DEFINE n == call'[c]
<1>1. /\ call \in [CPUs -> Activations] /\ seen \in [CPUs -> Views]
      /\ v \in Nat /\ h \in Gated \cup Curves \cup {"thermal"}
  BY InputsAssumption, HandlersAssumption DEF TypeInv, TypeOK, Views
<1>2. /\ n = [IdleCall EXCEPT !.pc = EntryPoint(h), !.handler = h, !.old = v,
                              !.value = v, !.reg = v]
      /\ seen'[c] = Now
      /\ \A d \in CPUs \ {c} : call'[d] = call[d] /\ seen'[d] = seen[d]
      /\ UNCHANGED <<param, raw_fg_temperature>>
  BY <1>1 DEF Enter
<1>3. /\ h \in Gated => EntryPoint(h) = "gate"
      /\ h \notin Gated => EntryPoint(h) \in {"boost", "thermal"}
  BY <1>1 DEF EntryPoint, Gated, Curves
<1>4. /\ n.pc = EntryPoint(h) /\ n.handler = h /\ n.old = v /\ n.value = v /\ n.reg = v
  BY <1>2 DEF IdleCall
<1> HIDE DEF n
<1>5. Current(Now)
  BY DEF Current, Now
<1>6. Answered(v, n, Now)
  BY <1>4 DEF Answered, Promise!Answers
<1>7. h \notin Gated => Curved(n, Now)
  BY <1>3, <1>4, <1>6 DEF Curved
<1>8. h \in Gated => Stepped(n, Now)
  BY <1>3, <1>4, <1>6 DEF Stepped
<1>9. Explained(call[c], seen[c])'
  <2>1. Explained(n, Now) /\ call'[c] = n
    BY <1>4, <1>5, <1>7, <1>8 DEF Explained, n
  <2> QED BY <1>2, <2>1, ExplainedNext
<1>10. ASSUME NEW d \in CPUs \ {c}, Active(d)' PROVE Explained(call[d], seen[d])'
  <2>1. Active(d) /\ Explained(call[d], seen[d])
    BY <1>2, <1>10 DEF Active, At, ExplainInv
  <2> QED BY <1>2, <2>1, ExplainedNext
<1> QED BY <1>9, <1>10 DEF ExplainInv

LEMMA EnvironmentExplains ==
  ASSUME TypeInv, TypeInv', ExplainInv,
         \/ \E t \in Temperatures : PublishTemperature(t)
         \/ \E p \in DOMAIN param, on \in BOOLEAN : SetParam(p, on)
  PROVE  ExplainInv'
<1>0. /\ seen \in [CPUs -> Views] /\ seen' \in [CPUs -> Views]
      /\ param \in [boost: BOOLEAN, pps: BOOLEAN, thermal: BOOLEAN]
  BY DEF TypeInv, TypeOK, Views
<1>1. ASSUME NEW t \in Temperatures, PublishTemperature(t) PROVE ExplainInv'
  <2> SUFFICES ASSUME NEW c \in CPUs, Active(c)' PROVE Explained(call[c], seen[c])'
    BY DEF ExplainInv
  <2>1. Active(c) /\ call' = call /\ param' = param /\ raw_fg_temperature' = t
    BY <1>1 DEF PublishTemperature, Active, At
  <2>2. Explained(call[c], seen[c])
    BY <2>1 DEF ExplainInv
  <2>3. seen'[c] = [seen[c] EXCEPT !.temps = @ \cup {t}]
    BY <1>0, <1>1, <2>1 DEF PublishTemperature, Observe, Active
  <2>4. /\ seen'[c].temps = seen[c].temps \cup {t} /\ seen'[c].boost = seen[c].boost
        /\ seen'[c].pps = seen[c].pps /\ seen'[c].thermal = seen[c].thermal
    BY <1>0, <2>3 DEF Views
  <2>5. /\ Curved(call[c], seen[c]) => Curved(call[c], seen'[c])
        /\ Stepped(call[c], seen[c]) => Stepped(call[c], seen'[c])
    BY <1>0, <2>4, ExplainedLater
  <2>6. Current(seen[c])'
    BY <2>1, <2>2, <2>4 DEF Explained, Current
  <2>7. Curved(call[c], seen'[c]) => Curved(call[c], seen[c])'
    BY <2>1 DEF Curved
  <2>8. /\ Raises(call[c])' <=> Raises(call[c])
        /\ Crossed(seen[c])' <=> Crossed(seen'[c])
    BY <2>1 DEF Raises, Crossed
  <2>9. Stepped(call[c], seen'[c]) => Stepped(call[c], seen[c])'
    BY <2>1, <2>8 DEF Stepped
  <2> QED BY <2>1, <2>2, <2>5, <2>6, <2>7, <2>9 DEF Explained
<1>2. ASSUME NEW p \in DOMAIN param, NEW on \in BOOLEAN, SetParam(p, on) PROVE ExplainInv'
  <2> SUFFICES ASSUME NEW c \in CPUs, Active(c)' PROVE Explained(call[c], seen[c])'
    BY DEF ExplainInv
  <2>0. p \in {"boost", "pps", "thermal"}
    BY <1>0
  <2>1. /\ Active(c) /\ call' = call /\ raw_fg_temperature' = raw_fg_temperature
        /\ param' = [param EXCEPT ![p] = on] /\ SysfsWrites
    BY <1>2 DEF SetParam, Active, At
  <2>2. Explained(call[c], seen[c])
    BY <2>1 DEF ExplainInv
  <2>3. seen'[c] = [seen[c] EXCEPT ![p] = @ \cup {on}]
    BY <1>0, <1>2, <2>1 DEF SetParam, Observe, Active
  <2>4. /\ seen[c].temps \subseteq seen'[c].temps /\ seen[c].boost \subseteq seen'[c].boost
        /\ seen[c].pps \subseteq seen'[c].pps /\ seen[c].thermal \subseteq seen'[c].thermal
        /\ on \in seen'[c][p]
    BY <1>0, <2>0, <2>3 DEF Views
  <2>5. Curved(call[c], seen[c]) => Curved(call[c], seen'[c])
    BY <1>0, <2>4, ExplainedLater
  <2>6. Current(seen[c])'
    <3>1. \A q \in {"boost", "pps", "thermal"} : param'[q] = IF q = p THEN on ELSE param[q]
      BY <1>0, <2>0, <2>1
    <3>2. \A q \in {"boost", "pps", "thermal"} : param'[q] \in seen'[c][q]
      BY <2>2, <2>4, <3>1 DEF Explained, Current
    <3> QED BY <2>1, <2>2, <2>4, <3>2 DEF Explained, Current
  <2> QED BY <2>1, <2>2, <2>5, <2>6 DEF Explained, Curved
<1> QED BY <1>1, <1>2

LEMMA StepExplains == TypeInv /\ ExplainInv /\ [Next]_vars => ExplainInv'
<1> SUFFICES ASSUME TypeInv, ExplainInv, [Next]_vars PROVE ExplainInv'
  OBVIOUS
<1>1. TypeInv'
  BY StepType
<1>2. CASE UNCHANGED vars
  BY <1>2, ExplainedNext DEF vars, ExplainInv, Active, At
<1>3. ASSUME NEW c \in CPUs, Return(c) PROVE ExplainInv'
  <2>1. /\ call'[c] = IdleCall
        /\ \A d \in CPUs \ {c} : call'[d] = call[d] /\ seen'[d] = seen[d]
        /\ UNCHANGED <<param, raw_fg_temperature>>
    BY <1>3 DEF Return, TypeInv, TypeOK
  <2> SUFFICES ASSUME NEW d \in CPUs, Active(d)' PROVE Explained(call[d], seen[d])'
    BY DEF ExplainInv
  <2>2. d # c
    BY <2>1 DEF Active, At, IdleCall
  <2>3. Active(d) /\ Explained(call[d], seen[d])
    BY <2>1, <2>2 DEF Active, At, ExplainInv
  <2> QED BY <2>1, <2>2, <2>3, ExplainedNext
<1> QED BY <1>1, <1>2, <1>3, HandleExplains, EnterExplains, EnvironmentExplains DEF Next

\* With the parameters as insmod set them, each of the seven handlers answers
\* for one temperature that was current during the call, except across 58 C.
THEOREM OneTemperature58 == ~SysfsWrites /\ Spec => []OneTemperatureUnlessCrossing58
<1> SUFFICES ASSUME ~SysfsWrites PROVE Spec => []OneTemperatureUnlessCrossing58
  OBVIOUS
<1>1. Init => TypeInv /\ ExplainInv
  BY InitType, InitExplain
<1>2. TypeInv /\ ExplainInv /\ [Next]_vars => (TypeInv /\ ExplainInv)'
  BY StepType, StepExplains
<1>3. ExplainInv => OneTemperatureUnlessCrossing58
  <2> SUFFICES ASSUME ExplainInv, NEW c \in CPUs, At(c, "done")
               PROVE  \/ call[c].reg \in Promise!Answers(call[c].handler, seen[c], call[c].old)
                      \/ /\ call[c].handler \in Gated /\ param.boost
                         /\ \E t, u \in seen[c].temps : t \in 550..579 /\ u >= 580
    BY DEF OneTemperatureUnlessCrossing58
  <2>1. Explained(call[c], seen[c])
    BY DEF ExplainInv, Active, At
  <2> QED BY <2>1 DEF Explained, Curved, Stepped, Answered, Crossed
<1> QED BY <1>1, <1>2, <1>3, PTL DEF Spec

-----------------------------------------------------------------------------
(* The gated half of RewritesAsPromised.  Root may write now, so the second *)
(* half of a gated handler knows nothing of what the first one read, except *)
(* that it has been seen.  The invariant says at each place which values of *)
(* the switches have been seen, and that the value is the argument or one a *)
(* first look can find.                                                     *)

Found(x, r, s) == x = r.old \/ x \in Promise!FirstLooks(r.handler, s, r.old)
Decided(x, r, s) == x \in Promise!TwoLookAnswers(r.handler, s, r.old)

\* The handler's own table did not have to be used.
Passed(r, s) == FALSE \in s.boost \/ ~Named(r.handler, r.old)

\* The gated handlers, whatever root writes.
Looked(r, s) ==
  /\ r.pc \notin {"gate", "done"} => \E t \in s.temps : TemperatureBand(t) # 2
  /\ r.pc \in {"gate", "boost", "pps"} => r.value = r.old
  /\ r.pc \in {"map", "apply"} => r.then \in {"boostAgain", "write"}
  /\ r.pc \in {"map", "apply"} /\ r.then = "boostAgain" =>
       r.value = r.old /\ TRUE \in s.pps
  /\ r.pc = "map" => r.table = "pps" /\ r.then = "boostAgain"
  /\ r.pc = "pps" \/ (r.pc \in {"map", "apply"} /\ r.then = "boostAgain") => Passed(r, s)
  /\ r.pc \in {"boostAgain", "ppsAgain"} \/ (r.pc = "apply" /\ r.then = "write") =>
       Found(r.value, r, s)
  /\ r.pc = "ppsAgain" => FALSE \in s.boost
  /\ r.pc = "apply" /\ r.then = "write" => TRUE \in s.boost \/ TRUE \in s.pps
  /\ r.pc = "write" => Decided(r.value, r, s)
  /\ Decided(r.reg, r, s)

LookInv == \A c \in CPUs : Active(c) /\ call[c].handler \in Gated => Looked(call[c], seen[c])

\* What the abstract looks are, in the terms of the handlers.
LEMMA LooksAre ==
  ASSUME NEW h \in Gated, NEW t, NEW b, NEW p, NEW v, NEW x
  PROVE  /\ Promise!FirstLook(h, t, b, p, v)
              = IF b /\ Named(h, v) THEN StepTable(h, v)
                ELSE IF p THEN MapCurrent("pps", t, v) ELSE v
         /\ Promise!SecondLook(t, b, p, x)
              = IF b \/ p THEN ApplyTemperatureCurrent(t, x) ELSE x
<1>1. Promise!VoterTable(h, v) = StepTable(h, v)
  BY SameTables DEF Promise!VoterTable, StepTable, Gated
<1>2. /\ Promise!MapCurrent("pps", t, v) = MapCurrent("pps", t, v)
      /\ Promise!ApplyTemperatureCurrent(t, x) = ApplyTemperatureCurrent(t, x)
  BY SameTables
<1> QED BY <1>1, <1>2 DEF Promise!FirstLook, Promise!SecondLook, Named

\* Every value a first look can find, it finds for values that were seen.
LEMMA FirstLookFinds ==
  ASSUME NEW h \in Gated, NEW s \in Views, NEW v, NEW t \in s.temps, NEW b \in s.boost,
         NEW p \in s.pps
  PROVE  /\ TRUE \in s.boost /\ Named(h, v) => StepTable(h, v) \in Promise!FirstLooks(h, s, v)
         /\ (FALSE \in s.boost \/ ~Named(h, v)) /\ TRUE \in s.pps =>
              MapCurrent("pps", t, v) \in Promise!FirstLooks(h, s, v)
<1>1. \A c \in s.boost, q \in s.pps :
        Promise!FirstLook(h, t, c, q, v) \in Promise!FirstLooks(h, s, v)
  BY DEF Promise!FirstLooks
<1> DEFINE Look(c, q) == IF c /\ Named(h, v) THEN StepTable(h, v)
                         ELSE IF q THEN MapCurrent("pps", t, v) ELSE v
<1>2. \A c, q : Promise!FirstLook(h, t, c, q, v) = Look(c, q)
  BY LooksAre
<1>3. ASSUME Named(h, v) PROVE StepTable(h, v) = Promise!FirstLook(h, t, TRUE, p, v)
  <2>1. Look(TRUE, p) = StepTable(h, v)
    BY <1>3
  <2> QED BY <1>2, <2>1
<1>4. ASSUME NEW c \in s.boost, ~(c /\ Named(h, v))
      PROVE  MapCurrent("pps", t, v) = Promise!FirstLook(h, t, c, TRUE, v)
  <2>1. Look(c, TRUE) = MapCurrent("pps", t, v)
    BY <1>4
  <2> QED BY <1>2, <2>1
<1>5. FALSE \in s.boost \/ ~Named(h, v) => \E c \in s.boost : ~(c /\ Named(h, v))
  BY DEF Views
<1> QED BY <1>1, <1>3, <1>4, <1>5

\* What a second look makes of it, past the gate, is an answer.
LEMMA SecondLookAnswers ==
  ASSUME NEW h \in Gated, NEW s \in Views, NEW v, NEW x \in Promise!FirstLooks(h, s, v),
         NEW t \in s.temps, NEW b \in s.boost, NEW p \in s.pps,
         NEW g \in s.temps, TemperatureBand(g) # 2
  PROVE  IF b \/ p THEN ApplyTemperatureCurrent(t, x) \in Promise!TwoLookAnswers(h, s, v)
                   ELSE x \in Promise!TwoLookAnswers(h, s, v)
<1> DEFINE y == Promise!SecondLook(t, b, p, x)
<1>1. y \in Promise!SecondLooks(s, x)
  BY DEF Promise!SecondLooks
<1>2. \E u \in s.temps : Promise!TemperatureBand(u) # 2
  BY SameTables
<1>3. y \in Promise!TwoLookAnswers(h, s, v)
  BY <1>1, <1>2 DEF Promise!TwoLookAnswers
<1>4. y = IF b \/ p THEN ApplyTemperatureCurrent(t, x) ELSE x
  BY LooksAre
<1> QED BY <1>3, <1>4

\* In the recovery band every key ends at the recovery current, whatever the
\* first look found.
LEMMA RecoveryAnswer ==
  ASSUME NEW h \in Gated, NEW s \in Views, NEW v \in RecoveryKeys, v \in Nat,
         NEW t \in s.temps, TemperatureBand(t) = 1, NEW b \in s.boost, NEW p \in s.pps,
         TRUE \in s.boost \/ TRUE \in s.pps
  PROVE  RecoveryCurrent \in Promise!TwoLookAnswers(h, s, v)
<1>1. PICK c \in s.boost, q \in s.pps : c \/ q
  OBVIOUS
<1> DEFINE x == Promise!FirstLook(h, t, c, q, v)
<1>2. x \in Promise!FirstLooks(h, s, v)
  BY DEF Promise!FirstLooks
<1>3. t \in Nat
  BY DEF Views
<1>4. MapCurrent("pps", t, v) = RecoveryCurrent
  BY <1>3, MapByBand
<1>5. StepTable(h, v) \in RecoveryKeys
  BY DEF StepTable, SingleTable, MultiTable, CurrMaxTable, RecoveryKeys, Gated
<1>6. x \in RecoveryKeys \cup {RecoveryCurrent}
  <2>1. x \in {StepTable(h, v), MapCurrent("pps", t, v), v}
    BY LooksAre
  <2> HIDE DEF x
  <2> QED BY <2>1, <1>4, <1>5
<1> HIDE DEF x
<1>7. ApplyTemperatureCurrent(t, x) = RecoveryCurrent
  BY <1>6 DEF ApplyTemperatureCurrent
<1> QED BY <1>1, <1>2, <1>7, SecondLookAnswers

\* Together: what either half of a handler does to a value that a first look
\* may have found.
LEMMA LimitedIsDecided ==
  ASSUME NEW r, r.handler \in Gated, r.old \in Nat, NEW s \in Views, NEW x, Found(x, r, s),
         NEW t \in s.temps, NEW b \in s.boost, NEW p \in s.pps,
         NEW g \in s.temps, TemperatureBand(g) # 2
  PROVE  /\ TRUE \in s.boost \/ TRUE \in s.pps =>
              Decided(ApplyTemperatureCurrent(t, x), r, s)
         /\ FALSE \in s.boost /\ FALSE \in s.pps => Decided(x, r, s)
<1> DEFINE h == r.handler
           v == r.old
           A == Promise!TwoLookAnswers(h, s, v)
<1>1. v \in A
  BY DEF Promise!TwoLookAnswers
<1>2. CASE x \in Promise!FirstLooks(h, s, v)
  <2>1. \A c \in s.boost, q \in s.pps :
          IF c \/ q THEN ApplyTemperatureCurrent(t, x) \in A ELSE x \in A
    BY <1>2, SecondLookAnswers
  <2> QED BY <2>1 DEF Decided
<1>3. CASE x = v
  <2>1. t \in Nat
    BY DEF Views
  <2>2. CASE TemperatureBand(t) = 1 /\ v \in RecoveryKeys
    <3>1. TRUE \in s.boost \/ TRUE \in s.pps => RecoveryCurrent \in A
      BY <2>2, RecoveryAnswer
    <3>2. ApplyTemperatureCurrent(t, v) = RecoveryCurrent
      BY <2>2 DEF ApplyTemperatureCurrent
    <3> QED BY <1>1, <1>3, <3>1, <3>2 DEF Decided
  <2>3. CASE ~(TemperatureBand(t) = 1 /\ v \in RecoveryKeys)
    <3>1. ApplyTemperatureCurrent(t, v) = v
      BY <2>3 DEF ApplyTemperatureCurrent
    <3> QED BY <1>1, <1>3, <3>1 DEF Decided
  <2> QED BY <2>2, <2>3
<1> QED BY <1>2, <1>3 DEF Found

\* A gated handler keeps it, the parameters being anything at each step.
LEMMA HandleLooked ==
  ASSUME TypeInv, NEW c \in CPUs, Handle(c), call[c].handler \in Gated,
         Current(seen[c]), Looked(call[c], seen[c])
  PROVE  Looked(call'[c], seen[c])
<1> DEFINE r == call[c]
           n == call'[c]
           s == seen[c]
           raw == raw_fg_temperature
           h == r.handler
           v == r.old
           b == param.boost
           p == param.pps
<1>1. /\ call \in [CPUs -> Activations]
      /\ r \in Activations /\ Shaped(r) /\ s \in Views
      /\ raw \in Nat /\ raw \in s.temps
      /\ v \in Nat /\ r.value \in Nat
      /\ r.pc # "idle" /\ h \in Gated
  BY HandlerIsActive DEF TypeInv, TypeOK, ShapeOK, Views, Current, Activations
<1>2. /\ b \in s.boost /\ b \in BOOLEAN
      /\ p \in s.pps /\ p \in BOOLEAN
  BY DEF Current, TypeInv, TypeOK
<1>3. n.handler = h /\ n.old = v
  BY HandleFrame DEF Frame
<1>4. /\ Decided(v, r, s) /\ Decided(r.reg, r, s)
      /\ r.pc \notin {"gate", "done"} => \E t \in s.temps : TemperatureBand(t) # 2
  BY DEF Decided, Looked, Promise!TwoLookAnswers
<1>5. /\ Passed(n, s) <=> Passed(r, s)
      /\ \A x : (Found(x, n, s) <=> Found(x, r, s)) /\ (Decided(x, n, s) <=> Decided(x, r, s))
  BY <1>3 DEF Passed, Found, Decided
<1> HIDE DEF n
<1>6. ASSUME Gate(c) PROVE Looked(n, s)
  <2>1. r.pc = "gate" /\ r.value = v
    BY <1>6 DEF Gate, At, Looked
  <2>2. CASE TemperatureBand(raw) = 2
    <3>1. n = [r EXCEPT !.pc = "done"]
      BY <1>1, <1>6, <2>2 DEF Gate, Goto, Continue, n
    <3>2. n.pc = "done" /\ n.reg = r.reg
      BY <1>1, <3>1 DEF Activations
    <3> QED BY <1>4, <1>5, <3>2 DEF Looked
  <2>3. CASE TemperatureBand(raw) # 2
    <3>1. n = [r EXCEPT !.pc = "boost"]
      BY <1>1, <1>6, <2>3 DEF Gate, Goto, Continue, n
    <3>2. n.pc = "boost" /\ n.reg = r.reg /\ n.value = v
      BY <1>1, <2>1, <3>1 DEF Activations
    <3>3. \E t \in s.temps : TemperatureBand(t) # 2
      BY <1>1, <2>3
    <3> QED BY <1>3, <1>4, <1>5, <3>2, <3>3 DEF Looked
  <2> QED BY <2>2, <2>3
<1>7. ASSUME ReadBoostStep(c) PROVE Looked(n, s)
  <2>1. r.pc = "boost" /\ r.value = v
    BY <1>7 DEF ReadBoostStep, At, Looked
  <2>2. (b /\ Named(h, v)) <=> param.boost /\ (h = "max" => r.value = 17500)
    BY <2>1 DEF Named
  <2>3. CASE b /\ Named(h, v)
    <3> DEFINE x == StepTable(h, v)
    <3>1. n = [r EXCEPT !.pc = "boostAgain", !.value = x]
      BY <1>1, <1>7, <2>1, <2>2, <2>3 DEF ReadBoostStep, Continue, n
    <3>2. TRUE \in s.boost
      BY <1>2, <2>3
    <3>3. x \in Promise!FirstLooks(h, s, v)
      BY <1>1, <1>2, <2>3, <3>2, FirstLookFinds
    <3> HIDE DEF x
    <3>4. n.pc = "boostAgain" /\ n.reg = r.reg /\ n.value = x
      BY <1>1, <3>1 DEF Activations
    <3>5. Found(n.value, n, s)
      BY <1>3, <3>3, <3>4 DEF Found
    <3> QED BY <1>4, <1>5, <2>1, <3>4, <3>5 DEF Looked
  <2>4. CASE ~(b /\ Named(h, v))
    <3>1. n = [r EXCEPT !.pc = "pps"]
      BY <1>1, <1>7, <2>2, <2>4 DEF ReadBoostStep, Goto, Continue, n
    <3>2. n.pc = "pps" /\ n.reg = r.reg /\ n.value = v
      BY <1>1, <2>1, <3>1 DEF Activations
    <3>3. Passed(r, s)
      BY <1>2, <2>4 DEF Passed
    <3> QED BY <1>3, <1>4, <1>5, <2>1, <3>2, <3>3 DEF Looked
  <2> QED BY <2>3, <2>4
<1>8. ASSUME MapCurrentRead(c) PROVE Looked(n, s)
  <2>1. /\ r.pc = "map" /\ r.table = "pps" /\ r.then = "boostAgain"
        /\ r.value = v /\ TRUE \in s.pps /\ Passed(r, s)
    BY <1>8 DEF MapCurrentRead, At, Looked
  <2>2. CASE TemperatureBand(raw) = 2
    <3>1. n = [r EXCEPT !.pc = r.then]
      BY <1>1, <1>8, <2>2 DEF MapCurrentRead, Goto, Continue, n
    <3>2. n.pc = "boostAgain" /\ n.reg = r.reg /\ n.value = v
      BY <1>1, <2>1, <3>1 DEF Activations
    <3>3. Found(n.value, n, s)
      BY <1>3, <3>2 DEF Found
    <3> QED BY <1>4, <1>5, <2>1, <3>2, <3>3 DEF Looked
  <2>3. CASE TemperatureBand(raw) = 1
    <3>1. n = [r EXCEPT !.pc = "apply"]
      BY <1>1, <1>8, <2>3 DEF MapCurrentRead, Goto, Continue, n
    <3>2. n.pc = "apply" /\ n.then = "boostAgain" /\ n.reg = r.reg /\ n.value = v
      BY <1>1, <2>1, <3>1 DEF Activations
    <3> QED BY <1>3, <1>4, <1>5, <2>1, <3>2 DEF Looked
  <2>4. CASE TemperatureBand(raw) \notin {1, 2}
    <3> DEFINE x == CurrentTable("pps", v)
    <3>1. n = [r EXCEPT !.pc = r.then, !.value = x]
      BY <1>1, <1>8, <2>1, <2>4 DEF MapCurrentRead, Continue, n
    <3>2. x = MapCurrent("pps", raw, v)
      BY <1>1, <2>4, MapByBand
    <3>3. MapCurrent("pps", raw, v) \in Promise!FirstLooks(h, s, v)
      BY <1>1, <1>2, <2>1, FirstLookFinds DEF Passed
    <3> HIDE DEF x
    <3>4. n.pc = "boostAgain" /\ n.reg = r.reg /\ n.value = x
      BY <1>1, <2>1, <3>1 DEF Activations
    <3>5. Found(n.value, n, s)
      BY <1>3, <3>2, <3>3, <3>4 DEF Found
    <3> QED BY <1>4, <1>5, <2>1, <3>4, <3>5 DEF Looked
  <2> QED BY <2>2, <2>3, <2>4
<1>9. ASSUME Apply(c) PROVE Looked(n, s)
  <2> DEFINE x == ApplyTemperatureCurrent(raw, r.value)
  <2>1. /\ r.pc = "apply" /\ r.then \in {"boostAgain", "write"}
        /\ r.then = "boostAgain" => r.value = v /\ TRUE \in s.pps /\ Passed(r, s)
        /\ r.then = "write" => Found(r.value, r, s) /\ (TRUE \in s.boost \/ TRUE \in s.pps)
    BY <1>9 DEF Apply, At, Looked
  <2>2. n = [r EXCEPT !.pc = r.then, !.value = x]
    BY <1>1, <1>9 DEF Apply, Continue, n
  <2>3. r.then = "boostAgain" => x = v \/ x = MapCurrent("pps", raw, v)
    <3>1. CASE TemperatureBand(raw) = 1
      BY <1>1, <2>1, <3>1, MapByBand
    <3>2. CASE TemperatureBand(raw) # 1
      BY <1>1, <2>1, <3>2, MapByBand
    <3> QED BY <3>1, <3>2
  <2>4. r.then = "boostAgain" => Found(x, r, s)
    <3>1. r.then = "boostAgain" => MapCurrent("pps", raw, v) \in Promise!FirstLooks(h, s, v)
      BY <1>1, <1>2, <2>1, FirstLookFinds DEF Passed
    <3> QED BY <2>3, <3>1 DEF Found
  <2>5. r.then = "write" => Decided(x, r, s)
    <3>1. PICK g \in s.temps : TemperatureBand(g) # 2
      BY <1>4, <2>1
    <3> QED BY <1>1, <1>2, <2>1, <3>1, LimitedIsDecided
  <2> HIDE DEF x
  <2>6. n.pc = r.then /\ n.reg = r.reg /\ n.value = x
    BY <1>1, <2>2 DEF Activations
  <2> QED BY <1>4, <1>5, <2>1, <2>4, <2>5, <2>6 DEF Looked
<1>10. ASSUME ReadPps(c) PROVE Looked(n, s)
  <2>1. r.pc = "pps" /\ r.value = v /\ Passed(r, s) /\ h # "fast"
    BY <1>1, <1>10 DEF ReadPps, At, Looked, Gated
  <2>2. CASE p
    <3>1. n = [r EXCEPT !.pc = "map", !.table = "pps", !.then = "boostAgain"]
      BY <1>1, <1>10, <2>1, <2>2 DEF ReadPps, Continue, n
    <3>2. /\ n.pc = "map" /\ n.table = "pps" /\ n.then = "boostAgain"
          /\ n.reg = r.reg /\ n.value = v
      BY <1>1, <2>1, <3>1 DEF Activations
    <3>3. TRUE \in s.pps
      BY <1>2, <2>2
    <3> QED BY <1>3, <1>4, <1>5, <2>1, <3>2, <3>3 DEF Looked
  <2>3. CASE ~p
    <3>1. n = [r EXCEPT !.pc = "boostAgain"]
      BY <1>1, <1>10, <2>1, <2>3 DEF ReadPps, Goto, Continue, n
    <3>2. n.pc = "boostAgain" /\ n.reg = r.reg /\ n.value = v
      BY <1>1, <2>1, <3>1 DEF Activations
    <3>3. Found(n.value, n, s)
      BY <1>3, <3>2 DEF Found
    <3> QED BY <1>4, <1>5, <2>1, <3>2, <3>3 DEF Looked
  <2> QED BY <2>2, <2>3
<1>11. ASSUME ReadBoostAgain(c) PROVE Looked(n, s)
  <2> DEFINE l == IF b THEN "apply" ELSE "ppsAgain"
  <2>1. r.pc = "boostAgain" /\ Found(r.value, r, s)
    BY <1>11 DEF ReadBoostAgain, At, Looked
  <2>2. n = [r EXCEPT !.pc = l, !.then = "write"]
    BY <1>1, <1>11 DEF ReadBoostAgain, Continue, n
  <2>3. /\ l \in {"apply", "ppsAgain"}
        /\ l = "apply" => TRUE \in s.boost
        /\ l = "ppsAgain" => FALSE \in s.boost
    BY <1>2
  <2> HIDE DEF l
  <2>4. n.pc = l /\ n.then = "write" /\ n.reg = r.reg /\ n.value = r.value
    BY <1>1, <2>2 DEF Activations
  <2>5. Found(n.value, n, s)
    BY <1>5, <2>1, <2>4
  <2> QED BY <1>4, <1>5, <2>1, <2>3, <2>4, <2>5 DEF Looked
<1>12. ASSUME ReadPpsAgain(c) PROVE Looked(n, s)
  <2> DEFINE l == IF p THEN "apply" ELSE "write"
  <2>1. r.pc = "ppsAgain" /\ Found(r.value, r, s) /\ FALSE \in s.boost /\ r.then = "write"
    BY <1>1, <1>12 DEF ReadPpsAgain, At, Looked, Shaped
  <2>2. n = [r EXCEPT !.pc = l]
    BY <1>1, <1>12 DEF ReadPpsAgain, Goto, Continue, n
  <2>3. /\ l \in {"apply", "write"}
        /\ l = "apply" => TRUE \in s.pps
        /\ l = "write" => FALSE \in s.pps
    BY <1>2
  <2>4. FALSE \in s.pps => Decided(r.value, r, s)
    <3>1. PICK g \in s.temps : TemperatureBand(g) # 2
      BY <1>4, <2>1
    <3> QED BY <1>1, <1>2, <2>1, <3>1, LimitedIsDecided
  <2> HIDE DEF l
  <2>5. n.pc = l /\ n.then = "write" /\ n.reg = r.reg /\ n.value = r.value
    BY <1>1, <2>1, <2>2 DEF Activations
  <2>6. Found(n.value, n, s)
    BY <1>5, <2>1, <2>5
  <2> QED BY <1>4, <1>5, <2>1, <2>3, <2>4, <2>5, <2>6 DEF Looked
<1>13. ASSUME Write(c) PROVE Looked(n, s)
  <2>1. r.pc = "write" /\ Decided(r.value, r, s)
    BY <1>13 DEF Write, At, Looked
  <2>2. CASE r.value = v
    <3>1. n = [r EXCEPT !.pc = "done"]
      BY <1>1, <1>13, <2>2 DEF Write, Continue, n
    <3>2. n.pc = "done" /\ n.reg = r.reg
      BY <1>1, <3>1 DEF Activations
    <3> QED BY <1>4, <1>5, <3>2 DEF Looked
  <2>3. CASE r.value # v
    <3>1. n = [r EXCEPT !.reg = r.value, !.pc = "attribute", !.counter = h]
      BY <1>1, <1>13, <2>3 DEF Write, Continue, n, Gated
    <3>2. n.pc = "attribute" /\ n.reg = r.value
      BY <1>1, <3>1 DEF Activations
    <3> QED BY <1>4, <1>5, <2>1, <3>2 DEF Looked
  <2> QED BY <2>2, <2>3
<1>14. ASSUME AttributeStep(c) PROVE Looked(n, s)
  <2> DEFINE k == IF b THEN "curve" ELSE "pps"
  <2>1. n = [r EXCEPT !.pc = "load", !.counter = k]
    BY <1>1, <1>14 DEF AttributeStep, Continue, n
  <2> HIDE DEF k
  <2>2. n.pc = "load" /\ n.reg = r.reg /\ r.pc = "attribute"
    BY <1>1, <1>14, <2>1 DEF AttributeStep, At, Activations
  <2> QED BY <1>4, <1>5, <2>2 DEF Looked
<1>15. ASSUME Load(c) PROVE Looked(n, s)
  <2>1. n = [r EXCEPT !.pc = "store", !.counter = CounterOf(r), !.loaded = hits[CounterOf(r)]]
    BY <1>1, <1>15 DEF Load, Continue, n
  <2>2. n.pc = "store" /\ n.reg = r.reg /\ r.pc = "load"
    BY <1>1, <1>15, <2>1 DEF Load, At, Activations
  <2> QED BY <1>4, <1>5, <2>2 DEF Looked
<1>16. ASSUME Store(c) PROVE Looked(n, s)
  <2>1. n = [r EXCEPT !.pc = "done"]
    BY <1>1, <1>16 DEF Store, StoreValue, n
  <2>2. n.pc = "done" /\ n.reg = r.reg
    BY <1>1, <2>1 DEF Activations
  <2> QED BY <1>4, <1>5, <2>2 DEF Looked
<1>17. ~(ReadBoostCurve(c) \/ ReadThermal(c) \/ MapReadOnce(c) \/ AttributePps(c))
  BY <1>1 DEF ReadBoostCurve, ReadThermal, MapReadOnce, AttributePps, At, Shaped, Gated, Curves
<1> QED BY <1>6, <1>7, <1>8, <1>9, <1>10, <1>11, <1>12, <1>13, <1>14, <1>15, <1>16, <1>17
     DEF Handle, n

\* What has been seen is not forgotten before the call returns.
LEMMA LookedLater ==
  ASSUME NEW r, NEW s \in Views, NEW z \in Views, s.temps \subseteq z.temps,
         s.boost \subseteq z.boost, s.pps \subseteq z.pps, Looked(r, s)
  PROVE  Looked(r, z)
<1> DEFINE h == r.handler
           v == r.old
<1>1. Promise!FirstLooks(h, s, v) \subseteq Promise!FirstLooks(h, z, v)
  BY DEF Promise!FirstLooks
<1>2. \A x : Promise!SecondLooks(s, x) \subseteq Promise!SecondLooks(z, x)
  BY DEF Promise!SecondLooks
<1>3. Promise!TwoLookAnswers(h, s, v) \subseteq Promise!TwoLookAnswers(h, z, v)
  BY <1>1, <1>2 DEF Promise!TwoLookAnswers
<1>4. /\ \A x : Found(x, r, s) => Found(x, r, z)
      /\ \A x : Decided(x, r, s) => Decided(x, r, z)
  BY <1>1, <1>3 DEF Found, Decided
<1>5. Passed(r, s) => Passed(r, z)
  BY DEF Passed
<1>6. /\ (\E t \in s.temps : TemperatureBand(t) # 2) => \E t \in z.temps : TemperatureBand(t) # 2
      /\ \A on \in BOOLEAN : (on \in s.boost => on \in z.boost) /\ (on \in s.pps => on \in z.pps)
  OBVIOUS
<1> QED BY <1>4, <1>5, <1>6 DEF Looked

LEMMA StepLooks ==
  TypeInv /\ ExplainInv /\ LookInv /\ [Next]_vars => LookInv'
<1> SUFFICES ASSUME TypeInv, ExplainInv, LookInv, [Next]_vars PROVE LookInv'
  OBVIOUS
<1>0. /\ call \in [CPUs -> Activations] /\ seen \in [CPUs -> Views]
      /\ param \in [boost: BOOLEAN, pps: BOOLEAN, thermal: BOOLEAN]
      /\ seen' \in [CPUs -> Views]
  BY StepType DEF TypeInv, TypeOK, Views
\* An activation that a step leaves alone, or only shows more.
<1>1. ASSUME NEW d \in CPUs, Active(d)', call'[d].handler \in Gated, call'[d] = call[d],
             seen[d].temps \subseteq seen'[d].temps, seen[d].boost \subseteq seen'[d].boost,
             seen[d].pps \subseteq seen'[d].pps
      PROVE  Looked(call'[d], seen'[d])
  <2>1. Looked(call[d], seen[d])
    BY <1>1 DEF LookInv, Active, At
  <2>2. seen[d] \in Views /\ seen'[d] \in Views
    BY <1>0
  <2> QED BY <1>1, <2>1, <2>2, LookedLater
<1>2. ASSUME NEW c \in CPUs, Handle(c) PROVE LookInv'
  <2>1. /\ \A d \in CPUs \ {c} : call'[d] = call[d]
        /\ call'[c].handler = call[c].handler /\ seen' = seen
    BY <1>2, HandleFrame DEF Frame
  <2>2. Active(c) /\ Current(seen[c])
    BY <1>2, HandlerIsActive DEF ExplainInv, Explained, Active, At
  <2>3. call[c].handler \in Gated => Looked(call'[c], seen[c])
    BY <1>2, <2>2, HandleLooked DEF LookInv
  <2> QED BY <1>1, <2>1, <2>3 DEF LookInv
<1>3. ASSUME NEW c \in CPUs, Return(c) PROVE LookInv'
  <2>1. /\ call'[c] = IdleCall
        /\ \A d \in CPUs \ {c} : call'[d] = call[d] /\ seen'[d] = seen[d]
    BY <1>0, <1>3 DEF Return
  <2> QED BY <1>1, <2>1 DEF LookInv, IdleCall, Gated
<1>4. ASSUME NEW c \in CPUs, NEW h \in Handlers, NEW v \in Inputs[h], Enter(c, h, v)
      PROVE  LookInv'
  <2> DEFINE n == call'[c]
  <2>1. /\ n = [IdleCall EXCEPT !.pc = EntryPoint(h), !.handler = h, !.old = v,
                                !.value = v, !.reg = v]
        /\ \A d \in CPUs \ {c} : call'[d] = call[d] /\ seen'[d] = seen[d]
    BY <1>0, <1>4 DEF Enter
  <2>2. n.pc = EntryPoint(h) /\ n.handler = h /\ n.old = v /\ n.value = v /\ n.reg = v
    BY <2>1 DEF IdleCall
  <2>3. h \in Gated => EntryPoint(h) = "gate"
    BY DEF EntryPoint, Gated, Curves
  <2> HIDE DEF n
  <2>4. h \in Gated => Looked(n, seen'[c])
    BY <2>2, <2>3 DEF Looked, Decided, Promise!TwoLookAnswers
  <2> QED BY <1>1, <2>1, <2>2, <2>4 DEF LookInv, n
<1>5. ASSUME NEW t \in Temperatures, PublishTemperature(t) PROVE LookInv'
  <2>1. call' = call
    BY <1>5 DEF PublishTemperature
  <2>2. ASSUME NEW d \in CPUs, Active(d)'
        PROVE  /\ seen'[d].temps = seen[d].temps \cup {t}
               /\ seen'[d].boost = seen[d].boost /\ seen'[d].pps = seen[d].pps
    <3>1. seen'[d] = [seen[d] EXCEPT !.temps = @ \cup {t}]
      BY <1>5, <2>1, <2>2 DEF PublishTemperature, Observe, Active, At
    <3> QED BY <1>0, <3>1 DEF Views
  <2> QED BY <1>1, <2>1, <2>2 DEF LookInv
<1>6. ASSUME NEW q \in DOMAIN param, NEW on \in BOOLEAN, SetParam(q, on) PROVE LookInv'
  <2>0. q \in {"boost", "pps", "thermal"}
    BY <1>0
  <2>1. call' = call
    BY <1>6 DEF SetParam
  <2>2. ASSUME NEW d \in CPUs, Active(d)'
        PROVE  /\ seen[d].temps \subseteq seen'[d].temps
               /\ seen[d].boost \subseteq seen'[d].boost /\ seen[d].pps \subseteq seen'[d].pps
    <3>1. seen'[d] = [seen[d] EXCEPT ![q] = @ \cup {on}]
      BY <1>6, <2>1, <2>2 DEF SetParam, Observe, Active, At
    <3>2. seen[d] \in Views
      BY <1>0
    <3> HIDE DEF Views
    <3>3. CASE q = "boost"
      BY <3>1, <3>2, <3>3 DEF Views
    <3>4. CASE q = "pps"
      BY <3>1, <3>2, <3>4 DEF Views
    <3>5. CASE q = "thermal"
      BY <3>1, <3>2, <3>5 DEF Views
    <3> QED BY <2>0, <3>3, <3>4, <3>5
  <2> QED BY <1>1, <2>1, <2>2 DEF LookInv
<1>7. CASE UNCHANGED vars
  BY <1>1, <1>7 DEF vars, LookInv
<1> QED BY <1>2, <1>3, <1>4, <1>5, <1>6, <1>7 DEF Next

-----------------------------------------------------------------------------
(* PpsHitsNeedPps.  While root leaves the parameters alone, a rewrite on    *)
(* its way to pps_hits happened with pps on: a gated handler that changed   *)
(* the value had one of the two switches on, and the fast-curve handler     *)
(* consults the PPS map for the attribution only with pps on.               *)

Attributed(r) ==
  /\ r.pc = "write" /\ r.handler \in Gated => r.value = r.old \/ param.boost \/ param.pps
  /\ r.pc = "attribute" => param.boost \/ param.pps
  /\ r.pc \in {"map", "apply"} /\ r.then = "load" => param.pps
  /\ r.pc = "load" /\ CounterOf(r) = "pps" => param.pps
  /\ r.pc = "store" /\ r.counter = "pps" => param.pps

AttributeInv == \A c \in CPUs : Attributed(call[c])

LEMMA HandleAttributes ==
  ASSUME TypeInv, NEW c \in CPUs, Handle(c), Attributed(call[c]),
         call[c].handler \in Gated => Stepped(call[c], seen[c])
  PROVE  Attributed(call'[c])
<1> DEFINE r == call[c]
           n == call'[c]
           h == r.handler
           b == param.boost
           p == param.pps
           Counted(x) == CounterOf(x) = "pps" => p
           Kept == /\ n.pc = "write" /\ h \in Gated => n.value = r.old \/ b \/ p
                   /\ n.pc = "attribute" => b \/ p
                   /\ n.pc \in {"map", "apply"} /\ n.then = "load" => p
                   /\ n.pc = "load" => Counted(n)
                   /\ n.pc = "store" /\ n.counter = "pps" => p
<1>1. /\ call \in [CPUs -> Activations] /\ r \in Activations /\ Shaped(r)
      /\ h \in Handlers /\ h \in Gated \cup Curves \cup {"thermal"}
  BY HandlerIsActive, HandlersAssumption DEF TypeInv, TypeOK, ShapeOK
<1>2. n.handler = h /\ n.old = r.old
  BY HandleFrame DEF Frame
<1>3. Kept => Attributed(n)
  BY <1>2 DEF Attributed
<1> HIDE DEF n
<1>4. ASSUME Gate(c) PROVE Kept
  <2>1. n.pc \in {"done", "boost"}
    BY <1>1, <1>4 DEF Gate, Goto, Continue, n, Activations
  <2> QED BY <2>1
<1>5. ASSUME ReadBoostCurve(c) PROVE Kept
  <2>1. CASE b
    <3>1. n = [r EXCEPT !.pc = "map", !.table = h, !.then = IF h = "fast" THEN "pps" ELSE "write"]
      BY <1>1, <1>5, <2>1 DEF ReadBoostCurve, Continue, n
    <3>2. n.pc = "map" /\ n.then \in {"pps", "write"}
      BY <1>1, <3>1 DEF Activations
    <3> QED BY <3>2
  <2>2. CASE ~b
    <3>1. n.pc \in {"pps", "done"}
      BY <1>1, <1>5, <2>2 DEF ReadBoostCurve, Goto, Continue, n, Activations
    <3> QED BY <3>1
  <2> QED BY <2>1, <2>2
<1>6. ASSUME ReadBoostStep(c) PROVE Kept
  <2>1. \/ n = [r EXCEPT !.pc = "boostAgain", !.value = StepTable(h, r.value)]
        \/ n = [r EXCEPT !.pc = "pps"]
    BY <1>1, <1>6 DEF ReadBoostStep, Goto, Continue, n
  <2>2. n.pc \in {"boostAgain", "pps"}
    BY <1>1, <2>1 DEF Activations
  <2> QED BY <2>2
<1>7. ASSUME ReadThermal(c) PROVE Kept
  <2>1. CASE param.thermal
    <3>1. n = [r EXCEPT !.pc = "map", !.table = "thermal", !.then = "write"]
      BY <1>1, <1>7, <2>1 DEF ReadThermal, Continue, n
    <3>2. n.pc = "map" /\ n.then = "write"
      BY <1>1, <3>1 DEF Activations
    <3> QED BY <3>2
  <2>2. CASE ~param.thermal
    <3>1. n.pc = "done"
      BY <1>1, <1>7, <2>2 DEF ReadThermal, Goto, Continue, n, Activations
    <3> QED BY <3>1
  <2> QED BY <2>1, <2>2
<1>8. ASSUME MapReadOnce(c) PROVE Kept
  <2> DEFINE x == SingleReadMap(r.table, raw_fg_temperature, r.value)
  <2>1. r.then \notin {"none", "load"} /\ h \notin Gated
    BY <1>1, <1>8 DEF MapReadOnce, At, Shaped, Gated
  <2>2. n = [r EXCEPT !.pc = r.then, !.value = x]
    BY <1>1, <1>8 DEF MapReadOnce, Continue, n
  <2> HIDE DEF x
  <2>3. n.pc = r.then /\ r.then \in {"pps", "write", "boostAgain"}
    BY <1>1, <2>1, <2>2 DEF Activations
  <2> QED BY <2>1, <2>3
<1>9. ASSUME MapCurrentRead(c) PROVE Kept
  <2> DEFINE x == CurrentTable(r.table, r.value)
  <2>1. /\ r.then = "load" => p
        /\ h \in Gated => r.then = "boostAgain"
        /\ r.then \in {"pps", "write", "boostAgain", "load"}
    BY <1>1, <1>9 DEF MapCurrentRead, At, Shaped, Attributed, Stepped, Activations
  <2>2. \/ n = [r EXCEPT !.pc = r.then]
        \/ n = [r EXCEPT !.pc = "apply"]
        \/ n = [r EXCEPT !.pc = r.then, !.value = x]
    BY <1>1, <1>9 DEF MapCurrentRead, Goto, Continue, n
  <2> HIDE DEF x
  <2>3. n.pc \in {r.then, "apply"} /\ n.then = r.then
    BY <1>1, <2>2 DEF Activations
  <2> QED BY <2>1, <2>3
<1>10. ASSUME Apply(c) PROVE Kept
  <2> DEFINE x == ApplyTemperatureCurrent(raw_fg_temperature, r.value)
  <2>1. /\ r.then = "load" => p
        /\ h \in Gated /\ r.then = "write" => b \/ p
        /\ r.then \in {"pps", "write", "boostAgain", "load"}
    BY <1>1, <1>10 DEF Apply, At, Shaped, Attributed, Stepped, Activations
  <2>2. n = [r EXCEPT !.pc = r.then, !.value = x]
    BY <1>1, <1>10 DEF Apply, Continue, n
  <2> HIDE DEF x
  <2>3. n.pc = r.then
    BY <1>1, <2>2 DEF Activations
  <2> QED BY <2>1, <2>3
<1>11. ASSUME ReadPps(c) PROVE Kept
  <2> DEFINE l == IF h = "fast" THEN "write" ELSE "boostAgain"
  <2>1. \/ n = [r EXCEPT !.pc = "map", !.table = "pps", !.then = l]
        \/ n = [r EXCEPT !.pc = l]
    BY <1>1, <1>11 DEF ReadPps, Goto, Continue, n
  <2>2. l \in {"write", "boostAgain"} /\ (l = "write" => h \notin Gated)
    BY DEF Gated
  <2> HIDE DEF l
  <2>3. (n.pc = "map" /\ n.then = l) \/ n.pc = l
    BY <1>1, <2>1 DEF Activations
  <2> QED BY <2>2, <2>3
<1>12. ASSUME ReadBoostAgain(c) PROVE Kept
  <2>1. n.pc \in {"apply", "ppsAgain"} /\ n.then = "write"
    BY <1>1, <1>12 DEF ReadBoostAgain, Continue, n, Activations
  <2> QED BY <2>1
<1>13. ASSUME ReadPpsAgain(c) PROVE Kept
  <2>1. r.pc = "ppsAgain" /\ r.then = "write" /\ h \in Gated /\ ~b
    BY <1>1, <1>13 DEF ReadPpsAgain, At, Shaped, Stepped
  <2>2. r.value # r.old => p
    <3>1. ~Raises(r)
      BY <2>1 DEF Raises
    <3> QED BY <2>1, <3>1 DEF Stepped
  <2>3. n \in {[r EXCEPT !.pc = "apply"], [r EXCEPT !.pc = "write"]}
    BY <1>1, <1>13 DEF ReadPpsAgain, Goto, Continue, n
  <2>4. n.pc \in {"apply", "write"} /\ n.then = "write" /\ n.value = r.value
    BY <1>1, <2>1, <2>3 DEF Activations
  <2> QED BY <2>2, <2>4
<1>14. ASSUME Write(c) PROVE Kept
  <2>1. CASE r.value = r.old
    <3>1. n.pc = "done"
      BY <1>1, <1>14, <2>1 DEF Write, Continue, n, Activations
    <3> QED BY <3>1
  <2>2. CASE r.value # r.old
    <3> DEFINE l == CASE h \in Gated  -> "attribute"
                      [] h = "fast"   -> "attributePps"
                      [] OTHER        -> "load"
    <3>1. n = [r EXCEPT !.reg = r.value, !.pc = l, !.counter = h]
      BY <1>1, <1>14, <2>2 DEF Write, Continue, n
    <3>2. \/ l = "attribute" /\ h \in Gated
          \/ l = "attributePps"
          \/ l = "load" /\ h \in {"ichg", "cv", "thermal"}
      BY <1>1 DEF Gated, Curves
    <3> HIDE DEF l
    <3>3. n.pc = l /\ n.counter = h
      BY <1>1, <3>1 DEF Activations
    <3>4. h \in Gated => b \/ p
      BY <1>14, <2>2 DEF Write, At, Attributed
    <3> QED BY <1>2, <3>2, <3>3, <3>4 DEF CounterOf
  <2> QED BY <2>1, <2>2
<1>15. ASSUME AttributeStep(c) PROVE Kept
  <2> DEFINE k == IF b THEN "curve" ELSE "pps"
  <2>1. n = [r EXCEPT !.pc = "load", !.counter = k]
    BY <1>1, <1>15 DEF AttributeStep, Continue, n
  <2>2. k = "pps" => p
    BY <1>15 DEF AttributeStep, At, Attributed
  <2> HIDE DEF k
  <2>3. n.pc = "load" /\ n.counter = k /\ h # "fast"
    BY <1>1, <1>15, <2>1 DEF AttributeStep, At, Activations, Shaped, Gated
  <2> QED BY <1>2, <2>2, <2>3 DEF CounterOf
<1>16. ASSUME AttributePps(c) PROVE Kept
  <2>1. CASE p
    <3>1. n = [r EXCEPT !.pc = "map", !.value = r.old, !.table = "pps", !.then = "load"]
      BY <1>1, <1>16, <2>1 DEF AttributePps, Continue, n
    <3>2. n.pc = "map"
      BY <1>1, <3>1 DEF Activations
    <3> QED BY <2>1, <3>2
  <2>2. CASE ~p
    <3>1. n = [r EXCEPT !.pc = "load", !.value = r.old]
      BY <1>1, <1>16, <2>2 DEF AttributePps, Continue, n
    <3>2. n.pc = "load" /\ n.value = n.old /\ n.handler = "fast"
      BY <1>1, <1>16, <3>1 DEF AttributePps, At, Activations, Shaped
    <3> QED BY <3>2 DEF CounterOf
  <2> QED BY <2>1, <2>2
<1>17. ASSUME Load(c) PROVE Kept
  <2> DEFINE k == CounterOf(r)
  <2>1. n = [r EXCEPT !.pc = "store", !.counter = k, !.loaded = hits[k]]
    BY <1>1, <1>17 DEF Load, Continue, n
  <2>2. k = "pps" => p
    BY <1>17 DEF Load, At, Attributed
  <2> HIDE DEF k
  <2>3. n.pc = "store" /\ n.counter = k
    BY <1>1, <2>1 DEF Activations
  <2> QED BY <2>2, <2>3
<1>18. ASSUME Store(c) PROVE Kept
  <2>1. n.pc = "done"
    BY <1>1, <1>18 DEF Store, StoreValue, n, Activations
  <2> QED BY <2>1
<1>19. Kept
  BY <1>4, <1>5, <1>6, <1>7, <1>8, <1>9, <1>10, <1>11, <1>12, <1>13, <1>14, <1>15, <1>16,
     <1>17, <1>18 DEF Handle
<1> QED BY <1>3, <1>19 DEF n

LEMMA StepAttributes ==
  ~SysfsWrites /\ TypeInv /\ ExplainInv /\ AttributeInv /\ [Next]_vars => AttributeInv'
<1> SUFFICES ASSUME ~SysfsWrites, TypeInv, ExplainInv, AttributeInv, [Next]_vars
             PROVE  AttributeInv'
  OBVIOUS
<1>1. call \in [CPUs -> Activations]
  BY DEF TypeInv, TypeOK
<1>2. ASSUME UNCHANGED param, NEW c, call'[c] = call[c], Attributed(call[c])
      PROVE  Attributed(call[c])'
  BY <1>2 DEF Attributed, CounterOf
<1>3. CASE UNCHANGED <<call, param>>
  BY <1>2, <1>3 DEF AttributeInv
<1>4. ASSUME NEW c \in CPUs, Handle(c) PROVE AttributeInv'
  <2>1. Frame(c)
    BY <1>4, HandleFrame
  <2>2. call[c].handler \in Gated => Stepped(call[c], seen[c])
    BY <1>4, HandlerIsActive DEF ExplainInv, Explained, Active, At
  <2>3. Attributed(call'[c])
    BY <1>4, <2>2, HandleAttributes DEF AttributeInv
  <2>4. Attributed(call[c])'
    BY <2>1, <2>3 DEF Frame, Attributed, CounterOf
  <2>5. ASSUME NEW d \in CPUs \ {c} PROVE Attributed(call[d])'
    BY <1>2, <2>1 DEF Frame, AttributeInv
  <2> QED BY <2>4, <2>5 DEF AttributeInv
<1>5. ASSUME NEW c \in CPUs, UNCHANGED param, call'[c].pc \in {"idle", "gate", "boost", "thermal"},
             \A d \in CPUs \ {c} : call'[d] = call[d]
      PROVE  AttributeInv'
  <2>1. Attributed(call[c])'
    BY <1>5 DEF Attributed
  <2>2. ASSUME NEW d \in CPUs \ {c} PROVE Attributed(call[d])'
    BY <1>2, <1>5 DEF AttributeInv
  <2> QED BY <2>1, <2>2 DEF AttributeInv
<1>6. ASSUME NEW c \in CPUs, Return(c) PROVE AttributeInv'
  BY <1>1, <1>5, <1>6 DEF Return, IdleCall
<1>7. ASSUME NEW c \in CPUs, NEW h \in Handlers, NEW v \in Inputs[h], Enter(c, h, v)
      PROVE  AttributeInv'
  <2>1. EntryPoint(h) \in {"gate", "boost", "thermal"}
    BY HandlersAssumption DEF EntryPoint, Gated, Curves
  <2>2. call'[c].pc = EntryPoint(h)
    BY <1>1, <1>7 DEF Enter, IdleCall
  <2> QED BY <1>1, <1>5, <1>7, <2>1, <2>2 DEF Enter
<1>8. ASSUME NEW t \in Temperatures, PublishTemperature(t) PROVE AttributeInv'
  BY <1>3, <1>8 DEF PublishTemperature
<1> QED BY <1>3, <1>4, <1>6, <1>7, <1>8 DEF Next, SetParam, vars

\* With the parameters as insmod set them, no step moves pps_hits while pps is
\* off, although the attribution reads the two flags again after the rewrite.
THEOREM PpsHitsAreEarned == ~SysfsWrites /\ Spec => PpsHitsNeedPps
<1> SUFFICES ASSUME ~SysfsWrites PROVE Spec => PpsHitsNeedPps
  OBVIOUS
<1> DEFINE Inv == TypeInv /\ ExplainInv /\ AttributeInv
<1>1. Init => Inv
  <2>1. Init => AttributeInv
    BY DEF Init, AttributeInv, Attributed, IdleCall
  <2> QED BY <2>1, InitType, InitExplain
<1>2. Inv /\ [Next]_vars => Inv'
  BY StepType, StepExplains, StepAttributes
<1>3. Inv /\ [Next]_vars => [hits'["pps"] # hits["pps"] => param.pps]_vars
  <2> SUFFICES ASSUME Inv, [Next]_vars, hits' # hits
               PROVE  hits'["pps"] # hits["pps"] => param.pps
    BY DEF vars
  <2>1. PICK c \in CPUs : Handle(c)
    BY DEF Next, Return, Enter, PublishTemperature, SetParam, vars
  <2>2. Store(c)
    BY <2>1, HandleFrame DEF Frame
  <2>3. call[c].pc = "store" /\ hits' = [hits EXCEPT ![call[c].counter] = (call[c].loaded + 1) % HitModulus]
    BY <2>2 DEF Store, StoreValue, At
  <2>4. hits'["pps"] # hits["pps"] => call[c].counter = "pps"
    BY <2>3 DEF TypeInv, TypeOK
  <2> QED BY <2>3, <2>4 DEF AttributeInv, Attributed
<1> HIDE DEF Inv
<1> QED BY <1>1, <1>2, <1>3, PTL DEF Spec, PpsHitsNeedPps

-----------------------------------------------------------------------------
(* RewritesAsPromised.  The detailed specification implements the abstract  *)
(* one: the step that ends a handler is the one that answers, every other   *)
(* step of a handler stutters, and the steps of the environment are the     *)
(* same in both.                                                            *)

\* The abstract view of one activation.
ViewOf(r) ==
  [phase   |-> IF r.pc = "idle" THEN "idle" ELSE IF r.pc = "done" THEN "done" ELSE "busy",
   handler |-> r.handler,
   old     |-> r.old,
   reg     |-> IF r.pc = "done" THEN r.reg ELSE r.old]

LEMMA ViewIs ==
  /\ View = [c \in CPUs |-> ViewOf(call[c])]
  /\ View' = [c \in CPUs |-> ViewOf(call'[c])]
  BY DEF View, ViewOf, At

BusyView(h, v) == [phase |-> "busy", handler |-> h, old |-> v, reg |-> v]
DoneView(h, v, a) == [phase |-> "done", handler |-> h, old |-> v, reg |-> a]

LEMMA AnsweredView ==
  ASSUME NEW h, NEW v, NEW a
  PROVE  DoneView(h, v, a) = [BusyView(h, v) EXCEPT !.phase = "done", !.reg = a]
<1> DEFINE S == [phase: {"busy", "done"}, handler: {h}, old: {v}, reg: {v, a}]
           x == BusyView(h, v)
           z == DoneView(h, v, a)
           y == [x EXCEPT !.phase = "done", !.reg = a]
<1>1. x \in S /\ x.handler = h /\ x.old = v
  BY DEF BusyView
<1>2. z \in S /\ z.phase = "done" /\ z.handler = h /\ z.old = v /\ z.reg = a
  BY DEF DoneView
<1>3. y \in S /\ y.phase = "done" /\ y.handler = h /\ y.old = v /\ y.reg = a
  BY <1>1
<1> HIDE DEF y
<1>4. z = y
  BY <1>2, <1>3
<1> QED BY <1>4 DEF y

LEMMA InitMaps == Init => Promise!Init
<1> SUFFICES ASSUME Init PROVE Promise!Init
  OBVIOUS
<1>1. ViewOf(IdleCall) = Promise!IdleView
  BY DEF ViewOf, IdleCall, Promise!IdleView
<1>2. View = [c \in CPUs |-> Promise!IdleView]
  BY <1>1, ViewIs DEF Init
<1> QED BY <1>2 DEF Init, Promise!Init, NothingSeen, Promise!Nothing

LEMMA HandleMaps ==
  ASSUME TypeInv, ExplainInv', LookInv', NEW c \in CPUs, Handle(c)
  PROVE  Promise!Answer(c) \/ UNCHANGED Promise!absVars
<1> DEFINE r == call[c]
           n == call'[c]
<1>1. /\ Frame(c) /\ call \in [CPUs -> Activations] /\ r.pc # "idle"
      /\ UNCHANGED <<param, raw_fg_temperature, seen>>
  BY HandleFrame, HandlerIsActive DEF Frame, TypeInv, TypeOK
<1>2. r.pc # "done"
  BY DEF Handle, Gate, ReadBoostCurve, ReadBoostStep, ReadThermal, MapReadOnce, MapCurrentRead,
     Apply, ReadPps, ReadBoostAgain, ReadPpsAgain, Write, AttributeStep, AttributePps, Load,
     Store, StoreValue, At
<1>3. /\ n.handler = r.handler /\ n.old = r.old /\ n.pc # "idle"
      /\ \A d \in CPUs \ {c} : call'[d] = call[d]
  BY <1>1 DEF Frame
<1>4. ViewOf(r) = BusyView(r.handler, r.old)
  BY <1>1, <1>2 DEF ViewOf, BusyView
<1> HIDE DEF r, n
<1>5. CASE n.pc # "done"
  <2>1. ViewOf(n) = ViewOf(r)
    BY <1>3, <1>4, <1>5 DEF ViewOf, BusyView
  <2>2. View' = View
    BY <1>3, <2>1, ViewIs DEF r, n
  <2> QED BY <1>1, <2>2 DEF Promise!absVars
<1>6. CASE n.pc = "done"
  <2>1. ViewOf(n) = DoneView(r.handler, r.old, n.reg)
    BY <1>3, <1>6 DEF ViewOf, DoneView
  <2>2. ViewOf(n) = [ViewOf(r) EXCEPT !.phase = "done", !.reg = n.reg]
    BY <1>4, <2>1, AnsweredView, Zenon
  <2>3. View' = [View EXCEPT ![c] = [@ EXCEPT !.phase = "done", !.reg = n.reg]]
    BY <1>3, <2>2, ViewIs DEF r, n
  <2>4. /\ View[c].phase = "busy" /\ View[c].handler = r.handler /\ View[c].old = r.old
    BY <1>4, ViewIs DEF r, BusyView
  <2>5. n.reg \in Promise!Allowed(r.handler, seen[c], r.old)
    <3>1. Active(c)'
      BY <1>3 DEF Active, At, n
    <3>2. CASE r.handler \notin Gated
      <4>1. Explained(call[c], seen[c])' /\ call'[c].handler \notin Gated
        BY <1>3, <3>1, <3>2 DEF ExplainInv, n
      <4>2. Curved(n, seen[c])
        BY <1>1, <4>1 DEF Explained, Curved, n
      <4> QED BY <1>3, <3>2, <4>2 DEF Curved, Answered, Promise!Allowed, Promise!Gated, Gated
    <3>3. CASE r.handler \in Gated
      <4>1. Looked(n, seen[c])
        BY <1>1, <1>3, <3>1, <3>3 DEF LookInv, n
      <4> QED BY <1>3, <3>3, <4>1 DEF Looked, Decided, Promise!Allowed, Promise!Gated, Gated
    <3> QED BY <3>2, <3>3
  <2>6. View' = [View EXCEPT ![c].phase = "done", ![c].reg = n.reg]
    BY <2>3, ViewIs
  <2> QED BY <1>1, <2>4, <2>5, <2>6 DEF Promise!Answer
<1> QED BY <1>5, <1>6

LEMMA EnvironmentMaps ==
  ASSUME TypeInv,
         \/ \E c \in CPUs : Return(c)
         \/ \E c \in CPUs, h \in Handlers : \E v \in Inputs[h] : Enter(c, h, v)
         \/ \E t \in Temperatures : PublishTemperature(t)
         \/ \E p \in DOMAIN param, on \in BOOLEAN : SetParam(p, on)
  PROVE  Promise!Next
<1>0. call \in [CPUs -> Activations] /\ ShapeOK
  BY DEF TypeInv, TypeOK
<1>1. ASSUME NEW c \in CPUs, Return(c) PROVE Promise!End(c)
  <2>1. call'[c] = IdleCall /\ \A d \in CPUs \ {c} : call'[d] = call[d]
    BY <1>0, <1>1 DEF Return
  <2>2. ViewOf(IdleCall) = Promise!IdleView
    BY DEF ViewOf, IdleCall, Promise!IdleView
  <2>3. View' = [View EXCEPT ![c] = Promise!IdleView]
    BY <2>1, <2>2, ViewIs
  <2>4. View[c].phase = "done"
    BY <1>1, ViewIs DEF Return, At, ViewOf
  <2> QED BY <1>1, <2>3, <2>4 DEF Return, Promise!End, NothingSeen, Promise!Nothing
<1>2. ASSUME NEW c \in CPUs, NEW h \in Handlers, NEW v \in Inputs[h], Enter(c, h, v)
      PROVE  Promise!Begin(c, h, v)
  <2> DEFINE n == [IdleCall EXCEPT !.pc = EntryPoint(h), !.handler = h, !.old = v,
                                   !.value = v, !.reg = v]
  <2>1. call'[c] = n /\ \A d \in CPUs \ {c} : call'[d] = call[d]
    BY <1>0, <1>2 DEF Enter
  <2>2. EntryPoint(h) \in {"gate", "boost", "thermal"}
    BY HandlersAssumption DEF EntryPoint, Gated, Curves
  <2>3. n.pc = EntryPoint(h) /\ n.handler = h /\ n.old = v
    BY DEF IdleCall
  <2> HIDE DEF n
  <2>4. ViewOf(n) = BusyView(h, v)
    BY <2>2, <2>3 DEF ViewOf, BusyView
  <2>5. View' = [View EXCEPT ![c] = BusyView(h, v)]
    BY <2>1, <2>4, ViewIs
  <2>6. View[c].phase = "idle"
    BY <1>2, ViewIs DEF Enter, At, ViewOf
  <2> QED BY <1>2, <2>5, <2>6 DEF Enter, Promise!Begin, BusyView, Now, Promise!Current
<1>3. \A c \in CPUs : View[c].phase = "idle" <=> At(c, "idle")
  BY ViewIs DEF ViewOf, At
<1>4. ASSUME NEW t \in Temperatures, PublishTemperature(t) PROVE Promise!ChangeTemperature(t)
  <2>1. View' = View
    BY <1>4, ViewIs DEF PublishTemperature
  <2> QED BY <1>3, <1>4, <2>1
       DEF PublishTemperature, Observe, Promise!ChangeTemperature, Promise!Observe
<1>5. ASSUME NEW p \in DOMAIN param, NEW on \in BOOLEAN, SetParam(p, on)
      PROVE  Promise!ChangeParam(p, on)
  <2>1. View' = View
    BY <1>5, ViewIs DEF SetParam
  <2> QED BY <1>3, <1>5, <2>1 DEF SetParam, Observe, Promise!ChangeParam, Promise!Observe
<1> QED BY <1>1, <1>2, <1>4, <1>5 DEF Promise!Next

LEMMA StepMaps ==
  TypeInv /\ ExplainInv' /\ LookInv' /\ [Next]_vars => [Promise!Next]_(Promise!absVars)
<1> SUFFICES ASSUME TypeInv, ExplainInv', LookInv', [Next]_vars
             PROVE  [Promise!Next]_(Promise!absVars)
  OBVIOUS
<1>1. CASE UNCHANGED vars
  <2>1. View' = View
    BY <1>1, ViewIs DEF vars
  <2> QED BY <1>1, <2>1 DEF vars, Promise!absVars
<1>2. ASSUME NEW c \in CPUs, Handle(c) PROVE [Promise!Next]_(Promise!absVars)
  BY <1>2, HandleMaps DEF Promise!Next
<1> QED BY <1>1, <1>2, EnvironmentMaps DEF Next

\* However the reads of its handlers interleave with the rest of the system
\* and with root's writes, the module rewrites as if each handler without a
\* gate (the fast-charge curve, Buck current and voltage, the thermal voter) had
\* read the temperature and its switches once, and each divider or cap handler
\* twice: once to raise and once to limit.
THEOREM RewritesKeepThePromise == Spec => RewritesAsPromised
<1> DEFINE Inv == TypeInv /\ ExplainInv /\ LookInv
<1>1. Init => Inv
  <2>1. Init => LookInv
    BY DEF Init, LookInv, Active, At, IdleCall
  <2> QED BY <2>1, InitType, InitExplain
<1>2. Inv /\ [Next]_vars => Inv'
  BY StepType, StepExplains, StepLooks
<1>3. Inv /\ Inv' /\ [Next]_vars => [Promise!Next]_(Promise!absVars)
  BY StepMaps
<1> HIDE DEF Inv
<1> QED
  BY <1>1, <1>2, <1>3, InitMaps, PTL DEF Spec, Promise!Spec, RewritesAsPromised
=============================================================================
