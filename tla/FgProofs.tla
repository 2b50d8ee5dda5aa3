------------------------------- MODULE FgProofs -------------------------------
(***************************************************************************)
(* Theorems about FgTemperature, for any tasks, hooked functions, ceilings *)
(* and pool sizes, with root writing and probes going at any time.  What   *)
(* those about values need of the vendor's code is that its callers pass   *)
(* ints of their own.                                                      *)
(***************************************************************************)
EXTENDS FgTemperature, TLAPS

PrivateInts == \A j, k \in Tasks : j # k => Passes[j] \cap Passes[k] \subseteq {NoBuffer}

Calls ==
  [pc: Labels, probe: Probes \cup {"none"}, probed: BOOLEAN,
   arg1: Buffers \cup {NoBuffer}, ceiling: Ceilings \cup {0}, raw: Int,
   loaded: 0..(HitModulus - 1)]

Samples == [value: Int, hot: BOOLEAN, kept: BOOLEAN]

USE DEF Samples

\* The handler between its first and its last access.
Handling == {"read", "publish", "spoof", "clamp", "load", "store"}

\* The int a caller passed holds what the vendor stored until the handler
\* clamps it, and then the ceiling, which is lower; a hot sample is one of 58
\* C or more.
Held(k) ==
  LET r == call[k] IN
  /\ r.arg1 \in Passes[k] \cup {NoBuffer}
  /\ r.pc \in Handling => r.probed /\ r.arg1 # NoBuffer
  /\ r.pc = "return" => r.probed
  /\ r.pc \in {"return", "read", "publish", "spoof", "clamp"} /\ r.arg1 # NoBuffer =>
       mem[r.arg1] = sample[k].value
  /\ r.pc \in {"publish", "spoof", "clamp"} => r.raw = sample[k].value
  /\ r.pc = "clamp" => AsSigned(r.ceiling) < r.raw
  /\ r.pc \in {"load", "store"} =>
       mem[r.arg1] = AsSigned(r.ceiling) /\ AsSigned(r.ceiling) < sample[k].value
  /\ r.pc = "done" /\ r.arg1 # NoBuffer =>
       \/ mem[r.arg1] = sample[k].value
       \/ /\ r.probed
          /\ mem[r.arg1] = AsSigned(r.ceiling)
          /\ mem[r.arg1] < sample[k].value
  /\ sample[k].hot => sample[k].value \in 580..1500

FgInv ==
  /\ TypeOK
  /\ \A k \in Tasks : Held(k)

-----------------------------------------------------------------------------
(* The conversions between int and unsigned int.                           *)

LEMMA UnsignedIsTyped ==
  ASSUME NEW n \in Int
  PROVE  AsUnsigned(n) \in 0..(IntModulus - 1)
BY IntAssumption DEF AsUnsigned

\* A battery temperature from 58 C on is not changed by the conversion.
LEMMA HotIsUnchanged ==
  ASSUME NEW n \in 580..1500
  PROVE  AsUnsigned(n) = n
<1>1. n \in Nat /\ IntModulus \in Nat /\ n < IntModulus
  BY IntAssumption
<1> QED BY <1>1 DEF AsUnsigned

LEMMA SignedIsTyped ==
  ASSUME NEW u \in Ceilings \cup {0}
  PROVE  AsSigned(u) \in Int
<1>1. u \in Int /\ IntModulus \in Int
  BY IntAssumption
<1> QED BY <1>1 DEF AsSigned

LEMMA ComparisonIsBoolean ==
  ASSUME NEW t \in Int
  PROVE  (t >= 580) \in BOOLEAN
<1>1. CASE t >= 580
  <2>1. (t >= 580) = TRUE BY <1>1, Zenon
  <2> QED BY <2>1, Zenon
<1>2. CASE ~(t >= 580)
  <2>1. (t >= 580) = FALSE BY <1>2
  <2> QED BY <2>1, ZenonT(60)
<1> QED BY <1>1, <1>2, ZenonT(60)

LEMMA HitWraps ==
  ASSUME NEW n \in 0..(HitModulus - 1)
  PROVE  (n + 1) % HitModulus \in 0..(HitModulus - 1)
BY PoolAssumption

-----------------------------------------------------------------------------
LEMMA InitInv == Init => FgInv
<1> SUFFICES ASSUME Init PROVE FgInv
  OBVIOUS
<1>1. TypeOK
  <2>1. IdleCall \in Calls
    BY PoolAssumption DEF IdleCall, Calls, Labels
  <2>2. temperature_hits \in 0..(HitModulus - 1) /\ raw_fg_temperature \in 0..(IntModulus - 1)
    BY PoolAssumption, IntAssumption DEF Init
  <2>3. temperature_spoof \in BOOLEAN
    BY SwitchAssumption DEF Init
  <2>4. NoSample \in Samples
    BY DEF NoSample
  <2>5. call \in [Tasks -> Calls] /\ sample \in [Tasks -> Samples]
    BY <2>1, <2>4 DEF Init
  <2>6. mem \in [Buffers -> Int] /\ published \in Int
    BY DEF Init
  <2>8. settled \in BOOLEAN
    BY Zenon DEF Init
  <2>7. sensor \in Readings /\ temperature_ceiling \in Ceilings
    BY DEF Init
  <2> HIDE DEF Samples
  <2> QED BY <2>2, <2>3, <2>5, <2>6, <2>7, <2>8 DEF TypeOK, Calls, Samples
<1>2. \A k \in Tasks : Held(k)
  BY DEF Init, Held, IdleCall, NoSample, Handling
<1> QED BY <1>1, <1>2 DEF FgInv

\* A step of task k changes only k's call, k's sample and k's int; the other
\* tasks do not notice.
LEMMA OthersHeld ==
  ASSUME PrivateInts, FgInv, NEW k \in Tasks, NEW j \in Tasks \ {k},
         call'[j] = call[j], sample'[j] = sample[j],
         \/ UNCHANGED mem
         \/ /\ call[k].arg1 # NoBuffer
            /\ \E v \in Int : mem' = [mem EXCEPT ![call[k].arg1] = v]
  PROVE  Held(j)'
<1>1. call[j].arg1 # NoBuffer => mem'[call[j].arg1] = mem[call[j].arg1]
  <2> SUFFICES ASSUME call[j].arg1 # NoBuffer PROVE mem'[call[j].arg1] = mem[call[j].arg1]
    OBVIOUS
  <2>1. call[j].arg1 \in Passes[j] /\ call[j].arg1 \in Buffers
    BY DEF FgInv, Held, TypeOK
  <2>2. call[k].arg1 # NoBuffer => call[k].arg1 \in Passes[k]
    BY DEF FgInv, Held
  <2>3. call[k].arg1 # NoBuffer => call[k].arg1 # call[j].arg1
    BY <2>1, <2>2 DEF PrivateInts
  <2> QED BY <2>1, <2>3 DEF FgInv, TypeOK
<1> QED BY <1>1 DEF FgInv, Held, Handling

Unwritten == UNCHANGED <<sensor, mem, raw_fg_temperature, params, temperature_hits, histories>>

\* A step of k that writes no shared variable keeps the invariant when the
\* new record of k does.
LEMMA PrivateStep ==
  ASSUME PrivateInts, FgInv, NEW k \in Tasks, NEW r \in Calls,
         Become(k, r), Unwritten, Held(k)'
  PROVE  FgInv'
<1>1. call' \in [Tasks -> Calls] /\ \A j \in Tasks \ {k} : call'[j] = call[j]
  BY DEF FgInv, TypeOK, Calls, Become
<1>2. TypeOK'
  BY <1>1 DEF FgInv, TypeOK, Calls, Unwritten, params, histories
<1>3. \A j \in Tasks \ {k} : Held(j)'
  BY <1>1, OthersHeld DEF Unwritten, histories
<1> QED BY <1>2, <1>3 DEF FgInv

-----------------------------------------------------------------------------
(* A call arrives.                                                         *)

LEMMA EnterKeeps ==
  ASSUME PrivateInts, FgInv, NEW k \in Tasks, NEW p \in Probes, NEW b \in Passes[k],
         Enter(k, p, b)
  PROVE  FgInv'
<1>1. b \in Buffers \cup {NoBuffer}
  BY PointerAssumption
<1>2. IdleCall \in Calls /\ IdleCall.probed = FALSE
  BY PoolAssumption DEF IdleCall, Calls, Labels
<1>3. PICK r \in Calls : Become(k, r) /\ r.pc = "vendor" /\ r.arg1 = b
  <2>1. CASE EnterProbed(k, p, b)
    <3> DEFINE r == [IdleCall EXCEPT !.pc = "vendor", !.probe = p, !.probed = TRUE, !.arg1 = b]
    <3>1. r \in Calls /\ r.pc = "vendor" /\ r.arg1 = b
      BY <1>1, <1>2 DEF Calls, Labels
    <3>2. Become(k, r) BY <2>1 DEF EnterProbed
    <3> QED BY <3>1, <3>2
  <2>2. CASE EnterMissed(k, p, b)
    <3> DEFINE r == [IdleCall EXCEPT !.pc = "vendor", !.probe = p, !.arg1 = b]
    <3>1. r \in Calls /\ r.pc = "vendor" /\ r.arg1 = b
      BY <1>1, <1>2 DEF Calls, Labels
    <3>2. Become(k, r) BY <2>2 DEF EnterMissed
    <3> QED BY <3>1, <3>2
  <2> QED BY <2>1, <2>2 DEF Enter
<1>4. Unwritten
  BY SMTT(60) DEF Enter, EnterProbed, EnterMissed, Unwritten
<1>5. Held(k)'
  <2>1. call'[k] = r
    BY <1>3 DEF Become, FgInv, TypeOK
  <2>2. sample'[k] = sample[k] /\ Held(k)
    BY <1>4 DEF Unwritten, histories, FgInv
  <2> QED BY <1>3, <2>1, <2>2 DEF Held, Handling
<1> QED BY <1>3, <1>4, <1>5, PrivateStep

-----------------------------------------------------------------------------
(* The vendor function returns, having stored the battery's temperature or *)
(* nothing.                                                                *)

LEMMA AfterVendorIs ==
  ASSUME TypeOK, NEW k \in Tasks, At(k, "vendor"), AfterVendor(k)
  PROVE  \E r \in Calls :
           /\ call' = [call EXCEPT ![k] = r]
           /\ r.arg1 = call[k].arg1
           /\ (r.pc = "return" /\ r.probed) \/ r.pc = "done"
<1>1. call[k] \in Calls
  BY DEF TypeOK, Calls
<1>2. CASE call[k].probed /\ Goto(k, "return")
  <2> DEFINE r == [call[k] EXCEPT !.pc = "return"]
  <2>1. r \in Calls /\ r.arg1 = call[k].arg1 /\ r.pc = "return" /\ r.probed
    BY <1>1, <1>2 DEF Calls, Labels
  <2>2. call' = [call EXCEPT ![k] = r]
    BY <1>2 DEF Goto, Become
  <2> QED BY <2>1, <2>2
<1>3. CASE Become(k, [call[k] EXCEPT !.pc = "done", !.probed = FALSE])
  <2> DEFINE r == [call[k] EXCEPT !.pc = "done", !.probed = FALSE]
  <2>1. r \in Calls /\ r.arg1 = call[k].arg1 /\ r.pc = "done"
    BY <1>1 DEF Calls, Labels
  <2>2. call' = [call EXCEPT ![k] = r]
    BY <1>3 DEF Become
  <2> QED BY <2>1, <2>2
<1> QED BY <1>2, <1>3 DEF AfterVendor

LEMMA VendorKeeps ==
  ASSUME PrivateInts, FgInv, NEW k \in Tasks, VendorStores(k) \/ VendorFails(k)
  PROVE  FgInv'
<1>1. PICK r \in Calls :
        /\ call' = [call EXCEPT ![k] = r]
        /\ r.arg1 = call[k].arg1
        /\ (r.pc = "return" /\ r.probed) \/ r.pc = "done"
  BY AfterVendorIs DEF FgInv, VendorStores, VendorFails
<1>2. call' \in [Tasks -> Calls] /\ call'[k] = r /\ \A j \in Tasks \ {k} : call'[j] = call[j]
  BY <1>1 DEF FgInv, TypeOK, Calls
<1>3. sensor \in Int /\ sensor <= 1500
  BY IntAssumption DEF FgInv, TypeOK
<1>4. PICK s \in Samples :
        /\ sample' = [sample EXCEPT ![k] = s]
        /\ s.hot => s.value \in 580..1500
        /\ r.arg1 # NoBuffer => mem'[r.arg1] = s.value
  <2>1. CASE VendorStores(k)
    <3>4. sensor >= 580 => sensor \in 580..1500
      BY <1>3
    <3>5. PICK h \in BOOLEAN : (sensor >= 580) = h
      <4>1. (sensor >= 580) \in BOOLEAN
        BY <1>3, ComparisonIsBoolean
      <4> QED BY <4>1, Zenon
    <3>6. h => sensor \in 580..1500
      <4>1. h => sensor >= 580
        BY <3>5, Zenon
      <4> QED BY <3>4, <4>1
    <3> DEFINE s == [value |-> sensor, hot |-> h, kept |-> TRUE]
    <3>1. s \in Samples /\ (s.hot => s.value \in 580..1500)
      BY <1>3, <3>6
    <3>7. sample' = [sample EXCEPT ![k] = [value |-> sensor, hot |-> sensor >= 580, kept |-> TRUE]]
      BY <2>1 DEF VendorStores
    <3>2. sample' = [sample EXCEPT ![k] = s]
      BY <3>5, <3>7, Zenon
    <3>3. r.arg1 # NoBuffer => mem'[r.arg1] = s.value
      BY <1>1, <2>1 DEF VendorStores, FgInv, TypeOK
    <3> QED BY <3>1, <3>2, <3>3
  <2>2. CASE VendorFails(k)
    <3> DEFINE s == [value |-> IF call[k].arg1 = NoBuffer THEN 0 ELSE mem[call[k].arg1],
                     hot |-> FALSE, kept |-> TRUE]
    <3>1. s \in Samples /\ ~s.hot
      BY DEF FgInv, TypeOK
    <3>2. sample' = [sample EXCEPT ![k] = s]
      BY <2>2 DEF VendorFails
    <3>3. r.arg1 # NoBuffer => mem'[r.arg1] = s.value
      BY <1>1, <2>2 DEF VendorFails
    <3> QED BY <3>1, <3>2, <3>3
  <2> QED BY <2>1, <2>2
<1>5. /\ sample' \in [Tasks -> Samples]
      /\ sample'[k] = s /\ \A j \in Tasks \ {k} : sample'[j] = sample[j]
  BY <1>4 DEF FgInv, TypeOK
<1>6. \/ UNCHANGED mem
      \/ /\ call[k].arg1 # NoBuffer
         /\ \E v \in Int : mem' = [mem EXCEPT ![call[k].arg1] = v]
  BY <1>3 DEF VendorStores, VendorFails
<1>7. /\ UNCHANGED <<sensor, raw_fg_temperature, temperature_spoof, temperature_ceiling,
                     temperature_hits, published, settled>>
      /\ mem' \in [Buffers -> Int]
  BY <1>3 DEF VendorStores, VendorFails, params, FgInv, TypeOK
<1>8. TypeOK'
  BY <1>2, <1>5, <1>7 DEF FgInv, TypeOK, Calls
<1>9. Held(k)'
  <2>1. r.arg1 \in Passes[k] \cup {NoBuffer}
    BY <1>1 DEF FgInv, Held
  <2> QED BY <1>1, <1>2, <1>4, <1>5, <2>1 DEF Held, Handling
<1>10. \A j \in Tasks \ {k} : Held(j)'
  BY <1>2, <1>5, <1>6, OthersHeld
<1> QED BY <1>8, <1>9, <1>10 DEF FgInv
-----------------------------------------------------------------------------
(* The return handler.                                                     *)

\* The steps that only read shared variables.
LEMMA ReaderKeeps ==
  ASSUME PrivateInts, FgInv, NEW k \in Tasks,
         ReadCeiling(k) \/ ReadTemperature(k) \/ ReadSpoof(k) \/ Load(k)
  PROVE  FgInv'
<1>1. call[k] \in Calls /\ Held(k)
  BY DEF FgInv, TypeOK, Calls
<1>2. Unwritten
  BY DEF ReadCeiling, ReadTemperature, ReadSpoof, Load, Unwritten
<1>3. ASSUME NEW r \in Calls, Become(k, r)
      PROVE  call'[k] = r /\ sample'[k] = sample[k] /\ mem' = mem
  BY <1>2, <1>3 DEF Become, FgInv, TypeOK, Unwritten, histories
<1>4. CASE ReadCeiling(k)
  <2>1. call[k].pc = "return" /\ temperature_ceiling \in Ceilings
    BY <1>4 DEF ReadCeiling, At, FgInv, TypeOK
  <2>2. PICK l \in {"done", "read"} :
          /\ Become(k, [call[k] EXCEPT !.ceiling = temperature_ceiling, !.pc = l])
          /\ l = "done" <=> call[k].arg1 = NoBuffer
    <3>1. CASE call[k].arg1 = NoBuffer
      BY <1>4, <3>1 DEF ReadCeiling
    <3>2. CASE call[k].arg1 # NoBuffer
      BY <1>4, <3>2 DEF ReadCeiling
    <3> QED BY <3>1, <3>2
  <2> DEFINE r == [call[k] EXCEPT !.ceiling = temperature_ceiling, !.pc = l]
  <2>3. r \in Calls
    BY <1>1, <2>1, <2>2 DEF Calls, Labels
  <2>4. call'[k] = r /\ sample'[k] = sample[k] /\ mem' = mem
    BY <1>3, <2>2, <2>3
  <2>5. r.pc = l /\ r.arg1 = call[k].arg1 /\ r.probed = call[k].probed
    BY <1>1 DEF Calls
  <2>6. Held(k)'
    BY <1>1, <2>1, <2>2, <2>4, <2>5 DEF Held, Handling
  <2> QED BY <1>2, <2>2, <2>3, <2>6, PrivateStep
<1>5. CASE ReadTemperature(k)
  <2> DEFINE r == [call[k] EXCEPT !.raw = mem[call[k].arg1], !.pc = "publish"]
  <2>1. call[k].pc = "read" BY <1>5 DEF ReadTemperature, At
  <2>2. mem[call[k].arg1] \in Int
    BY <1>1, <2>1 DEF FgInv, TypeOK, Held, Handling, Calls
  <2>3. r \in Calls
    BY <1>1, <2>2 DEF Calls, Labels
  <2>4. Become(k, r) BY <1>5 DEF ReadTemperature
  <2>6. call'[k] = r /\ sample'[k] = sample[k] /\ mem' = mem
    BY <1>3, <2>3, <2>4
  <2>7. /\ r.pc = "publish" /\ r.arg1 = call[k].arg1 /\ r.probed = call[k].probed
        /\ r.raw = mem[call[k].arg1]
    BY <1>1 DEF Calls
  <2>5. Held(k)'
    BY <1>1, <2>1, <2>6, <2>7 DEF Held, Handling
  <2> QED BY <1>2, <2>3, <2>4, <2>5, PrivateStep
<1>6. CASE ReadSpoof(k)
  <2> DEFINE over == ~(call[k].raw <= AsSigned(call[k].ceiling))
             goes == ~(~temperature_spoof \/ call[k].ceiling = 0
                         \/ call[k].raw <= AsSigned(call[k].ceiling))
             r == [call[k] EXCEPT !.pc = IF goes THEN "clamp" ELSE "done"]
  <2>1. call[k].pc = "spoof" BY <1>6 DEF ReadSpoof, At
  <2>2. over => AsSigned(call[k].ceiling) < call[k].raw
    BY <1>1, SignedIsTyped DEF Calls
  <2>3. PICK l \in {"clamp", "done"} :
          /\ Become(k, [call[k] EXCEPT !.pc = l])
          /\ l = "clamp" => AsSigned(call[k].ceiling) < call[k].raw
    <3>1. CASE goes
      <4>1. Become(k, [call[k] EXCEPT !.pc = "clamp"])
        BY <1>6, <3>1 DEF ReadSpoof, Goto
      <4> QED BY <2>2, <3>1, <4>1
    <3>2. CASE ~goes
      <4>1. Become(k, [call[k] EXCEPT !.pc = "done"])
        BY <1>6, <3>2 DEF ReadSpoof, Goto
      <4> QED BY <4>1
    <3> QED BY <3>1, <3>2
  <2> DEFINE s == [call[k] EXCEPT !.pc = l]
  <2>4. s \in Calls
    BY <1>1, <2>3 DEF Calls, Labels
  <2>6. call'[k] = s /\ sample'[k] = sample[k] /\ mem' = mem
    BY <1>3, <2>3, <2>4
  <2>7. /\ s.pc = l /\ s.arg1 = call[k].arg1 /\ s.probed = call[k].probed
        /\ s.raw = call[k].raw /\ s.ceiling = call[k].ceiling
    BY <1>1, SMTT(60) DEF Calls
  <2>5. Held(k)'
    BY <1>1, <2>1, <2>3, <2>6, <2>7 DEF Held, Handling
  <2> QED BY <1>2, <2>3, <2>4, <2>5, PrivateStep
<1>7. CASE Load(k)
  <2> DEFINE r == [call[k] EXCEPT !.loaded = temperature_hits, !.pc = "store"]
  <2>1. call[k].pc = "load" BY <1>7 DEF Load, At
  <2>2. r \in Calls
    BY <1>1 DEF Calls, Labels, FgInv, TypeOK
  <2>3. Become(k, r) BY <1>7 DEF Load
  <2>4. call'[k] = r /\ sample'[k] = sample[k] /\ mem' = mem
    BY <1>3, <2>2, <2>3
  <2>5. /\ r.pc = "store" /\ r.arg1 = call[k].arg1 /\ r.probed = call[k].probed
        /\ r.raw = call[k].raw /\ r.ceiling = call[k].ceiling
    BY <1>1 DEF Calls
  <2>6. Held(k)'
    BY <1>1, <2>1, <2>4, <2>5 DEF Held, Handling
  <2> QED BY <1>2, <2>2, <2>3, <2>6, PrivateStep
<1> QED BY <1>4, <1>5, <1>6, <1>7

\* The reading is published: while it is hot it is also not negative, so the
\* conversion to unsigned leaves it at 58 C or more.
LEMMA PublishKeeps ==
  ASSUME PrivateInts, FgInv, NEW k \in Tasks, Publish(k)
  PROVE  FgInv'
<1> DEFINE r == [call[k] EXCEPT !.pc = "spoof"]
<1>1. call[k] \in Calls /\ Held(k) /\ call[k].pc = "publish"
  BY DEF FgInv, TypeOK, Calls, Publish, PublishValue, At
<1>2. r \in Calls /\ call' = [call EXCEPT ![k] = r]
  BY <1>1 DEF Calls, Labels, Publish, PublishValue, Goto, Become
<1>3. call' \in [Tasks -> Calls] /\ call'[k] = r /\ \A j \in Tasks \ {k} : call'[j] = call[j]
  BY <1>2 DEF FgInv, TypeOK, Calls
<1>4. /\ raw_fg_temperature' = AsUnsigned(call[k].raw)
      /\ published' = call[k].raw
      /\ settled' \in BOOLEAN
      /\ UNCHANGED <<sensor, mem, params, temperature_hits, sample>>
  BY DEF Publish, PublishValue
<1>5. call[k].raw \in Int
  BY <1>1 DEF Calls
<1>6. published' \in Int /\ settled' \in BOOLEAN
  BY <1>4, <1>5
<1>7. raw_fg_temperature' \in 0..(IntModulus - 1)
  BY <1>4, <1>5, UnsignedIsTyped
<1>8. TypeOK'
  BY <1>3, <1>4, <1>6, <1>7, SMTT(60) DEF FgInv, TypeOK, Calls, params
<1>9. Held(k)'
  BY <1>1, <1>3, <1>4 DEF Held, Handling, Calls
<1>10. \A j \in Tasks \ {k} : Held(j)'
  BY <1>3, <1>4, OthersHeld
<1> QED BY <1>8, <1>9, <1>10 DEF FgInv

\* The handler lowers the caller's int.
LEMMA ClampKeeps ==
  ASSUME PrivateInts, FgInv, NEW k \in Tasks, Clamp(k)
  PROVE  FgInv'
<1> DEFINE r == [call[k] EXCEPT !.pc = "load"]
<1>1. call[k] \in Calls /\ Held(k) /\ call[k].pc = "clamp"
  BY DEF FgInv, TypeOK, Calls, Clamp, At
<1>2. r \in Calls /\ call' = [call EXCEPT ![k] = r]
  BY <1>1 DEF Calls, Labels, Clamp, Goto, Become
<1>3. call' \in [Tasks -> Calls] /\ call'[k] = r /\ \A j \in Tasks \ {k} : call'[j] = call[j]
  BY <1>2 DEF FgInv, TypeOK, Calls
<1>4. /\ mem' = [mem EXCEPT ![call[k].arg1] = AsSigned(call[k].ceiling)]
      /\ UNCHANGED <<sensor, raw_fg_temperature, params, temperature_hits, histories>>
  BY DEF Clamp
<1>5. AsSigned(call[k].ceiling) \in Int
  BY <1>1, SignedIsTyped DEF Calls
<1>6. call[k].arg1 # NoBuffer /\ call[k].arg1 \in Buffers
  BY <1>1 DEF Held, Handling, Calls
<1>7. mem' \in [Buffers -> Int] /\ mem'[call[k].arg1] = AsSigned(call[k].ceiling)
  BY <1>4, <1>5, <1>6 DEF FgInv, TypeOK
<1>8. TypeOK'
  BY <1>3, <1>4, <1>7, SMTT(60) DEF FgInv, TypeOK, Calls, params, histories
<1>9. Held(k)'
  BY <1>1, <1>3, <1>4, <1>7 DEF Held, Handling, Calls, histories
<1>10. \A j \in Tasks \ {k} : Held(j)'
  BY <1>3, <1>4, <1>5, <1>6, OthersHeld DEF histories
<1> QED BY <1>8, <1>9, <1>10 DEF FgInv

\* The hit is counted; the counter may wrap.
LEMMA StoreKeeps ==
  ASSUME PrivateInts, FgInv, NEW k \in Tasks, Store(k)
  PROVE  FgInv'
<1> DEFINE r == [call[k] EXCEPT !.pc = "done"]
<1>1. call[k] \in Calls /\ Held(k) /\ call[k].pc = "store"
  BY DEF FgInv, TypeOK, Calls, Store, At
<1>2. r \in Calls /\ call' = [call EXCEPT ![k] = r]
  BY <1>1 DEF Calls, Labels, Store, Goto, Become
<1>3. call' \in [Tasks -> Calls] /\ call'[k] = r /\ \A j \in Tasks \ {k} : call'[j] = call[j]
  BY <1>2 DEF FgInv, TypeOK, Calls
<1>4. UNCHANGED <<sensor, mem, raw_fg_temperature, params, histories>>
  BY DEF Store
<1>5. temperature_hits' \in 0..(HitModulus - 1)
  BY <1>1, HitWraps DEF Store, Calls
<1>6. TypeOK'
  BY <1>3, <1>4, <1>5 DEF FgInv, TypeOK, Calls, params, histories
<1>7. Held(k)'
  BY <1>1, <1>3, <1>4 DEF Held, Handling, Calls, histories
<1>8. \A j \in Tasks \ {k} : Held(j)'
  BY <1>3, <1>4, OthersHeld DEF histories
<1> QED BY <1>6, <1>7, <1>8 DEF FgInv

\* The caller goes on.
LEMMA ReturnKeeps ==
  ASSUME PrivateInts, FgInv, NEW k \in Tasks, Return(k)
  PROVE  FgInv'
<1>1. IdleCall \in Calls
  BY PoolAssumption DEF IdleCall, Calls, Labels
<1>2. /\ call' \in [Tasks -> Calls] /\ call'[k] = IdleCall
      /\ \A j \in Tasks \ {k} : call'[j] = call[j]
  BY <1>1 DEF FgInv, TypeOK, Calls, Return, Become
<1>3. /\ sample' \in [Tasks -> Samples]
      /\ sample'[k] = NoSample
      /\ \A j \in Tasks \ {k} : sample'[j] = sample[j]
  BY DEF FgInv, TypeOK, Return, NoSample
<1>4. UNCHANGED <<sensor, mem, raw_fg_temperature, params, temperature_hits, published, settled>>
  BY DEF Return
<1>5. TypeOK'
  BY <1>2, <1>3, <1>4 DEF FgInv, TypeOK, Calls, params
<1>6. Held(k)'
  BY <1>2, <1>3 DEF Held, Handling, IdleCall, NoSample
<1>7. \A j \in Tasks \ {k} : Held(j)'
  BY <1>2, <1>3, <1>4, OthersHeld
<1> QED BY <1>5, <1>6, <1>7 DEF FgInv

-----------------------------------------------------------------------------
(* The battery and root.                                                   *)

\* A hot sample may go cold, never the other way round.
LEMMA SensorKeeps ==
  ASSUME FgInv, NEW t \in Readings, SensorMoves(t)
  PROVE  FgInv'
<1>1. /\ sensor' = t
      /\ sample' = [k \in Tasks |-> [sample[k] EXCEPT !.hot = @ /\ t >= 580]]
      /\ settled' = (settled /\ t >= 580)
      /\ UNCHANGED <<mem, raw_fg_temperature, params, temperature_hits, call, published>>
  BY DEF SensorMoves
<1>2. ASSUME NEW s \in Samples
      PROVE  LET m == [s EXCEPT !.hot = @ /\ t >= 580]
             IN  /\ m \in Samples
                 /\ m.value = s.value
                 /\ m.hot => s.hot
  <2>1. (s.hot /\ t >= 580) \in BOOLEAN
    BY Zenon
  <2>2. PICK b \in BOOLEAN : b = (s.hot /\ t >= 580)
    BY <2>1, Zenon
  <2>3. b => s.hot
    BY <2>2, Zenon
  <2>4. [s EXCEPT !.hot = @ /\ t >= 580] = [s EXCEPT !.hot = b]
    BY <2>2, Zenon
  <2> QED BY <2>3, <2>4
<1>3. /\ sample' \in [Tasks -> Samples]
      /\ \A k \in Tasks :
           sample'[k].value = sample[k].value /\ (sample'[k].hot => sample[k].hot)
  BY <1>1, <1>2 DEF FgInv, TypeOK
<1>4. settled' \in BOOLEAN
  BY <1>1, Zenon
<1>5. TypeOK'
  BY <1>1, <1>3, <1>4, SMTT(60) DEF FgInv, TypeOK, params
<1>6. ASSUME NEW k \in Tasks PROVE Held(k)'
  BY <1>1, <1>3 DEF FgInv, Held, Handling
<1> QED BY <1>5, <1>6 DEF FgInv

\* Root stores a parameter; calls under way keep what they have read.
LEMMA ParamsKeep ==
  ASSUME FgInv, NEW s \in SpoofValues, NEW u \in Ceilings, SetParams(s, u)
  PROVE  FgInv'
<1>1. s \in BOOLEAN
  BY SwitchAssumption
<1>2. /\ sample' \in [Tasks -> Samples]
      /\ \A k \in Tasks :
           sample'[k].value = sample[k].value /\ sample'[k].hot = sample[k].hot
  BY DEF FgInv, TypeOK, SetParams, Samples
<1>3. TypeOK'
  BY <1>1, <1>2, SMTT(60) DEF FgInv, TypeOK, SetParams, Samples
<1>4. ASSUME NEW k \in Tasks PROVE Held(k)'
  BY <1>2 DEF FgInv, Held, Handling, SetParams
<1> QED BY <1>3, <1>4 DEF FgInv

-----------------------------------------------------------------------------
LEMMA NextInv == PrivateInts /\ FgInv /\ [Next]_vars => FgInv'
<1> SUFFICES ASSUME PrivateInts, FgInv, [Next]_vars PROVE FgInv'
  OBVIOUS
<1>1. ASSUME NEW k \in Tasks, NEW p \in Probes, NEW b \in Passes[k], Enter(k, p, b)
      PROVE  FgInv'
  BY <1>1, EnterKeeps
<1>2. ASSUME NEW k \in Tasks, Progress(k) PROVE FgInv'
  <2>1. CASE VendorStores(k) \/ VendorFails(k)
    BY <2>1, VendorKeeps
  <2>2. CASE ReadCeiling(k) \/ ReadTemperature(k) \/ ReadSpoof(k) \/ Load(k)
    BY <2>2, ReaderKeeps
  <2>3. CASE Publish(k)
    BY <2>3, PublishKeeps
  <2>4. CASE Clamp(k)
    BY <2>4, ClampKeeps
  <2>5. CASE Store(k)
    BY <2>5, StoreKeeps
  <2>6. CASE Return(k)
    BY <2>6, ReturnKeeps
  <2> QED BY <1>2, <2>1, <2>2, <2>3, <2>4, <2>5, <2>6 DEF Progress
<1>3. ASSUME NEW t \in Readings, SensorMoves(t) PROVE FgInv'
  BY <1>3, SensorKeeps
<1>4. ASSUME NEW s \in SpoofValues, NEW u \in Ceilings, SetParams(s, u) PROVE FgInv'
  BY <1>4, ParamsKeep
<1>5. CASE UNCHANGED vars
  <2>1. TypeOK'
    BY <1>5, SMTT(60) DEF FgInv, TypeOK, vars
  <2>2. ASSUME NEW k \in Tasks PROVE Held(k)'
    BY <1>5 DEF FgInv, Held, Handling, vars
  <2> QED BY <2>1, <2>2 DEF FgInv
<1> QED BY <1>1, <1>2, <1>3, <1>4, <1>5 DEF Next

\* The invariant the theorems below follow from: the caller's int, the local
\* copy and the clamped value hang together at each place of the return handler.
THEOREM FgInvariant == PrivateInts /\ Spec => []FgInv
<1> SUFFICES ASSUME PrivateInts PROVE Spec => []FgInv
  OBVIOUS
<1>1. FgInv /\ [Next]_vars => FgInv'
  BY NextInv
<1> QED BY <1>1, InitInv, PTL DEF Spec

-----------------------------------------------------------------------------
(* Type correctness does not depend on whose ints are passed: a handler    *)
(* that goes on to read one has found its pointer not to be NULL.          *)

TypeInv ==
  /\ TypeOK
  /\ \A k \in Tasks : At(k, "read") => call[k].arg1 # NoBuffer

\* A step that gives k the record r and otherwise keeps the types.
LEMMA TypedStep ==
  ASSUME TypeInv, NEW k \in Tasks, NEW r \in Calls, Become(k, r),
         r.pc = "read" => r.arg1 # NoBuffer,
         UNCHANGED <<sensor, params>>,
         mem' \in [Buffers -> Int],
         raw_fg_temperature' \in 0..(IntModulus - 1),
         temperature_hits' \in 0..(HitModulus - 1),
         sample' \in [Tasks -> Samples],
         published' \in Int /\ settled' \in BOOLEAN
  PROVE  TypeInv'
<1>1. /\ call' \in [Tasks -> Calls] /\ call'[k] = r
      /\ \A j \in Tasks \ {k} : call'[j] = call[j]
  BY DEF TypeInv, TypeOK, Calls, Become
<1>2. TypeOK'
  BY <1>1 DEF TypeInv, TypeOK, Calls, params
<1> QED BY <1>1, <1>2 DEF TypeInv, At

LEMMA NextType == TypeInv /\ [Next]_vars => TypeInv'
<1> SUFFICES ASSUME TypeInv, [Next]_vars PROVE TypeInv'
  OBVIOUS
<1>0. /\ TypeOK /\ call \in [Tasks -> Calls]
      /\ IdleCall \in Calls /\ IdleCall.probed = FALSE
  BY PoolAssumption DEF TypeInv, TypeOK, IdleCall, Calls, Labels
<1>1. ASSUME NEW k \in Tasks, NEW p \in Probes, NEW b \in Passes[k], Enter(k, p, b)
      PROVE  TypeInv'
  <2>1. b \in Buffers \cup {NoBuffer}
    BY PointerAssumption
  <2>2. PICK r \in Calls : Become(k, r) /\ r.pc = "vendor"
    <3>1. /\ [IdleCall EXCEPT !.pc = "vendor", !.probe = p, !.probed = TRUE, !.arg1 = b] \in Calls
          /\ [IdleCall EXCEPT !.pc = "vendor", !.probe = p, !.arg1 = b] \in Calls
      BY <1>0, <2>1 DEF Calls, Labels
    <3>2. /\ [IdleCall EXCEPT !.pc = "vendor", !.probe = p, !.probed = TRUE, !.arg1 = b].pc = "vendor"
          /\ [IdleCall EXCEPT !.pc = "vendor", !.probe = p, !.arg1 = b].pc = "vendor"
      BY <1>0 DEF Calls
    <3> QED BY <1>1, <3>1, <3>2 DEF Enter, EnterProbed, EnterMissed
  <2>3. Unwritten
    BY <1>1 DEF Enter, EnterProbed, EnterMissed, Unwritten
  <2> QED BY <1>0, <2>2, <2>3, TypedStep DEF TypeOK, Unwritten, params, histories
<1>2. ASSUME NEW k \in Tasks, Progress(k) PROVE TypeInv'
  <2>0. call[k] \in Calls
    BY <1>0
  <2>1. CASE VendorStores(k) \/ VendorFails(k)
    <3>1. PICK r \in Calls : Become(k, r) /\ r.pc # "read"
      BY <1>0, <2>1, AfterVendorIs DEF VendorStores, VendorFails, Become
    <3>2. sensor \in Int
      BY <1>0, IntAssumption DEF TypeOK
    <3>3. sample' \in [Tasks -> Samples]
      <4>1. CASE VendorStores(k)
        <5>1. [value |-> sensor, hot |-> sensor >= 580, kept |-> TRUE] \in Samples
          BY <3>2, ComparisonIsBoolean, ZenonT(60)
        <5>2. PICK s \in Samples : sample' = [sample EXCEPT ![k] = s]
          BY <4>1, <5>1, ZenonT(60) DEF VendorStores
        <5> QED BY <1>0, <5>2 DEF TypeOK
      <4>2. CASE VendorFails(k)
        BY <1>0, <4>2 DEF VendorFails, TypeOK
      <4> QED BY <2>1, <4>1, <4>2
    <3>4. /\ UNCHANGED <<sensor, raw_fg_temperature, params, temperature_hits, published,
                         settled>>
          /\ mem' \in [Buffers -> Int]
      BY <1>0, <2>1, <3>2 DEF VendorStores, VendorFails, TypeOK
    <3> QED BY <1>0, <3>1, <3>3, <3>4, TypedStep DEF TypeOK
  <2>2. CASE ReadCeiling(k)
    <3>1. PICK l \in {"done", "read"} :
            /\ Become(k, [call[k] EXCEPT !.ceiling = temperature_ceiling, !.pc = l])
            /\ l = "read" => call[k].arg1 # NoBuffer
      BY <2>2 DEF ReadCeiling
    <3> DEFINE r == [call[k] EXCEPT !.ceiling = temperature_ceiling, !.pc = l]
    <3>2. r \in Calls /\ (r.pc = "read" => r.arg1 # NoBuffer)
      BY <1>0, <2>0, <3>1 DEF Calls, Labels, TypeOK
    <3> QED BY <1>0, <2>2, <3>1, <3>2, TypedStep DEF ReadCeiling, TypeOK, histories
  <2>3. CASE ReadTemperature(k)
    <3> DEFINE r == [call[k] EXCEPT !.raw = mem[call[k].arg1], !.pc = "publish"]
    <3>1. mem[call[k].arg1] \in Int
      BY <1>0, <2>0, <2>3 DEF ReadTemperature, TypeInv, TypeOK, Calls
    <3>2. r \in Calls /\ r.pc # "read"
      BY <2>0, <3>1 DEF Calls, Labels
    <3> QED BY <1>0, <2>3, <3>2, TypedStep DEF ReadTemperature, TypeOK, histories
  <2>4. CASE Publish(k)
    <3> DEFINE r == [call[k] EXCEPT !.pc = "spoof"]
    <3>1. r \in Calls /\ r.pc # "read" /\ Become(k, r)
      BY <2>0, <2>4 DEF Calls, Labels, Publish, PublishValue, Goto
    <3>2. raw_fg_temperature' \in 0..(IntModulus - 1)
      BY <2>0, <2>4, UnsignedIsTyped DEF Publish, PublishValue, Calls
    <3>3. published' \in Int /\ settled' \in BOOLEAN
      BY <1>0, <2>0, <2>4 DEF Publish, PublishValue, Calls, TypeOK
    <3> QED BY <1>0, <2>4, <3>1, <3>2, <3>3, TypedStep DEF Publish, PublishValue, TypeOK
  <2>5. CASE ReadSpoof(k)
    <3>1. PICK l \in {"clamp", "done"} : Become(k, [call[k] EXCEPT !.pc = l])
      BY <2>5 DEF ReadSpoof, Goto
    <3> DEFINE r == [call[k] EXCEPT !.pc = l]
    <3>2. r \in Calls /\ r.pc # "read"
      BY <2>0 DEF Calls, Labels
    <3> QED BY <1>0, <2>5, <3>1, <3>2, TypedStep DEF ReadSpoof, TypeOK, histories
  <2>6. CASE Clamp(k)
    <3> DEFINE r == [call[k] EXCEPT !.pc = "load"]
    <3>1. r \in Calls /\ r.pc # "read" /\ Become(k, r)
      BY <2>0, <2>6 DEF Calls, Labels, Clamp, Goto
    <3>2. mem' \in [Buffers -> Int]
      <4>1. AsSigned(call[k].ceiling) \in Int
        BY <2>0, SignedIsTyped DEF Calls
      <4> QED BY <1>0, <2>6, <4>1 DEF Clamp, TypeOK
    <3> QED BY <1>0, <2>6, <3>1, <3>2, TypedStep DEF Clamp, TypeOK, histories
  <2>7. CASE Load(k)
    <3> DEFINE r == [call[k] EXCEPT !.loaded = temperature_hits, !.pc = "store"]
    <3>1. r \in Calls /\ r.pc # "read"
      BY <1>0, <2>0, ZenonT(60) DEF Calls, Labels, TypeOK
    <3> QED BY <1>0, <2>7, <3>1, TypedStep DEF Load, TypeOK, histories
  <2>8. CASE Store(k)
    <3> DEFINE r == [call[k] EXCEPT !.pc = "done"]
    <3>1. r \in Calls /\ r.pc # "read" /\ Become(k, r)
      BY <2>0, <2>8 DEF Calls, Labels, Store, Goto
    <3>2. temperature_hits' \in 0..(HitModulus - 1)
      BY <2>0, <2>8, HitWraps DEF Store, Calls
    <3> QED BY <1>0, <2>8, <3>1, <3>2, TypedStep DEF Store, TypeOK, histories
  <2>9. CASE Return(k)
    <3>1. sample' \in [Tasks -> Samples]
      BY <1>0, <2>9 DEF Return, TypeOK, NoSample
    <3>2. IdleCall.pc # "read"
      BY DEF IdleCall
    <3> QED BY <1>0, <2>9, <3>1, <3>2, TypedStep DEF Return, TypeOK
  <2> QED BY <1>2, <2>1, <2>2, <2>3, <2>4, <2>5, <2>6, <2>7, <2>8, <2>9 DEF Progress
<1>3. ASSUME NEW t \in Readings, SensorMoves(t) PROVE TypeInv'
  <2>1. ASSUME NEW s \in Samples
        PROVE  [s EXCEPT !.hot = @ /\ t >= 580] \in Samples
    <3>1. (s.hot /\ t >= 580) \in BOOLEAN
      BY Zenon
    <3>2. PICK b \in BOOLEAN : b = (s.hot /\ t >= 580)
      BY <3>1, Zenon
    <3>3. [s EXCEPT !.hot = @ /\ t >= 580] = [s EXCEPT !.hot = b]
      BY <3>2, Zenon
    <3> QED BY <3>3
  <2>2. sample' \in [Tasks -> Samples]
    BY <1>0, <1>3, <2>1, Zenon DEF SensorMoves, TypeOK
  <2>3. settled' \in BOOLEAN
    BY <1>3, Zenon DEF SensorMoves
  <2>4. /\ UNCHANGED <<mem, raw_fg_temperature, params, temperature_hits, call, published>>
        /\ sensor' = t
    BY <1>3 DEF SensorMoves
  <2> QED BY <2>2, <2>3, <2>4 DEF TypeInv, TypeOK, At, params
<1>4. ASSUME NEW s \in SpoofValues, NEW u \in Ceilings, SetParams(s, u) PROVE TypeInv'
  <2>1. s \in BOOLEAN
    BY SwitchAssumption
  <2>2. sample' \in [Tasks -> Samples]
    BY <1>0, <1>4 DEF SetParams, TypeOK
  <2> QED BY <1>4, <2>1, <2>2 DEF SetParams, TypeInv, TypeOK, At
<1>5. CASE UNCHANGED vars
  BY <1>5 DEF TypeInv, TypeOK, At, vars
<1> QED BY <1>1, <1>2, <1>3, <1>4, <1>5 DEF Next

\* The state of the FG hooks keeps its types, the counter and the published
\* reading within an unsigned int whatever is converted.
THEOREM FgTypeCorrect == Spec => []TypeOK
<1>1. Init => TypeInv
  BY InitInv DEF FgInv, TypeInv, Init, IdleCall, At
<1>2. TypeInv => TypeOK
  BY DEF TypeInv
<1> QED BY <1>1, <1>2, NextType, PTL DEF Spec

\* No task gets a temperature above what the vendor's function stored for it,
\* and a lower one is the ceiling its own handler read, which only a call with
\* an instance gets (lines 474-490).
THEOREM ClampOnlyLowers == PrivateInts /\ Spec => []NeverRaised
<1>1. FgInv => NeverRaised
  BY DEF FgInv, Held, NeverRaised, At
<1> QED BY <1>1, FgInvariant, PTL
-----------------------------------------------------------------------------
(* The ceiling holds for a call during which root leaves the parameters    *)
(* alone: the ceiling its handler has read is still the parameter's value, *)
(* and when the handler ends, it has seen the clamp off, or the caller's   *)
(* int is not above it.                                                    *)

Ceiled(k) ==
  LET r == call[k] IN
  r.probed /\ r.arg1 # NoBuffer /\ sample[k].kept =>
    /\ r.pc \in Handling \cup {"done"} => r.ceiling = temperature_ceiling
    /\ r.pc = "done" =>
         ~temperature_spoof \/ r.ceiling = 0 \/ mem[r.arg1] <= AsSigned(r.ceiling)

CeilInv == FgInv /\ \A k \in Tasks : Ceiled(k)

\* The frame: a step of k touches k's call and k's int.
LEMMA OthersCeiled ==
  ASSUME PrivateInts, CeilInv, NEW k \in Tasks, NEW s \in Calls,
         call' = [call EXCEPT ![k] = s], UNCHANGED params,
         \A j \in Tasks \ {k} : sample'[j] = sample[j],
         \/ UNCHANGED mem
         \/ /\ call[k].arg1 # NoBuffer
            /\ \E v \in Int : mem' = [mem EXCEPT ![call[k].arg1] = v],
         s.probed /\ s.arg1 # NoBuffer /\ sample'[k].kept =>
           /\ s.pc \in Handling \cup {"done"} => s.ceiling = temperature_ceiling
           /\ s.pc = "done" =>
                ~temperature_spoof \/ s.ceiling = 0 \/ mem'[s.arg1] <= AsSigned(s.ceiling)
  PROVE  \A j \in Tasks : Ceiled(j)'
<1>1. call'[k] = s /\ \A j \in Tasks \ {k} : call'[j] = call[j]
  BY DEF CeilInv, FgInv, TypeOK
<1>2. Ceiled(k)'
  BY <1>1 DEF Ceiled, params
<1>3. ASSUME NEW j \in Tasks \ {k} PROVE Ceiled(j)'
  <2>1. call[j].arg1 # NoBuffer => mem'[call[j].arg1] = mem[call[j].arg1]
    <3> SUFFICES ASSUME call[j].arg1 # NoBuffer
                 PROVE  mem'[call[j].arg1] = mem[call[j].arg1]
      OBVIOUS
    <3>1. call[j].arg1 \in Passes[j] /\ call[j].arg1 \in Buffers
      BY DEF CeilInv, FgInv, Held, TypeOK
    <3>2. call[k].arg1 # NoBuffer => call[k].arg1 \in Passes[k]
      BY DEF CeilInv, FgInv, Held
    <3>3. call[k].arg1 # NoBuffer => call[k].arg1 # call[j].arg1
      BY <3>1, <3>2 DEF PrivateInts
    <3> QED BY <3>1, <3>3 DEF CeilInv, FgInv, TypeOK
  <2>2. Ceiled(j) /\ call'[j] = call[j] /\ sample'[j] = sample[j]
    BY <1>1 DEF CeilInv
  <2> QED BY <2>1, <2>2 DEF Ceiled, params
<1> QED BY <1>2, <1>3

\* What a step of task k makes of its call, with what the return handler
\* compares along the way.
LEMMA CallMoves ==
  ASSUME PrivateInts, CeilInv, NEW k \in Tasks, Progress(k)
  PROVE  \A j \in Tasks : Ceiled(j)'
<1>1. call[k] \in Calls /\ Held(k) /\ Ceiled(k)
  BY DEF CeilInv, FgInv, TypeOK, Calls
<1>2. UNCHANGED params
  BY DEF Progress, VendorStores, VendorFails, ReadCeiling, ReadTemperature, Publish,
         PublishValue, ReadSpoof, Clamp, Load, Store, Return
<1>2a. \A j \in Tasks \ {k} : sample'[j] = sample[j]
  BY DEF CeilInv, FgInv, TypeOK, Progress, VendorStores, VendorFails, ReadCeiling,
         ReadTemperature, Publish, PublishValue, ReadSpoof, Clamp, Load, Store, Return, histories
<1>2b. ReadCeiling(k) \/ ReadTemperature(k) \/ Publish(k) \/ ReadSpoof(k) \/ Clamp(k) \/ Load(k)
         \/ Store(k) => UNCHANGED sample
  BY DEF ReadCeiling, ReadTemperature, Publish, PublishValue, ReadSpoof, Clamp, Load, Store,
         histories
<1>3. CASE VendorStores(k) \/ VendorFails(k)
  <2>1. PICK r \in Calls :
          /\ call' = [call EXCEPT ![k] = r]
          /\ r.probed => r.pc = "return"
    <3>1. CASE call[k].probed /\ Goto(k, "return")
      <4> DEFINE r == [call[k] EXCEPT !.pc = "return"]
      <4>1. r \in Calls /\ r.pc = "return"
        BY <1>1 DEF Calls, Labels
      <4> QED BY <3>1, <4>1 DEF Goto, Become
    <3>2. CASE Become(k, [call[k] EXCEPT !.pc = "done", !.probed = FALSE])
      <4> DEFINE r == [call[k] EXCEPT !.pc = "done", !.probed = FALSE]
      <4>1. r \in Calls /\ ~r.probed
        BY <1>1 DEF Calls, Labels
      <4> QED BY <3>2, <4>1 DEF Become
    <3> QED BY <1>3, <3>1, <3>2 DEF VendorStores, VendorFails, AfterVendor
  <2>2. UNCHANGED mem \/ (call[k].arg1 # NoBuffer /\ mem' = [mem EXCEPT ![call[k].arg1] = sensor])
    BY <1>3 DEF VendorStores, VendorFails
  <2>3. sensor \in Int
    BY IntAssumption DEF CeilInv, FgInv, TypeOK
  <2>4. r.pc \notin Handling \cup {"done"} \/ ~r.probed
    BY <2>1 DEF Handling
  <2>5. \/ UNCHANGED mem
        \/ call[k].arg1 # NoBuffer /\ \E v \in Int : mem' = [mem EXCEPT ![call[k].arg1] = v]
    BY <2>2, <2>3
  <2> QED BY <1>2, <1>2a, <2>1, <2>4, <2>5, OthersCeiled DEF Handling
<1>4. CASE ReadCeiling(k)
  <2> DEFINE l == IF call[k].arg1 = NoBuffer THEN "done" ELSE "read"
             s == [call[k] EXCEPT !.ceiling = temperature_ceiling, !.pc = l]
  <2>1. temperature_ceiling \in Ceilings /\ l \in Labels
    BY DEF CeilInv, FgInv, TypeOK, Labels
  <2>2. s \in Calls /\ call' = [call EXCEPT ![k] = s] /\ UNCHANGED mem
    BY <1>1, <1>4, <2>1 DEF Calls, ReadCeiling, Become
  <2>3. s.ceiling = temperature_ceiling /\ s.arg1 = call[k].arg1 /\ s.pc = l
    BY <1>1 DEF Calls
  <2>4. s.arg1 # NoBuffer => s.pc = "read"
    BY <2>3
  <2> HIDE DEF s, l
  <2> QED BY <1>2, <1>2a, <2>2, <2>3, <2>4, OthersCeiled
<1>5. CASE ReadTemperature(k)
  <2> DEFINE s == [call[k] EXCEPT !.raw = mem[call[k].arg1], !.pc = "publish"]
  <2>1. call[k].pc = "read" BY <1>5 DEF ReadTemperature, At
  <2>2. mem[call[k].arg1] \in Int
    BY <1>1, <2>1 DEF CeilInv, FgInv, TypeOK, Held, Handling, Calls
  <2>3. s \in Calls /\ call' = [call EXCEPT ![k] = s] /\ UNCHANGED mem
    BY <1>1, <1>5, <2>2 DEF Calls, Labels, ReadTemperature, Become
  <2>4. /\ s.ceiling = call[k].ceiling /\ s.arg1 = call[k].arg1
        /\ s.probed = call[k].probed /\ s.pc = "publish"
    BY <1>1 DEF Calls
  <2> HIDE DEF s
  <2>5. s.probed /\ s.arg1 # NoBuffer /\ sample'[k].kept => s.ceiling = temperature_ceiling
    BY <1>1, <1>2b, <1>5, <2>1, <2>4 DEF Ceiled, Handling
  <2> QED BY <1>2, <1>2a, <2>3, <2>4, <2>5, OthersCeiled
<1>6. CASE Publish(k) \/ Load(k)
  <2>1. call[k].pc \in {"publish", "load"}
    BY <1>6 DEF Publish, PublishValue, Load, At
  <2>2. PICK s \in Calls :
          /\ call' = [call EXCEPT ![k] = s]
          /\ s.ceiling = call[k].ceiling /\ s.arg1 = call[k].arg1
          /\ s.probed = call[k].probed /\ s.pc # "done"
    <3>1. CASE Publish(k)
      <4> DEFINE s == [call[k] EXCEPT !.pc = "spoof"]
      <4>1. /\ s \in Calls /\ s.ceiling = call[k].ceiling /\ s.arg1 = call[k].arg1
            /\ s.probed = call[k].probed /\ s.pc # "done"
        BY <1>1 DEF Calls, Labels
      <4>2. call' = [call EXCEPT ![k] = s]
        BY <3>1 DEF Publish, PublishValue, Goto, Become
      <4> QED BY <4>1, <4>2
    <3>2. CASE Load(k)
      <4> DEFINE s == [call[k] EXCEPT !.loaded = temperature_hits, !.pc = "store"]
      <4>1. /\ s \in Calls /\ s.ceiling = call[k].ceiling /\ s.arg1 = call[k].arg1
            /\ s.probed = call[k].probed /\ s.pc # "done"
        BY <1>1 DEF Calls, Labels, CeilInv, FgInv, TypeOK
      <4>2. call' = [call EXCEPT ![k] = s]
        BY <3>2 DEF Load, Become
      <4> QED BY <4>1, <4>2
    <3> QED BY <1>6, <3>1, <3>2
  <2>3. UNCHANGED mem
    BY <1>6 DEF Publish, PublishValue, Load
  <2>4. s.probed /\ s.arg1 # NoBuffer /\ sample'[k].kept => s.ceiling = temperature_ceiling
    BY <1>1, <1>2b, <1>6, <2>1, <2>2 DEF Ceiled, Handling
  <2> QED BY <1>2, <1>2a, <2>2, <2>3, <2>4, OthersCeiled
<1>7. CASE ReadSpoof(k)
  <2> DEFINE off == ~temperature_spoof \/ call[k].ceiling = 0
                      \/ call[k].raw <= AsSigned(call[k].ceiling)
             l == IF off THEN "done" ELSE "clamp"
             s == [call[k] EXCEPT !.pc = l]
  <2>1. call[k].pc = "spoof" BY <1>7 DEF ReadSpoof, At
  <2>2. call' = [call EXCEPT ![k] = s] /\ UNCHANGED mem
    BY <1>7, Zenon DEF ReadSpoof, Goto, Become
  <2>3. l \in Labels BY DEF Labels
  <2>4. l = "done" => off
    OBVIOUS
  <2> HIDE DEF l
  <2>5. /\ s \in Calls /\ s.ceiling = call[k].ceiling /\ s.arg1 = call[k].arg1
        /\ s.probed = call[k].probed /\ s.pc = l
    BY <1>1, <2>3 DEF Calls
  <2> HIDE DEF s
  <2>6. s.probed /\ s.arg1 # NoBuffer /\ sample'[k].kept => s.ceiling = temperature_ceiling
    BY <1>1, <1>2b, <1>7, <2>1, <2>5 DEF Ceiled, Handling
  <2>7. s.arg1 # NoBuffer => call[k].raw = mem[s.arg1]
    BY <1>1, <2>1, <2>5 DEF Held
  <2>8. s.probed /\ s.arg1 # NoBuffer /\ sample'[k].kept /\ s.pc = "done" =>
          ~temperature_spoof \/ s.ceiling = 0 \/ mem'[s.arg1] <= AsSigned(s.ceiling)
    BY <2>2, <2>4, <2>5, <2>7
  <2> QED BY <1>2, <1>2a, <2>2, <2>5, <2>6, <2>8, OthersCeiled
<1>8. CASE Clamp(k)
  <2> DEFINE s == [call[k] EXCEPT !.pc = "load"]
  <2>1. call[k].pc = "clamp" BY <1>8 DEF Clamp, At
  <2>2. /\ s \in Calls /\ s.ceiling = call[k].ceiling /\ s.arg1 = call[k].arg1
        /\ s.probed = call[k].probed /\ s.pc = "load"
    BY <1>1 DEF Calls, Labels
  <2>3. /\ call' = [call EXCEPT ![k] = s]
        /\ mem' = [mem EXCEPT ![call[k].arg1] = AsSigned(call[k].ceiling)]
    BY <1>8 DEF Clamp, Goto, Become
  <2>4. call[k].arg1 # NoBuffer /\ AsSigned(call[k].ceiling) \in Int
    BY <1>1, <2>1, SignedIsTyped DEF Held, Handling, Calls
  <2> HIDE DEF s
  <2>5. s.probed /\ s.arg1 # NoBuffer /\ sample'[k].kept => s.ceiling = temperature_ceiling
    BY <1>1, <1>2b, <1>8, <2>1, <2>2 DEF Ceiled, Handling
  <2>6. \E v \in Int : mem' = [mem EXCEPT ![call[k].arg1] = v]
    BY <2>3, <2>4
  <2> QED BY <1>2, <1>2a, <2>2, <2>3, <2>4, <2>5, <2>6, OthersCeiled
<1>9. CASE Store(k)
  <2> DEFINE s == [call[k] EXCEPT !.pc = "done"]
  <2>1. call[k].pc = "store" BY <1>9 DEF Store, At
  <2>2. /\ s \in Calls /\ s.ceiling = call[k].ceiling /\ s.arg1 = call[k].arg1
        /\ s.probed = call[k].probed /\ s.pc = "done"
    BY <1>1 DEF Calls, Labels
  <2>3. call' = [call EXCEPT ![k] = s] /\ UNCHANGED mem
    BY <1>9 DEF Store, Goto, Become
  <2> HIDE DEF s
  <2>4. s.probed /\ s.arg1 # NoBuffer /\ sample'[k].kept => s.ceiling = temperature_ceiling
    BY <1>1, <1>2b, <1>9, <2>1, <2>2 DEF Ceiled, Handling
  <2>5. mem'[s.arg1] = AsSigned(s.ceiling)
    BY <1>1, <2>1, <2>2, <2>3 DEF Held
  <2>6. AsSigned(s.ceiling) \in Int
    BY <2>2, SignedIsTyped DEF Calls
  <2>7. mem'[s.arg1] <= AsSigned(s.ceiling)
    BY <2>5, <2>6
  <2> QED BY <1>2, <1>2a, <2>2, <2>3, <2>4, <2>7, OthersCeiled
<1>10. CASE Return(k)
  <2>1. IdleCall \in Calls /\ ~IdleCall.probed
    BY PoolAssumption DEF IdleCall, Calls, Labels
  <2>2. call' = [call EXCEPT ![k] = IdleCall] /\ UNCHANGED mem
    BY <1>10 DEF Return, Become
  <2> QED BY <1>2, <1>2a, <2>1, <2>2, OthersCeiled
<1> QED BY <1>3, <1>4, <1>5, <1>6, <1>7, <1>8, <1>9, <1>10 DEF Progress

LEMMA NextCeil == PrivateInts /\ CeilInv /\ [Next]_vars => CeilInv'
<1> SUFFICES ASSUME PrivateInts, CeilInv, [Next]_vars PROVE CeilInv'
  OBVIOUS
<1>1. FgInv'
  BY NextInv DEF CeilInv
<1>2. ASSUME NEW k \in Tasks, NEW p \in Probes, NEW b \in Passes[k], Enter(k, p, b)
      PROVE  \A j \in Tasks : Ceiled(j)'
  <2>1. b \in Buffers \cup {NoBuffer} /\ IdleCall \in Calls
    BY PointerAssumption, PoolAssumption DEF IdleCall, Calls, Labels
  <2>2. PICK r \in Calls : call' = [call EXCEPT ![k] = r] /\ r.pc = "vendor"
    <3>1. CASE EnterProbed(k, p, b)
      <4> DEFINE r == [IdleCall EXCEPT !.pc = "vendor", !.probe = p, !.probed = TRUE, !.arg1 = b]
      <4>1. r \in Calls /\ r.pc = "vendor"
        BY <2>1 DEF Calls, Labels
      <4> QED BY <3>1, <4>1 DEF EnterProbed, Become
    <3>2. CASE EnterMissed(k, p, b)
      <4> DEFINE r == [IdleCall EXCEPT !.pc = "vendor", !.probe = p, !.arg1 = b]
      <4>1. r \in Calls /\ r.pc = "vendor"
        BY <2>1 DEF Calls, Labels
      <4> QED BY <3>2, <4>1 DEF EnterMissed, Become
    <3> QED BY <1>2, <3>1, <3>2 DEF Enter
  <2>3. UNCHANGED params /\ UNCHANGED mem /\ UNCHANGED sample
    BY <1>2 DEF Enter, EnterProbed, EnterMissed, histories
  <2>4. r.pc \notin Handling \cup {"done"}
    BY <2>2 DEF Handling
  <2> QED BY <2>2, <2>3, <2>4, OthersCeiled DEF Handling
<1>3. ASSUME NEW k \in Tasks, Progress(k) PROVE \A j \in Tasks : Ceiled(j)'
  BY <1>3, CallMoves
<1>4. ASSUME NEW t \in Readings, SensorMoves(t) PROVE \A j \in Tasks : Ceiled(j)'
  <2>1. ASSUME NEW k \in Tasks PROVE sample'[k].kept = sample[k].kept
    BY <1>4 DEF SensorMoves, CeilInv, FgInv, TypeOK
  <2> QED BY <1>4, <2>1 DEF SensorMoves, CeilInv, Ceiled, params
<1>5. ASSUME NEW s \in SpoofValues, NEW u \in Ceilings, SetParams(s, u)
      PROVE  \A j \in Tasks : Ceiled(j)'
  <2>1. ASSUME NEW k \in Tasks PROVE ~sample'[k].kept
    BY <1>5 DEF SetParams, CeilInv, FgInv, TypeOK
  <2> QED BY <2>1 DEF Ceiled
<1>6. ASSUME UNCHANGED vars PROVE \A j \in Tasks : Ceiled(j)'
  BY <1>6 DEF vars, CeilInv, Ceiled
<1>7. \A j \in Tasks : Ceiled(j)'
  BY <1>2, <1>3, <1>4, <1>5, <1>6 DEF Next
<1> QED BY <1>1, <1>7 DEF CeilInv

\* No hooked call that gets an instance returns a temperature above
\* temperature_ceiling with the clamp on, if root writes no parameter while it
\* is handled, however often root writes at other times (lines 54, 474-490).
THEOREM CeilingIsKept == PrivateInts /\ Spec => []CeilingHolds
<1> SUFFICES ASSUME PrivateInts PROVE Spec => []CeilingHolds
  OBVIOUS
<1>1. Init => CeilInv
  <2> SUFFICES ASSUME Init PROVE \A k \in Tasks : Ceiled(k)
    BY InitInv DEF CeilInv
  <2> QED BY DEF Init, Ceiled, IdleCall, NoSample
<1>2. CeilInv /\ [Next]_vars => CeilInv'
  BY NextCeil
<1>3. CeilInv => CeilingHolds
  <2> SUFFICES ASSUME CeilInv, NEW k \in Tasks,
                      At(k, "done"), call[k].probed, call[k].arg1 # NoBuffer,
                      sample[k].kept, temperature_spoof,
                      temperature_ceiling \in 1..(IntModulus \div 2 - 1)
               PROVE  mem[call[k].arg1] <= temperature_ceiling
    BY DEF CeilingHolds
  <2>1. call[k].ceiling = temperature_ceiling /\ temperature_ceiling # 0
    BY DEF CeilInv, Ceiled, At
  <2>2. mem[call[k].arg1] <= AsSigned(temperature_ceiling)
    BY <2>1 DEF CeilInv, Ceiled, At
  <2>3. AsSigned(temperature_ceiling) = temperature_ceiling
    BY IntAssumption DEF AsSigned
  <2> QED BY <2>2, <2>3
<1> QED BY <1>1, <1>2, <1>3, PTL DEF Spec

-----------------------------------------------------------------------------
(* What was published, when every vendor call given a pointer stores       *)
(* through it: a handler that has not published yet holds a battery        *)
(* temperature, and once no older one is left, only hot ones follow.       *)

Unpublished(k) == call[k].pc \in {"return", "read", "publish"} /\ call[k].arg1 # NoBuffer

Steady ==
  /\ RawIsUnmodified
  /\ settled => raw_fg_temperature >= 580 /\ sensor >= 580 /\ \A k \in Tasks : ~Overdue(k)
  /\ \A k \in Tasks :
       /\ sample[k].hot => sensor >= 580
       /\ Unpublished(k) => sample[k].value \in Readings

\* A step of k that publishes nothing, and after which k holds nothing old.
LEMMA QuietStep ==
  ASSUME FgInv, Steady, NEW k \in Tasks,
         UNCHANGED <<sensor, raw_fg_temperature, settled>>,
         \A j \in Tasks \ {k} : call'[j] = call[j] /\ sample'[j] = sample[j],
         sample'[k].hot => sensor >= 580,
         Unpublished(k)' => sample'[k].value \in Readings,
         settled => ~Overdue(k)'
  PROVE  Steady'
<1>1. RawIsUnmodified'
  BY DEF Steady, RawIsUnmodified
<1>2. ASSUME settled, NEW j \in Tasks PROVE ~Overdue(j)'
  BY <1>2 DEF Steady, Overdue
<1>3. ASSUME NEW j \in Tasks
      PROVE  /\ sample'[j].hot => sensor >= 580
             /\ Unpublished(j)' => sample'[j].value \in Readings
  BY DEF Steady, Unpublished
<1> QED BY <1>1, <1>2, <1>3 DEF Steady

LEMMA VendorSteady ==
  ASSUME ~VendorMayFail, FgInv, Steady, NEW k \in Tasks, VendorStores(k) \/ VendorFails(k)
  PROVE  Steady'
<1>1. PICK r \in Calls : call' = [call EXCEPT ![k] = r] /\ r.arg1 = call[k].arg1
  BY AfterVendorIs DEF FgInv, VendorStores, VendorFails
<1>2. call'[k] = r /\ \A j \in Tasks \ {k} : call'[j] = call[j]
  BY <1>1 DEF FgInv, TypeOK, Calls
<1>3. UNCHANGED <<sensor, raw_fg_temperature, settled>> /\ sensor \in Readings
  BY DEF VendorStores, VendorFails, FgInv, TypeOK
<1>4. \A j \in Tasks \ {k} : sample'[j] = sample[j]
  BY DEF FgInv, TypeOK, VendorStores, VendorFails
<1>5. CASE VendorStores(k)
  <2>1. sample'[k] = [value |-> sensor, hot |-> sensor >= 580, kept |-> TRUE]
    BY <1>5, Zenon DEF FgInv, TypeOK, VendorStores
  <2>2. sample'[k].value = sensor
    BY <2>1
  <2>3. sample'[k].hot = (sensor >= 580)
    BY <2>1
  <2>4. settled => sample'[k].hot
    BY <2>3 DEF Steady
  <2> QED BY <1>2, <1>3, <1>4, <2>2, <2>3, <2>4, QuietStep DEF Overdue
<1>6. CASE VendorFails(k)
  <2>1. call[k].arg1 = NoBuffer
    BY <1>6 DEF VendorFails
  <2>2. ~sample'[k].hot
    BY <1>6 DEF VendorFails, FgInv, TypeOK
  <2> QED BY <1>1, <1>2, <1>3, <1>4, <2>1, <2>2, QuietStep DEF Overdue, Unpublished
<1> QED BY <1>5, <1>6

\* The steps that leave the samples alone and, but for k's call, everything
\* the invariant reads.
LEMMA HandlerSteady ==
  ASSUME FgInv, Steady, NEW k \in Tasks,
         ReadCeiling(k) \/ ReadTemperature(k) \/ ReadSpoof(k) \/ Clamp(k) \/ Load(k) \/ Store(k)
  PROVE  Steady'
<1>0. call[k] \in Calls /\ call \in [Tasks -> Calls]
  BY DEF FgInv, TypeOK, Calls
<1>1. UNCHANGED <<sensor, raw_fg_temperature, settled, sample>>
  BY DEF ReadCeiling, ReadTemperature, ReadSpoof, Clamp, Load, Store, histories
<1>2. PICK r : /\ call' = [call EXCEPT ![k] = r] /\ r.arg1 = call[k].arg1
               /\ r.pc \in {"return", "read", "publish"} =>
                    call[k].pc \in {"return", "read", "publish"}
  <2>1. CASE ReadCeiling(k)
    <3> DEFINE r == [call[k] EXCEPT !.ceiling = temperature_ceiling,
                       !.pc = IF call[k].arg1 = NoBuffer THEN "done" ELSE "read"]
    <3>1. call[k].pc = "return" /\ call' = [call EXCEPT ![k] = r] /\ r.arg1 = call[k].arg1
      BY <1>0, <2>1 DEF ReadCeiling, At, Become, Calls
    <3> QED BY <3>1
  <2>2. CASE ReadTemperature(k)
    <3> DEFINE r == [call[k] EXCEPT !.raw = mem[call[k].arg1], !.pc = "publish"]
    <3>1. call[k].pc = "read" /\ call' = [call EXCEPT ![k] = r] /\ r.arg1 = call[k].arg1
      BY <1>0, <2>2 DEF ReadTemperature, At, Become, Calls
    <3> QED BY <3>1
  <2>3. CASE ReadSpoof(k) \/ Clamp(k) \/ Store(k)
    <3>1. PICK l \in {"done", "clamp", "load"} : Goto(k, l)
      BY <2>3 DEF ReadSpoof, Clamp, Store
    <3> DEFINE r == [call[k] EXCEPT !.pc = l]
    <3>2. call' = [call EXCEPT ![k] = r] /\ r.arg1 = call[k].arg1 /\ r.pc = l
      BY <1>0, <3>1 DEF Goto, Become, Calls
    <3> QED BY <3>2
  <2>4. CASE Load(k)
    <3> DEFINE r == [call[k] EXCEPT !.loaded = temperature_hits, !.pc = "store"]
    <3>1. call' = [call EXCEPT ![k] = r] /\ r.arg1 = call[k].arg1 /\ r.pc = "store"
      BY <1>0, <2>4 DEF Load, Become, Calls
    <3> QED BY <3>1
  <2> QED BY <2>1, <2>2, <2>3, <2>4
<1>3. call'[k] = r /\ \A j \in Tasks \ {k} : call'[j] = call[j]
  BY <1>0, <1>2
<1>4. /\ Unpublished(k)' => Unpublished(k)
      /\ Overdue(k)' => Overdue(k)
  BY <1>1, <1>2, <1>3 DEF Unpublished, Overdue
<1> QED BY <1>1, <1>3, <1>4, QuietStep DEF Steady

LEMMA PublishSteady ==
  ASSUME FgInv, Steady, NEW k \in Tasks, Publish(k)
  PROVE  Steady'
<1>1. call[k] \in Calls /\ Held(k) /\ call[k].pc = "publish" /\ call \in [Tasks -> Calls]
  BY DEF FgInv, TypeOK, Calls, Publish, PublishValue, At
<1>2. call' = [call EXCEPT ![k] = [call[k] EXCEPT !.pc = "spoof"]]
  BY DEF Publish, PublishValue, Goto, Become
<1>3. call'[k].pc = "spoof" /\ \A j \in Tasks \ {k} : call'[j] = call[j]
  BY <1>1, <1>2 DEF Calls
<1>4. /\ raw_fg_temperature' = AsUnsigned(call[k].raw)
      /\ UNCHANGED <<sensor, sample>>
      /\ settled' = (settled \/ \A j \in Tasks : ~Overdue(j))
  BY DEF Publish, PublishValue
<1>5. call[k].raw = sample[k].value /\ call[k].arg1 # NoBuffer /\ Unpublished(k)
  BY <1>1 DEF Held, Handling, Unpublished
<1>6. RawIsUnmodified'
  <2>1. call[k].raw \in Readings
    BY <1>5 DEF Steady
  <2> QED BY <1>4, <2>1 DEF RawIsUnmodified, AsUnsigned
<1>7. ASSUME settled'
      PROVE  /\ \A j \in Tasks : ~Overdue(j)
             /\ sample[k].hot
  <2>1. \A j \in Tasks : ~Overdue(j)
    BY <1>4, <1>7 DEF Steady
  <2> QED BY <1>1, <1>5, <2>1 DEF Overdue
<1>8. ASSUME settled' PROVE raw_fg_temperature' >= 580
  <2> DEFINE v == call[k].raw
  <2>1. v \in 580..1500
    BY <1>1, <1>5, <1>7, <1>8 DEF Held
  <2>2. raw_fg_temperature' = AsUnsigned(v)
    BY <1>4
  <2> HIDE DEF v
  <2>3. AsUnsigned(v) = v
    BY <2>1, HotIsUnchanged
  <2> QED BY <2>1, <2>2, <2>3
<1>9. ASSUME settled' PROVE sensor' >= 580
  BY <1>4, <1>7, <1>9 DEF Steady
<1>10. ASSUME settled', NEW j \in Tasks PROVE ~Overdue(j)'
  BY <1>3, <1>4, <1>7, <1>10 DEF Overdue
<1>11. ASSUME NEW j \in Tasks
       PROVE  /\ sample'[j].hot => sensor' >= 580
              /\ Unpublished(j)' => sample'[j].value \in Readings
  BY <1>3, <1>4 DEF Steady, Unpublished
<1> QED BY <1>6, <1>8, <1>9, <1>10, <1>11 DEF Steady

LEMMA SensorSteady ==
  ASSUME FgInv, Steady, NEW t \in Readings, SensorMoves(t)
  PROVE  Steady'
<1>1. /\ sensor' = t /\ settled' = (settled /\ t >= 580)
      /\ UNCHANGED <<raw_fg_temperature, call>>
  BY DEF SensorMoves
<1>2. ASSUME NEW j \in Tasks
      PROVE  /\ sample'[j].value = sample[j].value
             /\ sample'[j].hot = (sample[j].hot /\ t >= 580)
  <2>1. sample'[j] = [sample[j] EXCEPT !.hot = sample[j].hot /\ t >= 580]
    BY DEF SensorMoves
  <2>2. sample[j] \in Samples
    BY DEF FgInv, TypeOK
  <2> QED BY <2>1, <2>2, Zenon
<1>3. RawIsUnmodified'
  BY <1>1 DEF Steady, RawIsUnmodified
<1>4. ASSUME settled'
      PROVE  settled /\ t >= 580 /\ raw_fg_temperature' >= 580
  BY <1>1, <1>4 DEF Steady
<1>5. ASSUME settled', NEW j \in Tasks PROVE ~Overdue(j)'
  <2>1. sample'[j].hot <=> sample[j].hot
    BY <1>2, <1>4, <1>5
  <2> QED BY <1>1, <1>4, <1>5, <2>1 DEF Steady, Overdue
<1>6. ASSUME NEW j \in Tasks
      PROVE  /\ sample'[j].hot => sensor' >= 580
             /\ Unpublished(j)' => sample'[j].value \in Readings
  BY <1>1, <1>2 DEF Steady, Unpublished
<1> QED BY <1>1, <1>3, <1>4, <1>5, <1>6 DEF Steady

LEMMA NextSteady ==
  ASSUME ~VendorMayFail, FgInv, Steady, [Next]_vars
  PROVE  Steady'
<1>0. call \in [Tasks -> Calls] /\ sample \in [Tasks -> Samples]
  BY DEF FgInv, TypeOK, Calls
<1>1. ASSUME NEW k \in Tasks, NEW p \in Probes, NEW b \in Passes[k], Enter(k, p, b)
      PROVE  Steady'
  <2>1. PICK r : call' = [call EXCEPT ![k] = r] /\ r.pc = "vendor"
    <3>1. IdleCall.pc = "idle" /\ "pc" \in DOMAIN IdleCall
      BY DEF IdleCall
    <3>2. CASE EnterProbed(k, p, b)
      <4> DEFINE r == [IdleCall EXCEPT !.pc = "vendor", !.probe = p, !.probed = TRUE, !.arg1 = b]
      <4>1. r.pc = "vendor" /\ call' = [call EXCEPT ![k] = r]
        BY <3>1, <3>2 DEF EnterProbed, Become
      <4> QED BY <4>1
    <3>3. CASE EnterMissed(k, p, b)
      <4> DEFINE r == [IdleCall EXCEPT !.pc = "vendor", !.probe = p, !.arg1 = b]
      <4>1. r.pc = "vendor" /\ call' = [call EXCEPT ![k] = r]
        BY <3>1, <3>3 DEF EnterMissed, Become
      <4> QED BY <4>1
    <3> QED BY <1>1, <3>2, <3>3 DEF Enter
  <2>2. UNCHANGED <<sensor, raw_fg_temperature, settled, sample>>
    BY <1>1 DEF Enter, EnterProbed, EnterMissed, histories
  <2>3. call'[k].pc = "vendor" /\ \A j \in Tasks \ {k} : call'[j] = call[j]
    BY <1>0, <2>1
  <2> QED BY <2>2, <2>3, QuietStep DEF Steady, Unpublished, Overdue
<1>2. ASSUME NEW k \in Tasks, Progress(k) PROVE Steady'
  <2>1. CASE VendorStores(k) \/ VendorFails(k)
    BY <2>1, VendorSteady
  <2>2. CASE ReadCeiling(k) \/ ReadTemperature(k) \/ ReadSpoof(k) \/ Clamp(k) \/ Load(k)
               \/ Store(k)
    BY <2>2, HandlerSteady
  <2>3. CASE Publish(k)
    BY <2>3, PublishSteady
  <2>4. CASE Return(k)
    <3>1. UNCHANGED <<sensor, raw_fg_temperature, settled>>
      BY <2>4 DEF Return
    <3>2. /\ call'[k].pc = "idle" /\ ~sample'[k].hot
          /\ \A j \in Tasks \ {k} : call'[j] = call[j] /\ sample'[j] = sample[j]
      BY <1>0, <2>4 DEF Return, Become, IdleCall, NoSample
    <3> QED BY <3>1, <3>2, QuietStep DEF Unpublished, Overdue
  <2> QED BY <1>2, <2>1, <2>2, <2>3, <2>4 DEF Progress
<1>3. ASSUME NEW t \in Readings, SensorMoves(t) PROVE Steady'
  BY <1>3, SensorSteady
<1>4. ASSUME NEW s \in SpoofValues, NEW u \in Ceilings, SetParams(s, u) PROVE Steady'
  <2>1. UNCHANGED <<sensor, raw_fg_temperature, settled, call>>
    BY <1>4 DEF SetParams
  <2>2. ASSUME NEW j \in Tasks
        PROVE  sample'[j].value = sample[j].value /\ sample'[j].hot = sample[j].hot
    BY <1>0, <1>4 DEF SetParams
  <2> QED BY <2>1, <2>2 DEF Steady, RawIsUnmodified, Overdue, Unpublished
<1>5. CASE UNCHANGED vars
  BY <1>5 DEF vars, Steady, RawIsUnmodified, Overdue, Unpublished
<1> QED BY <1>1, <1>2, <1>3, <1>4, <1>5 DEF Next

LEMMA InitSteady == Init => Steady
BY DEF Init, Steady, RawIsUnmodified, Unpublished, IdleCall, NoSample

LEMMA SteadyInvariant == PrivateInts /\ ~VendorMayFail /\ Spec => []Steady
<1> SUFFICES ASSUME PrivateInts, ~VendorMayFail PROVE Spec => []Steady
  OBVIOUS
<1>1. FgInv /\ Steady /\ [Next]_vars => FgInv' /\ Steady'
  BY NextInv, NextSteady
<1> QED BY <1>1, InitInv, InitSteady, PTL DEF Spec

\* With the battery at 58 C or more, a reading of that heat published and no
\* call left holding an older one, raw_fg_temperature selects the retain band
\* until the battery cools, for any number of tasks, with probes going and root
\* writing at any time (lines 463-494; README.md:31).  The call that stores
\* nothing is excluded.
THEOREM PublishedStaysHot ==
  PrivateInts /\ ~VendorMayFail /\ Spec => []HotReadingIsPublished
<1>1. Steady => HotReadingIsPublished
  BY DEF Steady, HotReadingIsPublished
<1> QED BY <1>1, SteadyInvariant, PTL

\* raw_fg_temperature is what the vendor's function stored for some call, as an
\* unsigned int, and never what the hooks left there (lines 66-67, 482-488), if
\* no vendor call returns without storing.
THEOREM PublishedIsUnmodified ==
  PrivateInts /\ ~VendorMayFail /\ Spec => []RawIsUnmodified
<1>1. Steady => RawIsUnmodified
  BY DEF Steady
<1> QED BY <1>1, SteadyInvariant, PTL
=============================================================================
