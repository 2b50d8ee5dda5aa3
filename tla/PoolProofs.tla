------------------------------ MODULE PoolProofs ------------------------------
(***************************************************************************)
(* Theorems about InstancePool, for any number of CPUs, calls and          *)
(* instances, any capacity and width of the counters, wherever these stand *)
(* at first: an instance belongs to one call at a time and none is lost.   *)
(***************************************************************************)
EXTENDS InstancePool, FiniteSetTheorems, TLAPS

Numbers == 0..(Modulus - 1)
Activations ==
  [pc: {"idle", "missed", "running"} \cup Searching \cup Returning,
   cpu: CPUs, ring: CPUs, tries: CPUs, head: Numbers, tail: Numbers,
   obj: Instances \cup {None}, held: Instances \cup {None}]
Rings == [head: Numbers, tail: Numbers, last: Numbers, entries: [Cells -> Instances \cup {None}]]

\* The positions of a ring that hold free instances, as values of the
\* counters: [head, last).
Count(c) == Minus(slot[c].last, slot[c].head)
Live(c, q) == q \in Numbers /\ Minus(q, slot[c].head) < Count(c)
Entry(c, q) == slot[c].entries[q % Capacity]

-----------------------------------------------------------------------------
(* The inductive invariant.                                                *)

\* A CPU runs one operation at a time.
Busy(k) == call[k].pc \in Searching \cup Returning
SoloInv == \A j, k \in Calls : j # k /\ Busy(j) /\ Busy(k) => call[j].cpu # call[k].cpu

\* A call has an instance from the compare-and-exchange of its pop to the
\* store to `last' of its push.
HeldBy(k) == IF call[k].pc \in {"running"} \cup Returning
             THEN call[k].held \in Instances ELSE call[k].held = None
HoldInv == \A k \in Calls : HeldBy(k)

\* Instances lie in the rings or are held, each one in one place.
OwnInv ==
  /\ \A c \in CPUs, q \in Numbers : Live(c, q) =>
       Entry(c, q) \in Instances /\ \A k \in Calls : call[k].held # Entry(c, q)
  /\ \A c, d \in CPUs, p, q \in Numbers :
       Live(c, p) /\ Live(d, q) /\ Entry(c, p) = Entry(d, q) => c = d /\ p = q
  /\ \A j, k \in Calls : call[j].held = call[k].held /\ call[k].held # None => j = k
  /\ \A o \in Instances : \/ \E k \in Calls : call[k].held = o
                          \/ \E c \in CPUs, q \in Numbers : Live(c, q) /\ Entry(c, q) = o

\* A push has its CPU's ring to itself: only it moves tail and last.
Filling(k, c) == call[k].pc \in {"put", "publish"} /\ call[k].ring = c
Pushed(k) ==
  LET r == call[k] IN
  /\ r.pc \in Returning => r.ring = r.cpu
  /\ r.pc \in {"warn", "claim"} => r.tail = slot[r.ring].tail
  /\ r.pc = "claim" => Minus(r.tail, r.head) <= NrObjs
  /\ r.pc \in {"put", "publish"} =>
       r.tail = slot[r.ring].last /\ slot[r.ring].tail = Plus(r.tail, 1)
  /\ r.pc = "publish" => Entry(r.ring, r.tail) = r.held
PushInv ==
  /\ \A k \in Calls : Pushed(k)
  /\ \A c \in CPUs : (\A k \in Calls : ~Filling(k, c)) => slot[c].tail = slot[c].last

\* How far a head has moved since a search read it.  Each step it moves ends
\* the search of another call, which was in progress on another CPU when the
\* search began or has begun since, so that the head does not come round.
Sighted == {"last", "stale", "reload", "fetch", "cas"}
SearchingCalls == {k \in Calls : call[k].pc \in Searching}
Moved(k) == Minus(slot[call[k].ring].head, call[k].head)
Overlapped(k) == call[k].pc \in Sighted =>
                   Moved(k) + Cardinality(SearchingCalls) <= overlap[k] + NumCPUs
MoveInv == \A k \in Calls : Overlapped(k)

\* What a search has read.  While the head is the one it read, so is the entry.
Searched(k) ==
  LET r == call[k] IN
  /\ r.pc \in {"stale", "fetch", "cas"} /\ r.head = slot[r.ring].head => Count(r.ring) > 0
  /\ r.pc = "cas" /\ r.head = slot[r.ring].head => r.obj = Entry(r.ring, r.head)
SearchInv == \A k \in Calls : Searched(k)

\* How many rings after CPU a's own the ring of d is looked into.
Turn(a, d) == IF d >= a THEN d - a ELSE d + NumCPUs - a

\* An instance that rests lies ahead of the search, at a position that it did
\* not go past when it read the head.
Ahead(k, d, q) ==
  LET r == call[k] IN
  /\ Turn(r.cpu, d) >= r.tries
  /\ d = r.ring /\ r.pc # "head" => Minus(q, r.head) < NrObjs
Rested(k) ==
  /\ call[k].pc \in Searching =>
       /\ Turn(call[k].cpu, call[k].ring) = call[k].tries
       /\ \A o \in resting[k] :
            \E d \in CPUs, q \in Numbers : Live(d, q) /\ Entry(d, q) = o /\ Ahead(k, d, q)
  /\ call[k].pc = "missed" => resting[k] = {}
RestInv == \A k \in Calls : Rested(k)

PoolInv ==
  TypeOK /\ SoloInv /\ HoldInv /\ OwnInv /\ PushInv /\ MoveInv /\ SearchInv /\ RestInv

\* There is room for an instance that is held.
RoomInv ==
  \A c \in CPUs :
    /\ Count(c) <= NrObjs
    /\ \A k \in Calls : call[k].held # None => Count(c) < NrObjs
-----------------------------------------------------------------------------
(* Arithmetic of the counters.                                             *)

LEMMA ConstantsAre ==
  /\ Modulus \in Nat /\ Capacity \in Nat /\ Capacity > 0 /\ Modulus > Capacity
  /\ NumCPUs \in Nat /\ NumCPUs > 0
  /\ NrObjs \in Nat /\ NrObjs <= Capacity
BY RingAssumption, FS_CardinalityType DEF NrObjs

LEMMA RingsFit == \E m \in Nat : Modulus = Capacity * m /\ m >= 2
<1>1. Modulus = (Capacity * (Modulus \div Capacity)) + (Modulus % Capacity)
  BY RingAssumption
<1>2. Modulus \div Capacity \in Nat
  BY RingAssumption
<1>3. Modulus % Capacity = 0
  BY RingAssumption
<1> DEFINE m == Modulus \div Capacity
<1>4. m \in Nat /\ Modulus = Capacity * m
  BY <1>1, <1>2, <1>3, ConstantsAre
<1> HIDE DEF m
<1>5. m # 0 /\ m # 1
  BY <1>4, ConstantsAre
<1>6. m >= 2
  BY <1>4, <1>5
<1> QED BY <1>4, <1>6

LEMMA Remainders ==
  /\ \A m, z \in Nat : z < m => z % m = z
  /\ \A m, z \in Nat : m <= z /\ z < 2 * m => z % m = z - m
<1>1. ASSUME NEW m \in Nat, NEW z \in Nat, z < m PROVE z % m = z
  BY <1>1
<1>2. ASSUME NEW m \in Nat, NEW z \in Nat, m <= z, z < 2 * m PROVE z % m = z - m
  BY <1>2
<1> QED BY <1>1, <1>2

LEMMA PlusIs ==
  ASSUME NEW x \in Numbers, NEW y \in Numbers
  PROVE  /\ Plus(x, y) \in Numbers
         /\ Plus(x, y) = IF x + y >= Modulus THEN (x + y) - Modulus ELSE x + y
<1>1. x + y \in Nat /\ x + y < 2 * Modulus
  BY ConstantsAre DEF Numbers
<1>2. CASE x + y >= Modulus
  <2>1. Plus(x, y) = (x + y) - Modulus
    BY <1>1, <1>2, Remainders, ConstantsAre DEF Plus
  <2> QED BY <1>1, <1>2, <2>1, ConstantsAre DEF Numbers
<1>3. CASE x + y < Modulus
  <2>1. Plus(x, y) = x + y
    BY <1>1, <1>3, Remainders, ConstantsAre DEF Plus
  <2> QED BY <1>1, <1>3, <2>1, ConstantsAre DEF Numbers
<1> QED BY <1>1, <1>2, <1>3, ConstantsAre

LEMMA OneIsNumber == 0 \in Numbers /\ 1 \in Numbers /\ Start \in Numbers
BY ConstantsAre, RingAssumption DEF Numbers

LEMMA PlusOne ==
  ASSUME NEW x \in Numbers
  PROVE  Plus(x, 1) \in Numbers /\ Plus(x, 1) = IF x + 1 = Modulus THEN 0 ELSE x + 1
<1>1. Plus(x, 1) \in Numbers /\ Plus(x, 1) = IF x + 1 >= Modulus THEN (x + 1) - Modulus ELSE x + 1
  BY OneIsNumber, PlusIs
<1>2. x \in Nat /\ x < Modulus /\ Modulus \in Nat
  BY ConstantsAre DEF Numbers
<1> QED BY <1>1, <1>2

LEMMA MinusIs ==
  ASSUME NEW x \in Numbers, NEW y \in Numbers
  PROVE  /\ Minus(x, y) \in Numbers
         /\ Minus(x, y) = IF x >= y THEN x - y ELSE x + Modulus - y
<1>1. CASE x >= y
  <2>1. x + Modulus - y \in Nat /\ Modulus <= x + Modulus - y /\ x + Modulus - y < 2 * Modulus
    BY <1>1, ConstantsAre DEF Numbers
  <2>2. Minus(x, y) = (x + Modulus - y) - Modulus
    BY <2>1, Remainders, ConstantsAre DEF Minus
  <2>3. (x + Modulus - y) - Modulus = x - y
    BY ConstantsAre DEF Numbers
  <2> QED BY <2>2, <2>3, <1>1, ConstantsAre DEF Numbers
<1>2. CASE x < y
  <2>1. x + Modulus - y \in Nat /\ x + Modulus - y < Modulus
    BY <1>2, ConstantsAre DEF Numbers
  <2>2. Minus(x, y) = x + Modulus - y
    BY <2>1, Remainders, ConstantsAre DEF Minus
  <2> QED BY <2>1, <2>2, <1>2, ConstantsAre DEF Numbers
<1> QED BY <1>1, <1>2 DEF Numbers

\* Fewer than Capacity positions in a row have cells of their own.
LEMMA CellsDiffer ==
  ASSUME NEW x \in Numbers, NEW y \in Numbers, x # y, Minus(x, y) < Capacity
  PROVE  x % Capacity # y % Capacity
<1> SUFFICES ASSUME x % Capacity = y % Capacity PROVE FALSE
  OBVIOUS
<1>1. PICK m \in Nat : Modulus = Capacity * m
  BY RingsFit
<1> DEFINE u == x \div Capacity
           v == y \div Capacity
<1>2. u \in Int /\ v \in Int /\ x = (Capacity * u) + (x % Capacity)
      /\ y = (Capacity * v) + (y % Capacity)
  BY ConstantsAre DEF Numbers
<1>3. x - y = (Capacity * u) - (Capacity * v)
  BY <1>2, ConstantsAre DEF Numbers
<1>4. x - y = Capacity * (u - v)
  BY <1>2, <1>3, ConstantsAre
<1>5. ASSUME NEW w \in Int, NEW z \in Int, z = Capacity * w, 0 < z, z < Capacity PROVE FALSE
  BY <1>5, ConstantsAre
<1> HIDE DEF u, v
<1>6. CASE x >= y
  <2>1. x - y \in Int /\ u - v \in Int /\ 0 < x - y /\ x - y < Capacity
    BY <1>2, <1>6, MinusIs DEF Numbers
  <2> QED BY <1>4, <1>5, <2>1
<1>7. CASE x < y
  <2>1. x + Modulus - y \in Int /\ (u - v) + m \in Int
        /\ 0 < x + Modulus - y /\ x + Modulus - y < Capacity
    BY <1>2, <1>7, MinusIs, ConstantsAre DEF Numbers
  <2>2. x + Modulus - y = (Capacity * (u - v)) + (Capacity * m)
    BY <1>1, <1>4, ConstantsAre DEF Numbers
  <2>3. x + Modulus - y = Capacity * ((u - v) + m)
    BY <2>2, <1>2, ConstantsAre
  <2> QED BY <1>5, <2>1, <2>3
<1> QED BY <1>6, <1>7 DEF Numbers

LEMMA CellIs == \A x \in Numbers : x % Capacity \in Cells
BY ConstantsAre DEF Numbers, Cells


\* The counters as offsets from the head of a ring.
LEMMA Offset ==
  ASSUME NEW h \in Numbers
  PROVE  /\ \A j \in Numbers : Plus(h, j) \in Numbers /\ Minus(Plus(h, j), h) = j
         /\ \A q \in Numbers : Plus(h, Minus(q, h)) = q /\ Minus(q, h) \in Numbers
         /\ \A p, q \in Numbers : Minus(p, h) = Minus(q, h) => p = q
         /\ Minus(h, h) = 0
<1>1. ASSUME NEW j \in Numbers PROVE Plus(h, j) \in Numbers /\ Minus(Plus(h, j), h) = j
  <2>1. Plus(h, j) \in Numbers
        /\ Plus(h, j) = IF h + j >= Modulus THEN (h + j) - Modulus ELSE h + j
    BY PlusIs
  <2>2. Minus(Plus(h, j), h) =
          IF Plus(h, j) >= h THEN Plus(h, j) - h ELSE Plus(h, j) + Modulus - h
    BY <2>1, MinusIs
  <2> QED BY <2>1, <2>2, ConstantsAre DEF Numbers
<1>2. ASSUME NEW q \in Numbers PROVE Plus(h, Minus(q, h)) = q /\ Minus(q, h) \in Numbers
  <2> DEFINE d == Minus(q, h)
  <2>1. d \in Numbers /\ d = IF q >= h THEN q - h ELSE q + Modulus - h
    BY MinusIs
  <2> HIDE DEF d
  <2>2. Plus(h, d) = IF h + d >= Modulus THEN (h + d) - Modulus ELSE h + d
    BY <2>1, PlusIs
  <2>3. Plus(h, d) = q
    BY <2>1, <2>2, ConstantsAre DEF Numbers
  <2> QED BY <2>1, <2>3 DEF d
<1>3. Minus(h, h) = 0
  BY MinusIs, ConstantsAre DEF Numbers
<1> QED BY <1>1, <1>2, <1>3

\* A ring whose head moves on.
LEMMA HeadMoves ==
  ASSUME NEW h \in Numbers, NEW l \in Numbers, Minus(l, h) > 0
  PROVE  /\ Minus(l, Plus(h, 1)) = Minus(l, h) - 1
         /\ \A q \in Numbers :
              Minus(q, Plus(h, 1)) < Minus(l, Plus(h, 1)) <=>
                Minus(q, h) < Minus(l, h) /\ q # h
         /\ \A s \in Numbers :
              Minus(h, s) + 1 < Modulus => Minus(Plus(h, 1), s) = Minus(h, s) + 1
<1> DEFINE g == Plus(h, 1)
<1>1. g \in Numbers /\ g = IF h + 1 = Modulus THEN 0 ELSE h + 1
  BY PlusOne
<1> HIDE DEF g
<1>2. \A q \in Numbers : /\ Minus(q, g) = IF q >= g THEN q - g ELSE q + Modulus - g
                         /\ Minus(q, h) = IF q >= h THEN q - h ELSE q + Modulus - h
  BY <1>1, MinusIs
<1>3. h # l
  BY Offset
<1>4. Minus(l, g) = Minus(l, h) - 1
  BY <1>1, <1>2, <1>3, ConstantsAre DEF Numbers
<1>5. \A q \in Numbers : Minus(q, g) < Minus(l, g) <=> Minus(q, h) < Minus(l, h) /\ q # h
  BY <1>1, <1>2, <1>3, ConstantsAre DEF Numbers
<1>6. ASSUME NEW s \in Numbers, Minus(h, s) + 1 < Modulus PROVE Minus(g, s) = Minus(h, s) + 1
  <2>1. /\ Minus(h, s) = IF h >= s THEN h - s ELSE h + Modulus - s
        /\ Minus(g, s) = IF g >= s THEN g - s ELSE g + Modulus - s
    BY <1>1, MinusIs
  <2> QED BY <1>1, <1>6, <2>1, ConstantsAre DEF Numbers
<1> QED BY <1>4, <1>5, <1>6 DEF g

\* A ring whose last moves on.
LEMMA LastMoves ==
  ASSUME NEW h \in Numbers, NEW l \in Numbers, Minus(l, h) + 1 < Modulus
  PROVE  /\ Minus(Plus(l, 1), h) = Minus(l, h) + 1
         /\ \A q \in Numbers :
              Minus(q, h) < Minus(Plus(l, 1), h) <=> Minus(q, h) < Minus(l, h) \/ q = l
<1> DEFINE m == Plus(l, 1)
<1>1. m \in Numbers /\ m = IF l + 1 = Modulus THEN 0 ELSE l + 1
  BY PlusOne
<1> HIDE DEF m
<1>2. \A q \in Numbers : Minus(q, h) = IF q >= h THEN q - h ELSE q + Modulus - h
  BY MinusIs
<1>3. Minus(m, h) = Minus(l, h) + 1
  BY <1>1, <1>2, ConstantsAre DEF Numbers
<1>4. \A q \in Numbers : Minus(q, h) \in Int /\ (Minus(q, h) = Minus(l, h) <=> q = l)
  <2>1. \A q \in Numbers : Minus(q, h) \in Numbers
    BY MinusIs
  <2>2. Numbers \subseteq Int
    BY DEF Numbers
  <2> QED BY <2>1, <2>2, Offset
<1>5. \A q \in Numbers : Minus(q, h) < Minus(m, h) <=> Minus(q, h) < Minus(l, h) \/ q = l
  BY <1>3, <1>4
<1> QED BY <1>3, <1>5 DEF m

\* The cell that last names is not one of a free instance, and the cell that
\* head names is only that of the first one.
LEMMA CellsApart ==
  ASSUME NEW h \in Numbers, NEW l \in Numbers, NEW q \in Numbers,
         Minus(l, h) < Capacity, Minus(q, h) < Minus(l, h)
  PROVE  q % Capacity # l % Capacity
<1>1. /\ Minus(l, q) = IF l >= q THEN l - q ELSE l + Modulus - q
      /\ Minus(l, h) = IF l >= h THEN l - h ELSE l + Modulus - h
      /\ Minus(q, h) = IF q >= h THEN q - h ELSE q + Modulus - h
  BY MinusIs
<1>2. l # q /\ Minus(l, q) < Capacity
  BY <1>1, ConstantsAre DEF Numbers
<1> QED BY <1>2, CellsDiffer

-----------------------------------------------------------------------------
(* The states of the pool.                                                 *)

LEMMA Typed ==
  ASSUME TypeOK
  PROVE  /\ call \in [Calls -> Activations] /\ slot \in [CPUs -> Rings]
         /\ \A c \in CPUs : /\ slot[c].head \in Numbers /\ slot[c].tail \in Numbers
                            /\ slot[c].last \in Numbers /\ Count(c) \in Numbers
         /\ \A c \in CPUs, q \in Numbers : Entry(c, q) \in Instances \cup {None}
<1>1. call \in [Calls -> Activations] /\ slot \in [CPUs -> Rings]
  BY DEF TypeOK, Activations, Rings, Numbers
<1>2. ASSUME NEW c \in CPUs
      PROVE  /\ slot[c].head \in Numbers /\ slot[c].tail \in Numbers /\ slot[c].last \in Numbers
             /\ slot[c].entries \in [Cells -> Instances \cup {None}]
  BY DEF TypeOK, Numbers
<1>3. \A c \in CPUs : Count(c) \in Numbers
  BY <1>2, MinusIs DEF Count
<1> QED BY <1>1, <1>2, <1>3, CellIs DEF Entry

\* There is room for an instance that is held: what is free and what is held
\* are different instances.
LEMMA Room == TypeOK /\ OwnInv => RoomInv
<1> SUFFICES ASSUME TypeOK, OwnInv, NEW c \in CPUs
             PROVE  /\ Count(c) <= NrObjs
                    /\ \A k \in Calls : call[k].held # None => Count(c) < NrObjs
  BY DEF RoomInv
<1> DEFINE h == slot[c].head
           S == 0..(Count(c) - 1)
           f == [j \in S |-> Entry(c, Plus(h, j))]
<1>1. h \in Numbers /\ Count(c) \in Nat /\ S \subseteq Numbers
  <2>1. h \in Numbers /\ Count(c) \in Numbers
    BY Typed
  <2> QED BY <2>1, ConstantsAre DEF Numbers
<1>2. ASSUME NEW j \in S PROVE Plus(h, j) \in Numbers /\ Live(c, Plus(h, j))
  <2>1. Plus(h, j) \in Numbers /\ Minus(Plus(h, j), h) = j
    BY <1>1, Offset
  <2> QED BY <1>1, <2>1 DEF Live
<1>3. \A i, j \in S : f[i] = f[j] => i = j
  <2> SUFFICES ASSUME NEW i \in S, NEW j \in S, f[i] = f[j] PROVE i = j
    OBVIOUS
  <2>1. Plus(h, i) = Plus(h, j)
    BY <1>2 DEF OwnInv
  <2> QED BY <1>1, <2>1, Offset
<1>4. Cardinality(S) = Count(c)
  BY <1>1, FS_Interval
<1>5. ASSUME NEW T, IsFiniteSet(T), \A j \in S : f[j] \in T PROVE Count(c) <= Cardinality(T)
  <2>1. f \in Injection(S, T)
    BY <1>3, <1>5 DEF Injection, IsInjective
  <2> QED BY <1>4, <1>5, <2>1, FS_Injection
<1>6. Count(c) <= NrObjs
  <2>1. \A j \in S : f[j] \in Instances
    BY <1>2 DEF OwnInv
  <2>2. IsFiniteSet(Instances)
    BY RingAssumption
  <2>3. Count(c) <= Cardinality(Instances)
    BY <1>5, <2>1, <2>2
  <2> QED BY <2>3 DEF NrObjs
<1>7. ASSUME NEW k \in Calls, call[k].held # None PROVE Count(c) < NrObjs
  <2> DEFINE T == Instances \ {call[k].held}
  <2>1. call[k].held \in Instances
    BY <1>7, Typed DEF Activations
  <2>2. IsFiniteSet(T) /\ Cardinality(T) = NrObjs - 1
    <3>1. IsFiniteSet(Instances)
      BY RingAssumption
    <3> QED BY <2>1, <3>1, FS_RemoveElement DEF NrObjs
  <2>3. \A j \in S : f[j] \in T
    BY <1>2 DEF OwnInv
  <2>4. Count(c) <= Cardinality(T)
    BY <1>5, <2>2, <2>3
  <2> QED BY <1>1, <2>2, <2>4, ConstantsAre
<1> QED BY <1>6, <1>7

-----------------------------------------------------------------------------
(* The stores to a ring, and what they do to its free instances.           *)

LEMMA NothingMoves ==
  ASSUME TypeOK, UNCHANGED slot
  PROVE  /\ slot' \in [CPUs -> Rings]
         /\ \A c \in CPUs : slot'[c] = slot[c] /\ Count(c)' = Count(c)
         /\ \A c \in CPUs, q \in Numbers : (Live(c, q)' <=> Live(c, q)) /\ Entry(c, q)' = Entry(c, q)
BY Typed DEF Count, Live, Entry

LEMMA Take ==
  ASSUME TypeOK, NEW e \in CPUs, Count(e) > 0,
         slot' = [slot EXCEPT ![e].head = Plus(slot[e].head, 1)]
  PROVE  /\ slot' \in [CPUs -> Rings]
         /\ \A c \in CPUs : /\ slot'[c].tail = slot[c].tail /\ slot'[c].last = slot[c].last
                            /\ c # e => slot'[c].head = slot[c].head /\ Count(c)' = Count(c)
         /\ slot'[e].head = Plus(slot[e].head, 1)
         /\ \A c \in CPUs, q \in Numbers :
              /\ Live(c, q)' <=> Live(c, q) /\ (c = e => q # slot[e].head)
              /\ Entry(c, q)' = Entry(c, q)
<1> DEFINE h == slot[e].head
           g == Plus(h, 1)
<1>1. h \in Numbers /\ slot[e].last \in Numbers /\ g \in Numbers
  BY Typed, PlusOne
<1> HIDE DEF g
<1>2. /\ slot' \in [CPUs -> Rings]
      /\ \A c \in CPUs : /\ slot'[c].tail = slot[c].tail /\ slot'[c].last = slot[c].last
                         /\ slot'[c].entries = slot[c].entries
                         /\ c # e => slot'[c].head = slot[c].head
      /\ slot'[e].head = g
  <2>1. slot \in [CPUs -> Rings] /\ slot' = [slot EXCEPT ![e].head = g]
    BY Typed DEF g
  <2> QED BY <1>1, <2>1 DEF Rings
<1>3. \A c \in CPUs : c # e => Count(c)' = Count(c)
  BY <1>2 DEF Count
<1>4. ASSUME NEW c \in CPUs, NEW q \in Numbers
      PROVE  Live(c, q)' <=> Live(c, q) /\ (c = e => q # h)
  <2>1. CASE c # e
    BY <1>2, <1>3, <2>1 DEF Live
  <2>2. CASE c = e
    <3>1. Minus(q, g) < Minus(slot[e].last, g) <=> Minus(q, h) < Minus(slot[e].last, h) /\ q # h
      BY <1>1, HeadMoves DEF Count, g
    <3> QED BY <1>2, <2>2, <3>1 DEF Live, Count
  <2> QED BY <2>1, <2>2
<1> QED BY <1>2, <1>3, <1>4 DEF Entry, g

LEMMA ClaimsTail ==
  ASSUME TypeOK, NEW e \in CPUs, NEW n \in Numbers, slot' = [slot EXCEPT ![e].tail = n]
  PROVE  /\ slot' \in [CPUs -> Rings]
         /\ \A c \in CPUs : /\ slot'[c].head = slot[c].head /\ slot'[c].last = slot[c].last
                            /\ c # e => slot'[c].tail = slot[c].tail
                            /\ Count(c)' = Count(c)
         /\ slot'[e].tail = n
         /\ \A c \in CPUs, q \in Numbers : (Live(c, q)' <=> Live(c, q)) /\ Entry(c, q)' = Entry(c, q)
<1>1. /\ slot' \in [CPUs -> Rings]
      /\ \A c \in CPUs : /\ slot'[c].head = slot[c].head /\ slot'[c].last = slot[c].last
                         /\ slot'[c].entries = slot[c].entries
                         /\ c # e => slot'[c].tail = slot[c].tail
      /\ slot'[e].tail = n
  BY Typed DEF Rings
<1> QED BY <1>1 DEF Count, Live, Entry

LEMMA Fills ==
  ASSUME TypeOK, NEW e \in CPUs, Count(e) < Capacity, NEW o \in Instances,
         slot' = [slot EXCEPT ![e].entries[slot[e].last % Capacity] = o]
  PROVE  /\ slot' \in [CPUs -> Rings]
         /\ \A c \in CPUs : /\ slot'[c].head = slot[c].head /\ slot'[c].last = slot[c].last
                            /\ slot'[c].tail = slot[c].tail /\ Count(c)' = Count(c)
         /\ \A c \in CPUs, q \in Numbers :
              /\ Live(c, q)' <=> Live(c, q)
              /\ Live(c, q) \/ c # e => Entry(c, q)' = Entry(c, q)
         /\ Entry(e, slot[e].last)' = o
<1> DEFINE l == slot[e].last
           cell == l % Capacity
<1>1. slot[e].head \in Numbers /\ l \in Numbers /\ cell \in Cells
  BY Typed, CellIs
<1> HIDE DEF cell
<1>2. /\ slot' \in [CPUs -> Rings]
      /\ \A c \in CPUs : /\ slot'[c].head = slot[c].head /\ slot'[c].last = slot[c].last
                         /\ slot'[c].tail = slot[c].tail
                         /\ c # e => slot'[c].entries = slot[c].entries
      /\ slot'[e].entries = [slot[e].entries EXCEPT ![cell] = o]
  <2>1. slot \in [CPUs -> Rings] /\ slot' = [slot EXCEPT ![e].entries[cell] = o]
    BY Typed DEF cell
  <2> QED BY <1>1, <2>1, SMTT(60) DEF Rings
<1>3. \A c \in CPUs : Count(c)' = Count(c)
  BY <1>2 DEF Count
<1>4. \A c \in CPUs, q \in Numbers : Live(c, q)' <=> Live(c, q)
  BY <1>2, <1>3 DEF Live
<1>5. slot[e].entries \in [Cells -> Instances \cup {None}]
  BY Typed DEF Rings
<1>6. ASSUME NEW q \in Numbers, Live(e, q) PROVE Entry(e, q)' = Entry(e, q)
  <2>1. q % Capacity # cell /\ q % Capacity \in Cells
    BY <1>1, <1>6, CellsApart, CellIs DEF Live, Count, cell
  <2> QED BY <1>2, <1>5, <2>1 DEF Entry
<1>7. Entry(e, l)' = o
  BY <1>1, <1>2, <1>5 DEF Entry, cell
<1> QED BY <1>2, <1>3, <1>4, <1>6, <1>7 DEF Entry

LEMMA Frees ==
  ASSUME TypeOK, NEW e \in CPUs, Count(e) + 1 < Modulus,
         slot' = [slot EXCEPT ![e].last = Plus(slot[e].last, 1)]
  PROVE  /\ slot' \in [CPUs -> Rings]
         /\ \A c \in CPUs : /\ slot'[c].head = slot[c].head /\ slot'[c].tail = slot[c].tail
                            /\ c # e => slot'[c].last = slot[c].last /\ Count(c)' = Count(c)
         /\ slot'[e].last = Plus(slot[e].last, 1)
         /\ Count(e)' = Count(e) + 1
         /\ \A c \in CPUs, q \in Numbers :
              /\ Live(c, q)' <=> Live(c, q) \/ (c = e /\ q = slot[e].last)
              /\ Entry(c, q)' = Entry(c, q)
<1> DEFINE h == slot[e].head
           l == slot[e].last
           m == Plus(l, 1)
<1>1. h \in Numbers /\ l \in Numbers /\ m \in Numbers
  BY Typed, PlusOne
<1> HIDE DEF m
<1>2. /\ slot' \in [CPUs -> Rings]
      /\ \A c \in CPUs : /\ slot'[c].head = slot[c].head /\ slot'[c].tail = slot[c].tail
                         /\ slot'[c].entries = slot[c].entries
                         /\ c # e => slot'[c].last = slot[c].last
      /\ slot'[e].last = m
  <2>1. slot \in [CPUs -> Rings] /\ slot' = [slot EXCEPT ![e].last = m]
    BY Typed DEF m
  <2> QED BY <1>1, <2>1 DEF Rings
<1>3. /\ Minus(m, h) = Minus(l, h) + 1
      /\ \A q \in Numbers : Minus(q, h) < Minus(m, h) <=> Minus(q, h) < Minus(l, h) \/ q = l
  BY <1>1, LastMoves DEF Count, m
<1>4. \A c \in CPUs : IF c = e THEN Count(c)' = Count(c) + 1 ELSE Count(c)' = Count(c)
  BY <1>2, <1>3 DEF Count
<1>5. ASSUME NEW c \in CPUs, NEW q \in Numbers
      PROVE  Live(c, q)' <=> Live(c, q) \/ (c = e /\ q = l)
  <2>1. CASE c # e
    BY <1>2, <1>4, <2>1 DEF Live
  <2>2. CASE c = e
    BY <1>2, <1>3, <2>2 DEF Live, Count
  <2> QED BY <2>1, <2>2
<1> QED BY <1>2, <1>4, <1>5 DEF Entry, m

-----------------------------------------------------------------------------
(* What the steps of a call do to it.                                      *)

Moves(k) == call' \in [Calls -> Activations] /\ \A j \in Calls \ {k} : call'[j] = call[j]

LEMMA MoveIs ==
  ASSUME TypeOK, NEW k \in Calls, NEW s \in Activations, call' = [call EXCEPT ![k] = s]
  PROVE  Moves(k) /\ call'[k] = s
BY Typed DEF Moves

LEMMA IdleIs ==
  /\ IdleCall \in Activations /\ IdleCall.pc = "idle" /\ IdleCall.held = None
  /\ 0 \in CPUs
BY ConstantsAre DEF IdleCall, Activations, Numbers, CPUs

LEMMA EnterIs ==
  ASSUME TypeOK, NEW k \in Calls, NEW c \in CPUs, Enter(k, c)
  PROVE  /\ Moves(k) /\ call[k].pc = "idle" /\ call'[k].pc = "head"
         /\ call'[k].cpu = c /\ call'[k].ring = c /\ call'[k].tries = 0
         /\ call'[k].held = None /\ Free(c) /\ UNCHANGED slot
         /\ calls' = calls + 1 /\ calls' \in 0..MaxCalls
         /\ overlap' \in [Calls -> 0..MaxOverlap]
         /\ \A j \in Calls : call[j].pc \in Searching => overlap'[j] = overlap[j] + 1
         /\ resting' = [resting EXCEPT ![k] = UNION {InRing(d) : d \in CPUs}]
<1> DEFINE s == [IdleCall EXCEPT !.pc = "head", !.cpu = c, !.ring = c]
<1>1. s \in Activations
  BY IdleIs DEF Activations, Searching
<1>2. s.pc = "head" /\ s.cpu = c /\ s.ring = c /\ s.tries = 0 /\ s.held = None
  BY DEF IdleCall
<1>3. call' = [call EXCEPT ![k] = s]
  BY DEF Enter
<1> HIDE DEF s
<1>4. Moves(k) /\ call'[k] = s
  BY <1>1, <1>3, MoveIs
<1>5. calls' \in 0..MaxCalls
  BY RingAssumption DEF Enter, TypeOK
<1>6. overlap' \in [Calls -> 0..MaxOverlap]
  BY RingAssumption DEF Enter, TypeOK
<1>7. \A j \in Calls : call[j].pc \in Searching => overlap'[j] = overlap[j] + 1
  BY DEF Enter
<1> QED BY <1>2, <1>4, <1>5, <1>6, <1>7 DEF Enter, At

\* A step of a search that stores nothing.
LoadsHead(r, s) ==
  /\ r.pc \in {"head", "reload", "cas"} /\ s.pc = "last"
  /\ s.head = slot[r.ring].head /\ s.ring = r.ring /\ s.tries = r.tries
Finds(r, s) ==
  /\ r.pc = "last" /\ s.pc = "stale" /\ r.head # slot[r.ring].last
  /\ s.head = r.head /\ s.ring = r.ring /\ s.tries = r.tries
GoesOn(r, s) ==
  /\ r.pc = "last" /\ s.pc = "head" /\ r.head = slot[r.ring].last
  /\ r.tries + 1 < NumCPUs /\ s.ring = (r.ring + 1) % NumCPUs /\ s.tries = r.tries + 1
GivesUp(r, s) ==
  /\ r.pc = "last" /\ s.pc = "missed" /\ r.head = slot[r.ring].last
  /\ r.tries + 1 >= NumCPUs
Checks(r, s) ==
  /\ r.pc = "stale" /\ s.pc \in {"reload", "fetch"}
  /\ s.head = r.head /\ s.ring = r.ring /\ s.tries = r.tries
Fetches(r, s) ==
  /\ r.pc = "fetch" /\ s.pc = "cas" /\ s.obj = Entry(r.ring, r.head)
  /\ s.head = r.head /\ s.ring = r.ring /\ s.tries = r.tries

Looks(k) ==
  /\ Moves(k) /\ UNCHANGED <<slot, calls, overlap, resting>>
  /\ call'[k].cpu = call[k].cpu /\ call'[k].held = call[k].held
  /\ \/ LoadsHead(call[k], call'[k])
     \/ Finds(call[k], call'[k])
     \/ GoesOn(call[k], call'[k])
     \/ GivesUp(call[k], call'[k])
     \/ Checks(call[k], call'[k])
     \/ Fetches(call[k], call'[k])

LEMMA LooksIs ==
  ASSUME TypeOK, NEW k \in Calls,
         \/ LoadHead(k) \/ LoadLast(k) \/ CheckStale(k) \/ Reload(k) \/ Fetch(k)
         \/ Cas(k) /\ slot[call[k].ring].head # call[k].head
  PROVE  Looks(k)
<1> DEFINE r == call[k]
           h == slot[r.ring].head
<1>1. r \in Activations /\ h \in Numbers /\ r.ring \in CPUs
  BY Typed DEF Activations
<1>2. ASSUME NEW s \in Activations, Continue(k, s), s.cpu = r.cpu, s.held = r.held,
             \/ LoadsHead(r, s) \/ Finds(r, s) \/ GoesOn(r, s) \/ GivesUp(r, s)
             \/ Checks(r, s) \/ Fetches(r, s)
      PROVE  Looks(k)
  <2>1. Moves(k) /\ call'[k] = s /\ UNCHANGED <<slot, calls, overlap, resting>>
    BY <1>2, MoveIs DEF Continue
  <2> QED BY <1>2, <2>1 DEF Looks
<1>3. CASE LoadHead(k) \/ Reload(k) \/ (Cas(k) /\ slot[call[k].ring].head # call[k].head)
  <2> DEFINE s == [r EXCEPT !.pc = "last", !.head = h]
  <2>1. Continue(k, s) /\ r.pc \in {"head", "reload", "cas"}
    BY <1>3 DEF LoadHead, Reload, Cas, TakeIf, At
  <2>2. s \in Activations /\ s.cpu = r.cpu /\ s.held = r.held /\ s.pc = "last" /\ s.head = h
        /\ s.ring = r.ring /\ s.tries = r.tries
    BY <1>1 DEF Activations, Searching
  <2> HIDE DEF s
  <2> QED BY <1>2, <2>1, <2>2 DEF LoadsHead
<1>4. CASE LoadLast(k)
  <2>1. r.pc = "last"
    BY <1>4 DEF LoadLast, SearchUpTo, At
  <2>2. CASE r.head # slot[r.ring].last
    <3> DEFINE s == [r EXCEPT !.pc = "stale"]
    <3>1. Continue(k, s)
      BY <1>4, <2>2 DEF LoadLast, SearchUpTo
    <3>2. s \in Activations /\ s.cpu = r.cpu /\ s.held = r.held /\ s.pc = "stale"
          /\ s.head = r.head /\ s.ring = r.ring /\ s.tries = r.tries
      BY <1>1 DEF Activations, Searching
    <3> HIDE DEF s
    <3> QED BY <1>2, <2>1, <2>2, <3>1, <3>2 DEF Finds
  <2>3. CASE r.head = slot[r.ring].last /\ r.tries + 1 < NumCPUs
    <3> DEFINE next == (r.ring + 1) % NumCPUs
               s == [r EXCEPT !.pc = "head", !.ring = next, !.tries = r.tries + 1]
    <3>1. Continue(k, [r EXCEPT !.pc = "head", !.ring = (@ + 1) % NumCPUs, !.tries = @ + 1])
      BY <1>4, <2>3 DEF LoadLast, SearchUpTo
    <3>2. Continue(k, s)
      BY <3>1
    <3>3. next \in CPUs /\ r.tries + 1 \in CPUs
      BY <1>1, <2>3, ConstantsAre DEF CPUs, Activations
    <3> HIDE DEF next
    <3>4. s \in Activations /\ s.cpu = r.cpu /\ s.held = r.held /\ s.pc = "head"
          /\ s.ring = next /\ s.tries = r.tries + 1
      BY <1>1, <3>3 DEF Activations, Searching
    <3> HIDE DEF s
    <3> QED BY <1>2, <2>1, <2>3, <3>2, <3>4 DEF GoesOn, next
  <2>4. CASE r.head = slot[r.ring].last /\ ~(r.tries + 1 < NumCPUs)
    <3> DEFINE s == [r EXCEPT !.pc = "missed"]
    <3>1. Continue(k, s)
      BY <1>4, <2>4 DEF LoadLast, SearchUpTo
    <3>2. s \in Activations /\ s.cpu = r.cpu /\ s.held = r.held /\ s.pc = "missed"
      BY <1>1 DEF Activations
    <3>3. r.tries + 1 >= NumCPUs
      BY <1>1, <2>4, ConstantsAre DEF Activations, CPUs
    <3> HIDE DEF s
    <3> QED BY <1>2, <2>1, <2>4, <3>1, <3>2, <3>3 DEF GivesUp
  <2> QED BY <2>2, <2>3, <2>4
<1>5. CASE CheckStale(k)
  <2>1. PICK label \in {"reload", "fetch"} : Continue(k, [r EXCEPT !.pc = label]) /\ r.pc = "stale"
    BY <1>5 DEF CheckStale, Goto, At
  <2> DEFINE s == [r EXCEPT !.pc = label]
  <2>2. s \in Activations /\ s.cpu = r.cpu /\ s.held = r.held /\ s.pc = label
        /\ s.head = r.head /\ s.ring = r.ring /\ s.tries = r.tries
    BY <1>1 DEF Activations, Searching
  <2>3. Continue(k, s)
    BY <2>1
  <2> HIDE DEF s
  <2> QED BY <1>2, <2>1, <2>2, <2>3 DEF Checks
<1>6. CASE Fetch(k)
  <2> DEFINE o == Entry(r.ring, r.head)
             s == [r EXCEPT !.pc = "cas", !.obj = o]
  <2>1. Continue(k, s) /\ r.pc = "fetch"
    BY <1>6 DEF Fetch, At, Entry
  <2>2. o \in Instances \cup {None}
    BY <1>1, Typed DEF Activations
  <2> HIDE DEF o
  <2>3. s \in Activations /\ s.cpu = r.cpu /\ s.held = r.held /\ s.pc = "cas" /\ s.obj = o
        /\ s.head = r.head /\ s.ring = r.ring /\ s.tries = r.tries
    BY <1>1, <2>2 DEF Activations, Searching
  <2> HIDE DEF s
  <2> QED BY <1>2, <2>1, <2>3 DEF Fetches, o
<1> QED BY <1>3, <1>4, <1>5, <1>6

LEMMA TakesIs ==
  ASSUME TypeOK, NEW k \in Calls, Cas(k), slot[call[k].ring].head = call[k].head
  PROVE  /\ Moves(k) /\ call[k].pc = "cas" /\ call'[k].pc = "running"
         /\ call'[k].held = call[k].obj
         /\ slot' = [slot EXCEPT ![call[k].ring].head = Plus(slot[call[k].ring].head, 1)]
         /\ resting' = [j \in Calls |-> resting[j] \ {call[k].obj}] /\ UNCHANGED calls
         /\ overlap' = [overlap EXCEPT ![k] = 0]
<1> DEFINE r == call[k]
           s == [r EXCEPT !.pc = "running", !.held = r.obj]
<1>1. r \in Activations
  BY Typed
<1>2. s \in Activations /\ s.pc = "running" /\ s.held = r.obj
  BY <1>1 DEF Activations
<1>3. call' = [call EXCEPT ![k] = s]
  BY DEF Cas, TakeIf
<1> HIDE DEF s
<1>4. Moves(k) /\ call'[k] = s
  BY <1>2, <1>3, MoveIs
<1> QED BY <1>2, <1>4 DEF Cas, TakeIf, At

LEMMA EndIs ==
  ASSUME TypeOK, NEW k \in Calls, call' = [call EXCEPT ![k] = IdleCall],
         resting' = [resting EXCEPT ![k] = {}]
  PROVE  /\ Moves(k) /\ call'[k].pc = "idle" /\ call'[k].held = None
         /\ resting' \in [Calls -> SUBSET Instances]
         /\ \A j \in Calls : resting'[j] \subseteq resting[j]
BY IdleIs, MoveIs DEF TypeOK

LEMMA RecycleIs ==
  ASSUME TypeOK, NEW k \in Calls, NEW c \in CPUs, Recycle(k, c)
  PROVE  /\ Moves(k) /\ call[k].pc = "running" /\ call'[k].pc = "tail"
         /\ call'[k].cpu = c /\ call'[k].ring = c /\ call'[k].held = call[k].held
         /\ Free(c) /\ UNCHANGED <<slot, calls, overlap, resting>>
<1> DEFINE r == call[k]
           s == [r EXCEPT !.pc = "tail", !.cpu = c, !.ring = c]
<1>1. r \in Activations
  BY Typed
<1>2. s \in Activations /\ s.pc = "tail" /\ s.cpu = c /\ s.ring = c /\ s.held = r.held
  BY <1>1 DEF Activations, Returning
<1>3. call' = [call EXCEPT ![k] = s]
  BY DEF Recycle, Continue
<1> HIDE DEF s
<1>4. Moves(k) /\ call'[k] = s
  BY <1>2, <1>3, MoveIs
<1> QED BY <1>2, <1>4 DEF Recycle, Continue, At

\* The reads of a push.
LEMMA ReadsIs ==
  ASSUME TypeOK, NEW k \in Calls, LoadTail(k) \/ LoadHeadAgain(k)
  PROVE  /\ Moves(k) /\ UNCHANGED <<slot, calls, overlap, resting>>
         /\ call'[k].cpu = call[k].cpu /\ call'[k].ring = call[k].ring
         /\ call'[k].held = call[k].held
         /\ \/ /\ call[k].pc = "tail" /\ call'[k].pc = "warn"
               /\ call'[k].tail = slot[call[k].ring].tail
            \/ /\ call[k].pc = "warn" /\ call'[k].pc = "claim"
               /\ call'[k].tail = call[k].tail /\ call'[k].head = slot[call[k].ring].head
<1> DEFINE r == call[k]
           t == slot[r.ring].tail
           h == slot[r.ring].head
<1>1. r \in Activations /\ t \in Numbers /\ h \in Numbers
  BY Typed DEF Activations
<1>2. CASE LoadTail(k)
  <2> DEFINE s == [r EXCEPT !.pc = "warn", !.tail = t]
  <2>1. s \in Activations /\ s.pc = "warn" /\ s.tail = t
        /\ s.cpu = r.cpu /\ s.ring = r.ring /\ s.held = r.held
    BY <1>1 DEF Activations, Returning
  <2>2. call' = [call EXCEPT ![k] = s]
    BY <1>2 DEF LoadTail, Continue
  <2> HIDE DEF s
  <2>3. Moves(k) /\ call'[k] = s
    BY <2>1, <2>2, MoveIs
  <2> QED BY <1>2, <2>1, <2>3 DEF LoadTail, Continue, At
<1>3. CASE LoadHeadAgain(k)
  <2> DEFINE s == [r EXCEPT !.pc = "claim", !.head = h]
  <2>1. s \in Activations /\ s.pc = "claim" /\ s.head = h /\ s.tail = r.tail
        /\ s.cpu = r.cpu /\ s.ring = r.ring /\ s.held = r.held
    BY <1>1 DEF Activations, Returning
  <2>2. call' = [call EXCEPT ![k] = s]
    BY <1>3 DEF LoadHeadAgain, Continue
  <2> HIDE DEF s
  <2>3. Moves(k) /\ call'[k] = s
    BY <2>1, <2>2, MoveIs
  <2> QED BY <1>3, <2>1, <2>3 DEF LoadHeadAgain, Continue, At
<1> QED BY <1>2, <1>3

\* The stores of a push before the last.
LEMMA StepOfPush ==
  ASSUME TypeOK, NEW k \in Calls, NEW label \in Returning,
         call' = [call EXCEPT ![k].pc = label]
  PROVE  /\ Moves(k) /\ call'[k].pc = label /\ call'[k].cpu = call[k].cpu
         /\ call'[k].ring = call[k].ring /\ call'[k].held = call[k].held
         /\ call'[k].tail = call[k].tail
<1> DEFINE r == call[k]
           s == [r EXCEPT !.pc = label]
<1>1. r \in Activations
  BY Typed
<1>2. s \in Activations /\ s.pc = label /\ s.tail = r.tail
      /\ s.cpu = r.cpu /\ s.ring = r.ring /\ s.held = r.held
  BY <1>1 DEF Activations
<1>3. call' = [call EXCEPT ![k] = s]
  OBVIOUS
<1> HIDE DEF s
<1>4. Moves(k) /\ call'[k] = s
  BY <1>2, <1>3, MoveIs
<1> QED BY <1>2, <1>4

-----------------------------------------------------------------------------
(* The parts of the invariant, by what a step does to the calls and rings. *)

LEMMA SoloStep ==
  ASSUME TypeOK, SoloInv, NEW k \in Calls, Moves(k),
         \/ call'[k].cpu = call[k].cpu /\ (Busy(k)' => Busy(k))
         \/ Free(call'[k].cpu)
  PROVE  SoloInv'
<1> SUFFICES ASSUME NEW i \in Calls, NEW j \in Calls, i # j, Busy(i)', Busy(j)'
             PROVE  call'[i].cpu # call'[j].cpu
  BY DEF SoloInv
<1>1. \A m \in Calls \ {k} : call'[m] = call[m] /\ (Busy(m)' <=> Busy(m))
  BY DEF Moves, Busy
<1> QED BY <1>1 DEF SoloInv, Free, Busy

LEMMA HoldStep ==
  ASSUME HoldInv, NEW k \in Calls, Moves(k), HeldBy(k)'
  PROVE  HoldInv'
BY DEF HoldInv, HeldBy, Moves

\* Nothing changes hands.
LEMMA OwnersKeep ==
  ASSUME OwnInv, NEW k \in Calls, Moves(k), call'[k].held = call[k].held,
         \A c \in CPUs, q \in Numbers :
           (Live(c, q)' <=> Live(c, q)) /\ (Live(c, q) => Entry(c, q)' = Entry(c, q))
  PROVE  OwnInv'
<1>1. \A j \in Calls : call'[j].held = call[j].held
  BY DEF Moves
<1> QED BY <1>1 DEF OwnInv

LEMMA OwnersTake ==
  ASSUME OwnInv, NEW k \in Calls, Moves(k), NEW e \in CPUs, NEW h \in Numbers,
         Live(e, h), call[k].held = None, call'[k].held = Entry(e, h),
         \A c \in CPUs, q \in Numbers :
           (Live(c, q)' <=> Live(c, q) /\ (c = e => q # h)) /\ Entry(c, q)' = Entry(c, q)
  PROVE  OwnInv'
<1> DEFINE o == Entry(e, h)
<1>1. /\ \A j \in Calls : j # k => call'[j].held = call[j].held
      /\ call'[k].held = o /\ o \in Instances /\ o # None
      /\ \A j \in Calls : call[j].held # o
  BY RingAssumption DEF Moves, OwnInv
<1>2. ASSUME NEW c \in CPUs, NEW q \in Numbers, Live(c, q)'
      PROVE  Entry(c, q)' \in Instances /\ \A j \in Calls : call'[j].held # Entry(c, q)'
  BY <1>1, <1>2 DEF OwnInv
<1>3. ASSUME NEW c \in CPUs, NEW d \in CPUs, NEW p \in Numbers, NEW q \in Numbers,
             Live(c, p)', Live(d, q)', Entry(c, p)' = Entry(d, q)'
      PROVE  c = d /\ p = q
  BY <1>3 DEF OwnInv
<1>4. ASSUME NEW i \in Calls, NEW j \in Calls, call'[i].held = call'[j].held,
             call'[j].held # None
      PROVE  i = j
  BY <1>1, <1>4 DEF OwnInv
<1>5. ASSUME NEW x \in Instances
      PROVE  \/ \E j \in Calls : call'[j].held = x
             \/ \E c \in CPUs, q \in Numbers : Live(c, q)' /\ Entry(c, q)' = x
  <2>1. CASE x = o
    BY <1>1, <2>1
  <2>2. CASE x # o
    <3>1. CASE \E j \in Calls : call[j].held = x
      BY <1>1, <3>1, RingAssumption
    <3>2. CASE \E c \in CPUs, q \in Numbers : Live(c, q) /\ Entry(c, q) = x
      <4>1. PICK c \in CPUs, q \in Numbers : Live(c, q) /\ Entry(c, q) = x
        BY <3>2
      <4>2. Live(c, q)' /\ Entry(c, q)' = x
        BY <2>2, <4>1
      <4> QED BY <4>2
    <3> QED BY <3>1, <3>2 DEF OwnInv
  <2> QED BY <2>1, <2>2
<1> HIDE DEF o
<1> QED BY <1>2, <1>3, <1>4, <1>5 DEF OwnInv

LEMMA OwnersGive ==
  ASSUME OwnInv, NEW k \in Calls, Moves(k), NEW e \in CPUs, NEW l \in Numbers,
         call[k].held \in Instances, call'[k].held = None, Entry(e, l) = call[k].held,
         \A c \in CPUs, q \in Numbers :
           (Live(c, q)' <=> Live(c, q) \/ (c = e /\ q = l)) /\ Entry(c, q)' = Entry(c, q)
  PROVE  OwnInv'
<1> DEFINE o == call[k].held
<1>1. /\ \A j \in Calls : j # k => call'[j].held = call[j].held
      /\ call'[k].held = None /\ None \notin Instances
  BY RingAssumption DEF Moves
<1>2. \A j \in Calls : j # k => call[j].held # o
  BY <1>1 DEF OwnInv
<1>3. \A c \in CPUs, q \in Numbers : Live(c, q) => Entry(c, q) # o /\ Entry(c, q) \in Instances
  BY DEF OwnInv
<1>4. ASSUME NEW c \in CPUs, NEW q \in Numbers, Live(c, q)'
      PROVE  Entry(c, q)' \in Instances /\ \A j \in Calls : call'[j].held # Entry(c, q)'
  BY <1>1, <1>2, <1>4 DEF OwnInv
<1>5. ASSUME NEW c \in CPUs, NEW d \in CPUs, NEW p \in Numbers, NEW q \in Numbers,
             Live(c, p)', Live(d, q)', Entry(c, p)' = Entry(d, q)'
      PROVE  c = d /\ p = q
  BY <1>3, <1>5 DEF OwnInv
<1>6. ASSUME NEW i \in Calls, NEW j \in Calls, call'[i].held = call'[j].held,
             call'[j].held # None
      PROVE  i = j
  BY <1>1, <1>6 DEF OwnInv
<1>7. ASSUME NEW x \in Instances
      PROVE  \/ \E j \in Calls : call'[j].held = x
             \/ \E c \in CPUs, q \in Numbers : Live(c, q)' /\ Entry(c, q)' = x
  <2>1. CASE x = o
    <3>1. Live(e, l)' /\ Entry(e, l)' = x
      BY <2>1
    <3> QED BY <3>1
  <2>2. CASE x # o
    <3>1. CASE \E j \in Calls : call[j].held = x
      BY <1>1, <2>2, <3>1
    <3>2. CASE \E c \in CPUs, q \in Numbers : Live(c, q) /\ Entry(c, q) = x
      <4>1. PICK c \in CPUs, q \in Numbers : Live(c, q) /\ Entry(c, q) = x
        BY <3>2
      <4>2. Live(c, q)' /\ Entry(c, q)' = x
        BY <4>1
      <4> QED BY <4>2
    <3> QED BY <3>1, <3>2 DEF OwnInv
  <2> QED BY <2>1, <2>2
<1> HIDE DEF o
<1> QED BY <1>4, <1>5, <1>6, <1>7 DEF OwnInv

\* A step of one push leaves the others alone: they have rings of their own.
LEMMA OthersPush ==
  ASSUME TypeOK, SoloInv, PushInv, NEW k \in Calls, Moves(k),
         \A c \in CPUs :
           \/ /\ slot'[c].tail = slot[c].tail /\ slot'[c].last = slot[c].last
              /\ \A q \in Numbers : Entry(c, q)' = Entry(c, q)
           \/ call[k].pc \in Returning /\ c = call[k].ring
  PROVE  \A j \in Calls \ {k} : Pushed(j)'
<1> SUFFICES ASSUME NEW j \in Calls, j # k PROVE Pushed(j)'
  OBVIOUS
<1>1. call'[j] = call[j] /\ call[j] \in Activations /\ Pushed(j) /\ Pushed(k)
  BY Typed DEF Moves, PushInv
<1>2. CASE call[j].pc \notin Returning
  BY <1>1, <1>2 DEF Pushed, Returning
<1>3. CASE call[j].pc \in Returning
  <2>1. PICK c \in CPUs, q \in Numbers : c = call[j].ring /\ q = call[j].tail
    BY <1>1 DEF Activations
  <2>2. ~(call[k].pc \in Returning /\ c = call[k].ring)
    BY <1>1, <1>3, <2>1 DEF SoloInv, Busy, Pushed
  <2>3. slot'[c].tail = slot[c].tail /\ slot'[c].last = slot[c].last
        /\ Entry(c, q)' = Entry(c, q)
    BY <2>2
  <2> QED BY <1>1, <2>1, <2>3 DEF Pushed, Entry
<1> QED BY <1>2, <1>3

LEMMA PushKeeps ==
  ASSUME TypeOK, SoloInv, PushInv, NEW k \in Calls, Moves(k), Pushed(k)',
         call[k].pc \notin {"put", "publish"}, call'[k].pc \notin {"put", "publish"},
         \A c \in CPUs : /\ slot'[c].tail = slot[c].tail /\ slot'[c].last = slot[c].last
                         /\ \A q \in Numbers : Entry(c, q)' = Entry(c, q)
  PROVE  PushInv'
<1>1. \A j \in Calls : Pushed(j)'
  BY OthersPush
<1>2. \A c \in CPUs, j \in Calls : Filling(j, c)' <=> Filling(j, c)
  BY DEF Moves, Filling
<1>3. \A c \in CPUs : (\A j \in Calls : ~Filling(j, c)') => slot'[c].tail = slot'[c].last
  BY <1>2 DEF PushInv
<1> QED BY <1>1, <1>3 DEF PushInv

\* A CPU searches for one call at a time.
LEMMA FewSearch ==
  ASSUME TypeOK, SoloInv
  PROVE  /\ IsFiniteSet(SearchingCalls) /\ Cardinality(SearchingCalls) \in Nat
         /\ Cardinality(SearchingCalls) <= NumCPUs
<1> DEFINE f == [k \in SearchingCalls |-> call[k].cpu]
<1>1. \A k \in SearchingCalls : k \in Calls /\ Busy(k) /\ call[k].cpu \in CPUs
  BY Typed DEF SearchingCalls, Busy, Activations
<1>2. f \in [SearchingCalls -> CPUs]
  BY <1>1
<1>3. \A j, k \in SearchingCalls : f[j] = f[k] => j = k
  BY <1>1 DEF SoloInv
<1>4. f \in Injection(SearchingCalls, CPUs)
  BY <1>2, <1>3 DEF Injection, IsInjective
<1>5. IsFiniteSet(CPUs) /\ Cardinality(CPUs) = NumCPUs
  BY ConstantsAre, FS_Interval DEF CPUs
<1> HIDE DEF f
<1> QED BY <1>4, <1>5, FS_Injection, FS_CardinalityType

LEMMA MovedIs ==
  /\ \A g, h \in Numbers : Minus(g, h) \in Nat
  /\ TypeOK => \A k \in Calls : Moved(k) \in Nat /\ overlap[k] \in Nat /\ overlap[k] <= MaxOverlap
<1>1. \A g, h \in Numbers : Minus(g, h) \in Nat
  BY MinusIs DEF Numbers
<1>2. ASSUME TypeOK, NEW k \in Calls
      PROVE  Moved(k) \in Nat /\ overlap[k] \in Nat /\ overlap[k] <= MaxOverlap
  <2>1. call[k].ring \in CPUs /\ call[k].head \in Numbers
    BY <1>2, Typed DEF Activations
  <2>2. slot[call[k].ring].head \in Numbers
    BY <1>2, <2>1, Typed
  <2>3. overlap[k] \in 0..MaxOverlap
    BY <1>2 DEF TypeOK
  <2> QED BY <1>1, <2>1, <2>2, <2>3, RingAssumption DEF Moved
<1> QED BY <1>1, <1>2

\* Heads stay, and no search begins.
LEMMA HeadsKeep ==
  ASSUME TypeOK, SoloInv, MoveInv, NEW k \in Calls, Moves(k),
         call'[k].pc \in Searching => call[k].pc \in Searching,
         \A c \in CPUs : slot'[c].head = slot[c].head,
         \A j \in Calls \ {k} : overlap'[j] = overlap[j],
         call'[k].pc \in Sighted =>
           /\ call'[k].ring = call[k].ring /\ overlap'[k] = overlap[k]
           /\ \/ call'[k].head = slot[call[k].ring].head
              \/ call[k].pc \in Sighted /\ call'[k].head = call[k].head
  PROVE  MoveInv'
<1>1. SearchingCalls' \in SUBSET SearchingCalls
  BY DEF SearchingCalls, Moves
<1>2. /\ Cardinality(SearchingCalls') <= Cardinality(SearchingCalls)
      /\ Cardinality(SearchingCalls) <= NumCPUs
      /\ Cardinality(SearchingCalls) \in Nat /\ Cardinality(SearchingCalls') \in Nat
  BY <1>1, FewSearch, FS_Subset, FS_CardinalityType
<1>3. ASSUME NEW j \in Calls, call[j].pc \in Sighted, overlap'[j] = overlap[j], Moved(j)' = Moved(j)
      PROVE  Overlapped(j)'
  <2>1. Moved(j) + Cardinality(SearchingCalls) <= overlap[j] + NumCPUs
    BY <1>3 DEF MoveInv, Overlapped
  <2>2. Moved(j) \in Nat /\ overlap[j] \in Nat /\ NumCPUs \in Nat
    BY MovedIs, ConstantsAre
  <2>3. Moved(j)' + Cardinality(SearchingCalls') <= overlap'[j] + NumCPUs
    BY <1>2, <1>3, <2>1, <2>2
  <2> QED BY <2>3 DEF Overlapped
<1>4. ASSUME NEW j \in Calls \ {k} PROVE Overlapped(j)'
  <2>1. call'[j] = call[j] /\ call[j].ring \in CPUs
    BY Typed DEF Moves, Activations
  <2>2. Moved(j)' = Moved(j)
    BY <2>1 DEF Moved
  <2>3. CASE call[j].pc \in Sighted
    BY <1>3, <2>2, <2>3
  <2> QED BY <2>1, <2>3 DEF Overlapped
<1>5. Overlapped(k)'
  <2> SUFFICES ASSUME call'[k].pc \in Sighted PROVE Overlapped(k)'
    BY DEF Overlapped
  <2>1. PICK c \in CPUs : c = call[k].ring
    BY Typed DEF Activations
  <2>2. CASE call'[k].head = slot[c].head
    <3>1. slot[c].head \in Numbers
      BY Typed
    <3>2. Moved(k)' = 0
      BY <2>1, <2>2, <3>1, Offset DEF Moved
    <3>3. overlap'[k] \in Nat /\ NumCPUs \in Nat
      BY MovedIs, ConstantsAre
    <3>4. Moved(k)' + Cardinality(SearchingCalls') <= overlap'[k] + NumCPUs
      BY <1>2, <3>2, <3>3
    <3> QED BY <3>4 DEF Overlapped
  <2>3. CASE call[k].pc \in Sighted /\ call'[k].head = call[k].head
    <3>1. Moved(k)' = Moved(k)
      BY <2>1, <2>3 DEF Moved
    <3> QED BY <1>3, <2>3, <3>1
  <2> QED BY <2>1, <2>2, <2>3
<1> QED BY <1>4, <1>5 DEF MoveInv

LEMMA SearchBegins ==
  ASSUME TypeOK, SoloInv, MoveInv, NEW k \in Calls, Moves(k), call[k].pc = "idle",
         call'[k].pc = "head", UNCHANGED slot,
         \A j \in Calls : call[j].pc \in Searching => overlap'[j] = overlap[j] + 1
  PROVE  MoveInv'
<1>1. SearchingCalls' \in SUBSET (SearchingCalls \cup {k}) /\ k \notin SearchingCalls
  BY DEF SearchingCalls, Moves, Searching
<1>2. /\ IsFiniteSet(SearchingCalls \cup {k}) /\ Cardinality(SearchingCalls) \in Nat
      /\ Cardinality(SearchingCalls \cup {k}) = Cardinality(SearchingCalls) + 1
  BY <1>1, FewSearch, FS_AddElement
<1>3. /\ Cardinality(SearchingCalls') <= Cardinality(SearchingCalls) + 1
      /\ Cardinality(SearchingCalls) \in Nat /\ Cardinality(SearchingCalls') \in Nat
  BY <1>1, <1>2, FS_Subset, FS_CardinalityType
<1> SUFFICES ASSUME NEW j \in Calls, call'[j].pc \in Sighted PROVE Overlapped(j)'
  BY DEF MoveInv, Overlapped
<1>4. j # k /\ call'[j] = call[j] /\ call[j].pc \in Sighted
  BY DEF Moves, Sighted
<1>5. overlap'[j] = overlap[j] + 1
  BY <1>4 DEF Sighted, Searching
<1>6. Moved(j)' = Moved(j)
  BY <1>4 DEF Moved
<1>7. Moved(j) + Cardinality(SearchingCalls) <= overlap[j] + NumCPUs
  BY <1>4 DEF MoveInv, Overlapped
<1>8. Moved(j) \in Nat /\ overlap[j] \in Nat /\ NumCPUs \in Nat
  BY MovedIs, ConstantsAre
<1>9. Moved(j)' + Cardinality(SearchingCalls') <= overlap'[j] + NumCPUs
  BY <1>3, <1>5, <1>6, <1>7, <1>8
<1> QED BY <1>9 DEF Overlapped

\* While another call searches, a head is less than one round away from where
\* a search has read it, also after the next step.
LEMMA HeadsBelow ==
  ASSUME TypeOK, SoloInv, MoveInv, NEW k \in Calls, call[k].pc \in Searching,
         NEW j \in Calls, j # k, call[j].pc \in Sighted
  PROVE  Moved(j) + 1 < Modulus
<1>1. k \in SearchingCalls /\ j \in SearchingCalls \ {k}
  BY DEF SearchingCalls, Searching, Sighted
<1>2. /\ IsFiniteSet(SearchingCalls) /\ Cardinality(SearchingCalls) \in Nat
      /\ Cardinality(SearchingCalls \ {k}) = Cardinality(SearchingCalls) - 1
      /\ IsFiniteSet(SearchingCalls \ {k})
  BY <1>1, FewSearch, FS_RemoveElement
<1>3. Cardinality(SearchingCalls \ {k}) \in Nat /\ Cardinality(SearchingCalls \ {k}) # 0
  BY <1>1, <1>2, FS_CardinalityType, FS_EmptySet
<1>4. Cardinality(SearchingCalls) >= 2
  BY <1>2, <1>3
<1>5. Moved(j) + Cardinality(SearchingCalls) <= overlap[j] + NumCPUs
  BY DEF MoveInv, Overlapped
<1>6. Moved(j) \in Nat /\ overlap[j] \in Nat /\ overlap[j] <= MaxOverlap
  BY MovedIs
<1> QED BY <1>2, <1>4, <1>5, <1>6, RingAssumption

LEMMA MovesAway ==
  ASSUME TypeOK, SoloInv, MoveInv, NEW k \in Calls, Moves(k), call[k].pc \in Searching,
         NEW j \in Calls, j # k, call[j].pc \in Sighted,
         slot'[call[j].ring].head = Plus(slot[call[j].ring].head, 1)
  PROVE  Moved(j)' = Moved(j) + 1 /\ slot'[call[j].ring].head # call[j].head
<1>1. PICK e \in CPUs, h \in Numbers : e = call[j].ring /\ h = call[j].head
  BY Typed DEF Activations
<1>2. PICK g \in Numbers : g = slot[e].head
  BY Typed
<1>3. Minus(g, h) + 1 < Modulus /\ Minus(g, h) \in Nat
  BY <1>1, <1>2, HeadsBelow, MovedIs DEF Moved
<1>4. Minus(Plus(g, 1), h) = Minus(g, h) + 1
  BY <1>3, LastMoves
<1>5. Plus(g, 1) # h
  BY <1>3, <1>4, Offset
<1>6. call'[j] = call[j] /\ slot'[e].head = Plus(g, 1)
  BY <1>1, <1>2 DEF Moves
<1> QED BY <1>1, <1>2, <1>4, <1>5, <1>6 DEF Moved

LEMMA HeadMovesOn ==
  ASSUME TypeOK, SoloInv, MoveInv, NEW k \in Calls, Moves(k), call[k].pc \in Searching,
         call'[k].pc \notin Searching, NEW e \in CPUs,
         slot'[e].head = Plus(slot[e].head, 1),
         \A c \in CPUs : c # e => slot'[c].head = slot[c].head,
         \A j \in Calls \ {k} : overlap'[j] = overlap[j]
  PROVE  MoveInv'
<1>1. SearchingCalls' = SearchingCalls \ {k} /\ k \in SearchingCalls
  BY DEF SearchingCalls, Moves
<1>2. /\ Cardinality(SearchingCalls') = Cardinality(SearchingCalls) - 1
      /\ Cardinality(SearchingCalls) \in Nat
  BY <1>1, FewSearch, FS_RemoveElement
<1> SUFFICES ASSUME NEW j \in Calls, call'[j].pc \in Sighted PROVE Overlapped(j)'
  BY DEF MoveInv, Overlapped
<1>3. j # k /\ call'[j] = call[j] /\ call[j].pc \in Sighted /\ call[j].ring \in CPUs
  BY Typed DEF Moves, Activations, Sighted, Searching
<1>4. Moved(j)' \in {Moved(j), Moved(j) + 1}
  <2>1. CASE call[j].ring = e
    BY <1>3, <2>1, MovesAway
  <2>2. CASE call[j].ring # e
    BY <1>3, <2>2 DEF Moved
  <2> QED BY <2>1, <2>2
<1>5. Moved(j) + Cardinality(SearchingCalls) <= overlap[j] + NumCPUs
  BY <1>3 DEF MoveInv, Overlapped
<1>6. Moved(j) \in Nat /\ overlap[j] \in Nat /\ NumCPUs \in Nat
  BY MovedIs, ConstantsAre
<1>7. Moved(j)' + Cardinality(SearchingCalls') <= overlap'[j] + NumCPUs
  BY <1>2, <1>3, <1>4, <1>5, <1>6
<1> QED BY <1>7 DEF Overlapped

\* No head moves, and what is free stays where it is.
LEMMA OthersSearch ==
  ASSUME TypeOK, SearchInv, NEW k \in Calls, Moves(k), Searched(k)',
         \A c \in CPUs : slot'[c].head = slot[c].head /\ (Count(c) > 0 => Count(c)' > 0),
         \A c \in CPUs, q \in Numbers : Live(c, q) => Entry(c, q)' = Entry(c, q)
  PROVE  SearchInv'
<1> SUFFICES ASSUME NEW j \in Calls, j # k PROVE Searched(j)'
  BY DEF SearchInv
<1>1. call'[j] = call[j] /\ call[j] \in Activations /\ Searched(j)
  BY Typed DEF Moves, SearchInv
<1>2. PICK c \in CPUs, h \in Numbers : c = call[j].ring /\ h = call[j].head
  BY <1>1 DEF Activations
<1>3. ASSUME call[j].pc \in {"stale", "fetch", "cas"}, h = slot[c].head
      PROVE  Count(c)' > 0 /\ Entry(c, h)' = Entry(c, h)
  <2>1. Count(c) > 0
    BY <1>1, <1>2, <1>3 DEF Searched
  <2>2. Live(c, h)
    BY <1>3, <2>1, Offset DEF Live
  <2> QED BY <2>1, <2>2
<1>4. call[j].pc = "cas" /\ h = slot[c].head => call[j].obj = Entry(c, h)'
  BY <1>1, <1>2, <1>3 DEF Searched
<1> QED BY <1>1, <1>2, <1>3, <1>4 DEF Searched, Count, Entry

\* A head moves away from what the other searches have read.
LEMMA OthersLose ==
  ASSUME TypeOK, SoloInv, SearchInv, MoveInv, NEW k \in Calls, Moves(k), Searched(k)',
         call[k].pc \in Searching, NEW e \in CPUs,
         slot'[e].head = Plus(slot[e].head, 1),
         \A c \in CPUs : c # e => slot'[c].head = slot[c].head /\ Count(c)' = Count(c),
         \A c \in CPUs, q \in Numbers : Entry(c, q)' = Entry(c, q)
  PROVE  SearchInv'
<1> SUFFICES ASSUME NEW j \in Calls, j # k PROVE Searched(j)'
  BY DEF SearchInv
<1>1. call'[j] = call[j] /\ call[j] \in Activations /\ Searched(j)
  BY Typed DEF Moves, SearchInv
<1>2. PICK c \in CPUs, h \in Numbers : c = call[j].ring /\ h = call[j].head
  BY <1>1 DEF Activations
<1>3. CASE c # e
  <2>1. slot'[c].head = slot[c].head /\ Count(c)' = Count(c) /\ Entry(c, h)' = Entry(c, h)
    BY <1>3
  <2> QED BY <1>1, <1>2, <2>1 DEF Searched, Count, Entry
<1>4. CASE c = e /\ call[j].pc \in Sighted
  <2>1. call[j].ring = e
    BY <1>2, <1>4
  <2>2. slot'[call[j].ring].head # call[j].head
    BY <1>4, <2>1, MovesAway
  <2>3. slot'[c].head # h
    BY <1>2, <2>2
  <2> QED BY <1>1, <1>2, <1>4, <2>3 DEF Searched, Sighted
<1>5. CASE call[j].pc \notin Sighted
  BY <1>1, <1>5 DEF Searched, Sighted
<1> QED BY <1>3, <1>4, <1>5

LEMMA OthersRest ==
  ASSUME TypeOK, RestInv, NEW k \in Calls, Moves(k), Rested(k)',
         \A j \in Calls \ {k} : resting'[j] \subseteq resting[j],
         \A j \in Calls \ {k}, c \in CPUs, q \in Numbers :
           Live(c, q) /\ Entry(c, q) \in resting'[j] =>
             Live(c, q)' /\ Entry(c, q)' = Entry(c, q)
  PROVE  RestInv'
<1> SUFFICES ASSUME NEW j \in Calls, j # k PROVE Rested(j)'
  BY DEF RestInv
<1>1. call'[j] = call[j] /\ Rested(j) /\ resting'[j] \subseteq resting[j]
  BY DEF Moves, RestInv
<1>2. ASSUME call[j].pc \in Searching, NEW o \in resting'[j]
      PROVE  \E d \in CPUs, q \in Numbers : Live(d, q)' /\ Entry(d, q)' = o /\ Ahead(j, d, q)'
  <2>1. PICK d \in CPUs, q \in Numbers : Live(d, q) /\ Entry(d, q) = o /\ Ahead(j, d, q)
    BY <1>1, <1>2 DEF Rested
  <2>2. Live(d, q)' /\ Entry(d, q)' = o
    BY <2>1
  <2>3. Ahead(j, d, q)'
    BY <1>1, <2>1 DEF Ahead
  <2> QED BY <2>2, <2>3
<1>3. call[j].pc \in Searching => Turn(call'[j].cpu, call'[j].ring) = call'[j].tries
  BY <1>1 DEF Rested
<1>4. call[j].pc = "missed" => resting'[j] = {}
  BY <1>1 DEF Rested
<1> QED BY <1>1, <1>2, <1>3, <1>4 DEF Rested


-----------------------------------------------------------------------------
(* The invariant holds at first and is kept by every action.               *)

LEMMA TypeStep ==
  ASSUME slot' \in [CPUs -> Rings], call' \in [Calls -> Activations],
         calls' \in 0..MaxCalls, overlap' \in [Calls -> 0..MaxOverlap],
         resting' \in [Calls -> SUBSET Instances]
  PROVE  TypeOK'
BY DEF TypeOK, Rings, Activations, Numbers

\* What the history calls in a ring is what lies at its positions.
LEMMA InRingIs ==
  ASSUME TypeOK, NEW d \in CPUs
  PROVE  /\ \A o \in InRing(d) : \E q \in Numbers : Live(d, q) /\ Entry(d, q) = o
         /\ OwnInv => InRing(d) \subseteq Instances
<1> DEFINE h == slot[d].head
<1>1. ASSUME NEW o \in InRing(d) PROVE \E q \in Numbers : Live(d, q) /\ Entry(d, q) = o
  <2>1. PICK j \in Window(d) : o = EntryAt(d, j)
    BY DEF InRing
  <2>2. h \in Numbers /\ j \in Numbers /\ j < Count(d)
    BY Typed, ConstantsAre DEF Window, Numbers, Count
  <2>3. Plus(h, j) \in Numbers /\ Minus(Plus(h, j), h) = j
    BY <2>2, Offset
  <2>4. Live(d, Plus(h, j)) /\ Entry(d, Plus(h, j)) = o
    BY <2>1, <2>2, <2>3 DEF Live, Entry, EntryAt
  <2> QED BY <2>3, <2>4
<1> QED BY <1>1 DEF OwnInv

LEMMA EnterKeeps ==
  ASSUME PoolInv, NEW k \in Calls, NEW c \in CPUs, Enter(k, c)
  PROVE  PoolInv'
<1> USE DEF PoolInv
<1>1. /\ Moves(k) /\ call[k].pc = "idle" /\ call'[k].pc = "head"
      /\ call'[k].cpu = c /\ call'[k].ring = c /\ call'[k].tries = 0
      /\ call'[k].held = None /\ Free(c) /\ UNCHANGED slot
      /\ calls' = calls + 1 /\ calls' \in 0..MaxCalls
      /\ overlap' \in [Calls -> 0..MaxOverlap]
      /\ \A j \in Calls : call[j].pc \in Searching => overlap'[j] = overlap[j] + 1
      /\ resting' = [resting EXCEPT ![k] = UNION {InRing(d) : d \in CPUs}]
  BY EnterIs
<1>2. /\ slot' \in [CPUs -> Rings]
      /\ \A d \in CPUs : slot'[d] = slot[d] /\ Count(d)' = Count(d)
      /\ \A d \in CPUs, q \in Numbers : (Live(d, q)' <=> Live(d, q)) /\ Entry(d, q)' = Entry(d, q)
  BY <1>1, NothingMoves
<1>3. TypeOK'
  <2>1. UNION {InRing(d) : d \in CPUs} \in SUBSET Instances
    BY InRingIs
  <2>2. resting' \in [Calls -> SUBSET Instances]
    BY <1>1, <2>1 DEF TypeOK
  <2> QED BY <1>1, <1>2, <2>2, TypeStep DEF Moves
<1>4. call[k].held = None
  BY <1>1 DEF HoldInv, HeldBy, Returning
<1>5. SoloInv'
  BY <1>1, SoloStep
<1>6. HoldInv'
  BY <1>1, HoldStep DEF HeldBy, Returning
<1>7. OwnInv'
  BY <1>1, <1>2, <1>4, OwnersKeep
<1>8. PushInv'
  <2>1. Pushed(k)'
    BY <1>1 DEF Pushed, Returning
  <2> QED BY <1>1, <1>2, <2>1, PushKeeps
<1>9. MoveInv'
  BY <1>1, SearchBegins
<1>10. SearchInv'
  <2>1. Searched(k)'
    BY <1>1 DEF Searched, Sighted
  <2> QED BY <1>1, <1>2, <2>1, OthersSearch
<1>11. RestInv'
  <2>1. ASSUME NEW o \in resting'[k]
        PROVE  \E d \in CPUs, q \in Numbers : Live(d, q)' /\ Entry(d, q)' = o /\ Ahead(k, d, q)'
    <3>1. PICK d \in CPUs : o \in InRing(d)
      BY <1>1 DEF TypeOK
    <3>2. PICK q \in Numbers : Live(d, q) /\ Entry(d, q) = o
      BY <3>1, InRingIs
    <3>3. Ahead(k, d, q)'
      BY <1>1, ConstantsAre DEF Ahead, Turn, CPUs
    <3> QED BY <1>2, <3>2, <3>3
  <2>2. Turn(c, c) = 0
    BY DEF Turn, CPUs
  <2>3. Rested(k)'
    BY <1>1, <2>1, <2>2 DEF Rested
  <2>4. \A j \in Calls \ {k} : resting'[j] = resting[j]
    BY <1>1 DEF TypeOK
  <2> QED BY <1>1, <1>2, <2>3, <2>4, OthersRest
<1> QED BY <1>3, <1>5, <1>6, <1>7, <1>8, <1>9, <1>10, <1>11

\* The order in which a search looks into the rings.
LEMMA Turns ==
  ASSUME NEW a \in CPUs, NEW c \in CPUs
  PROVE  /\ Turn(a, c) \in 0..(NumCPUs - 1)
         /\ \A d \in CPUs : Turn(a, d) = Turn(a, c) => d = c
         /\ Turn(a, c) + 1 < NumCPUs => Turn(a, (c + 1) % NumCPUs) = Turn(a, c) + 1
<1>1. (c + 1) % NumCPUs = IF c + 1 = NumCPUs THEN 0 ELSE c + 1
  <2>1. CASE c + 1 < NumCPUs
    BY <2>1, Remainders, ConstantsAre DEF CPUs
  <2>2. CASE c + 1 = NumCPUs
    <3>1. (c + 1) % NumCPUs = (c + 1) - NumCPUs
      BY <2>2, Remainders, ConstantsAre DEF CPUs
    <3> QED BY <2>2, <3>1, ConstantsAre
  <2> QED BY <2>1, <2>2, ConstantsAre DEF CPUs
<1>2. Turn(a, c) + 1 < NumCPUs => Turn(a, (c + 1) % NumCPUs) = Turn(a, c) + 1
  BY <1>1, ConstantsAre DEF Turn, CPUs
<1>3. \A d \in CPUs : Turn(a, d) = Turn(a, c) => d = c
  BY ConstantsAre DEF Turn, CPUs
<1> QED BY <1>2, <1>3, ConstantsAre DEF Turn, CPUs

\* A search that has read a head without going past position q does not find
\* the ring empty while q is free.
LEMMA NotEmpty ==
  ASSUME TypeOK, RoomInv, NEW c \in CPUs, NEW q \in Numbers, NEW h \in Numbers,
         Live(c, q), Minus(q, h) < NrObjs
  PROVE  h # slot[c].last
<1> DEFINE l == slot[c].last
           g == slot[c].head
<1>1. l \in Numbers /\ g \in Numbers
  BY Typed
<1>2. Minus(q, g) < Minus(l, g) /\ Minus(l, g) <= NrObjs
  BY DEF Live, Count, RoomInv
<1>3. /\ Minus(q, g) = IF q >= g THEN q - g ELSE q + Modulus - g
      /\ Minus(l, g) = IF l >= g THEN l - g ELSE l + Modulus - g
      /\ Minus(q, h) = IF q >= h THEN q - h ELSE q + Modulus - h
  BY <1>1, MinusIs
<1>4. Modulus >= 2 * NrObjs
  <2>1. PICK m \in Nat : Modulus = Capacity * m /\ m >= 2
    BY RingsFit
  <2>2. Capacity * m >= Capacity * 2
    BY <2>1, ConstantsAre
  <2> QED BY <2>1, <2>2, ConstantsAre
<1> HIDE DEF l, g
<1>5. h # l
  BY <1>1, <1>2, <1>3, <1>4, ConstantsAre DEF Numbers
<1> QED BY <1>5 DEF l

LEMMA LooksSearched ==
  ASSUME PoolInv, NEW k \in Calls, Looks(k)
  PROVE  Searched(k)'
<1> USE DEF PoolInv
<1>1. /\ slot' = slot /\ Searched(k) /\ call[k] \in Activations /\ call'[k] \in Activations
      /\ \/ LoadsHead(call[k], call'[k]) \/ Finds(call[k], call'[k])
         \/ GoesOn(call[k], call'[k]) \/ GivesUp(call[k], call'[k])
         \/ Checks(call[k], call'[k]) \/ Fetches(call[k], call'[k])
  BY Typed DEF Looks, Moves, SearchInv
<1>2. PICK c \in CPUs, h \in Numbers, d \in CPUs, g \in Numbers :
        c = call[k].ring /\ h = call[k].head /\ d = call'[k].ring /\ g = call'[k].head
  BY <1>1 DEF Activations
<1>3. CASE LoadsHead(call[k], call'[k])
  BY <1>1, <1>3 DEF Searched, LoadsHead
<1>4. CASE Finds(call[k], call'[k])
  <2>1. c = d /\ h = g /\ h # slot[c].last /\ call[k].pc = "last" /\ call'[k].pc = "stale"
    BY <1>2, <1>4 DEF Finds
  <2>2. ASSUME h = slot[c].head PROVE Count(c) > 0
    <3>1. slot[c].head \in Numbers /\ slot[c].last \in Numbers /\ Count(c) \in Numbers
      BY Typed
    <3>2. Minus(slot[c].last, slot[c].head) # Minus(slot[c].head, slot[c].head)
          /\ Minus(slot[c].head, slot[c].head) = 0
      BY <2>1, <2>2, <3>1, Offset
    <3> QED BY <3>1, <3>2 DEF Numbers, Count
  <2> QED BY <1>1, <1>2, <2>1, <2>2 DEF Searched, Count
<1>5. CASE GoesOn(call[k], call'[k]) \/ GivesUp(call[k], call'[k])
  BY <1>5 DEF Searched, GoesOn, GivesUp
<1>6. CASE Checks(call[k], call'[k])
  BY <1>1, <1>2, <1>6 DEF Searched, Checks, Count
<1>7. CASE Fetches(call[k], call'[k])
  BY <1>1, <1>2, <1>7 DEF Searched, Fetches, Count, Entry
<1> QED BY <1>1, <1>3, <1>4, <1>5, <1>6, <1>7

LEMMA LooksRested ==
  ASSUME PoolInv, NEW k \in Calls, Looks(k)
  PROVE  Rested(k)'
<1> USE DEF PoolInv
<1> DEFINE r == call[k]
           s == call'[k]
<1>1. /\ slot' = slot /\ resting' = resting /\ s.cpu = r.cpu /\ Rested(k)
      /\ LoadsHead(r, s) \/ Finds(r, s) \/ GoesOn(r, s) \/ GivesUp(r, s)
         \/ Checks(r, s) \/ Fetches(r, s)
  BY DEF Looks, RestInv
<1>2. \A c \in CPUs, q \in Numbers : (Live(c, q)' <=> Live(c, q)) /\ Entry(c, q)' = Entry(c, q)
  BY <1>1, NothingMoves
<1>3. PICK a \in CPUs, c \in CPUs, h \in Numbers, g \in Numbers :
        a = r.cpu /\ c = r.ring /\ h = r.head /\ g = s.head
  BY Typed DEF Looks, Moves, Activations
<1>4. r.pc \in Searching /\ Turn(a, c) = r.tries /\ RoomInv
  BY <1>1, <1>3, Room DEF Rested, Searching, LoadsHead, Finds, GoesOn, GivesUp, Checks, Fetches
<1>5. ASSUME NEW o \in resting[k]
      PROVE  \E d \in CPUs, q \in Numbers :
               /\ Live(d, q) /\ Entry(d, q) = o /\ Turn(a, d) >= Turn(a, c)
               /\ d = c /\ r.pc # "head" => Minus(q, h) < NrObjs
  BY <1>1, <1>3, <1>4 DEF Rested, Ahead
<1>6. CASE LoadsHead(r, s) \/ Finds(r, s) \/ Checks(r, s) \/ Fetches(r, s)
  <2>1. /\ s.ring = c /\ s.tries = r.tries /\ s.pc # "missed"
        /\ IF LoadsHead(r, s) THEN g = slot[c].head ELSE g = h /\ r.pc # "head"
    BY <1>3, <1>6 DEF LoadsHead, Finds, Checks, Fetches
  <2>2. ASSUME NEW o \in resting[k]
        PROVE  \E d \in CPUs, q \in Numbers : Live(d, q)' /\ Entry(d, q)' = o /\ Ahead(k, d, q)'
    <3>1. PICK d \in CPUs, q \in Numbers :
            /\ Live(d, q) /\ Entry(d, q) = o /\ Turn(a, d) >= Turn(a, c)
            /\ d = c /\ r.pc # "head" => Minus(q, h) < NrObjs
      BY <1>5
    <3>2. ASSUME d = c PROVE Minus(q, g) < NrObjs
      <4>1. CASE LoadsHead(r, s)
        <5>1. Minus(q, g) \in Numbers /\ Count(c) \in Numbers
          BY Typed, MinusIs
        <5>2. Minus(q, g) < Count(c) /\ Count(c) <= NrObjs
          BY <1>4, <2>1, <3>1, <3>2, <4>1 DEF Live, RoomInv
        <5> QED BY <5>1, <5>2, ConstantsAre DEF Numbers
      <4>2. CASE ~LoadsHead(r, s)
        BY <2>1, <3>1, <3>2, <4>2
      <4> QED BY <4>1, <4>2
    <3>3. Ahead(k, d, q)'
      BY <1>1, <1>3, <1>4, <2>1, <3>1, <3>2 DEF Ahead
    <3> QED BY <1>2, <3>1, <3>3
  <2> QED BY <1>1, <1>3, <1>4, <2>1, <2>2 DEF Rested
<1>7. ASSUME r.pc = "last", h = slot[c].last, NEW o \in resting[k]
      PROVE  \E d \in CPUs, q \in Numbers :
               Live(d, q) /\ Entry(d, q) = o /\ Turn(a, d) >= Turn(a, c) + 1
  <2>1. PICK d \in CPUs, q \in Numbers :
          /\ Live(d, q) /\ Entry(d, q) = o /\ Turn(a, d) >= Turn(a, c)
          /\ d = c => Minus(q, h) < NrObjs
    BY <1>5, <1>7
  <2>2. d # c
    BY <1>4, <1>7, <2>1, NotEmpty
  <2>3. Turn(a, d) >= Turn(a, c) + 1
    <3>1. Turn(a, d) # Turn(a, c) /\ Turn(a, d) \in Int /\ Turn(a, c) \in Int
      BY <2>2, Turns, ConstantsAre
    <3> QED BY <2>1, <3>1
  <2> QED BY <2>1, <2>3
<1>8. CASE GoesOn(r, s)
  <2>1. /\ r.pc = "last" /\ h = slot[c].last /\ s.pc = "head"
        /\ s.ring = (c + 1) % NumCPUs /\ s.tries = Turn(a, c) + 1 /\ Turn(a, c) + 1 < NumCPUs
    BY <1>3, <1>4, <1>8 DEF GoesOn
  <2>2. Turn(a, s.ring) = s.tries
    BY <2>1, Turns
  <2>3. ASSUME NEW o \in resting[k]
        PROVE  \E d \in CPUs, q \in Numbers : Live(d, q)' /\ Entry(d, q)' = o /\ Ahead(k, d, q)'
    <3>1. PICK d \in CPUs, q \in Numbers :
            Live(d, q) /\ Entry(d, q) = o /\ Turn(a, d) >= Turn(a, c) + 1
      BY <1>7, <2>1
    <3>2. Ahead(k, d, q)'
      BY <1>1, <1>3, <2>1, <3>1 DEF Ahead
    <3> QED BY <1>2, <3>1, <3>2
  <2> QED BY <1>1, <1>3, <2>1, <2>2, <2>3 DEF Rested
<1>9. CASE GivesUp(r, s)
  <2>1. /\ r.pc = "last" /\ h = slot[c].last /\ s.pc = "missed" /\ Turn(a, c) + 1 >= NumCPUs
    BY <1>3, <1>4, <1>9 DEF GivesUp
  <2>2. ASSUME NEW o \in resting[k] PROVE FALSE
    <3>1. PICK d \in CPUs : Turn(a, d) >= Turn(a, c) + 1
      BY <1>7, <2>1, <2>2
    <3>2. Turn(a, d) \in 0..(NumCPUs - 1) /\ Turn(a, c) \in 0..(NumCPUs - 1)
      BY Turns
    <3> QED BY <2>1, <3>1, <3>2, ConstantsAre
  <2>3. resting'[k] = {}
    BY <1>1, <2>2
  <2> QED BY <2>1, <2>3 DEF Rested, Searching
<1> QED BY <1>1, <1>6, <1>8, <1>9

LEMMA LooksKeeps ==
  ASSUME PoolInv, NEW k \in Calls, Looks(k)
  PROVE  PoolInv'
<1> USE DEF PoolInv
<1>1. /\ Moves(k) /\ UNCHANGED <<slot, calls, overlap, resting>> /\ call[k].pc \in Searching
      /\ call'[k].pc \in Searching \cup {"missed"}
      /\ call'[k].cpu = call[k].cpu /\ call'[k].held = call[k].held
  BY DEF Looks, LoadsHead, Finds, GoesOn, GivesUp, Checks, Fetches, Searching
<1>2. /\ slot' \in [CPUs -> Rings]
      /\ \A d \in CPUs : slot'[d] = slot[d] /\ Count(d)' = Count(d)
      /\ \A d \in CPUs, q \in Numbers : (Live(d, q)' <=> Live(d, q)) /\ Entry(d, q)' = Entry(d, q)
  BY <1>1, NothingMoves
<1>3. TypeOK'
  BY <1>1, <1>2, TypeStep DEF Moves, TypeOK
<1>4. SoloInv'
  BY <1>1, SoloStep DEF Busy, Searching, Returning
<1>5. HoldInv'
  BY <1>1, HoldStep DEF HoldInv, HeldBy, Searching, Returning
<1>6. OwnInv'
  BY <1>1, <1>2, OwnersKeep
<1>7. PushInv'
  <2>1. Pushed(k)'
    BY <1>1 DEF Pushed, Searching, Returning
  <2> QED BY <1>1, <1>2, <2>1, PushKeeps DEF Searching
<1>8. MoveInv'
  <2>1. call'[k].pc \in Sighted =>
          /\ call'[k].ring = call[k].ring
          /\ \/ call'[k].head = slot[call[k].ring].head
             \/ call[k].pc \in Sighted /\ call'[k].head = call[k].head
    BY DEF Looks, LoadsHead, Finds, GoesOn, GivesUp, Checks, Fetches, Sighted
  <2> QED BY <1>1, <1>2, <2>1, HeadsKeep
<1>9. SearchInv'
  BY <1>1, <1>2, LooksSearched, OthersSearch
<1>10. RestInv'
  BY <1>1, <1>2, LooksRested, OthersRest
<1> QED BY <1>3, <1>4, <1>5, <1>6, <1>7, <1>8, <1>9, <1>10

LEMMA TakesKeeps ==
  ASSUME PoolInv, NEW k \in Calls, Cas(k), slot[call[k].ring].head = call[k].head
  PROVE  PoolInv'
<1> USE DEF PoolInv
<1>1. /\ Moves(k) /\ call[k].pc = "cas" /\ call'[k].pc = "running"
      /\ call'[k].held = call[k].obj
      /\ slot' = [slot EXCEPT ![call[k].ring].head = Plus(slot[call[k].ring].head, 1)]
      /\ resting' = [j \in Calls |-> resting[j] \ {call[k].obj}] /\ UNCHANGED calls
      /\ overlap' = [overlap EXCEPT ![k] = 0]
  BY TakesIs
<1>2. PICK e \in CPUs, h \in Numbers : e = call[k].ring /\ h = call[k].head
  BY Typed DEF Activations
<1>3. /\ h = slot[e].head /\ Count(e) > 0 /\ call[k].obj = Entry(e, h) /\ Live(e, h)
      /\ call[k].held = None
  <2>1. h = slot[e].head /\ Count(e) > 0 /\ call[k].obj = Entry(e, h) /\ call[k].held = None
    BY <1>1, <1>2 DEF SearchInv, Searched, HoldInv, HeldBy, Returning
  <2> QED BY <2>1, Offset DEF Live
<1>4. /\ slot' \in [CPUs -> Rings]
      /\ \A c \in CPUs : /\ slot'[c].tail = slot[c].tail /\ slot'[c].last = slot[c].last
                         /\ c # e => slot'[c].head = slot[c].head /\ Count(c)' = Count(c)
      /\ slot'[e].head = Plus(slot[e].head, 1)
      /\ \A c \in CPUs, q \in Numbers :
           /\ Live(c, q)' <=> Live(c, q) /\ (c = e => q # h)
           /\ Entry(c, q)' = Entry(c, q)
  <2>1. slot' = [slot EXCEPT ![e].head = Plus(slot[e].head, 1)]
    BY <1>1, <1>2
  <2>2. TypeOK /\ Count(e) > 0
    BY <1>3
  <2>3. /\ slot' \in [CPUs -> Rings]
        /\ \A c \in CPUs : /\ slot'[c].tail = slot[c].tail /\ slot'[c].last = slot[c].last
                           /\ c # e => slot'[c].head = slot[c].head /\ Count(c)' = Count(c)
        /\ slot'[e].head = Plus(slot[e].head, 1)
        /\ \A c \in CPUs, q \in Numbers :
             /\ Live(c, q)' <=> Live(c, q) /\ (c = e => q # slot[e].head)
             /\ Entry(c, q)' = Entry(c, q)
    BY <2>1, <2>2, Take
  <2>4. h = slot[e].head
    BY <1>3
  <2> QED BY <2>3, <2>4
<1>5. Entry(e, h) \in Instances
  BY <1>3 DEF OwnInv
<1>6. TypeOK'
  <2>1. resting' \in [Calls -> SUBSET Instances]
    BY <1>1 DEF TypeOK
  <2>2. calls' \in 0..MaxCalls /\ overlap' \in [Calls -> 0..MaxOverlap]
    BY <1>1, RingAssumption DEF TypeOK
  <2> QED BY <1>1, <1>4, <2>1, <2>2, TypeStep DEF Moves
<1>7. SoloInv'
  <2>1. ~Busy(k)'
    BY <1>1 DEF Busy, Searching, Returning
  <2>2. \A j \in Calls \ {k} : call'[j] = call[j] /\ (Busy(j)' <=> Busy(j))
    BY <1>1 DEF Moves, Busy
  <2> QED BY <2>1, <2>2 DEF SoloInv
<1>8. HoldInv'
  <2>1. HeldBy(k)'
    BY <1>1, <1>3, <1>5 DEF HeldBy
  <2> QED BY <1>1, <2>1, HoldStep
<1>9. OwnInv'
  BY <1>1, <1>3, <1>4, OwnersTake
<1>10. PushInv'
  <2>1. Pushed(k)'
    BY <1>1 DEF Pushed, Returning
  <2> QED BY <1>1, <1>4, <2>1, PushKeeps
<1>11. MoveInv'
  <2>1. \A j \in Calls \ {k} : overlap'[j] = overlap[j]
    BY <1>1 DEF TypeOK
  <2> QED BY <1>1, <1>4, <2>1, HeadMovesOn DEF Searching
<1>12. SearchInv'
  <2>1. Searched(k)'
    BY <1>1 DEF Searched, Sighted
  <2> QED BY <1>1, <1>4, <2>1, OthersLose DEF Searching
<1>13. RestInv'
  <2>1. Rested(k)'
    BY <1>1 DEF Rested, Searching
  <2>2. \A j \in Calls : resting'[j] = resting[j] \ {Entry(e, h)}
    BY <1>1, <1>3
  <2> QED BY <1>1, <1>4, <2>1, <2>2, OthersRest
<1> QED BY <1>6, <1>7, <1>8, <1>9, <1>10, <1>11, <1>12, <1>13

\* A step that stores nothing shared, outside a search.
LEMMA QuietKeeps ==
  ASSUME PoolInv, NEW k \in Calls, Moves(k), UNCHANGED <<slot, calls>>,
         overlap' \in [Calls -> 0..MaxOverlap],
         \A j \in Calls \ {k} : overlap'[j] = overlap[j],
         resting' \in [Calls -> SUBSET Instances],
         \A j \in Calls : resting'[j] \subseteq resting[j],
         call[k].pc \notin {"put", "publish"},
         call'[k].pc \in {"idle", "tail", "warn", "claim"}, Pushed(k)', HeldBy(k)',
         call'[k].held = call[k].held,
         \/ call'[k].cpu = call[k].cpu /\ (Busy(k)' => Busy(k))
         \/ Free(call'[k].cpu)
         \/ ~Busy(k)'
  PROVE  PoolInv'
<1> USE DEF PoolInv
<1>1. /\ slot' \in [CPUs -> Rings]
      /\ \A d \in CPUs : slot'[d] = slot[d] /\ Count(d)' = Count(d)
      /\ \A d \in CPUs, q \in Numbers : (Live(d, q)' <=> Live(d, q)) /\ Entry(d, q)' = Entry(d, q)
  BY NothingMoves
<1>2. call'[k].pc \notin Searching \cup {"missed", "put", "publish"}
  BY DEF Searching
<1>3. TypeOK'
  BY <1>1, TypeStep DEF Moves, TypeOK
<1>4. SoloInv'
  <2>1. CASE ~Busy(k)'
    <3>1. \A j \in Calls \ {k} : call'[j] = call[j] /\ (Busy(j)' <=> Busy(j))
      BY DEF Moves, Busy
    <3> QED BY <2>1, <3>1 DEF SoloInv
  <2> QED BY <2>1, SoloStep
<1>5. HoldInv'
  BY HoldStep
<1>6. OwnInv'
  BY <1>1, OwnersKeep
<1>7. PushInv'
  BY <1>1, <1>2, PushKeeps
<1>8. MoveInv'
  <2>1. call'[k].pc \notin Sighted
    BY <1>2 DEF Sighted, Searching
  <2> QED BY <1>1, <1>2, <2>1, HeadsKeep
<1>9. SearchInv'
  <2>1. Searched(k)'
    BY <1>2 DEF Searched, Sighted, Searching
  <2> QED BY <1>1, <2>1, OthersSearch
<1>10. RestInv'
  <2>1. Rested(k)'
    BY <1>2 DEF Rested
  <2> QED BY <1>1, <2>1, OthersRest
<1> QED BY <1>3, <1>4, <1>5, <1>6, <1>7, <1>8, <1>9, <1>10

LEMMA MissKeeps ==
  ASSUME PoolInv, NEW k \in Calls, Miss(k)
  PROVE  PoolInv'
<1>1. /\ Moves(k) /\ UNCHANGED <<slot, calls>> /\ call[k].pc = "missed"
      /\ call'[k].pc = "idle" /\ call'[k].held = None
      /\ resting' \in [Calls -> SUBSET Instances]
      /\ \A j \in Calls : resting'[j] \subseteq resting[j]
  BY EndIs DEF Miss, At, PoolInv
<1>2. call[k].held = None
  BY <1>1 DEF PoolInv, HoldInv, HeldBy, Returning
<1>3. Pushed(k)' /\ HeldBy(k)' /\ ~Busy(k)'
  BY <1>1 DEF Pushed, HeldBy, Busy, Searching, Returning
<1>4. overlap' \in [Calls -> 0..MaxOverlap] /\ \A j \in Calls \ {k} : overlap'[j] = overlap[j]
  BY RingAssumption DEF Miss, PoolInv, TypeOK
<1> QED BY <1>1, <1>2, <1>3, <1>4, QuietKeeps

LEMMA RecycleKeeps ==
  ASSUME PoolInv, NEW k \in Calls, NEW c \in CPUs, Recycle(k, c)
  PROVE  PoolInv'
<1>1. /\ Moves(k) /\ call[k].pc = "running" /\ call'[k].pc = "tail"
      /\ call'[k].cpu = c /\ call'[k].ring = c /\ call'[k].held = call[k].held
      /\ Free(c) /\ UNCHANGED <<slot, calls, overlap, resting>>
  BY RecycleIs DEF PoolInv
<1>2. Pushed(k)'
  BY <1>1 DEF Pushed
<1>3. HeldBy(k)'
  BY <1>1 DEF PoolInv, HoldInv, HeldBy, Returning
<1> QED BY <1>1, <1>2, <1>3, QuietKeeps DEF PoolInv, TypeOK

\* A push has its ring to itself.
LEMMA RingIsOwn ==
  ASSUME PoolInv, NEW k \in Calls, call[k].pc \in {"tail", "warn", "claim"}
  PROVE  slot[call[k].ring].tail = slot[call[k].ring].last
<1>1. PICK c \in CPUs : c = call[k].ring
  BY Typed DEF PoolInv, Activations
<1>2. \A j \in Calls : ~Filling(j, c)
  BY <1>1 DEF PoolInv, Filling, PushInv, Pushed, SoloInv, Busy, Returning
<1> QED BY <1>1, <1>2 DEF PoolInv, PushInv

LEMMA ReadsKeeps ==
  ASSUME PoolInv, NEW k \in Calls, LoadTail(k) \/ LoadHeadAgain(k)
  PROVE  PoolInv'
<1>1. /\ Moves(k) /\ UNCHANGED <<slot, calls, overlap, resting>>
      /\ call'[k].cpu = call[k].cpu /\ call'[k].ring = call[k].ring
      /\ call'[k].held = call[k].held
      /\ \/ /\ call[k].pc = "tail" /\ call'[k].pc = "warn"
            /\ call'[k].tail = slot[call[k].ring].tail
         \/ /\ call[k].pc = "warn" /\ call'[k].pc = "claim"
            /\ call'[k].tail = call[k].tail /\ call'[k].head = slot[call[k].ring].head
  BY ReadsIs DEF PoolInv
<1>2. PICK c \in CPUs : c = call[k].ring
  BY Typed DEF PoolInv, Activations
<1>3. /\ Pushed(k) /\ HeldBy(k) /\ Busy(k)
      /\ c = call[k].cpu /\ slot[c].tail = slot[c].last /\ Count(c) <= NrObjs
  <2>1. slot[c].tail = slot[c].last
    BY <1>1, <1>2, RingIsOwn
  <2>2. Pushed(k) /\ HeldBy(k) /\ RoomInv
    BY Room DEF PoolInv, PushInv, HoldInv
  <2> QED BY <1>1, <1>2, <2>1, <2>2 DEF Pushed, Returning, Busy, RoomInv
<1>4. Pushed(k)'
  <2>1. CASE call'[k].pc = "warn"
    BY <1>1, <1>2, <1>3, <2>1 DEF Pushed
  <2>2. CASE call'[k].pc = "claim"
    <3>1. call'[k].tail = slot[c].last /\ call'[k].head = slot[c].head
      BY <1>1, <1>2, <1>3, <2>2 DEF Pushed
    <3>2. Minus(call'[k].tail, call'[k].head) <= NrObjs
      BY <1>3, <3>1 DEF Count
    <3> QED BY <1>1, <1>2, <1>3, <2>2, <3>1, <3>2 DEF Pushed
  <2> QED BY <1>1, <2>1, <2>2
<1>5. HeldBy(k)'
  BY <1>1, <1>3 DEF HeldBy, Returning
<1> QED BY <1>1, <1>3, <1>4, <1>5, QuietKeeps DEF PoolInv, TypeOK


LEMMA ClaimKeeps ==
  ASSUME PoolInv, NEW k \in Calls, ClaimTail(k)
  PROVE  PoolInv'
<1> USE DEF PoolInv
<1>1. call[k].pc = "claim" /\ slot[call[k].ring].tail = call[k].tail
  BY DEF ClaimTail, At, PushInv, Pushed
<1>2. PICK e \in CPUs, l \in Numbers : e = call[k].ring /\ l = call[k].tail
  BY Typed DEF Activations
<1>3. /\ e = call[k].cpu /\ slot[e].tail = l /\ slot[e].last = l
      /\ call[k].held \in Instances
  BY <1>1, <1>2, RingIsOwn DEF PushInv, Pushed, HoldInv, HeldBy, Returning
<1>4. /\ slot' = [slot EXCEPT ![e].tail = Plus(l, 1)]
      /\ call' = [call EXCEPT ![k].pc = "put"] /\ UNCHANGED <<calls, overlap, resting>>
  BY <1>1, <1>2 DEF ClaimTail
<1>5. /\ Moves(k) /\ call'[k].pc = "put" /\ call'[k].cpu = call[k].cpu
      /\ call'[k].ring = e /\ call'[k].held = call[k].held /\ call'[k].tail = l
  BY <1>2, <1>4, StepOfPush DEF Returning
<1>6. /\ slot' \in [CPUs -> Rings]
      /\ \A c \in CPUs : /\ slot'[c].head = slot[c].head /\ slot'[c].last = slot[c].last
                         /\ c # e => slot'[c].tail = slot[c].tail
                         /\ Count(c)' = Count(c)
      /\ slot'[e].tail = Plus(l, 1)
      /\ \A c \in CPUs, q \in Numbers : (Live(c, q)' <=> Live(c, q)) /\ Entry(c, q)' = Entry(c, q)
  BY <1>4, PlusOne, ClaimsTail
<1>7. TypeOK'
  BY <1>4, <1>5, <1>6, TypeStep DEF Moves, TypeOK
<1>8. SoloInv'
  BY <1>1, <1>5, SoloStep DEF Busy, Returning
<1>9. HoldInv'
  BY <1>3, <1>5, HoldStep DEF HeldBy, Returning
<1>10. OwnInv'
  BY <1>5, <1>6, OwnersKeep
<1>11. PushInv'
  <2>1. Pushed(k)'
    BY <1>3, <1>5, <1>6 DEF Pushed, Returning
  <2>2. \A j \in Calls \ {k} : Pushed(j)'
    BY <1>1, <1>2, <1>5, <1>6, OthersPush DEF Returning
  <2>3. ASSUME NEW c \in CPUs, \A j \in Calls : ~Filling(j, c)'
        PROVE  slot'[c].tail = slot'[c].last
    <3>1. c # e
      BY <1>5, <2>3 DEF Filling
    <3>2. \A j \in Calls : ~Filling(j, c)
      BY <1>1, <1>5, <2>3 DEF Filling, Moves
    <3> QED BY <1>6, <3>1, <3>2 DEF PushInv
  <2> QED BY <2>1, <2>2, <2>3 DEF PushInv
<1>12. MoveInv'
  BY <1>4, <1>5, <1>6, HeadsKeep DEF Searching, Sighted
<1>13. SearchInv'
  <2>1. Searched(k)'
    BY <1>5 DEF Searched, Sighted
  <2> QED BY <1>5, <1>6, <2>1, OthersSearch
<1>14. RestInv'
  <2>1. Rested(k)'
    BY <1>5 DEF Rested, Searching
  <2> QED BY <1>4, <1>5, <1>6, <2>1, OthersRest
<1> QED BY <1>7, <1>8, <1>9, <1>10, <1>11, <1>12, <1>13, <1>14

LEMMA PutKeeps ==
  ASSUME PoolInv, NEW k \in Calls, Put(k)
  PROVE  PoolInv'
<1> USE DEF PoolInv
<1>1. call[k].pc = "put"
  BY DEF Put, At
<1>2. PICK e \in CPUs, l \in Numbers : e = call[k].ring /\ l = call[k].tail
  BY Typed DEF Activations
<1>3. PICK o \in Instances : o = call[k].held
  BY <1>1 DEF HoldInv, HeldBy, Returning
<1>4. /\ e = call[k].cpu /\ slot[e].tail = Plus(l, 1) /\ slot[e].last = l
      /\ Count(e) < Capacity
  <2>1. Count(e) < NrObjs
    BY <1>3, Room, RingAssumption DEF RoomInv
  <2>2. Count(e) < Capacity
    BY <2>1, Typed, ConstantsAre DEF Numbers
  <2> QED BY <1>1, <1>2, <2>2 DEF PushInv, Pushed, Returning
<1>5. /\ slot' = [slot EXCEPT ![e].entries[slot[e].last % Capacity] = o]
      /\ call' = [call EXCEPT ![k].pc = "publish"] /\ UNCHANGED <<calls, overlap, resting>>
  BY <1>2, <1>3, <1>4 DEF Put
<1>6. /\ Moves(k) /\ call'[k].pc = "publish" /\ call'[k].cpu = call[k].cpu
      /\ call'[k].ring = e /\ call'[k].held = call[k].held /\ call'[k].tail = l
  BY <1>2, <1>5, StepOfPush DEF Returning
<1>7. /\ slot' \in [CPUs -> Rings]
      /\ \A c \in CPUs : /\ slot'[c].head = slot[c].head /\ slot'[c].last = slot[c].last
                         /\ slot'[c].tail = slot[c].tail /\ Count(c)' = Count(c)
      /\ \A c \in CPUs, q \in Numbers :
           /\ Live(c, q)' <=> Live(c, q)
           /\ Live(c, q) \/ c # e => Entry(c, q)' = Entry(c, q)
      /\ Entry(e, slot[e].last)' = o
  BY <1>4, <1>5, Fills
<1>8. Entry(e, l)' = o
  BY <1>4, <1>7 DEF Entry
<1>9. TypeOK'
  BY <1>5, <1>6, <1>7, TypeStep DEF Moves, TypeOK
<1>10. SoloInv'
  BY <1>1, <1>6, SoloStep DEF Busy, Returning
<1>11. HoldInv'
  BY <1>3, <1>6, HoldStep DEF HeldBy, Returning
<1>12. OwnInv'
  BY <1>6, <1>7, OwnersKeep
<1>13. PushInv'
  <2>1. Pushed(k)'
    BY <1>3, <1>4, <1>6, <1>7, <1>8 DEF Pushed, Returning, Entry
  <2>2. \A j \in Calls \ {k} : Pushed(j)'
    BY <1>1, <1>2, <1>6, <1>7, OthersPush DEF Returning
  <2>3. ASSUME NEW c \in CPUs, \A j \in Calls : ~Filling(j, c)'
        PROVE  slot'[c].tail = slot'[c].last
    <3>1. \A j \in Calls : ~Filling(j, c)
      BY <1>1, <1>2, <1>6, <2>3 DEF Filling, Moves
    <3> QED BY <1>7, <3>1 DEF PushInv
  <2> QED BY <2>1, <2>2, <2>3 DEF PushInv
<1>14. MoveInv'
  BY <1>5, <1>6, <1>7, HeadsKeep DEF Searching, Sighted
<1>15. SearchInv'
  <2>1. Searched(k)'
    BY <1>6 DEF Searched, Sighted
  <2> QED BY <1>6, <1>7, <2>1, OthersSearch
<1>16. RestInv'
  <2>1. Rested(k)'
    BY <1>6 DEF Rested, Searching
  <2> QED BY <1>5, <1>6, <1>7, <2>1, OthersRest
<1> QED BY <1>9, <1>10, <1>11, <1>12, <1>13, <1>14, <1>15, <1>16

LEMMA PublishKeeps ==
  ASSUME PoolInv, NEW k \in Calls, Publish(k)
  PROVE  PoolInv'
<1> USE DEF PoolInv
<1>1. call[k].pc = "publish"
  BY DEF Publish, At
<1>2. PICK e \in CPUs, l \in Numbers : e = call[k].ring /\ l = call[k].tail
  BY Typed DEF Activations
<1>3. /\ e = call[k].cpu /\ slot[e].tail = Plus(l, 1) /\ slot[e].last = l
      /\ Entry(e, l) = call[k].held /\ call[k].held \in Instances /\ Count(e) + 1 < Modulus
  <2>1. /\ e = call[k].cpu /\ slot[e].tail = Plus(l, 1) /\ slot[e].last = l
        /\ Entry(e, l) = call[k].held /\ call[k].held \in Instances
    BY <1>1, <1>2 DEF PushInv, Pushed, HoldInv, HeldBy, Returning
  <2>2. Count(e) < NrObjs
    BY <2>1, Room, RingAssumption DEF RoomInv
  <2>3. Count(e) + 1 < Modulus
    BY <2>2, Typed, ConstantsAre DEF Numbers
  <2> QED BY <2>1, <2>3
<1>4. /\ slot' = [slot EXCEPT ![e].last = Plus(slot[e].last, 1)]
      /\ call' = [call EXCEPT ![k] = IdleCall]
      /\ resting' = [resting EXCEPT ![k] = {}] /\ UNCHANGED <<calls, overlap>>
  BY <1>2, <1>3 DEF Publish
<1>5. /\ Moves(k) /\ call'[k].pc = "idle" /\ call'[k].held = None
      /\ resting' \in [Calls -> SUBSET Instances]
      /\ \A j \in Calls : resting'[j] \subseteq resting[j]
  BY <1>4, EndIs
<1>6. /\ slot' \in [CPUs -> Rings]
      /\ \A c \in CPUs : /\ slot'[c].head = slot[c].head /\ slot'[c].tail = slot[c].tail
                         /\ c # e => slot'[c].last = slot[c].last /\ Count(c)' = Count(c)
      /\ slot'[e].last = Plus(slot[e].last, 1)
      /\ Count(e)' = Count(e) + 1
      /\ \A c \in CPUs, q \in Numbers :
           /\ Live(c, q)' <=> Live(c, q) \/ (c = e /\ q = slot[e].last)
           /\ Entry(c, q)' = Entry(c, q)
  BY <1>3, <1>4, Frees
<1>7. TypeOK'
  BY <1>4, <1>5, <1>6, TypeStep DEF Moves, TypeOK
<1>8. SoloInv'
  <2>1. ~Busy(k)'
    BY <1>5 DEF Busy, Searching, Returning
  <2>2. \A j \in Calls \ {k} : call'[j] = call[j] /\ (Busy(j)' <=> Busy(j))
    BY <1>5 DEF Moves, Busy
  <2> QED BY <2>1, <2>2 DEF SoloInv
<1>9. HoldInv'
  BY <1>5, HoldStep DEF HeldBy, Returning
<1>10. OwnInv'
  BY <1>3, <1>5, <1>6, OwnersGive
<1>11. PushInv'
  <2>1. Pushed(k)'
    BY <1>5 DEF Pushed, Returning
  <2>2. \A j \in Calls \ {k} : Pushed(j)'
    BY <1>1, <1>2, <1>5, <1>6, OthersPush DEF Returning
  <2>3. ASSUME NEW c \in CPUs, \A j \in Calls : ~Filling(j, c)'
        PROVE  slot'[c].tail = slot'[c].last
    <3>1. CASE c = e
      BY <1>3, <1>6, <3>1
    <3>2. CASE c # e
      <4>1. \A j \in Calls : ~Filling(j, c)
        BY <1>2, <1>5, <2>3, <3>2 DEF Filling, Moves
      <4> QED BY <1>6, <3>2, <4>1 DEF PushInv
    <3> QED BY <3>1, <3>2
  <2> QED BY <2>1, <2>2, <2>3 DEF PushInv
<1>12. MoveInv'
  BY <1>4, <1>5, <1>6, HeadsKeep DEF Searching, Sighted
<1>13. SearchInv'
  <2>1. Searched(k)'
    BY <1>5 DEF Searched, Sighted
  <2>2. \A c \in CPUs : Count(c) > 0 => Count(c)' > 0
    BY <1>6, Typed DEF Numbers
  <2> QED BY <1>5, <1>6, <2>1, <2>2, OthersSearch
<1>14. RestInv'
  <2>1. Rested(k)'
    BY <1>5 DEF Rested, Searching
  <2> QED BY <1>5, <1>6, <2>1, OthersRest
<1> QED BY <1>7, <1>8, <1>9, <1>10, <1>11, <1>12, <1>13, <1>14

\* The objects that objpool_init puts into a ring lie at positions of its own.
LEMMA Multiples ==
  /\ \A w \in Int : Capacity * w < Capacity /\ -Capacity < Capacity * w => w = 0
  /\ \A x \in Nat : \E u \in Int : x = (Capacity * u) + (x % Capacity)
                                   /\ x % Capacity \in 0..(Capacity - 1)
<1>1. ASSUME NEW w \in Int, Capacity * w < Capacity, -Capacity < Capacity * w PROVE w = 0
  <2>1. w >= 1 => Capacity * w >= Capacity
    BY ConstantsAre
  <2>2. w <= -1 => Capacity * w <= -Capacity
    BY ConstantsAre
  <2> QED BY <1>1, <2>1, <2>2, ConstantsAre
<1>2. ASSUME NEW x \in Nat
      PROVE  \E u \in Int : x = (Capacity * u) + (x % Capacity)
                            /\ x % Capacity \in 0..(Capacity - 1)
  <2>1. x = (Capacity * (x \div Capacity)) + (x % Capacity) /\ x \div Capacity \in Int
        /\ x % Capacity \in 0..(Capacity - 1)
    BY ConstantsAre
  <2> QED BY <2>1
<1> QED BY <1>1, <1>2

LEMMA CellOfSum ==
  ASSUME NEW x \in Nat, NEW y \in Nat, NEW w \in Int, x - y = Capacity * w
  PROVE  x % Capacity = y % Capacity
<1>1. PICK u \in Int : x = (Capacity * u) + (x % Capacity) /\ x % Capacity \in 0..(Capacity - 1)
  BY Multiples
<1>2. PICK v \in Int : y = (Capacity * v) + (y % Capacity) /\ y % Capacity \in 0..(Capacity - 1)
  BY Multiples
<1> DEFINE a == x % Capacity
           b == y % Capacity
<1>3. a \in 0..(Capacity - 1) /\ b \in 0..(Capacity - 1)
      /\ x = (Capacity * u) + a /\ y = (Capacity * v) + b
  BY <1>1, <1>2
<1> HIDE DEF a, b
<1>4. a - b = (Capacity * w) + (Capacity * v) - (Capacity * u)
  BY <1>3, ConstantsAre
<1>5. a - b = Capacity * (w + v - u)
  BY <1>4, ConstantsAre
<1>6. w + v - u \in Int /\ a - b < Capacity /\ -Capacity < a - b
  BY <1>3, ConstantsAre
<1>7. w + v - u = 0
  BY <1>5, <1>6, Multiples
<1>8. a = b
  BY <1>3, <1>5, <1>7, ConstantsAre
<1> QED BY <1>8 DEF a, b

LEMMA CellsOfRun ==
  ASSUME NEW x \in Nat, NEW y \in Nat, x % Capacity = y % Capacity,
         x - y < Capacity, -Capacity < x - y
  PROVE  x = y
<1>1. PICK u \in Int : x = (Capacity * u) + (x % Capacity)
  BY Multiples
<1>2. PICK v \in Int : y = (Capacity * v) + (y % Capacity)
  BY Multiples
<1>3. x % Capacity \in Int
  BY ConstantsAre
<1>4. x - y = (Capacity * u) - (Capacity * v)
  BY <1>1, <1>2, <1>3, ConstantsAre
<1>5. x - y = Capacity * (u - v) /\ u - v \in Int
  BY <1>4, ConstantsAre
<1>6. u - v = 0
  BY <1>5, Multiples
<1> QED BY <1>5, <1>6, ConstantsAre

LEMMA InitialRing ==
  ASSUME NEW c \in CPUs
  PROVE  /\ Len(Initial[c]) \in 0..NrObjs
         /\ \A n \in 1..Len(Initial[c]) :
              /\ Initial[c][n] \in Instances
              /\ \A q \in Numbers :
                   Minus(q, Start) = n - 1 => InitialEntry(c, q % Capacity) = Initial[c][n]
<1> DEFINE L == Len(Initial[c])
           f == [n \in 1..L |-> Initial[c][n]]
<1>1. L \in Nat /\ \A n \in 1..L : Initial[c][n] \in Instances
  BY InitialAssumption
<1>2. L <= NrObjs
  <2>1. \A m, n \in 1..L : f[m] = f[n] => m = n
    BY InitialAssumption
  <2>2. f \in Injection(1..L, Instances)
    BY <1>1, <2>1 DEF Injection, IsInjective
  <2>3. Cardinality(1..L) = L
    BY <1>1, FS_Interval
  <2> HIDE DEF f
  <2> QED BY <2>2, <2>3, RingAssumption, FS_Injection DEF NrObjs
<1>3. ASSUME NEW n \in 1..L, NEW q \in Numbers, Minus(q, Start) = n - 1
      PROVE  InitialEntry(c, q % Capacity) = Initial[c][n]
  <2> DEFINE places == {m \in 1..L : (Start + m - 1) % Capacity = q % Capacity}
  <2>1. Start \in Nat /\ Start + n - 1 \in Nat /\ q \in Nat /\ n \in Nat
    BY OneIsNumber, <1>1 DEF Numbers
  <2>2. \E w \in Int : (Start + n - 1) - q = Capacity * w
    <3>1. Minus(q, Start) = IF q >= Start THEN q - Start ELSE q + Modulus - Start
      BY OneIsNumber, MinusIs
    <3>2. Start + n - 1 = q \/ Start + n - 1 = q + Modulus
      BY <1>3, <2>1, <3>1, ConstantsAre
    <3>3. PICK m \in Nat : Modulus = Capacity * m
      BY RingsFit
    <3>4. Capacity * 0 = 0
      BY ConstantsAre
    <3>5. CASE Start + n - 1 = q
      BY <2>1, <3>4, <3>5
    <3>6. CASE Start + n - 1 = q + Modulus
      <4>1. (Start + n - 1) - q = Modulus
        BY <2>1, <3>6, ConstantsAre
      <4> QED BY <4>1, <3>3
    <3> QED BY <3>2, <3>5, <3>6
  <2>3. (Start + n - 1) % Capacity = q % Capacity
    BY <2>1, <2>2, CellOfSum
  <2>4. ASSUME NEW m \in places PROVE m = n
    <3>1. m \in Nat /\ Start + m - 1 \in Nat /\ m >= 1 /\ m <= L
          /\ (Start + m - 1) % Capacity = (Start + n - 1) % Capacity
      BY <1>1, <2>1, <2>3
    <3>2. (Start + m - 1) - (Start + n - 1) < Capacity
          /\ -Capacity < (Start + m - 1) - (Start + n - 1)
      BY <1>1, <1>2, <2>1, <3>1, ConstantsAre
    <3>3. Start + m - 1 = Start + n - 1
      BY <2>1, <3>1, <3>2, CellsOfRun
    <3> QED BY <2>1, <3>1, <3>3
  <2>5. places = {n}
    BY <2>3, <2>4
  <2> QED BY <2>5 DEF InitialEntry
<1> QED BY <1>1, <1>2, <1>3

LEMMA InitInv == Init => PoolInv
<1> SUFFICES ASSUME Init PROVE PoolInv
  OBVIOUS
<1>1. \A k \in Calls : call[k] = IdleCall /\ call[k].pc = "idle" /\ call[k].held = None
  BY IdleIs DEF Init
<1>2. ASSUME NEW c \in CPUs
      PROVE  /\ slot[c] \in Rings /\ slot[c].head = Start /\ slot[c].tail = slot[c].last
             /\ Count(c) = Len(Initial[c])
             /\ \A j \in Cells : slot[c].entries[j] = InitialEntry(c, j)
  <2> DEFINE L == Len(Initial[c])
             end == Plus(Start, L)
             entries == [j \in Cells |-> InitialEntry(c, j)]
  <2>1. L \in Numbers
    BY InitialRing, ConstantsAre DEF Numbers
  <2>2. end \in Numbers /\ Minus(end, Start) = L /\ Start \in Numbers
    BY <2>1, Offset, OneIsNumber
  <2>3. ASSUME NEW j \in Cells PROVE InitialEntry(c, j) \in Instances \cup {None}
    <3> DEFINE places == {n \in 1..L : (Start + n - 1) % Capacity = j}
    <3>1. CASE places = {}
      BY <3>1 DEF InitialEntry
    <3>2. CASE places # {}
      <4>1. (CHOOSE n \in places : TRUE) \in 1..L
        BY <3>2
      <4>2. InitialEntry(c, j) = Initial[c][CHOOSE n \in places : TRUE]
        BY <3>2 DEF InitialEntry
      <4> QED BY <4>1, <4>2, InitialRing
    <3> QED BY <3>1, <3>2
  <2>4. entries \in [Cells -> Instances \cup {None}]
    BY <2>3
  <2>5. slot[c] = [head |-> Start, tail |-> end, last |-> end, entries |-> entries]
    BY DEF Init
  <2>6. \A j \in Cells : entries[j] = InitialEntry(c, j)
    OBVIOUS
  <2> HIDE DEF end, entries
  <2> QED BY <2>2, <2>4, <2>5, <2>6 DEF Rings, Count
<1>3. TypeOK
  <2>1. slot \in [CPUs -> Rings]
    <3>1. slot = [c \in CPUs |-> slot[c]]
      BY DEF Init
    <3> QED BY <1>2, <3>1
  <2>2. call \in [Calls -> Activations]
    BY IdleIs DEF Init
  <2>3. /\ calls \in 0..MaxCalls /\ overlap \in [Calls -> 0..MaxOverlap]
        /\ resting \in [Calls -> SUBSET Instances]
    BY RingAssumption DEF Init
  <2> QED BY <2>1, <2>2, <2>3 DEF TypeOK, Rings, Activations, Numbers
<1>4. ASSUME NEW c \in CPUs, NEW q \in Numbers
      PROVE  Live(c, q) <=>
               \E n \in 1..Len(Initial[c]) : Minus(q, Start) = n - 1 /\ Entry(c, q) = Initial[c][n]
  <2>1. Live(c, q) <=> Minus(q, Start) < Len(Initial[c])
    BY <1>2 DEF Live
  <2>2. Minus(q, Start) \in Nat /\ Len(Initial[c]) \in Nat
    <3>1. Minus(q, Start) \in Numbers /\ Len(Initial[c]) \in 0..NrObjs
      BY OneIsNumber, MinusIs, InitialRing
    <3> QED BY <3>1, ConstantsAre DEF Numbers
  <2>3. ASSUME NEW n \in 1..Len(Initial[c]), Minus(q, Start) = n - 1
        PROVE  Entry(c, q) = Initial[c][n]
    BY <1>2, <2>3, InitialRing, CellIs DEF Entry
  <2>4. CASE Minus(q, Start) < Len(Initial[c])
    <3>1. Minus(q, Start) + 1 \in 1..Len(Initial[c])
          /\ Minus(q, Start) = (Minus(q, Start) + 1) - 1
      BY <2>2, <2>4
    <3> QED BY <2>1, <2>3, <2>4, <3>1
  <2>5. CASE ~(Minus(q, Start) < Len(Initial[c]))
    BY <2>1, <2>2, <2>5
  <2> QED BY <2>4, <2>5
<1>5. SoloInv /\ HoldInv
  BY <1>1 DEF SoloInv, HoldInv, HeldBy, Busy, Searching, Returning
<1>6. OwnInv
  <2>1. ASSUME NEW c \in CPUs, NEW q \in Numbers, Live(c, q)
        PROVE  Entry(c, q) \in Instances /\ \A k \in Calls : call[k].held # Entry(c, q)
    BY <1>1, <1>4, <2>1, InitialRing, RingAssumption
  <2>2. ASSUME NEW c \in CPUs, NEW d \in CPUs, NEW p \in Numbers, NEW q \in Numbers,
               Live(c, p), Live(d, q), Entry(c, p) = Entry(d, q)
        PROVE  c = d /\ p = q
    <3>1. PICK m \in 1..Len(Initial[c]) : Minus(p, Start) = m - 1 /\ Entry(c, p) = Initial[c][m]
      BY <1>4, <2>2
    <3>2. PICK n \in 1..Len(Initial[d]) : Minus(q, Start) = n - 1 /\ Entry(d, q) = Initial[d][n]
      BY <1>4, <2>2
    <3>3. c = d /\ m = n
      <4>1. Initial[c][m] = Initial[d][n]
        BY <2>2, <3>1, <3>2
      <4> QED BY <4>1, InitialAssumption
    <3>4. Minus(p, Start) = Minus(q, Start)
      BY <3>1, <3>2, <3>3
    <3> QED BY <3>3, <3>4, Offset, OneIsNumber
  <2>3. ASSUME NEW o \in Instances
        PROVE  \E c \in CPUs, q \in Numbers : Live(c, q) /\ Entry(c, q) = o
    <3>1. PICK c \in CPUs : \E n \in 1..Len(Initial[c]) : Initial[c][n] = o
      BY InitialAssumption
    <3>2. PICK n \in 1..Len(Initial[c]) : Initial[c][n] = o
      BY <3>1
    <3>3. n - 1 \in Numbers
      BY <3>2, InitialRing, ConstantsAre DEF Numbers
    <3>4. Plus(Start, n - 1) \in Numbers /\ Minus(Plus(Start, n - 1), Start) = n - 1
      BY <3>3, Offset, OneIsNumber
    <3>5. Entry(c, Plus(Start, n - 1)) = o
      BY <1>2, <3>2, <3>4, InitialRing, CellIs DEF Entry
    <3>6. Live(c, Plus(Start, n - 1))
      BY <1>4, <3>2, <3>4, <3>5
    <3> QED BY <3>4, <3>5, <3>6
  <2>4. \A k \in Calls : call[k].held = None
    BY <1>1
  <2> QED BY <2>1, <2>2, <2>3, <2>4 DEF OwnInv
<1>7. PushInv
  BY <1>1, <1>2 DEF PushInv, Pushed, Returning
<1>8. MoveInv
  BY <1>1 DEF MoveInv, Overlapped, Sighted
<1>9. SearchInv /\ RestInv
  BY <1>1 DEF SearchInv, Searched, Sighted, RestInv, Rested, Searching
<1> QED BY <1>3, <1>5, <1>6, <1>7, <1>8, <1>9 DEF PoolInv

LEMMA NextInv == PoolInv /\ [Next]_vars => PoolInv'
<1> SUFFICES ASSUME PoolInv, [Next]_vars PROVE PoolInv'
  BY SMTT(60)
<1>1. CASE UNCHANGED vars
  BY <1>1, SMTT(60) DEF vars, PoolInv, TypeOK, SoloInv, Busy, HoldInv, HeldBy, OwnInv, Live, Count, Entry,
              PushInv, Filling, Pushed, MoveInv, Overlapped, SearchingCalls, Moved, SearchInv, Searched,
              RestInv, Rested, Ahead
<1>2. ASSUME NEW k \in Calls, NEW c \in CPUs, Enter(k, c) \/ Recycle(k, c) PROVE PoolInv'
  BY <1>2, EnterKeeps, RecycleKeeps
<1>3. ASSUME NEW k \in Calls,
             LoadHead(k) \/ LoadLast(k) \/ CheckStale(k) \/ Reload(k) \/ Fetch(k)
      PROVE  PoolInv'
  BY <1>3, LooksIs, LooksKeeps DEF PoolInv
<1>4. ASSUME NEW k \in Calls, Cas(k) PROVE PoolInv'
  BY <1>4, LooksIs, LooksKeeps, TakesKeeps DEF PoolInv
<1>5. ASSUME NEW k \in Calls,
             Miss(k) \/ LoadTail(k) \/ LoadHeadAgain(k) \/ ClaimTail(k) \/ Put(k) \/ Publish(k)
      PROVE  PoolInv'
  BY <1>5, MissKeeps, ReadsKeeps, ClaimKeeps, PutKeeps, PublishKeeps
<1> QED BY <1>1, <1>2, <1>3, <1>4, <1>5 DEF Next

LEMMA PoolInvariant == Spec => []PoolInv
BY InitInv, NextInv, PTL DEF Spec

-----------------------------------------------------------------------------
(* The theorems.                                                           *)

\* The counters of the rings keep their width, and a search ends after the
\* ring of the last CPU.
THEOREM PoolTypeCorrect == Spec => []TypeOK
<1>1. PoolInv => TypeOK
  BY DEF PoolInv
<1> QED BY <1>1, PoolInvariant, PTL

LEMMA InOnePlace ==
  ASSUME PoolInv, NEW o \in Instances
  PROVE  Cardinality(Holders(o)) + Cardinality(CellsOf(o)) = 1
<1> USE DEF PoolInv
<1>1. o # None /\ RoomInv
  BY RingAssumption, Room
<1>2. ASSUME NEW place \in CellsOf(o)
      PROVE  \E c \in CPUs : \E j \in Window(c) : place = <<c, j>> /\ EntryAt(c, j) = o
  BY DEF CellsOf
<1>3. ASSUME NEW c \in CPUs, NEW j \in Window(c), EntryAt(c, j) = o
      PROVE  \E q \in Numbers : Live(c, q) /\ Entry(c, q) = o /\ j = Minus(q, slot[c].head)
  <2>1. slot[c].head \in Numbers /\ j \in Numbers /\ j < Count(c)
    BY Typed, ConstantsAre DEF Window, Numbers, Count
  <2>2. Plus(slot[c].head, j) \in Numbers /\ Minus(Plus(slot[c].head, j), slot[c].head) = j
    BY <2>1, Offset
  <2>3. Live(c, Plus(slot[c].head, j)) /\ Entry(c, Plus(slot[c].head, j)) = o
    BY <1>3, <2>1, <2>2 DEF Live, Entry, EntryAt
  <2> QED BY <2>2, <2>3
<1>4. CASE \E k \in Calls : call[k].held = o
  <2>1. PICK k \in Calls : Holders(o) = {k}
    BY <1>1, <1>4 DEF Holders, OwnInv
  <2>2. CellsOf(o) = {}
    BY <1>2, <1>3, <1>4 DEF OwnInv
  <2> QED BY <2>1, <2>2, FS_Singleton, FS_EmptySet
<1>5. CASE ~\E k \in Calls : call[k].held = o
  <2>1. PICK c \in CPUs, q \in Numbers : Live(c, q) /\ Entry(c, q) = o
    BY <1>5 DEF OwnInv
  <2> DEFINE h == slot[c].head
             j == Minus(q, h)
  <2>2. h \in Numbers /\ j \in Numbers /\ Plus(h, j) = q /\ Count(c) \in Numbers
    BY Typed, Offset
  <2>3. j \in Window(c)
    <3>1. j < Count(c) /\ Count(c) <= NrObjs
      BY <1>1, <2>1 DEF Live, RoomInv
    <3> QED BY <2>2, <3>1, ConstantsAre DEF Window, Count, Numbers
  <2>4. EntryAt(c, j) = o
    BY <2>1, <2>2 DEF EntryAt, Entry
  <2>5. <<c, j>> \in CellsOf(o)
    BY <2>3, <2>4 DEF CellsOf, Window
  <2>6. ASSUME NEW place \in CellsOf(o) PROVE place = <<c, j>>
    <3>1. PICK d \in CPUs, i \in Numbers, p \in Numbers :
            /\ place = <<d, i>> /\ Live(d, p) /\ Entry(d, p) = o /\ i = Minus(p, slot[d].head)
      <4>1. PICK d \in CPUs : \E i \in Window(d) : place = <<d, i>> /\ EntryAt(d, i) = o
        BY <1>2
      <4>2. PICK i \in Window(d) : place = <<d, i>> /\ EntryAt(d, i) = o
        BY <4>1
      <4>3. i \in Numbers
        BY <4>2, ConstantsAre DEF Window, Numbers
      <4> QED BY <1>3, <4>2, <4>3
    <3>2. c = d /\ q = p
      BY <2>1, <3>1 DEF OwnInv
    <3> QED BY <3>1, <3>2
  <2>7. CellsOf(o) = {<<c, j>>}
    BY <2>5, <2>6
  <2>8. Holders(o) = {}
    BY <1>5 DEF Holders
  <2>9. Cardinality(CellsOf(o)) = 1
    <3> DEFINE place == <<c, j>>
    <3>1. CellsOf(o) = {place}
      BY <2>7
    <3> HIDE DEF place
    <3> QED BY <3>1, FS_Singleton
  <2> QED BY <2>8, <2>9, FS_EmptySet
<1> QED BY <1>4, <1>5

\* No instance is lost or doubled by pops and pushes that race on the rings.
THEOREM InstancesAreKept == Spec => []NothingLost
<1>1. PoolInv => NothingLost
  BY InOnePlace DEF NothingLost
<1> QED BY <1>1, PoolInvariant, PTL

\* The WARN_ON_ONCE of line 116 never triggers.
THEOREM RingsHaveRoom == Spec => []NeverWarns
<1>1. PoolInv => NeverWarns
  BY DEF PoolInv, PushInv, Pushed, NeverWarns, At
<1> QED BY <1>1, PoolInvariant, PTL

\* A pop that comes back with NULL has seen every instance that was free when
\* it began on its way from one ring to another, or taken.
THEOREM RestingIsFound == Spec => []MissedOnlyInMotion
<1>1. PoolInv => MissedOnlyInMotion
  BY DEF PoolInv, RestInv, Rested, MissedOnlyInMotion, At
<1> QED BY <1>1, PoolInvariant, PTL

\* The pool implements exclusive ownership: what the probes keep in the data of
\* an instance (lines 510 and 589) belongs to one call.
THEOREM OneOwner == Spec => ExclusiveOwnership
<1> DEFINE owned == [k \in Calls |-> call[k].held]
<1>1. Init => Owners!Init
  BY DEF Init, IdleCall, Owners!Init
<1>2. PoolInv /\ [Next]_vars => [Owners!Next]_owned
  <2> SUFFICES ASSUME PoolInv, [Next]_vars PROVE Owners!Next \/ owned' = owned
    OBVIOUS
  <2> USE DEF PoolInv
  <2>1. ASSUME NEW k \in Calls, Moves(k), call'[k].held = call[k].held PROVE owned' = owned
    BY <2>1 DEF Moves
  <2>2. CASE UNCHANGED vars
    BY <2>2 DEF vars
  <2>3. ASSUME NEW k \in Calls, NEW c \in CPUs, Enter(k, c) \/ Recycle(k, c) PROVE owned' = owned
    <3>1. Enter(k, c) => call[k].held = None
      BY DEF Enter, At, HoldInv, HeldBy, Returning
    <3> QED BY <2>1, <2>3, <3>1, EnterIs, RecycleIs
  <2>4. ASSUME NEW k \in Calls,
               \/ LoadHead(k) \/ LoadLast(k) \/ CheckStale(k) \/ Reload(k) \/ Fetch(k)
               \/ Cas(k) /\ slot[call[k].ring].head # call[k].head
        PROVE  owned' = owned
    BY <2>1, <2>4, LooksIs DEF Looks
  <2>5. ASSUME NEW k \in Calls, Cas(k), slot[call[k].ring].head = call[k].head
        PROVE  Owners!Next
    <3>1. Moves(k) /\ call[k].pc = "cas" /\ call'[k].held = call[k].obj
      BY <2>5, TakesIs
    <3>2. PICK e \in CPUs, h \in Numbers : e = call[k].ring /\ h = call[k].head
      BY Typed DEF Activations
    <3>3. /\ h = slot[e].head /\ Count(e) > 0 /\ call[k].obj = Entry(e, h)
          /\ call[k].held = None
      BY <2>5, <3>1, <3>2 DEF SearchInv, Searched, HoldInv, HeldBy, Returning
    <3>4. Live(e, h)
      BY <3>3, Offset DEF Live
    <3>5. call[k].obj \in Instances /\ \A j \in Calls : call[j].held # call[k].obj
      BY <3>3, <3>4 DEF OwnInv
    <3>6. owned' = [owned EXCEPT ![k] = call[k].obj]
      BY <3>1 DEF Moves
    <3> QED BY <3>3, <3>5, <3>6 DEF Owners!Next, Owners!Take
  <2>6. ASSUME NEW k \in Calls, Miss(k) \/ LoadTail(k) \/ LoadHeadAgain(k) PROVE owned' = owned
    <3>1. Miss(k) => Moves(k) /\ call'[k].held = None /\ call[k].held = None
      BY EndIs DEF Miss, At, HoldInv, HeldBy, Returning
    <3> QED BY <2>1, <2>6, <3>1, ReadsIs
  <2>7. ASSUME NEW k \in Calls, ClaimTail(k) \/ Put(k) PROVE owned' = owned
    <3>1. ClaimTail(k) => slot[call[k].ring].tail = call[k].tail
      BY DEF ClaimTail, At, PushInv, Pushed
    <3>2. ClaimTail(k) => call' = [call EXCEPT ![k].pc = "put"]
      BY <3>1 DEF ClaimTail
    <3>3. Put(k) => call' = [call EXCEPT ![k].pc = "publish"]
      BY DEF Put
    <3> QED BY <2>1, <2>7, <3>2, <3>3, StepOfPush DEF Returning
  <2>8. ASSUME NEW k \in Calls, Publish(k) PROVE Owners!Next
    <3>1. call[k].held # None
      BY <2>8, RingAssumption DEF Publish, At, HoldInv, HeldBy, Returning
    <3>2. Moves(k) /\ call'[k].held = None
      BY <2>8, EndIs DEF Publish
    <3>3. owned' = [owned EXCEPT ![k] = None]
      BY <3>2 DEF Moves
    <3> QED BY <3>1, <3>3 DEF Owners!Next, Owners!Give
  <2> QED BY <2>2, <2>3, <2>4, <2>5, <2>6, <2>7, <2>8 DEF Next
<1> QED BY <1>1, <1>2, PoolInvariant, PTL DEF Spec, ExclusiveOwnership, Owners!Spec
=============================================================================
