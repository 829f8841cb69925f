--------------------------- MODULE QxlRingProofs ----------------------------
(***************************************************************************)
(* Proofs about QxlRing, for any number of rings, any capacity and any     *)
(* counter width the capacity divides.                                     *)
(***************************************************************************)
EXTENDS QxlRing, SequenceTheorems, TLAPS

-----------------------------------------------------------------------------
(* Arithmetic of counters that wrap at Modulus and slots taken modulo      *)
(* NumItems.                                                               *)

LEMMA Division ==
  ASSUME RingAssumption, NEW a \in Int
  PROVE  /\ a \div NumItems \in Int
         /\ a % NumItems \in 0 .. NumItems - 1
         /\ a = NumItems * (a \div NumItems) + (a % NumItems)
  BY DEF RingAssumption

LEMMA NextMultiple ==
  ASSUME RingAssumption, NEW k \in Int, NEW m \in Int, k > m
  PROVE  NumItems * k >= NumItems * m + NumItems
<1>1. NumItems * (k - m - 1) >= 0
  BY SMT DEF RingAssumption
<1>2. NumItems * (k - m - 1) = NumItems * k - NumItems * m - NumItems
  BY SMT DEF RingAssumption
<1> QED BY <1>1, <1>2, SMT DEF RingAssumption

LEMMA RemainderUnique ==
  ASSUME RingAssumption, NEW q \in Int, NEW r \in 0 .. NumItems - 1
  PROVE  (NumItems * q + r) % NumItems = r
<1> DEFINE a == NumItems * q + r
<1>0. a \in Int
  BY DEF RingAssumption
<1>1. /\ a \div NumItems \in Int
      /\ a = NumItems * (a \div NumItems) + (a % NumItems)
      /\ a % NumItems \in 0 .. NumItems - 1
  BY <1>0, Division
<1>2. CASE q = a \div NumItems
  BY <1>1, <1>2 DEF RingAssumption
<1>3. CASE q > a \div NumItems
  BY <1>1, <1>3, NextMultiple DEF RingAssumption
<1>4. CASE q < a \div NumItems
  BY <1>1, <1>4, NextMultiple DEF RingAssumption
<1> QED BY <1>1, <1>2, <1>3, <1>4

(* The wrap of a counter does not move its slot.                           *)
LEMMA SlotWrap ==
  ASSUME RingAssumption, NEW a \in Int
  PROVE  Slot(a + Modulus) = Slot(a)
<1> DEFINE q == a \div NumItems
           k == Modulus \div NumItems
<1>1. k \in Int /\ q \in Int /\ a = NumItems * q + (a % NumItems)
      /\ a % NumItems \in 0 .. NumItems - 1
  BY Division DEF RingAssumption
<1>2. Modulus = NumItems * k + (Modulus % NumItems)
  BY Division DEF RingAssumption
<1>3. a + Modulus = NumItems * (q + k) + (a % NumItems)
  <2>1. NumItems * (q + k) = NumItems * q + NumItems * k
    BY <1>1 DEF RingAssumption
  <2> QED BY <1>1, <1>2, <2>1 DEF RingAssumption
<1> HIDE DEF q, k
<1> QED BY <1>1, <1>3, RemainderUnique DEF Slot

(* Two counters less than NumItems apart have different slots.             *)
LEMMA SlotsDiffer ==
  ASSUME RingAssumption, NEW a \in Int, NEW d \in 1 .. NumItems - 1
  PROVE  Slot(a + d) # Slot(a)
<1> SUFFICES ASSUME (a + d) % NumItems = a % NumItems PROVE FALSE
  BY DEF Slot
<1> DEFINE q == a \div NumItems
           k == (a + d) \div NumItems
           r == a % NumItems
<1>1. /\ q \in Int /\ r \in 0 .. NumItems - 1
      /\ a = NumItems * q + r
  BY Division DEF RingAssumption
<1>2. /\ k \in Int
      /\ a + d = NumItems * k + ((a + d) % NumItems)
  <2>1. a + d \in Int
    BY DEF RingAssumption
  <2> QED BY <2>1, Division
<1>3. a + d = NumItems * k + r
  BY <1>2
<1> HIDE DEF q, k, r
<1>4. CASE q = k BY <1>1, <1>2, <1>3, <1>4 DEF RingAssumption
<1>5. CASE q > k BY <1>1, <1>2, <1>3, <1>5, NextMultiple DEF RingAssumption
<1>6. CASE q < k BY <1>1, <1>2, <1>3, <1>6, NextMultiple DEF RingAssumption
<1> QED BY <1>1, <1>2, <1>4, <1>5, <1>6

LEMMA SlotType ==
  ASSUME RingAssumption, NEW a \in Int
  PROVE  Slot(a) \in 0 .. NumItems - 1
  BY Division DEF Slot

(* Modular successor and distance, without the modulus.                    *)
LEMMA IncIs ==
  ASSUME RingAssumption, NEW c \in Counter
  PROVE  /\ Inc(c) \in Counter
         /\ Inc(c) = IF c = Modulus - 1 THEN 0 ELSE c + 1
  BY DEF RingAssumption, Counter, Inc

LEMMA DistanceIs ==
  ASSUME RingAssumption, NEW p \in 0 .. Modulus - 1, NEW c \in 0 .. Modulus - 1
  PROVE  (p - c) % Modulus = IF p >= c THEN p - c ELSE p - c + Modulus
  BY DEF RingAssumption

LEMMA UsedIs ==
  ASSUME RingAssumption, NEW r \in Rings, prod[r] \in Counter, cons[r] \in Counter
  PROVE  Used(r) = IF prod[r] >= cons[r] THEN prod[r] - cons[r]
                   ELSE prod[r] - cons[r] + Modulus
  BY DistanceIs, Zenon DEF Counter, Used

(* The slots of the elements waiting in a ring are those that follow cons, *)
(* and prod's own slot comes after them.                                   *)
LEMMA SlotOfProd ==
  ASSUME RingAssumption, NEW r \in Rings, prod[r] \in Counter, cons[r] \in Counter
  PROVE  Slot(prod[r]) = Slot(cons[r] + Used(r))
<1>1. CASE prod[r] >= cons[r]
  <2>1. cons[r] + Used(r) = prod[r]
    BY <1>1, UsedIs DEF RingAssumption, Counter
  <2> QED BY <2>1
<1>2. CASE prod[r] < cons[r]
  <2>1. cons[r] + Used(r) = prod[r] + Modulus
    BY <1>2, UsedIs DEF RingAssumption, Counter
  <2>2. prod[r] \in Int
    BY DEF Counter
  <2> QED BY <2>1, <2>2, SlotWrap
<1> QED BY <1>1, <1>2 DEF Counter

LEMMA SlotOfInc ==
  ASSUME RingAssumption, NEW c \in Counter, NEW i \in Nat
  PROVE  Slot(Inc(c) + i) = Slot(c + 1 + i)
<1>1. CASE c = Modulus - 1
  <2>1. Inc(c) + i = i /\ c + 1 + i = i + Modulus
    BY <1>1, IncIs DEF RingAssumption, Counter
  <2> QED BY <2>1, SlotWrap
<1>2. CASE c # Modulus - 1
  BY <1>2, IncIs DEF RingAssumption, Counter
<1> QED BY <1>1, <1>2

(* A slot that awaits the producer is none of the slots in use.            *)
LEMMA FreeSlot ==
  ASSUME RingAssumption, NEW r \in Rings, prod[r] \in Counter, cons[r] \in Counter,
         Used(r) < NumItems, NEW i \in 1 .. Used(r)
  PROVE  Slot(cons[r] + i - 1) # Slot(prod[r])
<1> DEFINE a == cons[r] + i - 1
           d == Used(r) - i + 1
<1>1. Used(r) \in Int
  BY UsedIs DEF RingAssumption, Counter
<1>2. a \in Int /\ d \in 1 .. NumItems - 1 /\ a + d = cons[r] + Used(r)
  BY <1>1 DEF RingAssumption, Counter
<1>3. Slot(a + d) # Slot(a)
  BY <1>2, SlotsDiffer
<1> QED BY <1>2, <1>3, SlotOfProd

(* What a push and a pop do to the distance between prod and cons.         *)
LEMMA DistanceAfter ==
  ASSUME RingAssumption, NEW p \in Counter, NEW c \in Counter
  PROVE  /\ (p - c) % Modulus \in Counter
         /\ p = c <=> (p - c) % Modulus = 0
         /\ (p - c) % Modulus < NumItems =>
              /\ (Inc(p) - c) % Modulus = ((p - c) % Modulus) + 1
              /\ Inc(p) # c
         /\ p # c => (p - Inc(c)) % Modulus = ((p - c) % Modulus) - 1
<1>1. /\ Inc(p) \in Counter
      /\ Inc(p) = IF p = Modulus - 1 THEN 0 ELSE p + 1
      /\ Inc(c) \in Counter
      /\ Inc(c) = IF c = Modulus - 1 THEN 0 ELSE c + 1
  BY IncIs
<1>2. /\ (p - c) % Modulus = IF p >= c THEN p - c ELSE p - c + Modulus
      /\ (Inc(p) - c) % Modulus =
           IF Inc(p) >= c THEN Inc(p) - c ELSE Inc(p) - c + Modulus
      /\ (p - Inc(c)) % Modulus =
           IF p >= Inc(c) THEN p - Inc(c) ELSE p - Inc(c) + Modulus
  BY <1>1, DistanceIs, Zenon DEF Counter
<1> QED BY <1>1, <1>2 DEF RingAssumption, Counter

-----------------------------------------------------------------------------
LEMMA TypeStep ==
  ASSUME RingAssumption
  PROVE  TypeOK /\ [Next]_vars => TypeOK'
<1> SUFFICES ASSUME TypeOK, [Next]_vars PROVE TypeOK'
  OBVIOUS
<1> USE DEF TypeOK
<1>0. \A c \in Counter : Inc(c) \in Counter
  BY IncIs
<1>00. \A r \in Rings : Slot(prod[r]) \in 0 .. NumItems - 1
  BY SlotType DEF Counter
<1>1. ASSUME NEW r \in Rings, NEW e \in Elements, PushCall(r, e) PROVE TypeOK'
  BY <1>1 DEF PushCall, wvars
<1>2. CASE PushCopy
  BY <1>2, <1>00 DEF PushCopy, wvars
<1>3. CASE PushProd
  BY <1>3, <1>0 DEF PushProd, wvars
<1>4. CASE PushNotify
  BY <1>4 DEF PushNotify, wvars
<1>5. ASSUME NEW r \in Rings, GetItem(r) PROVE TypeOK'
  <2>1. Slot(cons[r]) \in 0 .. NumItems - 1
    BY SlotType DEF Counter
  <2> QED BY <1>5, <2>1 DEF GetItem, xvars
<1>6. ASSUME NEW r \in Rings, GetNothing(r) PROVE TypeOK'
  BY <1>6 DEF GetNothing, xvars
<1>7. CASE GetPop
  BY <1>7, <1>0 DEF GetPop, xvars
<1>8. CASE ReqTest
  BY <1>8 DEF ReqTest, xvars
<1>9. CASE ReqReadProd
  BY <1>9, <1>0 DEF ReqReadProd, xvars
<1>10. CASE ReqArm
  <2>1. 0 \in Counter
    BY DEF RingAssumption, Counter
  <2> QED BY <1>10, <2>1 DEF ReqArm, xvars
<1>11. CASE ReqRecheck
  BY <1>11 DEF ReqRecheck, xvars
<1>12. CASE Wakeup
  BY <1>12 DEF Wakeup, xvars
<1>13. CASE UNCHANGED vars
  BY <1>13 DEF vars, xvars, wvars
<1> QED
  BY <1>1, <1>2, <1>3, <1>4, <1>5, <1>6, <1>7, <1>8, <1>9, <1>10, <1>11, <1>12,
     <1>13 DEF Next, XStep, Poll, Callback

(* The type invariant holds for every number of rings, every capacity and  *)
(* every counter width: in particular the counters survive their wrap.     *)
THEOREM TypeCorrect ==
  ASSUME RingAssumption
  PROVE  Spec => []TypeOK
<1>1. Init => TypeOK
  <2>1. 0 \in Counter /\ 1 \in Counter
    BY DEF RingAssumption, Counter
  <2> QED BY <2>1 DEF Init, TypeOK
<1> QED BY <1>1, TypeStep, PTL DEF Spec

-----------------------------------------------------------------------------
(* NeverLapped, NoLostWakeup and ItemIsStable hold together with what each *)
(* thread knows at its own program counter.                                *)

(* What X carries into a ring is a command.                                *)
CarriesElement ==
  /\ xpc = "room" => xelt \in Elements
  /\ xpc = "publish" => slots[xring][Slot(prod[xring])] \in Elements

(* Inside a callback the worker is not waiting for that callback's ring.   *)
AwakeInCallback == wpc # "top" => wring \notin waiting

(* As long as a ring stays empty, the alarm the worker computed, stored or *)
(* sleeps on is set to the next push.                                      *)
AlarmIsNext ==
  /\ wpc = "armed" /\ Empty(wring) => warm = Inc(prod[wring])
  /\ wpc = "recheck" /\ Empty(wring) => notifyOnProd[wring] = Inc(prod[wring])
  /\ \A r \in waiting : Empty(r) => notifyOnProd[r] = Inc(prod[r])

IInv ==
  /\ TypeOK
  /\ NeverLapped
  /\ CarriesElement
  /\ AwakeInCallback
  /\ AlarmIsNext
  /\ NoLostWakeup
  /\ ItemIsStable

LEMMA InitIInv ==
  ASSUME RingAssumption
  PROVE  Init => IInv
<1> SUFFICES ASSUME Init PROVE IInv
  OBVIOUS
<1>1. 0 \in Counter /\ 1 \in Counter /\ (0 - 0) % Modulus = 0
  BY DEF RingAssumption, Counter
<1>2. TypeOK
  BY <1>1 DEF Init, TypeOK
<1>3. NeverLapped
  <2>1. \A r \in Rings : prod[r] = 0 /\ cons[r] = 0
    BY DEF Init
  <2>2. \A r \in Rings : Used(r) = 0
    BY <1>1, <2>1 DEF Used
  <2>3. 0 <= NumItems /\ xpc = "idle"
    BY DEF RingAssumption, Init
  <2> QED BY <2>2, <2>3 DEF NeverLapped
<1> QED
  BY <1>2, <1>3 DEF Init, IInv, CarriesElement, AwakeInCallback, AlarmIsNext,
     NoLostWakeup, ItemIsStable

(* The typing of a state the invariant holds in, and of the arithmetic on  *)
(* its counters.                                                           *)
LEMMA RingFacts ==
  ASSUME RingAssumption, TypeOK, NEW r \in Rings
  PROVE  /\ prod[r] \in Counter /\ cons[r] \in Counter
         /\ Used(r) \in Counter
         /\ Empty(r) <=> Used(r) = 0
         /\ Slot(prod[r]) \in 0 .. NumItems - 1
         /\ Slot(cons[r]) \in 0 .. NumItems - 1
<1>1. prod[r] \in Counter /\ cons[r] \in Counter
  BY DEF TypeOK
<1>2. Used(r) \in Counter /\ (Empty(r) <=> Used(r) = 0)
  BY <1>1, DistanceAfter, Zenon DEF Used, Empty
<1>3. prod[r] \in Int /\ cons[r] \in Int
  BY <1>1 DEF Counter
<1> QED BY <1>1, <1>2, <1>3, SlotType

(* Writing the slot of a command disturbs nothing the worker reads.        *)
LEMMA CopyStep ==
  ASSUME RingAssumption
  PROVE  IInv /\ PushCopy => IInv'
<1> SUFFICES ASSUME IInv, PushCopy PROVE IInv'
  OBVIOUS
<1>0. TypeOK'
  BY TypeStep DEF IInv, Next, XStep
<1> USE DEF IInv, PushCopy, wvars
<1>1. NeverLapped'
  <2>1. Used(xring) < NumItems
    BY RingFacts DEF RingAssumption, TypeOK, NeverLapped, Full, Counter
  <2>2. \A r \in Rings : Used(r)' = Used(r)
    BY DEF Used
  <2> QED BY <2>1, <2>2 DEF NeverLapped, TypeOK
<1>2. CarriesElement'
  BY RingFacts DEF CarriesElement, TypeOK
<1>3. AwakeInCallback' /\ AlarmIsNext' /\ NoLostWakeup'
  BY DEF AwakeInCallback, AlarmIsNext, NoLostWakeup, Empty
<1>4. ItemIsStable'
  <2> SUFFICES ASSUME wpc = "pop"
               PROVE  slots'[wring][Slot(cons[wring])] = slots[wring][Slot(cons[wring])]
    BY DEF ItemIsStable, Empty
  <2>1. CASE wring # xring
    BY <2>1 DEF TypeOK
  <2>2. CASE wring = xring
    <3>1. Used(wring) \in 1 .. NumItems - 1
      BY <2>2, RingFacts
         DEF RingAssumption, TypeOK, NeverLapped, Full, Counter, ItemIsStable
    <3>2. Slot(cons[wring] + 1 - 1) # Slot(prod[wring])
      <4>1. wring \in Rings /\ Used(wring) < NumItems /\ 1 \in 1 .. Used(wring)
        BY <3>1 DEF RingAssumption, TypeOK
      <4>2. prod[wring] \in Counter /\ cons[wring] \in Counter
        BY <4>1, RingFacts
      <4> QED BY <4>1, <4>2, FreeSlot
    <3>3. cons[wring] + 1 - 1 = cons[wring]
      BY DEF TypeOK, Counter
    <3> QED BY <2>2, <3>2, <3>3, RingFacts DEF TypeOK
  <2> QED BY <2>1, <2>2
<1> QED BY <1>0, <1>1, <1>2, <1>3, <1>4

(* The store of prod ends the quiet of a ring: whoever sleeps on it has    *)
(* set its alarm to this very value.                                       *)
LEMMA ProdStep ==
  ASSUME RingAssumption
  PROVE  IInv /\ PushProd => IInv'
<1> SUFFICES ASSUME IInv, PushProd PROVE IInv'
  OBVIOUS
<1>0. TypeOK'
  BY TypeStep DEF IInv, Next, XStep
<1> USE DEF IInv, PushProd, wvars
<1> DEFINE p == prod[xring]
           c == cons[xring]
<1>1. /\ p \in Counter /\ c \in Counter /\ xring \in Rings
      /\ (p - c) % Modulus < NumItems
  BY RingFacts DEF TypeOK, NeverLapped, Used
<1>2. /\ (Inc(p) - c) % Modulus = ((p - c) % Modulus) + 1
      /\ Inc(p) # c
      /\ (p - c) % Modulus \in Counter
  BY <1>1, DistanceAfter
<1>3. prod'[xring] = Inc(p) /\ \A r \in Rings \ {xring} : prod'[r] = prod[r]
  BY DEF TypeOK
<1>4. ~Empty(xring)' /\ \A r \in Rings \ {xring} : Empty(r)' = Empty(r)
  BY <1>2, <1>3 DEF Empty
<1>5. NeverLapped'
  <2>1. Used(xring)' <= NumItems
    BY <1>1, <1>2, <1>3 DEF RingAssumption, Used, Counter
  <2>2. \A r \in Rings \ {xring} : Used(r)' = Used(r)
    BY <1>3 DEF Used
  <2> QED BY <2>1, <2>2 DEF NeverLapped
<1>6. CarriesElement' /\ AwakeInCallback'
  BY DEF CarriesElement, AwakeInCallback
<1>7. AlarmIsNext'
  BY <1>3, <1>4 DEF AlarmIsNext, TypeOK
<1>8. NoLostWakeup'
  BY <1>3, <1>4 DEF NoLostWakeup, AlarmIsNext, TypeOK
<1>9. ItemIsStable'
  BY <1>4 DEF ItemIsStable, TypeOK
<1> QED BY <1>0, <1>5, <1>6, <1>7, <1>8, <1>9

(* Moving cons past a command gives its slot back.                         *)
LEMMA PopStep ==
  ASSUME RingAssumption
  PROVE  IInv /\ GetPop => IInv'
<1> SUFFICES ASSUME IInv, GetPop PROVE IInv'
  OBVIOUS
<1>0. TypeOK'
  BY TypeStep DEF IInv, Next, Callback
<1> USE DEF IInv, GetPop, xvars
<1> DEFINE p == prod[wring]
           c == cons[wring]
<1>1. p \in Counter /\ c \in Counter /\ wring \in Rings /\ p # c
  BY RingFacts DEF TypeOK, ItemIsStable, Empty
<1>2. /\ (p - Inc(c)) % Modulus = ((p - c) % Modulus) - 1
      /\ (p - c) % Modulus \in Counter
  BY <1>1, DistanceAfter
<1>3. cons'[wring] = Inc(c) /\ \A r \in Rings \ {wring} : cons'[r] = cons[r]
  BY DEF TypeOK
<1>4. NeverLapped'
  <2>1. Used(wring)' = Used(wring) - 1
    BY <1>2, <1>3 DEF Used
  <2>2. \A r \in Rings \ {wring} : Used(r)' = Used(r)
    BY <1>3 DEF Used
  <2>3. \A r \in Rings : Used(r) \in Counter
    BY RingFacts
  <2> QED BY <2>1, <2>2, <2>3 DEF RingAssumption, NeverLapped, Counter
<1>5. CarriesElement' /\ AwakeInCallback' /\ ItemIsStable'
  BY DEF CarriesElement, AwakeInCallback, ItemIsStable
<1>6. \A r \in waiting : Empty(r)' = Empty(r)
  BY <1>3 DEF AwakeInCallback, Empty, TypeOK
<1>7. AlarmIsNext' /\ NoLostWakeup'
  BY <1>6 DEF AlarmIsNext, NoLostWakeup
<1> QED BY <1>0, <1>4, <1>5, <1>7

(* No other step moves a counter or writes a slot.                         *)
LEMMA QuietStep ==
  ASSUME RingAssumption, IInv, TypeOK', UNCHANGED <<prod, cons, slots>>,
         xpc' = "publish" => UNCHANGED <<xpc, xring>>,
         xpc' = "room" => xelt' \in Elements \/ UNCHANGED <<xpc, xelt>>
  PROVE  NeverLapped' /\ CarriesElement'
<1>1. \A r \in Rings : Used(r)' = Used(r)
  BY DEF Used
<1> QED BY <1>1 DEF IInv, NeverLapped, CarriesElement

LEMMA NextIInv ==
  ASSUME RingAssumption
  PROVE  IInv /\ [Next]_vars => IInv'
<1> SUFFICES ASSUME IInv, [Next]_vars PROVE IInv'
  OBVIOUS
<1>0. TypeOK'
  BY TypeStep DEF IInv
<1> DEFINE Doorbell == AwakeInCallback /\ AlarmIsNext /\ NoLostWakeup /\ ItemIsStable
<1> USE DEF AwakeInCallback, AlarmIsNext, NoLostWakeup, ItemIsStable, Empty
<1>1. ASSUME NEW r \in Rings, NEW e \in Elements, PushCall(r, e) PROVE IInv'
  <2>1. NeverLapped' /\ CarriesElement'
    BY <1>0, <1>1, QuietStep DEF PushCall, wvars
  <2>2. Doorbell'
    BY <1>1 DEF IInv, PushCall, wvars
  <2> QED BY <1>0, <2>1, <2>2 DEF IInv
<1>2. CASE PushCopy
  BY <1>2, CopyStep
<1>3. CASE PushProd
  BY <1>3, ProdStep
<1>4. CASE PushNotify
  <2>1. NeverLapped' /\ CarriesElement'
    BY <1>0, <1>4, QuietStep DEF PushNotify, wvars
  <2>2. Doorbell'
    BY <1>4 DEF IInv, PushNotify, wvars
  <2> QED BY <1>0, <2>1, <2>2 DEF IInv
<1>5. ASSUME NEW r \in Rings, GetItem(r) PROVE IInv'
  <2>1. NeverLapped' /\ CarriesElement'
    BY <1>0, <1>5, QuietStep DEF GetItem, xvars
  <2>2. Doorbell'
    BY <1>5 DEF IInv, GetItem, xvars
  <2> QED BY <1>0, <2>1, <2>2 DEF IInv
<1>6. ASSUME NEW r \in Rings, GetNothing(r) PROVE IInv'
  <2>1. NeverLapped' /\ CarriesElement'
    BY <1>0, <1>6, QuietStep DEF GetNothing, xvars
  <2>2. Doorbell'
    BY <1>6 DEF IInv, GetNothing, xvars
  <2> QED BY <1>0, <2>1, <2>2 DEF IInv
<1>7. CASE GetPop
  BY <1>7, PopStep
<1>8. CASE ReqTest
  <2>1. NeverLapped' /\ CarriesElement'
    BY <1>0, <1>8, QuietStep DEF ReqTest, xvars
  <2>2. Doorbell'
    BY <1>8 DEF IInv, ReqTest, xvars
  <2> QED BY <1>0, <2>1, <2>2 DEF IInv
<1>9. CASE ReqReadProd
  <2>1. NeverLapped' /\ CarriesElement'
    BY <1>0, <1>9, QuietStep DEF ReqReadProd, xvars
  <2>2. Doorbell'
    BY <1>9 DEF IInv, ReqReadProd, xvars
  <2> QED BY <1>0, <2>1, <2>2 DEF IInv
<1>10. CASE ReqArm
  <2>1. NeverLapped' /\ CarriesElement'
    BY <1>0, <1>10, QuietStep DEF ReqArm, xvars, TypeOK
  <2>2. Doorbell'
    BY <1>10 DEF IInv, ReqArm, xvars, TypeOK
  <2> QED BY <1>0, <2>1, <2>2 DEF IInv
<1>11. CASE ReqRecheck
  <2>1. NeverLapped' /\ CarriesElement'
    BY <1>0, <1>11, QuietStep DEF ReqRecheck, xvars
  <2>2. Doorbell'
    BY <1>11 DEF IInv, ReqRecheck, xvars
  <2> QED BY <1>0, <2>1, <2>2 DEF IInv
<1>12. CASE Wakeup
  <2>1. NeverLapped' /\ CarriesElement'
    BY <1>0, <1>12, QuietStep DEF Wakeup, xvars
  <2>2. Doorbell'
    BY <1>12 DEF IInv, Wakeup, xvars
  <2> QED BY <1>0, <2>1, <2>2 DEF IInv
<1>13. CASE UNCHANGED vars
  <2>1. NeverLapped' /\ CarriesElement'
    BY <1>0, <1>13, QuietStep DEF vars, xvars, wvars
  <2>2. Doorbell'
    BY <1>13 DEF IInv, vars, xvars, wvars
  <2> QED BY <1>0, <2>1, <2>2 DEF IInv
<1> QED
  BY <1>1, <1>2, <1>3, <1>4, <1>5, <1>6, <1>7, <1>8, <1>9, <1>10, <1>11, <1>12,
     <1>13 DEF Next, XStep, Poll, Callback

LEMMA AlwaysIInv ==
  ASSUME RingAssumption
  PROVE  Spec => []IInv
  BY InitIInv, NextIInv, PTL DEF Spec

(* A push that has passed the full test never overtakes the consumer.      *)
THEOREM NeverLappedTheorem ==
  ASSUME RingAssumption
  PROVE  Spec => []NeverLapped
<1>1. IInv => NeverLapped
  BY DEF IInv
<1> QED BY <1>1, AlwaysIInv, PTL

(* A worker asleep on a ring with a command in it is about to be woken.    *)
THEOREM NoLostWakeupTheorem ==
  ASSUME RingAssumption
  PROVE  Spec => []NoLostWakeup
<1>1. IInv => NoLostWakeup
  BY DEF IInv
<1> QED BY <1>1, AlwaysIInv, PTL

(* The slot a worker is copying out stays what it was.                     *)
THEOREM ItemIsStableTheorem ==
  ASSUME RingAssumption
  PROVE  Spec => []ItemIsStable
<1>1. IInv => ItemIsStable
  BY DEF IInv
<1> QED BY <1>1, AlwaysIInv, PTL

-----------------------------------------------------------------------------
(* The rings implement the bounded channels of BoundedChannel.             *)

Cell == Elements \union {NoElement}

PendingShape ==
  \A r \in Rings :
    /\ Pending[r] \in Seq(Cell)
    /\ Len(Pending[r]) = Used(r)
    /\ \A i \in 1 .. Used(r) : Pending[r][i] = slots[r][Slot(cons[r] + i - 1)]

LEMMA PendingIsSequence ==
  ASSUME RingAssumption
  PROVE  TypeOK => PendingShape
<1> SUFFICES ASSUME TypeOK, NEW r \in Rings
             PROVE  /\ Pending[r] \in Seq(Cell)
                    /\ Len(Pending[r]) = Used(r)
                    /\ \A i \in 1 .. Used(r) :
                         Pending[r][i] = slots[r][Slot(cons[r] + i - 1)]
  BY DEF PendingShape
<1>1. Used(r) \in Nat /\ cons[r] \in Int
  BY RingFacts DEF RingAssumption, Counter
<1>2. \A i \in 1 .. Used(r) : slots[r][Slot(cons[r] + i - 1)] \in Cell
  <2> TAKE i \in 1 .. Used(r)
  <2>1. Slot(cons[r] + i - 1) \in 0 .. NumItems - 1
    BY <1>1, SlotType
  <2> QED BY <2>1 DEF TypeOK, Cell
<1>3. Pending[r] = [i \in 1 .. Used(r) |-> slots[r][Slot(cons[r] + i - 1)]]
  BY DEF Pending
<1>4. Pending[r] \in [1 .. Used(r) -> Cell]
  BY <1>2, <1>3
<1>5. Pending[r] \in Seq(Cell) /\ Len(Pending[r]) = Used(r)
  <2> HIDE DEF Pending, Used
  <2> QED BY <1>1, <1>4, SeqDef, LenProperties
<1> QED BY <1>3, <1>5

LEMMA PendingNextIsSequence ==
  ASSUME RingAssumption
  PROVE  TypeOK' => PendingShape'
  BY PendingIsSequence, PTL

LEMMA InitChannel ==
  ASSUME RingAssumption
  PROVE  Init => Channel!Init
<1> SUFFICES ASSUME Init PROVE Pending = [r \in Rings |-> <<>>]
  BY DEF Init, Channel!Init
<1>1. TypeOK
  BY InitIInv DEF IInv
<1>2. \A r \in Rings : Pending[r] = <<>>
  <2> TAKE r \in Rings
  <2>1. Used(r) = 0
    <3>1. prod[r] = cons[r]
      BY DEF Init
    <3> QED BY <3>1, <1>1, RingFacts DEF Empty
  <2>2. Pending[r] \in Seq(Cell) /\ Len(Pending[r]) = 0
    BY <1>1, <2>1, PendingIsSequence DEF PendingShape
  <2> QED BY <2>2, EmptySeq, SeqEqual
<1> QED BY <1>2 DEF Pending

(* Filling a free slot is not seen by the channel.                         *)
LEMMA CopyChannel ==
  ASSUME RingAssumption
  PROVE  IInv /\ PushCopy => UNCHANGED Channel!vars
<1> SUFFICES ASSUME IInv, PushCopy PROVE Pending' = Pending
  BY DEF Channel!vars, PushCopy, wvars
<1> USE DEF IInv, PushCopy
<1>1. \A r \in Rings : Used(r)' = Used(r) /\ cons[r]' = cons[r]
  BY DEF Used
<1>2. ASSUME NEW r \in Rings, NEW i \in 1 .. Used(r)
      PROVE  slots'[r][Slot(cons[r] + i - 1)] = slots[r][Slot(cons[r] + i - 1)]
  <2>1. CASE r # xring
    BY <2>1 DEF TypeOK
  <2>2. CASE r = xring
    <3>1. prod[r] \in Counter /\ cons[r] \in Counter /\ Used(r) < NumItems
      BY <2>2, RingFacts DEF RingAssumption, NeverLapped, Full, Counter
    <3>2. Slot(cons[r] + i - 1) # Slot(prod[r])
      BY <3>1, FreeSlot
    <3> QED BY <2>2, <3>2 DEF TypeOK
  <2> QED BY <2>1, <2>2
<1> QED BY <1>1, <1>2 DEF Pending

(* The store of prod appends the command copied before it.                 *)
LEMMA ProdChannel ==
  ASSUME RingAssumption
  PROVE  IInv /\ PushProd => Channel!Next
<1> SUFFICES ASSUME IInv, PushProd PROVE Channel!Next
  OBVIOUS
<1> USE DEF IInv, PushProd
<1> DEFINE p == prod[xring]
           c == cons[xring]
           e == slots[xring][Slot(p)]
<1>1. xring \in Rings /\ e \in Elements /\ Cell = Elements \union {NoElement}
  BY DEF TypeOK, CarriesElement, Cell
<1>2. p \in Counter /\ c \in Counter /\ Used(xring) < NumItems /\ Used(xring) \in Nat
  BY RingFacts DEF TypeOK, NeverLapped, Counter
<1>3. prod'[xring] = Inc(p) /\ \A r \in Rings \ {xring} : prod'[r] = prod[r]
  BY DEF TypeOK
<1>4. Used(xring)' = Used(xring) + 1
  <2>1. (Inc(p) - c) % Modulus = ((p - c) % Modulus) + 1
    BY <1>2, DistanceAfter DEF Used
  <2> QED BY <1>3, <2>1 DEF Used
<1>5. PendingShape /\ PendingShape'
  <2>1. TypeOK'
    BY TypeStep DEF Next, XStep
  <2> QED BY <2>1, PendingIsSequence, PendingNextIsSequence
<1>6. Pending'[xring] = Append(Pending[xring], e)
  <2> DEFINE s == Append(Pending[xring], e)
             t == Pending'[xring]
  <2>1. /\ s \in Seq(Cell) /\ Len(s) = Used(xring) + 1
        /\ \A i \in 1 .. Used(xring) : s[i] = slots[xring][Slot(c + i - 1)]
        /\ s[Used(xring) + 1] = e
    BY <1>1, <1>5, AppendProperties DEF PendingShape
  <2>2. /\ t \in Seq(Cell) /\ Len(t) = Used(xring) + 1
        /\ \A i \in 1 .. Used(xring) + 1 : t[i] = slots[xring][Slot(c + i - 1)]
    BY <1>1, <1>4, <1>5 DEF PendingShape
  <2>3. c + (Used(xring) + 1) - 1 = c + Used(xring)
    BY <1>2 DEF Counter
  <2>4. Slot(c + (Used(xring) + 1) - 1) = Slot(p)
    BY <1>1, <1>2, <2>3, SlotOfProd
  <2>5. \A i \in 1 .. Used(xring) + 1 : s[i] = t[i]
    <3> TAKE i \in 1 .. Used(xring) + 1
    <3> HIDE DEF s, t
    <3>1. CASE i = Used(xring) + 1
      <4>1. t[i] = slots[xring][Slot(c + (Used(xring) + 1) - 1)]
        BY <2>2, <3>1
      <4> QED BY <2>1, <2>4, <3>1, <4>1
    <3>2. CASE i \in 1 .. Used(xring)
      BY <2>1, <2>2, <3>2, <1>2
    <3> QED BY <3>1, <3>2, <1>2
  <2> HIDE DEF s, t
  <2> QED BY <2>1, <2>2, <2>5, SeqEqual DEF s, t
<1>7. ASSUME NEW r \in Rings, r # xring PROVE Pending'[r] = Pending[r]
  <2>1. Used(r)' = Used(r)
    BY <1>3, <1>7 DEF Used
  <2> QED BY <2>1 DEF Pending
<1>8. Pending' = [Pending EXCEPT ![xring] = Append(@, e)]
  BY <1>6, <1>7 DEF Pending
<1>9. Len(Pending[xring]) < NumItems
  BY <1>1, <1>2, <1>5 DEF PendingShape
<1>10. Channel!Send(xring, e)
  BY <1>8, <1>9 DEF Channel!Send, wvars
<1> QED BY <1>1, <1>10 DEF Channel!Next

(* The store of cons receives the oldest command.                          *)
LEMMA PopChannel ==
  ASSUME RingAssumption
  PROVE  IInv /\ GetPop => Channel!Next
<1> SUFFICES ASSUME IInv, GetPop PROVE Channel!Next
  OBVIOUS
<1> USE DEF IInv, GetPop
<1> DEFINE p == prod[wring]
           c == cons[wring]
           q == Pending[wring]
<1>1. p \in Counter /\ c \in Counter /\ wring \in Rings /\ p # c
  BY RingFacts DEF TypeOK, ItemIsStable, Empty
<1>2. cons'[wring] = Inc(c) /\ \A r \in Rings \ {wring} : cons'[r] = cons[r]
  BY DEF TypeOK
<1>3. /\ Used(wring)' = Used(wring) - 1
      /\ Used(wring) \in Nat /\ Used(wring) >= 1
  <2>1. /\ (p - Inc(c)) % Modulus = ((p - c) % Modulus) - 1
        /\ (p - c) % Modulus # 0
        /\ (p - c) % Modulus \in Counter
    BY <1>1, DistanceAfter
  <2> QED BY <1>2, <2>1 DEF RingAssumption, Used, Counter
<1>4. PendingShape /\ PendingShape'
  <2>1. TypeOK'
    BY TypeStep DEF Next, Callback
  <2> QED BY <2>1, PendingIsSequence, PendingNextIsSequence
<1>5. /\ q \in Seq(Cell) /\ Len(q) = Used(wring)
      /\ \A i \in 1 .. Used(wring) : q[i] = slots[wring][Slot(c + i - 1)]
  BY <1>1, <1>4 DEF PendingShape
<1>6. q # <<>> /\ Head(q) = witem
  <2>1. Len(q) # 0
    BY <1>3, <1>5
  <2>2. q # <<>>
    BY <2>1, EmptySeq
  <2>3. Head(q) = q[1] /\ c + 1 - 1 = c
    BY <1>1 DEF Counter
  <2>4. q[1] = slots[wring][Slot(c + 1 - 1)]
    BY <1>3, <1>5
  <2> QED BY <2>2, <2>3, <2>4 DEF ItemIsStable
<1>7. Pending'[wring] = Tail(q)
  <2> DEFINE t == Pending'[wring]
             n == Used(wring) - 1
  <2>1. /\ Tail(q) \in Seq(Cell) /\ Len(Tail(q)) = n
        /\ \A i \in 1 .. n : Tail(q)[i] = slots[wring][Slot(c + (i + 1) - 1)]
    <3>1. /\ Tail(q) \in Seq(Cell) /\ Len(Tail(q)) = n
          /\ \A i \in 1 .. n : Tail(q)[i] = q[i + 1]
      BY <1>5, <1>6, HeadTailProperties
    <3> HIDE DEF q
    <3> QED BY <1>3, <1>5, <3>1
  <2>2. /\ t \in Seq(Cell) /\ Len(t) = n
        /\ \A i \in 1 .. n : t[i] = slots[wring][Slot(Inc(c) + i - 1)]
    BY <1>1, <1>2, <1>3, <1>4 DEF PendingShape
  <2>3. \A i \in 1 .. n : Slot(Inc(c) + i - 1) = Slot(c + (i + 1) - 1)
    <3> TAKE i \in 1 .. n
    <3>1. /\ i - 1 \in Nat
          /\ c + 1 + (i - 1) = c + (i + 1) - 1
          /\ Inc(c) + (i - 1) = Inc(c) + i - 1
      BY <1>1, <1>3, IncIs DEF Counter
    <3>2. Slot(Inc(c) + (i - 1)) = Slot(c + 1 + (i - 1))
      BY <1>1, <3>1, SlotOfInc
    <3> QED BY <3>1, <3>2
  <2>4. \A i \in 1 .. n : t[i] = Tail(q)[i]
    BY <2>1, <2>2, <2>3
  <2> HIDE DEF t, q
  <2>5. t = Tail(q)
    BY <2>1, <2>2, <2>4, SeqEqual
  <2> QED BY <2>5 DEF t
<1>8. ASSUME NEW r \in Rings, r # wring PROVE Pending'[r] = Pending[r]
  <2>1. Used(r)' = Used(r) /\ cons'[r] = cons[r]
    BY <1>2, <1>8 DEF Used
  <2> QED BY <2>1 DEF Pending
<1>9. Pending' = [Pending EXCEPT ![wring] = Tail(@)]
  BY <1>7, <1>8 DEF Pending
<1>10. Channel!Receive(wring)
  BY <1>6, <1>9 DEF Channel!Receive
<1> QED BY <1>1, <1>10 DEF Channel!Next

LEMMA StepChannel ==
  ASSUME RingAssumption
  PROVE  IInv /\ [Next]_vars => [Channel!Next]_(Channel!vars)
<1> SUFFICES ASSUME IInv, [Next]_vars PROVE Channel!Next \/ UNCHANGED Channel!vars
  OBVIOUS
<1>1. CASE PushCopy
  BY <1>1, CopyChannel
<1>2. CASE PushProd
  BY <1>2, ProdChannel
<1>3. CASE GetPop
  BY <1>3, PopChannel
<1>4. ASSUME UNCHANGED <<prod, cons, slots, delivered>>
      PROVE  UNCHANGED Channel!vars
  <2>1. \A r \in Rings : Used(r)' = Used(r)
    BY <1>4 DEF Used
  <2> QED BY <1>4, <2>1 DEF Channel!vars, Pending
<1>5. CASE ~(PushCopy \/ PushProd \/ GetPop)
  <2>1. UNCHANGED <<prod, cons, slots, delivered>>
    BY <1>5 DEF Next, XStep, Poll, Callback, vars, xvars, wvars, PushCall, PushNotify,
       GetItem, GetNothing, ReqTest, ReqReadProd, ReqArm, ReqRecheck, Wakeup
  <2> QED BY <2>1, <1>4
<1> QED BY <1>1, <1>2, <1>3, <1>5

(* Each ring is a bounded first-in first-out channel: no command is lost,  *)
(* duplicated or reordered between qxl_ring_push and the worker.           *)
THEOREM RingsAreChannelsTheorem ==
  ASSUME RingAssumption
  PROVE  Spec => RingsAreChannels
  BY InitChannel, StepChannel, AlwaysIInv, PTL
     DEF Spec, RingsAreChannels, Channel!Spec
=============================================================================
