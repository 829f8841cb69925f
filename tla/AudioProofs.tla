----------------------------- MODULE AudioProofs ----------------------------
(***************************************************************************)
(* Proofs about Audio, for any number of fifos and slots, any size of the  *)
(* ring buffers and of the buffer of events.                               *)
(***************************************************************************)
EXTENDS Audio, FiniteSetTheorems, WellFoundedInduction, TLAPS

-----------------------------------------------------------------------------
(* The inductive invariant.                                                *)

Positions == 0..Size - 1

Pipe == [state : {"absent", "made", "written", "left"}, room : 0..PipeRoom, sent : Positions]

Fifo == [fd : Pipes \union {NoFd}, len : 0..Size, add_to : Positions, watch : BOOLEAN,
         buffer : [Positions -> Positions]]

Halves == {Blank} \union [half : {"header", "name"}, of : Pipes]

TypeOK ==
  /\ pipe \in [Pipes -> Pipe]
  /\ events \in Seq(Pipes)
  /\ buf \in [1..Cells -> Halves] /\ offset \in 0..Cells
  /\ at \in {"idle", "reading", "called", "condensing", "processing"}
  /\ opened \subseteq Pipes
  /\ fifos \in [Slots -> Fifo]
  /\ fifo_count \in 0..MaxFifos /\ closed_fifos \in Int
  /\ active \in BOOLEAN /\ spice_buffer \in BOOLEAN
  /\ wall_timer_type \in {"none", "period", "idle"}
  /\ maxlen \in Int /\ ahead \in Nat

InUse == 1..fifo_count

SomeData == \E i \in InUse : fifos[i].len > 0

(* While it works through its fifos, the driver knows how much the fullest *)
(* holds; a buffer of the spice server is kept for data that is there.     *)
Working ==
  /\ at \in {"condensing", "processing"} =>
       /\ \A i \in InUse : fifos[i].len = 0 \/ fifos[i].len <= maxlen
       /\ maxlen > 0 => active /\ \E i \in InUse : fifos[i].len = maxlen
       /\ spice_buffer => maxlen > 0
  /\ at \in {"idle", "reading", "called"} /\ spice_buffer => SomeData

(* One slot at most has a fifo open, and none before its event was handled *)
(* or once its name is gone.                                               *)
OneSlot ==
  /\ offset = 0 /\ Len(events) <= 1
  /\ \A p \in Pipes :
       pipe[p].state = "absent" \/ p \in Range(events) =>
         p \notin opened /\ \A i \in Slots : fifos[i].fd # p
  /\ \A i, j \in Slots : fifos[i].fd = fifos[j].fd /\ fifos[i].fd # NoFd => i = j

(* The cells of a ring buffer that hold data; a cell before add_to by d    *)
(* holds the d-th sample before the next one, s.                           *)
Valid(f, x) ==
  IF f.add_to >= f.len THEN f.add_to - f.len <= x /\ x < f.add_to
  ELSE x < f.add_to \/ x >= f.add_to + Size - f.len

Before(f, s) ==
  \A x \in Positions : Valid(f, x) => f.buffer[x] = (x + Size - f.add_to + s) % Size

InOrder ==
  \A i \in Slots :
    \E s \in Positions :
      /\ Before(fifos[i], s)
      /\ fifos[i].fd # NoFd => s = pipe[fifos[i].fd].sent

Sequential == OneSlot /\ InOrder

IInv == TypeOK /\ CountsAgree /\ NoneForgotten /\ Working /\ (Together \/ Sequential)
-----------------------------------------------------------------------------
(* A ring buffer under the two reads and under removal.                    *)

LEMMA Bounds ==
  ASSUME AudioAssumption
  PROVE  /\ Size \in Nat \ {0} /\ MaxFifos \in Nat \ {0} /\ PipeRoom \in Nat \ {0}
         /\ FeedAhead \in Nat \ {0} /\ Cells \in Nat /\ Cells >= 2
         /\ NoFd \notin Pipes /\ Numbers = Size
  BY DEF AudioAssumption, Numbers

LEMMA LeastNumber ==
  ASSUME NEW T \in SUBSET Nat, T # {}
  PROVE  \E n \in T : \A m \in T : n <= m
<1>1. PICK n \in T : \A m \in T : <<m, n>> \notin OpToRel(<, Nat)
  BY NatLessThanWellFounded, WFMin
<1>2. ASSUME NEW m \in T PROVE n <= m
  <2>1. <<m, n>> \notin {ss \in Nat \X Nat : ss[1] < ss[2]}
    BY <1>1, Zenon DEF OpToRel
  <2> QED BY <2>1
<1> QED BY <1>2

LEMMA Greatest ==
  ASSUME AudioAssumption, NEW T \in SUBSET (0..Size), T # {}
  PROVE  Max(T) \in T /\ \A y \in T : Max(T) >= y
<1>1. Size \in Nat
  BY Bounds
<1> DEFINE S == {Size - x : x \in T}
<1>2. S \in SUBSET Nat /\ S # {}
  BY <1>1
<1>3. PICK n \in S : \A m \in S : n <= m
  BY <1>2, LeastNumber
<1>4. PICK x \in T : n = Size - x
  BY <1>3
<1>5. ASSUME NEW y \in T PROVE x >= y
  <2>1. Size - x <= Size - y
    BY <1>3, <1>4
  <2> QED BY <1>1, <2>1
<1>6. \E z \in T : \A y \in T : z >= y
  BY <1>5
<1> QED BY <1>6, Zenon DEF Max

LEMMA Remainder ==
  ASSUME AudioAssumption, NEW a \in 0..3 * Size - 1
  PROVE  /\ a < Size => a % Size = a
         /\ a >= Size /\ a < 2 * Size => a % Size = a - Size
         /\ a >= 2 * Size => a % Size = a - 2 * Size
<1>1. Size \in Nat \ {0}
  BY Bounds
<1> QED BY <1>1

LEMMA RemainderOnce ==
  ASSUME AudioAssumption, NEW a \in 0..2 * Size - 1
  PROVE  a % Size = IF a < Size THEN a ELSE a - Size
<1>1. Size \in Nat \ {0}
  BY Bounds
<1> QED BY <1>1

LEMMA AddedIs ==
  ASSUME AudioAssumption, NEW f \in Fifo, NEW n \in 0..Size - f.len, NEW first \in Int
  PROVE  /\ Added(f, n, first) \in Fifo
         /\ Added(f, n, first).fd = f.fd /\ Added(f, n, first).watch = f.watch
         /\ Added(f, n, first).len = f.len + n
         /\ Added(f, n, first).add_to = (f.add_to + n) % Size
         /\ \A x \in Positions :
              Added(f, n, first).buffer[x] =
                IF x - f.add_to \in 0..n - 1 THEN (first + x - f.add_to) % Size
                ELSE f.buffer[x]
<1> DEFINE g == Added(f, n, first)
<1>1. Size \in Nat \ {0} /\ Numbers = Size
  BY Bounds
<1>2. /\ f.add_to \in Positions /\ f.len \in 0..Size /\ f.buffer \in [Positions -> Positions]
      /\ f.fd \in Pipes \union {NoFd} /\ f.watch \in BOOLEAN
  BY DEF Fifo
<1>3. g = [fd |-> f.fd, len |-> f.len + n, add_to |-> (f.add_to + n) % Size, watch |-> f.watch,
           buffer |-> [x \in Positions |->
             IF x - f.add_to \in 0..n - 1 THEN (first + x - f.add_to) % Size ELSE f.buffer[x]]]
  <2>1. f = [fd |-> f.fd, len |-> f.len, add_to |-> f.add_to, watch |-> f.watch,
             buffer |-> f.buffer]
    BY DEF Fifo
  <2> DEFINE c == [x \in Positions |->
               IF x - f.add_to \in 0..n - 1 THEN (first + x - f.add_to) % Size ELSE f.buffer[x]]
             b == (f.add_to + n) % Size
  <2>2. c = [x \in DOMAIN f.buffer |->
               IF x - f.add_to \in 0..n - 1 THEN (first + x - f.add_to) % Numbers
               ELSE f.buffer[x]]
    BY <1>1, <1>2
  <2>3. g = [f EXCEPT !.add_to = b, !.len = f.len + n, !.buffer = c]
    BY <2>2 DEF Added
  <2> HIDE DEF g, c, b
  <2>4. g = [fd |-> f.fd, len |-> f.len + n, add_to |-> b, watch |-> f.watch, buffer |-> c]
    BY <2>1, <2>3
  <2> QED BY <2>4 DEF c, b
<1>4. (f.add_to + n) % Size \in Positions /\ f.len + n \in 0..Size
  <2>1. f.add_to + n \in Int
    BY <1>1, <1>2 DEF Positions
  <2>2. (f.add_to + n) % Size \in Positions
    BY <1>1, <2>1 DEF Positions
  <2> QED BY <1>1, <1>2, <2>2
<1>5. ASSUME NEW x \in Positions PROVE (first + x - f.add_to) % Size \in Positions
  <2>1. first + x - f.add_to \in Int
    BY <1>2 DEF Positions
  <2> HIDE DEF g
  <2> QED BY <1>1, <2>1 DEF Positions
<1>6. [x \in Positions |->
        IF x - f.add_to \in 0..n - 1 THEN (first + x - f.add_to) % Size ELSE f.buffer[x]]
        \in [Positions -> Positions]
  BY <1>2, <1>5
<1> HIDE DEF g
<1>7. g \in Fifo
  BY <1>2, <1>3, <1>4, <1>6 DEF Fifo
<1> QED BY <1>3, <1>7 DEF g

LEMMA AddedInOrder ==
  ASSUME AudioAssumption, NEW f \in Fifo, NEW n \in 0..Size - f.len, n <= Size - f.add_to,
         NEW first \in 0..2 * Size - 1, NEW s \in Positions, s = first % Size, Before(f, s)
  PROVE  Before(Added(f, n, first), (s + n) % Size)
<1> DEFINE g == Added(f, n, first)
           a == f.add_to
           l == f.len
           t == (s + n) % Size
           b == (a + n) % Size
<1>1. Size \in Nat \ {0} /\ a \in Positions /\ l \in 0..Size
  BY Bounds DEF Fifo
<1>2. /\ g.len = l + n /\ g.add_to = b
      /\ \A x \in Positions :
           g.buffer[x] = IF x - a \in 0..n - 1 THEN (first + x - a) % Size ELSE f.buffer[x]
  BY AddedIs
<1> HIDE DEF g, a, l, t, b
<1>3. s = IF first < Size THEN first ELSE first - Size
  BY <1>1, Remainder DEF Positions
<1>4. t = IF s + n < Size THEN s + n ELSE s + n - Size
  <2>1. s + n \in 0..3 * Size - 1 /\ s + n < 2 * Size
    BY <1>1 DEF Positions, l
  <2> QED BY <1>1, <2>1, Remainder DEF Positions, t
<1>5. b = IF a + n < Size THEN a + n ELSE 0
  <2>1. a + n \in 0..3 * Size - 1 /\ a + n <= Size
    BY <1>1 DEF Positions, a
  <2> QED BY <1>1, <2>1, Remainder DEF Positions, b
<1>6. n \in 0..Size - l /\ n <= Size - a
  BY DEF a, l
<1>7. ASSUME NEW x \in Positions, Valid(g, x)
      PROVE  g.buffer[x] = (x + Size - g.add_to + t) % Size
  <2>1. t \in Positions /\ b \in Positions
    BY <1>1, <1>4, <1>5, <1>6 DEF Positions
  <2>2. x + Size - b + t \in 0..3 * Size - 1
    BY <1>1, <2>1 DEF Positions
  <2>3. CASE x - a \in 0..n - 1
    <3>1. first + x - a \in 0..3 * Size - 1
      BY <1>1, <1>6, <2>3 DEF Positions
    <3>2. g.buffer[x] = (first + x - a) % Size
      BY <1>2, <2>3
    <3> DEFINE v == (first + x - a) % Size
               w == (x + Size - b + t) % Size
    <3>3. v = IF first + x - a < Size THEN first + x - a
              ELSE IF first + x - a < 2 * Size THEN first + x - a - Size
              ELSE first + x - a - 2 * Size
      BY <1>1, <3>1, Remainder
    <3>4. w = IF x + Size - b + t < Size THEN x + Size - b + t
              ELSE IF x + Size - b + t < 2 * Size THEN x + Size - b + t - Size
              ELSE x + Size - b + t - 2 * Size
      BY <1>1, <2>1, <2>2, Remainder DEF Positions
    <3> HIDE DEF v, w
    <3>5. v = w
      BY <1>1, <1>3, <1>4, <1>5, <1>6, <2>1, <2>3, <3>3, <3>4 DEF Positions
    <3> QED BY <1>2, <3>2, <3>5 DEF v, w
  <2>4. CASE x - a \notin 0..n - 1
    <3>1. Valid(f, x)
      BY <1>1, <1>2, <1>5, <1>6, <1>7, <2>4 DEF Valid, Positions, a, l
    <3>2. g.buffer[x] = (x + Size - a + s) % Size
      BY <1>2, <2>4, <3>1 DEF Before, a
    <3>3. x + Size - a + s \in 0..3 * Size - 1
      BY <1>1 DEF Positions
    <3> DEFINE v == (x + Size - a + s) % Size
               w == (x + Size - b + t) % Size
    <3>4. v = IF x + Size - a + s < Size THEN x + Size - a + s
              ELSE IF x + Size - a + s < 2 * Size THEN x + Size - a + s - Size
              ELSE x + Size - a + s - 2 * Size
      BY <1>1, <3>3, Remainder
    <3>5. w = IF x + Size - b + t < Size THEN x + Size - b + t
              ELSE IF x + Size - b + t < 2 * Size THEN x + Size - b + t - Size
              ELSE x + Size - b + t - 2 * Size
      BY <1>1, <2>1, <2>2, Remainder DEF Positions
    <3> HIDE DEF v, w
    <3>6. v = w
      BY <1>1, <1>4, <1>5, <1>6, <2>1, <3>4, <3>5 DEF Positions
    <3> QED BY <1>2, <3>2, <3>6 DEF v, w
  <2> QED BY <2>3, <2>4
<1> QED BY <1>7 DEF Before, g, t

LEMMA FilledIs ==
  ASSUME AudioAssumption, NEW f \in Fifo, NEW holds \in Nat, NEW first \in Int
  PROVE  /\ Filled(f, holds, first) \in Fifo
         /\ Filled(f, holds, first).fd = f.fd /\ Filled(f, holds, first).watch = f.watch
         /\ Filled(f, holds, first).len = f.len + Got(f, holds)
         /\ Got(f, holds) \in 0..holds
<1> DEFINE n == Least(holds, FirstLen(f))
           m == Got(f, holds) - n
           g == Added(f, n, first)
<1>1. Size \in Nat \ {0} /\ f.add_to \in 0..Size - 1 /\ f.len \in 0..Size
  BY Bounds DEF Fifo, Positions
<1>2. FirstLen(f) \in 0..Size - f.len
  BY <1>1 DEF FirstLen, Least
<1>3. n \in 0..Size - f.len /\ Got(f, holds) \in 0..holds
  BY <1>1, <1>2 DEF Got, ReadTwice, Least
<1>4. /\ g \in Fifo /\ g.fd = f.fd /\ g.watch = f.watch /\ g.len = f.len + n
  BY <1>3, AddedIs
<1>5. CASE ReadTwice(f, holds)
  <2>1. m \in 0..Size - (f.len + n) /\ m \in 0..Size - g.len
    BY <1>1, <1>2, <1>3, <1>4, <1>5 DEF Got, ReadTwice, Least
  <2>2. Filled(f, holds, first) = Added(g, m, first + n)
    BY <1>5 DEF Filled
  <2>3. first + n \in Int
    BY <1>1, <1>3
  <2> DEFINE h == Added(g, m, first + n)
  <2> HIDE DEF g, m, n
  <2>4. /\ h \in Fifo /\ h.fd = g.fd /\ h.watch = g.watch /\ h.len = g.len + m
    BY <1>4, <2>1, <2>3, AddedIs
  <2>5. g.len + m = f.len + Got(f, holds)
    BY <1>1, <1>3, <1>4 DEF m
  <2> QED BY <1>3, <1>4, <2>2, <2>4, <2>5
<1>6. CASE ~ReadTwice(f, holds)
  <2>1. Filled(f, holds, first) = g /\ n = Got(f, holds)
    BY <1>6 DEF Filled, Got
  <2> QED BY <1>3, <1>4, <2>1
<1> QED BY <1>5, <1>6

LEMMA FilledInOrder ==
  ASSUME AudioAssumption, NEW f \in Fifo, NEW holds \in Nat, NEW s \in Positions, Before(f, s)
  PROVE  Before(Filled(f, holds, s), (s + Got(f, holds)) % Size)
<1> DEFINE n == Least(holds, FirstLen(f))
           m == Got(f, holds) - n
           g == Added(f, n, s)
           t == (s + n) % Size
<1>1. Size \in Nat \ {0} /\ f.add_to \in 0..Size - 1 /\ f.len \in 0..Size /\ s \in 0..Size - 1
  BY Bounds DEF Fifo, Positions
<1>2. FirstLen(f) \in 0..Size - f.len /\ FirstLen(f) <= Size - f.add_to
  BY <1>1 DEF FirstLen, Least
<1>3. n \in 0..Size - f.len /\ n <= Size - f.add_to
  BY <1>1, <1>2 DEF Least
<1>4. s = s % Size /\ s \in 0..2 * Size - 1
  BY <1>1, Remainder
<1>5. /\ g \in Fifo /\ g.len = f.len + n /\ g.add_to = (f.add_to + n) % Size
      /\ Before(g, t)
  BY <1>3, <1>4, AddedIs, AddedInOrder
<1>6. CASE ReadTwice(f, holds)
  <2>1. Filled(f, holds, s) = Added(g, m, s + n)
    BY <1>6 DEF Filled
  <2>2. n = FirstLen(f) /\ n = Size - f.add_to
    BY <1>1, <1>6 DEF ReadTwice, Least, FirstLen
  <2>3. f.add_to + n = Size
    BY <1>1, <1>3, <2>2
  <2>4. g.add_to = 0
    <3>1. Size \in 0..3 * Size - 1 /\ Size < 2 * Size /\ Size - Size = 0
      BY <1>1
    <3> QED BY <1>1, <1>5, <2>3, <3>1, Remainder
  <2>5. m \in 0..Size - g.len /\ m <= Size - g.add_to
    <3>1. holds >= n /\ Size - f.len > n
      BY <1>6, <2>2 DEF ReadTwice
    <3>2. Got(f, holds) = Least(holds, Size - f.len)
      BY <1>6 DEF Got
    <3> HIDE DEF n
    <3>3. Got(f, holds) \in n..Size - f.len
      BY <1>1, <1>3, <3>1, <3>2 DEF Least
    <3> HIDE DEF g
    <3> QED BY <1>1, <1>3, <1>5, <2>4, <3>3
  <2>6. t \in Positions /\ s + n \in 0..2 * Size - 1
    <3>1. s + n \in 0..2 * Size - 1
      BY <1>1, <1>3
    <3> QED BY <1>1, <3>1 DEF Positions
  <2> HIDE DEF g, m, n
  <2>7. Before(Added(g, m, s + n), (t + m) % Size)
    <3> HIDE DEF t
    <3>1. t = (s + n) % Size
      BY DEF t
    <3> QED BY <1>5, <2>5, <2>6, <3>1, AddedInOrder
  <2>8. (t + m) % Size = (s + Got(f, holds)) % Size
    <3>1. Got(f, holds) = n + m /\ m \in 0..Size /\ n \in 0..Size /\ n + m <= Size
      <4>1. Got(f, holds) \in 0..holds
        BY <1>4, FilledIs
      <4>2. n \in 0..Size - f.len /\ m \in 0..Size - (f.len + n)
        BY <1>3, <1>5, <2>5
      <4>3. m = Got(f, holds) - n
        BY DEF m
      <4> QED BY <1>1, <4>1, <4>2, <4>3
    <3>2. s + Got(f, holds) = s + n + m /\ s + n + m \in 0..3 * Size - 1 /\ s + n \in 0..3 * Size - 1
      BY <1>1, <3>1
    <3>3. t = IF s + n < Size THEN s + n ELSE s + n - Size
      <4>1. s \in Int /\ n \in Int
        BY <1>1, <3>1
      <4> HIDE DEF n
      <4> QED BY <1>1, <2>6, <4>1, RemainderOnce DEF t
    <3>4. t + m \in 0..3 * Size - 1
      BY <1>1, <2>6, <3>1 DEF Positions
    <3> DEFINE v == (t + m) % Size
               w == (s + n + m) % Size
    <3>5. v = IF t + m < Size THEN t + m ELSE IF t + m < 2 * Size THEN t + m - Size
              ELSE t + m - 2 * Size
      BY <1>1, <2>6, <3>1, <3>4, Remainder DEF Positions
    <3>6. w = IF s + n + m < Size THEN s + n + m
              ELSE IF s + n + m < 2 * Size THEN s + n + m - Size
              ELSE s + n + m - 2 * Size
      BY <1>1, <3>1, <3>2, Remainder
    <3> HIDE DEF v, w, t
    <3>7. v = w
      BY <1>1, <2>6, <3>1, <3>3, <3>5, <3>6 DEF Positions
    <3> QED BY <3>2, <3>7 DEF v, w
  <2> QED BY <2>1, <2>7, <2>8
<1>7. CASE ~ReadTwice(f, holds)
  <2>1. Filled(f, holds, s) = g /\ n = Got(f, holds)
    BY <1>7 DEF Filled, Got
  <2> QED BY <1>5, <2>1
<1> QED BY <1>6, <1>7

LEMMA TakenIs ==
  ASSUME AudioAssumption, NEW f \in Fifo, NEW n \in 0..f.len
  PROVE  /\ Taken(f, n) \in Fifo
         /\ Taken(f, n).fd = f.fd /\ Taken(f, n).watch = f.watch
         /\ Taken(f, n).len = f.len - n /\ Taken(f, n).add_to = f.add_to
         /\ \A x \in Positions :
              Taken(f, n).buffer[x] =
                IF (x + Size - RemoveFrom(f)) % Size < n THEN 0 ELSE f.buffer[x]
<1> DEFINE g == Taken(f, n)
           c == [x \in Positions |->
                  IF (x + Size - RemoveFrom(f)) % Size < n THEN 0 ELSE f.buffer[x]]
<1>1. Size \in Nat \ {0}
  BY Bounds
<1>2. /\ f.add_to \in Positions /\ f.len \in 0..Size /\ f.buffer \in [Positions -> Positions]
      /\ f.fd \in Pipes \union {NoFd} /\ f.watch \in BOOLEAN
      /\ f = [fd |-> f.fd, len |-> f.len, add_to |-> f.add_to, watch |-> f.watch,
              buffer |-> f.buffer]
  BY DEF Fifo
<1>3. c = [x \in DOMAIN f.buffer |->
            IF (x + Size - RemoveFrom(f)) % Size < n THEN 0 ELSE f.buffer[x]]
  BY <1>2
<1>4. g = [f EXCEPT !.len = f.len - n, !.buffer = c]
  BY <1>3 DEF Taken
<1>5. c \in [Positions -> Positions]
  <2>1. 0 \in Positions
    BY <1>1 DEF Positions
  <2> QED BY <1>2, <2>1
<1>6. \A x \in Positions :
        c[x] = IF (x + Size - RemoveFrom(f)) % Size < n THEN 0 ELSE f.buffer[x]
  OBVIOUS
<1> HIDE DEF g, c
<1>7. g = [fd |-> f.fd, len |-> f.len - n, add_to |-> f.add_to, watch |-> f.watch,
           buffer |-> c]
  BY <1>2, <1>4
<1>8. f.len - n \in 0..Size
  BY <1>1, <1>2
<1>9. g \in Fifo
  BY <1>2, <1>5, <1>7, <1>8 DEF Fifo
<1> QED BY <1>6, <1>7, <1>9 DEF g

LEMMA TakenInOrder ==
  ASSUME AudioAssumption, NEW f \in Fifo, NEW n \in 0..f.len, NEW s \in Positions, Before(f, s)
  PROVE  Before(Taken(f, n), s)
<1> DEFINE g == Taken(f, n)
           r == RemoveFrom(f)
           a == f.add_to
           l == f.len
<1>1. Size \in Nat \ {0} /\ a \in 0..Size - 1 /\ l \in 0..Size /\ n \in 0..l
  BY Bounds DEF Fifo, Positions
<1>2. /\ g.len = l - n /\ g.add_to = a
      /\ \A x \in Positions :
           g.buffer[x] = IF (x + Size - r) % Size < n THEN 0 ELSE f.buffer[x]
  BY TakenIs
<1>3. r = IF a >= l THEN a - l ELSE a + Size - l
  BY DEF RemoveFrom
<1>4. ASSUME NEW x \in Positions, Valid(g, x)
      PROVE  g.buffer[x] = (x + Size - a + s) % Size
  <2> HIDE DEF g, r
  <2>1. Valid(f, x)
    BY <1>1, <1>2, <1>4 DEF Valid, Positions
  <2>2. x + Size - r \in 0..2 * Size - 1
    BY <1>1, <1>3 DEF Positions
  <2> DEFINE v == (x + Size - r) % Size
  <2>3. v = IF x + Size - r < Size THEN x + Size - r ELSE x + Size - r - Size
    <3>1. x \in Int /\ r \in Int
      BY <1>1, <1>3 DEF Positions
    <3> QED BY <1>1, <2>2, <3>1, RemainderOnce
  <2> HIDE DEF v
  <2>4. v >= n
    BY <1>1, <1>2, <1>3, <1>4, <2>3 DEF Valid, Positions
  <2>5. v \in Int
    BY <1>1, <1>3, <2>3 DEF Positions
  <2>6. g.buffer[x] = f.buffer[x]
    <3>1. ~(v < n)
      BY <1>1, <2>4, <2>5
    <3> QED BY <1>2, <3>1 DEF v
  <2> QED BY <2>1, <2>6 DEF Before
<1> QED BY <1>2, <1>4 DEF Before

LEMMA CopiedTyped ==
  ASSUME AudioAssumption, NEW f \in Fifo
  PROVE  Copied(f, f.len) \in [1..f.len -> Int]
<1> DEFINE r == RemoveFrom(f)
           Place(k) == IF k <= Size - r THEN r + k - 1 ELSE k - (Size - r) - 1
<1>1. Size \in Nat \ {0} /\ f.add_to \in 0..Size - 1 /\ f.len \in 0..Size
      /\ f.buffer \in [Positions -> Positions]
  BY Bounds DEF Fifo, Positions
<1>2. r \in 0..Size - 1
  BY <1>1 DEF RemoveFrom
<1> HIDE DEF r
<1>3. ASSUME NEW k \in 1..f.len PROVE f.buffer[Place(k)] \in Int
  <2> DEFINE n == f.len
  <2>1. Place(k) \in Positions
    <3>1. n \in 0..Size /\ k \in 1..n
      BY <1>1
    <3> HIDE DEF n
    <3>2. CASE k <= Size - r
      BY <1>1, <1>2, <3>1, <3>2 DEF Positions
    <3>3. CASE ~(k <= Size - r)
      BY <1>1, <1>2, <3>1, <3>3 DEF Positions
    <3> QED BY <3>2, <3>3
  <2> HIDE DEF Place
  <2> QED BY <1>1, <2>1 DEF Positions
<1>4. Copied(f, f.len) = [k \in 1..f.len |-> f.buffer[Place(k)]]
  BY DEF Copied, r
<1> HIDE DEF Place
<1> QED BY <1>3, <1>4

LEMMA CopiesInOrder ==
  ASSUME AudioAssumption, NEW f \in Fifo, NEW s \in Positions, Before(f, s), f.len > 0,
         NEW last \in Int, last = s - 1 \/ last = Copied(f, f.len)[f.len]
  PROVE  Copied(f, f.len) = [k \in 1..f.len |-> (last + Numbers + k - f.len) % Numbers]
<1> DEFINE r == RemoveFrom(f)
           a == f.add_to
           l == f.len
           c == Copied(f, l)
           Place(k) == IF k <= Size - r THEN r + k - 1 ELSE k - (Size - r) - 1
<1>1. Size \in Nat \ {0} /\ a \in 0..Size - 1 /\ l \in 1..Size /\ s \in 0..Size - 1
      /\ Numbers = Size
  BY Bounds DEF Fifo, Positions
<1>2. r = IF a >= l THEN a - l ELSE a + Size - l
  BY DEF RemoveFrom
<1>3. c = [k \in 1..l |-> f.buffer[Place(k)]]
  BY DEF Copied
<1> HIDE DEF r, a, l, c
<1>4. ASSUME NEW k \in 1..l PROVE c[k] = (s - 1 + Size + k - l) % Size
  <2> DEFINE x == Place(k)
  <2>1. x \in Positions
    BY <1>1, <1>2 DEF Positions
  <2>2. Valid(f, x)
    BY <1>1, <1>2 DEF Valid, a, l
  <2>3. x = IF k <= Size - r THEN r + k - 1 ELSE k - (Size - r) - 1
    OBVIOUS
  <2>4. c[k] = f.buffer[x]
    BY <1>3
  <2> HIDE DEF x
  <2>5. c[k] = (x + Size - a + s) % Size
    BY <2>1, <2>2, <2>4 DEF Before, a
  <2>6. x + Size - a + s \in 0..3 * Size - 1 /\ s - 1 + Size + k - l \in 0..2 * Size - 1
    BY <1>1, <2>1 DEF Positions
  <2>7. x \in Int /\ k \in Int
    BY <2>1 DEF Positions
  <2> DEFINE v == (x + Size - a + s) % Size
             w == (s - 1 + Size + k - l) % Size
  <2>8. v = IF x + Size - a + s < Size THEN x + Size - a + s
            ELSE IF x + Size - a + s < 2 * Size THEN x + Size - a + s - Size
            ELSE x + Size - a + s - 2 * Size
    BY <1>1, <2>6, <2>7, Remainder
  <2>9. w = IF s - 1 + Size + k - l < Size THEN s - 1 + Size + k - l
            ELSE s - 1 + Size + k - l - Size
    BY <1>1, <2>6, <2>7, RemainderOnce
  <2> HIDE DEF v, w
  <2>10. v = w
    BY <1>1, <1>2, <2>3, <2>7, <2>8, <2>9
  <2> QED BY <2>5, <2>10 DEF v, w
<1>5. last = s - 1 \/ (s = 0 /\ last = Size - 1)
  <2>1. CASE last = s - 1
    BY <2>1
  <2>2. CASE last = Copied(f, f.len)[f.len]
    <3>1. last = (s - 1 + Size + l - l) % Size
      BY <1>1, <1>4, <2>2 DEF c, l
    <3>2. s - 1 + Size + l - l = s - 1 + Size /\ s - 1 + Size \in 0..2 * Size - 1
      BY <1>1
    <3> DEFINE w == (s - 1 + Size) % Size
    <3>3. w = IF s - 1 + Size < Size THEN s - 1 + Size ELSE s - 1 + Size - Size
      BY <1>1, <3>2, RemainderOnce
    <3>4. last = w
      BY <3>1, <3>2
    <3> HIDE DEF w
    <3> QED BY <1>1, <3>3, <3>4
  <2> QED BY <2>1, <2>2
<1>6. ASSUME NEW k \in 1..l PROVE c[k] = (last + Size + k - l) % Size
  <2>1. CASE last = s - 1
    BY <1>4, <2>1
  <2>2. CASE s = 0 /\ last = Size - 1
    <3> DEFINE v == (s - 1 + Size + k - l) % Size
               w == (last + Size + k - l) % Size
    <3>1. s - 1 + Size + k - l \in 0..2 * Size - 1 /\ last + Size + k - l \in 0..2 * Size - 1
      BY <1>1, <2>2
    <3>2. v = IF s - 1 + Size + k - l < Size THEN s - 1 + Size + k - l
              ELSE s - 1 + Size + k - l - Size
      BY <1>1, <3>1, RemainderOnce
    <3>3. w = IF last + Size + k - l < Size THEN last + Size + k - l
              ELSE last + Size + k - l - Size
      BY <1>1, <3>1, RemainderOnce
    <3> HIDE DEF v, w
    <3>4. v = w
      BY <1>1, <2>2, <3>2, <3>3
    <3> QED BY <1>4, <3>4 DEF v, w
  <2> QED BY <1>5, <2>1, <2>2
<1>7. c = [k \in 1..l |-> c[k]]
  <2>1. DOMAIN c = 1..l
    BY <1>3
  <2> QED BY <1>3, <2>1
<1>8. c = [k \in 1..l |-> (last + Numbers + k - l) % Numbers]
  <2>1. \A k \in 1..l : c[k] = (last + Numbers + k - l) % Numbers
    BY <1>1, <1>6
  <2> QED BY <1>7, <2>1
<1> QED BY <1>8 DEF c, l

-----------------------------------------------------------------------------
(* What the loop of read_from_fifos leaves in the pipes.                   *)

Turn(P, i) ==
  IF i = 0 THEN [p \in Pipes |-> Unread(p)]
  ELSE IF Read(i) THEN [P[i - 1] EXCEPT ![fifos[i].fd] = @ - Got(fifos[i], @)]
  ELSE P[i - 1]

Contents == [Pipes -> 0..PipeRoom]

LEMMA TurnTyped ==
  ASSUME AudioAssumption, TypeOK, NEW i \in 0..MaxFifos, NEW P,
         i # 0 => P[i - 1] \in Contents
  PROVE  Turn(P, i) \in Contents
<1>1. PipeRoom \in Nat
  BY Bounds
<1>2. CASE i = 0
  <2>1. ASSUME NEW p \in Pipes PROVE Unread(p) \in 0..PipeRoom
    BY <1>1 DEF TypeOK, Pipe, Unread
  <2> QED BY <1>2, <2>1 DEF Turn, Contents
<1>3. CASE i # 0 /\ Read(i)
  <2> DEFINE c == P[i - 1]
             p == fifos[i].fd
  <2>1. i \in Slots /\ fifos[i] \in Fifo /\ p \in Pipes
    BY <1>3, Bounds DEF TypeOK, Slots, Fifo, Read
  <2>2. c \in Contents
    BY <1>3
  <2> HIDE DEF c, p
  <2>3. c[p] \in 0..PipeRoom
    BY <2>1, <2>2 DEF Contents
  <2>4. Got(fifos[i], c[p]) \in 0..c[p]
    <3>1. c[p] \in Nat /\ 0 \in Int
      BY <1>1, <2>3
    <3> QED BY <2>1, <3>1, FilledIs
  <2>5. c[p] - Got(fifos[i], c[p]) \in 0..PipeRoom
    BY <1>1, <2>3, <2>4
  <2>6. [c EXCEPT ![p] = c[p] - Got(fifos[i], c[p])] \in Contents
    BY <2>2, <2>5 DEF Contents
  <2> QED BY <1>3, <2>6 DEF Turn, c, p
<1>4. CASE i # 0 /\ ~Read(i)
  BY <1>4 DEF Turn
<1> QED BY <1>2, <1>3, <1>4

LEMMA LeftUnfolds ==
  ASSUME AudioAssumption
  PROVE  Left = [i \in 0..MaxFifos |-> Turn(Left, i)]
<1> DEFINE Part(n, P) == P = [i \in 0..n |-> Turn(P, i)]
           T == {n \in 0..MaxFifos : ~\E P : Part(n, P)}
<1>1. MaxFifos \in Nat
  BY Bounds
<1>2. ASSUME T # {} PROVE FALSE
  <2>1. PICK n \in T : \A m \in T : n <= m
    <3>1. T \in SUBSET Nat
      OBVIOUS
    <3> HIDE DEF T
    <3> QED BY <1>2, <3>1, LeastNumber
  <2>2. n \in 0..MaxFifos /\ ~\E P : Part(n, P)
    BY <2>1
  <2>3. CASE n = 0
    <3> DEFINE P == [i \in 0..0 |-> [p \in Pipes |-> Unread(p)]]
    <3>1. \A i \in 0..0 : Turn(P, i) = [p \in Pipes |-> Unread(p)]
      BY DEF Turn
    <3>2. P = [i \in 0..0 |-> Turn(P, i)]
      BY <3>1
    <3> QED BY <2>2, <2>3, <3>2
  <2>4. CASE n # 0
    <3>1. n - 1 \in 0..MaxFifos /\ n - 1 \notin T
      BY <1>1, <2>1, <2>2, <2>4
    <3>2. PICK P : Part(n - 1, P)
      BY <3>1
    <3> DEFINE Q == [i \in 0..n |-> IF i = n THEN Turn(P, i) ELSE P[i]]
    <3>3. ASSUME NEW i \in 0..n PROVE Turn(Q, i) = Turn(P, i)
      <4>1. CASE i = 0
        BY <4>1 DEF Turn
      <4>2. CASE i # 0
        <5>1. i - 1 \in 0..n /\ i - 1 # n
          BY <2>2, <4>2
        <5>2. Q[i - 1] = P[i - 1]
          BY <5>1
        <5> HIDE DEF Q
        <5> QED BY <4>2, <5>2 DEF Turn
      <4> QED BY <4>1, <4>2
    <3>4. ASSUME NEW i \in 0..n PROVE Q[i] = Turn(P, i)
      <4>1. CASE i = n
        BY <4>1
      <4>2. CASE i # n
        <5>1. i \in 0..n - 1
          BY <2>2, <4>2
        <5>2. P[i] = Turn(P, i)
          BY <3>2, <5>1
        <5> QED BY <4>2, <5>2
      <4> QED BY <4>1, <4>2
    <3>5. Q = [i \in 0..n |-> Turn(Q, i)]
      <4> DEFINE R == [i \in 0..n |-> Turn(Q, i)]
      <4>1. \A i \in 0..n : Q[i] = R[i]
        <5>1. ASSUME NEW i \in 0..n PROVE R[i] = Turn(P, i)
          BY <3>3
        <5> HIDE DEF Q, R
        <5> QED BY <3>4, <5>1
      <4>2. Q = [i \in 0..n |-> Q[i]] /\ R = [i \in 0..n |-> R[i]]
        OBVIOUS
      <4> SUFFICES Q = R
        OBVIOUS
      <4> HIDE DEF Q, R
      <4> QED BY <4>1, <4>2
    <3>6. Part(n, Q)
      BY <3>5
    <3> HIDE DEF Part, Q
    <3> QED BY <2>2, <3>6
  <2> QED BY <2>3, <2>4
<1>3. \E P : P = [i \in 0..MaxFifos |-> Turn(P, i)]
  <2>1. MaxFifos \in 0..MaxFifos /\ MaxFifos \notin T
    BY <1>1, <1>2
  <2> QED BY <2>1
<1> DEFINE L == CHOOSE P : P = [i \in 0..MaxFifos |-> Turn(P, i)]
<1>4. L = [i \in 0..MaxFifos |-> Turn(L, i)]
  BY <1>3, Zenon
<1>5. Left = L
  BY DEF Left, Turn
<1> QED BY <1>4, <1>5

LEMMA LeftTyped ==
  ASSUME AudioAssumption, TypeOK
  PROVE  \A i \in 0..MaxFifos : Left[i] \in Contents
<1> DEFINE T == {n \in 0..MaxFifos : Left[n] \notin Contents}
<1>1. MaxFifos \in Nat
  BY Bounds
<1>2. ASSUME T # {} PROVE FALSE
  <2>1. PICK n \in T : \A m \in T : n <= m
    <3>1. T \in SUBSET Nat
      OBVIOUS
    <3> HIDE DEF T
    <3> QED BY <1>2, <3>1, LeastNumber
  <2>2. n # 0 => n - 1 \in 0..MaxFifos /\ n - 1 \notin T
    BY <1>1, <2>1
  <2>3. n # 0 => Left[n - 1] \in Contents
    BY <2>2
  <2>4. Turn(Left, n) \in Contents
    BY <2>1, <2>3, TurnTyped
  <2>5. Left[n] = Turn(Left, n)
    BY <2>1, LeftUnfolds
  <2> QED BY <2>1, <2>4, <2>5
<1> QED BY <1>2

(* A pipe keeps what it holds while slots of other pipes are read.         *)
LEMMA LeftUntouched ==
  ASSUME AudioAssumption, TypeOK, NEW p \in Pipes, NEW n \in 0..MaxFifos, NEW k \in n..MaxFifos,
         \A j \in n + 1..k : fifos[j].fd # p \/ ~Read(j)
  PROVE  Left[k][p] = Left[n][p]
<1> DEFINE T == {m \in n..k : Left[m][p] # Left[n][p]}
<1>1. MaxFifos \in Nat
  BY Bounds
<1>2. ASSUME T # {} PROVE FALSE
  <2>1. PICK m \in T : \A j \in T : m <= j
    <3>1. T \in SUBSET Nat
      OBVIOUS
    <3> HIDE DEF T
    <3> QED BY <1>2, <3>1, LeastNumber
  <2>2. m \in n..k /\ Left[m][p] # Left[n][p] /\ m # n
    BY <2>1
  <2>3. m - 1 \in n..k /\ m - 1 \notin T
    BY <1>1, <2>1, <2>2
  <2>4. Left[m - 1][p] = Left[n][p]
    BY <2>3
  <2>5. Left[m] = Turn(Left, m) /\ Left[m - 1] \in Contents /\ (fifos[m].fd # p \/ ~Read(m))
    <3>1. m \in 0..MaxFifos /\ m - 1 \in 0..MaxFifos /\ m \in n + 1..k
      BY <1>1, <2>2
    <3> QED BY <3>1, LeftTyped, LeftUnfolds
  <2>6. Left[m][p] = Left[m - 1][p]
    BY <1>1, <2>2, <2>5 DEF Turn, Contents
  <2> QED BY <2>2, <2>4, <2>6
<1> QED BY <1>2

(* What read_from_fifos makes of one slot.                                 *)
First(i) == pipe[fifos[i].fd].sent + Unread(fifos[i].fd) - Holds(i)

LEMMA AfterReadIs ==
  ASSUME AudioAssumption, TypeOK, NEW i \in Slots
  PROVE  /\ AfterRead(i) \in Fifo
         /\ ~Read(i) => AfterRead(i) = fifos[i]
         /\ AfterRead(i).len >= fifos[i].len
         /\ AfterRead(i).fd = IF Ended(i) THEN NoFd ELSE fifos[i].fd
         /\ AfterRead(i).watch => fifos[i].watch /\ ~Ended(i)
         /\ Read(i) => /\ Holds(i) \in 0..PipeRoom /\ fifos[i].fd \in Pipes
                       /\ LET g == Filled(fifos[i], Holds(i), First(i))
                          IN /\ AfterRead(i).add_to = g.add_to /\ AfterRead(i).len = g.len
                             /\ AfterRead(i).buffer = g.buffer
<1> DEFINE f == fifos[i]
           a == AfterRead(i)
           h == Holds(i)
           g == Filled(f, h, First(i))
<1>1. f \in Fifo /\ MaxFifos \in Nat /\ PipeRoom \in Nat /\ Size \in Nat
  BY Bounds DEF TypeOK
<1>2. CASE ~Read(i)
  <2>1. a = f /\ ~Ended(i)
    BY <1>2 DEF AfterRead, Ended
  <2>2. a.len >= f.len
    BY <1>1, <2>1 DEF Fifo
  <2> HIDE DEF a
  <2> QED BY <1>1, <1>2, <2>1, <2>2 DEF a
<1>3. CASE Read(i)
  <2>1. f.fd \in Pipes
    BY <1>1, <1>3 DEF Read, Fifo
  <2>2. h \in 0..PipeRoom
    <3>1. i - 1 \in 0..MaxFifos
      BY <1>1 DEF Slots
    <3>2. Left[i - 1] \in Contents
      BY <3>1, LeftTyped
    <3> QED BY <2>1, <3>2 DEF Holds, Contents
  <2>3. First(i) \in Int
    <3>1. pipe[f.fd] \in Pipe
      BY <2>1 DEF TypeOK
    <3>2. pipe[f.fd].sent \in Int /\ Unread(f.fd) \in Int
      BY <1>1, <3>1 DEF Pipe, Positions, Unread
    <3> HIDE DEF h
    <3>3. h \in Int
      BY <1>1, <2>2
    <3> QED BY <3>2, <3>3 DEF First, h
  <2>4. /\ g \in Fifo /\ g.fd = f.fd /\ g.watch = f.watch /\ g.len = f.len + Got(f, h)
        /\ Got(f, h) \in 0..h
    <3> HIDE DEF f, h
    <3>1. h \in Nat
      BY <1>1, <2>2
    <3> QED BY <1>1, <2>3, <3>1, FilledIs
  <2>5. a = IF Ended(i) THEN [g EXCEPT !.watch = FALSE, !.fd = NoFd]
            ELSE [g EXCEPT !.watch = @ /\ g.len < Size]
    BY <1>3 DEF AfterRead, First
  <2> HIDE DEF a, g
  <2>6. /\ a \in Fifo /\ a.len = g.len /\ a.add_to = g.add_to /\ a.buffer = g.buffer
        /\ a.fd = IF Ended(i) THEN NoFd ELSE g.fd
        /\ a.watch => g.watch /\ ~Ended(i)
    <3>1. CASE Ended(i)
      BY <2>4, <2>5, <3>1 DEF Fifo
    <3>2. CASE ~Ended(i)
      <4> DEFINE w == g.watch /\ g.len < Size
      <4>1. a = [g EXCEPT !.watch = w]
        BY <2>5, <3>2
      <4>2. w \in BOOLEAN /\ (w => g.watch)
        BY <2>4 DEF Fifo
      <4> HIDE DEF w
      <4> QED BY <2>4, <3>2, <4>1, <4>2 DEF Fifo
    <3> QED BY <3>1, <3>2
  <2>7. a.len >= f.len
    <3> HIDE DEF f, h
    <3>1. f.len \in Nat /\ Got(f, h) \in Nat
      BY <1>1, <2>2, <2>4 DEF Fifo
    <3> QED BY <2>4, <2>6, <3>1
  <2> QED BY <1>3, <2>1, <2>2, <2>4, <2>6, <2>7 DEF a, g
<1> QED BY <1>2, <1>3

-----------------------------------------------------------------------------
(* The applications and the clock.                                         *)

LEMMA Starting == ASSUME AudioAssumption, AudioInit PROVE IInv
<1>1. /\ Size \in Nat \ {0} /\ MaxFifos \in Nat \ {0} /\ PipeRoom \in Nat \ {0}
      /\ Cells \in Nat /\ NoFd \notin Pipes
  BY Bounds
<1>2. TypeOK
  <2>1. NoPipe \in Pipe /\ Unused \in Fifo /\ Blank \in Halves
    BY <1>1 DEF NoPipe, Pipe, Unused, Fifo, Positions, Halves
  <2>2. <<>> \in Seq(Pipes)
    OBVIOUS
  <2>3. pipe \in [Pipes -> Pipe] /\ fifos \in [Slots -> Fifo] /\ buf \in [1..Cells -> Halves]
    BY <2>1 DEF AudioInit
  <2>4. offset \in 0..Cells /\ fifo_count \in 0..MaxFifos
    BY <1>1 DEF AudioInit
  <2>5. events \in Seq(Pipes) /\ opened \subseteq Pipes
    BY <2>2 DEF AudioInit
  <2>6. /\ at \in {"idle", "reading", "called", "condensing", "processing"}
        /\ wall_timer_type \in {"none", "period", "idle"}
        /\ active \in BOOLEAN /\ spice_buffer \in BOOLEAN
    BY DEF AudioInit
  <2>7. closed_fifos \in Int /\ maxlen \in Int /\ ahead \in Nat
    BY DEF AudioInit
  <2> QED BY <2>3, <2>4, <2>5, <2>6, <2>7 DEF TypeOK
<1>3. 1..fifo_count = {} /\ InUse = {}
  BY DEF AudioInit, InUse
<1>4. \A i \in Slots : fifos[i] = Unused
  BY DEF AudioInit
<1>5. CountsAgree
  <2>1. closed_fifos = Cardinality({i \in 1..fifo_count : fifos[i].fd = NoFd})
    BY <1>3, FS_EmptySet DEF AudioInit
  <2> QED BY <1>4, <2>1 DEF CountsAgree, Unused
<1>6. NoneForgotten /\ Working
  BY <1>3 DEF AudioInit, NoneForgotten, Working
<1>7. OneSlot
  <2>1. events = <<>> /\ Len(events) = 0 /\ Range(events) = {}
    BY DEF AudioInit, Range
  <2> QED BY <1>4, <2>1 DEF AudioInit, OneSlot, Unused
<1>8. InOrder
  <2>1. \A x \in Positions : ~Valid(Unused, x)
    BY <1>1 DEF Valid, Unused, Positions
  <2>2. 0 \in Positions
    BY <1>1 DEF Positions
  <2>3. \A i \in Slots : Before(fifos[i], 0) /\ fifos[i].fd = NoFd
    <3>1. Before(Unused, 0)
      BY <2>1 DEF Before
    <3>2. Unused.fd = NoFd
      BY DEF Unused
    <3> QED BY <1>4, <3>1, <3>2
  <2> QED BY <2>2, <2>3 DEF InOrder
<1> QED BY <1>2, <1>5, <1>6, <1>7, <1>8 DEF IInv, Sequential

(* What is said of the driver alone stays true while it does nothing.      *)
LEMMA DriverSame ==
  ASSUME CountsAgree, NoneForgotten, Working,
         at' = at, fifos' = fifos, fifo_count' = fifo_count, closed_fifos' = closed_fifos,
         active' = active, spice_buffer' = spice_buffer, wall_timer_type' = wall_timer_type,
         maxlen' = maxlen
  PROVE  CountsAgree' /\ NoneForgotten' /\ Working'
<1>1. CountsAgree'
  BY DEF CountsAgree
<1>2. NoneForgotten'
  BY DEF NoneForgotten
<1>3. Working'
  BY DEF Working, InUse, SomeData
<1> QED BY <1>1, <1>2, <1>3

LEMMA SentSame ==
  ASSUME InOrder, fifos' = fifos,
         \A i \in Slots : fifos[i].fd # NoFd =>
           pipe'[fifos[i].fd].sent = pipe[fifos[i].fd].sent
  PROVE  InOrder'
<1>1. ASSUME NEW i \in Slots
      PROVE \E s \in Positions :
              /\ Before(fifos[i], s)
              /\ fifos[i].fd # NoFd => s = pipe'[fifos[i].fd].sent
  BY DEF InOrder
<1> QED BY <1>1 DEF InOrder

LEMMA BecomesIs ==
  ASSUME TypeOK, NEW p \in Pipes, NEW was, NEW now \in {"absent", "made", "written", "left"},
         Becomes(p, was, now)
  PROVE  /\ pipe' \in [Pipes -> Pipe]
         /\ pipe'[p].state = now
         /\ \A q \in Pipes : pipe'[q].sent = pipe[q].sent
         /\ \A q \in Pipes : q # p => pipe'[q] = pipe[q]
<1>1. pipe \in [Pipes -> Pipe] /\ pipe' = [pipe EXCEPT ![p].state = now]
  BY DEF TypeOK, Becomes
<1>2. pipe[p] \in Pipe
  BY <1>1
<1>3. [pipe[p] EXCEPT !.state = now] \in Pipe
  BY <1>2 DEF Pipe
<1>4. pipe'[p] = [pipe[p] EXCEPT !.state = now]
  BY <1>1
<1>5. pipe'[p].state = now /\ pipe'[p].sent = pipe[p].sent
  BY <1>2, <1>4 DEF Pipe
<1>6. \A q \in Pipes : q # p => pipe'[q] = pipe[q]
  BY <1>1
<1>7. pipe' \in [Pipes -> Pipe]
  BY <1>1, <1>3
<1> QED BY <1>5, <1>6, <1>7

LEMMA CreateStep ==
  ASSUME AudioAssumption, IInv, NEW p \in Pipes, Create(p) PROVE IInv'
<1>1. /\ offset' = offset /\ buf' = buf /\ at' = at /\ opened' = opened /\ fifos' = fifos
      /\ fifo_count' = fifo_count /\ closed_fifos' = closed_fifos
      /\ active' = active /\ spice_buffer' = spice_buffer /\ wall_timer_type' = wall_timer_type
      /\ maxlen' = maxlen /\ ahead' = ahead /\ events' = Append(events, p)
      /\ Becomes(p, "absent", "made") /\ pipe[p].state = "absent"
      /\ Together \/ events = <<>>
  BY DEF Create, data, Becomes
<1>2. /\ TypeOK /\ CountsAgree /\ NoneForgotten /\ Working /\ (Together \/ Sequential)
  BY DEF IInv
<1>3. /\ pipe' \in [Pipes -> Pipe] /\ pipe'[p].state = "made"
      /\ \A q \in Pipes : pipe'[q].sent = pipe[q].sent
      /\ \A q \in Pipes : q # p => pipe'[q] = pipe[q]
  BY <1>1, <1>2, BecomesIs
<1>4. TypeOK'
  <2>1. events' \in Seq(Pipes)
    BY <1>1, <1>2 DEF TypeOK
  <2> QED BY <1>1, <1>2, <1>3, <2>1 DEF TypeOK
<1>5. CountsAgree' /\ NoneForgotten' /\ Working'
  BY <1>1, <1>2, DriverSame
<1>6. ASSUME ~Together PROVE Sequential'
  <2>1. events = <<>> /\ OneSlot /\ InOrder
    BY <1>1, <1>2, <1>6 DEF Sequential
  <2>2. events' = <<p>>
    BY <1>1, <2>1
  <2>3. Len(events') = 1 /\ Range(events') = {p}
    <3>1. Len(<<p>>) = 1 /\ DOMAIN <<p>> = {1} /\ <<p>>[1] = p
      OBVIOUS
    <3>2. Range(<<p>>) = {p}
      BY <3>1, Zenon DEF Range
    <3> QED BY <2>2, <3>1, <3>2
  <2>4. ASSUME NEW q \in Pipes, pipe'[q].state = "absent" \/ q \in Range(events')
        PROVE  q \notin opened /\ \A i \in Slots : fifos[i].fd # q
    <3>1. pipe[q].state = "absent"
      BY <1>1, <1>3, <2>3, <2>4
    <3> QED BY <2>1, <3>1 DEF OneSlot
  <2>5. OneSlot'
    BY <1>1, <2>1, <2>3, <2>4 DEF OneSlot
  <2>6. InOrder'
    <3>1. ASSUME NEW i \in Slots, fifos[i].fd # NoFd
          PROVE pipe'[fifos[i].fd].sent = pipe[fifos[i].fd].sent
      <4>1. fifos[i].fd \in Pipes
        BY <1>2, <3>1 DEF TypeOK, Fifo
      <4> QED BY <1>3, <4>1
    <3> QED BY <1>1, <2>1, <3>1, SentSame
  <2> QED BY <2>5, <2>6 DEF Sequential
<1> QED BY <1>4, <1>5, <1>6 DEF IInv

LEMMA WritesStep ==
  ASSUME AudioAssumption, IInv, NEW p \in Pipes, Writes(p) PROVE IInv'
<1>1. /\ offset' = offset /\ buf' = buf /\ at' = at /\ opened' = opened /\ fifos' = fifos
      /\ fifo_count' = fifo_count /\ closed_fifos' = closed_fifos
      /\ active' = active /\ spice_buffer' = spice_buffer /\ wall_timer_type' = wall_timer_type
      /\ maxlen' = maxlen /\ ahead' = ahead /\ events' = events
  BY DEF Writes, data, directory
<1>2. /\ TypeOK /\ CountsAgree /\ NoneForgotten /\ Working /\ (Together \/ Sequential)
  BY DEF IInv
<1>3. /\ pipe' \in [Pipes -> Pipe] /\ pipe[p].state # "absent" /\ pipe'[p].state # "absent"
      /\ \A q \in Pipes : pipe'[q].sent = pipe[q].sent
      /\ \A q \in Pipes : q # p => pipe'[q] = pipe[q]
  <2>1. CASE Becomes(p, "made", "written") \/ Becomes(p, "written", "left")
    <3>1. pipe[p].state # "absent"
      BY <2>1 DEF Becomes
    <3>2. /\ pipe' \in [Pipes -> Pipe] /\ pipe'[p].state \in {"written", "left"}
          /\ \A q \in Pipes : pipe'[q].sent = pipe[q].sent
          /\ \A q \in Pipes : q # p => pipe'[q] = pipe[q]
      BY <1>2, <2>1, BecomesIs
    <3> QED BY <3>1, <3>2
  <2>2. CASE /\ pipe[p].state = "written" /\ pipe[p].room > 0
             /\ pipe' = [pipe EXCEPT ![p].room = @ - 1]
    <3>1. PipeRoom \in Nat /\ pipe[p] \in Pipe /\ pipe \in [Pipes -> Pipe]
      BY <1>2, Bounds DEF TypeOK
    <3>2. pipe[p].room - 1 \in 0..PipeRoom
      BY <2>2, <3>1 DEF Pipe
    <3>3. pipe'[p] = [pipe[p] EXCEPT !.room = pipe[p].room - 1]
      BY <2>2, <3>1
    <3>4. /\ pipe'[p] \in Pipe /\ pipe'[p].state = "written"
          /\ pipe'[p].sent = pipe[p].sent
      BY <2>2, <3>1, <3>2, <3>3 DEF Pipe
    <3>5. \A q \in Pipes : q # p => pipe'[q] = pipe[q]
      BY <2>2, <3>1
    <3>6. pipe' \in [Pipes -> Pipe]
      BY <2>2, <3>1, <3>3, <3>4
    <3> QED BY <2>2, <3>4, <3>5, <3>6
  <2> QED BY <2>1, <2>2 DEF Writes
<1>4. TypeOK'
  BY <1>1, <1>2, <1>3 DEF TypeOK
<1>5. CountsAgree' /\ NoneForgotten' /\ Working'
  BY <1>1, <1>2, DriverSame
<1>6. ASSUME ~Together PROVE Sequential'
  <2>1. OneSlot /\ InOrder
    BY <1>2, <1>6 DEF Sequential
  <2>2. ASSUME NEW q \in Pipes PROVE pipe'[q].state = "absent" <=> pipe[q].state = "absent"
    BY <1>3
  <2>3. OneSlot'
    BY <1>1, <2>1, <2>2 DEF OneSlot
  <2>4. InOrder'
    <3>1. ASSUME NEW i \in Slots, fifos[i].fd # NoFd
          PROVE pipe'[fifos[i].fd].sent = pipe[fifos[i].fd].sent
      <4>1. fifos[i].fd \in Pipes
        BY <1>2, <3>1 DEF TypeOK, Fifo
      <4> QED BY <1>3, <4>1
    <3> QED BY <1>1, <2>1, <3>1, SentSame
  <2> QED BY <2>3, <2>4 DEF Sequential
<1> QED BY <1>4, <1>5, <1>6 DEF IInv

LEMMA RemovedStep ==
  ASSUME AudioAssumption, IInv, NEW p \in Pipes, Removed(p) PROVE IInv'
<1>1. /\ offset' = offset /\ buf' = buf /\ at' = at /\ fifos' = fifos
      /\ fifo_count' = fifo_count /\ closed_fifos' = closed_fifos
      /\ active' = active /\ spice_buffer' = spice_buffer /\ wall_timer_type' = wall_timer_type
      /\ maxlen' = maxlen /\ ahead' = ahead /\ events' = events
      /\ opened' = opened \ {p} /\ p \in opened /\ \A i \in Slots : fifos[i].fd # p
      /\ pipe' = [pipe EXCEPT ![p] = NoPipe]
  BY DEF Removed, data
<1>2. /\ TypeOK /\ CountsAgree /\ NoneForgotten /\ Working /\ (Together \/ Sequential)
  BY DEF IInv
<1>3. NoPipe \in Pipe
  BY Bounds DEF NoPipe, Pipe, Positions
<1>4. pipe' \in [Pipes -> Pipe] /\ \A q \in Pipes : q # p => pipe'[q] = pipe[q]
  BY <1>1, <1>2, <1>3 DEF TypeOK
<1>5. TypeOK'
  BY <1>1, <1>2, <1>4 DEF TypeOK
<1>6. CountsAgree' /\ NoneForgotten' /\ Working'
  BY <1>1, <1>2, DriverSame
<1>7. ASSUME ~Together PROVE Sequential'
  <2>1. OneSlot /\ InOrder
    BY <1>2, <1>7 DEF Sequential
  <2>2. ASSUME NEW q \in Pipes, pipe'[q].state = "absent" \/ q \in Range(events)
        PROVE  q \notin opened' /\ \A i \in Slots : fifos[i].fd # q
    <3>1. CASE q = p
      BY <1>1, <3>1
    <3>2. CASE q # p
      BY <1>1, <1>4, <2>1, <2>2, <3>2 DEF OneSlot
    <3> QED BY <3>1, <3>2
  <2>3. OneSlot'
    BY <1>1, <2>1, <2>2 DEF OneSlot
  <2>4. InOrder'
    <3>1. ASSUME NEW i \in Slots, fifos[i].fd # NoFd
          PROVE pipe'[fifos[i].fd].sent = pipe[fifos[i].fd].sent
      <4>1. fifos[i].fd \in Pipes /\ fifos[i].fd # p
        BY <1>1, <1>2, <3>1 DEF TypeOK, Fifo
      <4> QED BY <1>4, <4>1
    <3> QED BY <1>1, <2>1, <3>1, SentSame
  <2> QED BY <2>3, <2>4 DEF Sequential
<1> QED BY <1>5, <1>6, <1>7 DEF IInv

(* A step that leaves the fifos and their pipes alone.                     *)
LEMMA SequentialSame ==
  ASSUME Together \/ Sequential, pipe' = pipe, events' = events, offset' = offset,
         opened' = opened, fifos' = fifos
  PROVE  Together \/ Sequential'
  BY DEF Sequential, OneSlot, InOrder

LEMMA PlaysStep == ASSUME AudioAssumption, IInv, Plays PROVE IInv'
<1>1. /\ offset' = offset /\ buf' = buf /\ at' = at /\ fifos' = fifos /\ pipe' = pipe
      /\ fifo_count' = fifo_count /\ closed_fifos' = closed_fifos /\ opened' = opened
      /\ active' = active /\ spice_buffer' = spice_buffer /\ wall_timer_type' = wall_timer_type
      /\ maxlen' = maxlen /\ events' = events /\ ahead > 0 /\ ahead' = ahead - 1
  BY DEF Plays, directory
<1>2. /\ TypeOK /\ CountsAgree /\ NoneForgotten /\ Working /\ (Together \/ Sequential)
  BY DEF IInv
<1>3. TypeOK'
  <2>1. ahead' \in Nat
    BY <1>1, <1>2 DEF TypeOK
  <2> QED BY <1>1, <1>2, <2>1 DEF TypeOK
<1>4. CountsAgree' /\ NoneForgotten' /\ Working'
  BY <1>1, <1>2, DriverSame
<1>5. Together \/ Sequential'
  BY <1>1, <1>2, SequentialSame
<1> QED BY <1>3, <1>4, <1>5 DEF IInv

-----------------------------------------------------------------------------
(* The callbacks of the driver.                                            *)

LEMMA CalledStep == ASSUME AudioAssumption, IInv, Called PROVE IInv'
<1>1. /\ offset' = offset /\ buf' = buf /\ fifos' = fifos /\ pipe' = pipe
      /\ fifo_count' = fifo_count /\ closed_fifos' = closed_fifos /\ opened' = opened
      /\ active' = active /\ spice_buffer' = spice_buffer /\ wall_timer_type' = "none"
      /\ maxlen' = maxlen /\ events' = events /\ ahead' = ahead
      /\ at = "idle" /\ at' = "called"
  BY DEF Called
<1>2. /\ TypeOK /\ CountsAgree /\ NoneForgotten /\ Working /\ (Together \/ Sequential)
  BY DEF IInv
<1>3. TypeOK'
  BY <1>1, <1>2 DEF TypeOK
<1>4. CountsAgree'
  BY <1>1, <1>2 DEF CountsAgree
<1>5. NoneForgotten' /\ Working'
  BY <1>1, <1>2 DEF NoneForgotten, Working, SomeData, InUse
<1>6. Together \/ Sequential'
  BY <1>1, <1>2, SequentialSame
<1> QED BY <1>3, <1>4, <1>5, <1>6 DEF IInv

LEMMA WallTickerStep == ASSUME AudioAssumption, IInv, WallTicker PROVE IInv'
<1>1. CASE wall_timer_type = "period"
  BY <1>1, CalledStep DEF WallTicker
<1>2. CASE wall_timer_type # "period"
  <2>1. /\ offset' = offset /\ buf' = buf /\ fifos' = fifos /\ pipe' = pipe
        /\ fifo_count' = fifo_count /\ closed_fifos' = closed_fifos /\ opened' = opened
        /\ active' = FALSE /\ spice_buffer' = spice_buffer /\ wall_timer_type' = "none"
        /\ maxlen' = maxlen /\ events' = events /\ ahead' = ahead
        /\ at = "idle" /\ at' = "idle"
    BY <1>2 DEF WallTicker, directory
  <2>2. /\ TypeOK /\ CountsAgree /\ NoneForgotten /\ Working /\ (Together \/ Sequential)
    BY DEF IInv
  <2>3. TypeOK'
    BY <2>1, <2>2 DEF TypeOK
  <2>4. CountsAgree'
    BY <2>1, <2>2 DEF CountsAgree
  <2>5. ~spice_buffer
    BY <1>2, <2>1, <2>2 DEF NoneForgotten
  <2>6. NoneForgotten'
    BY <1>2, <2>1, <2>2, <2>5 DEF NoneForgotten
  <2>7. Working'
    BY <2>1, <2>5 DEF Working
  <2>8. Together \/ Sequential'
    BY <2>1, <2>2, SequentialSame
  <2> QED BY <2>3, <2>4, <2>6, <2>7, <2>8 DEF IInv
<1> QED BY <1>1, <1>2

LEMMA SlotsOrdered ==
  ASSUME AudioAssumption, TypeOK
  PROVE  /\ MaxFifos \in Nat \ {0} /\ fifo_count \in 0..MaxFifos
         /\ InUse \subseteq Slots /\ InUse = 1..fifo_count
  BY Bounds DEF TypeOK, InUse, Slots

(* handle_one_change: a slot more, or nothing.                             *)
LEMMA HandleOneChangeKeeps ==
  ASSUME AudioAssumption, IInv, NEW e \in Halves, HandleOneChange(e), closed_fifos' = closed_fifos
  PROVE  /\ opened' \subseteq Pipes /\ fifos' \in [Slots -> Fifo] /\ fifo_count' \in 0..MaxFifos
         /\ CountsAgree'
         /\ IsNew(e) => e.of \in Pipes
         /\ opened' = IF IsNew(e) THEN opened \union {e.of} ELSE opened
         /\ \A i \in InUse : i \in InUse' /\ fifos'[i] = fifos[i]
         /\ \A i \in InUse' : i \notin InUse => fifos'[i].watch
         /\ \A i \in Slots :
              \/ fifos'[i] = fifos[i]
              \/ /\ i \notin InUse /\ IsNew(e) /\ fifos'[i].fd = e.of
                 /\ fifos'[i].len = 0 /\ fifos'[i].add_to = fifos[i].add_to
         /\ \A i, j \in Slots :
              fifos'[i] # fifos[i] /\ fifos'[j] # fifos[j] => i = j
<1>1. /\ TypeOK /\ CountsAgree /\ MaxFifos \in Nat \ {0} /\ fifo_count \in 0..MaxFifos
      /\ InUse \subseteq Slots /\ InUse = 1..fifo_count /\ Slots = 1..MaxFifos
      /\ fifos \in [Slots -> Fifo] /\ opened \subseteq Pipes /\ NoFd \notin Pipes
  BY SlotsOrdered, Bounds DEF IInv, Slots, TypeOK
<1>2. IsNew(e) => e.of \in Pipes
  BY DEF IsNew, Halves, Blank
<1>3. CASE ~IsNew(e) \/ fifo_count = MaxFifos
  <2>1. /\ opened' = IF IsNew(e) THEN opened \union {e.of} ELSE opened
        /\ fifos' = fifos /\ fifo_count' = fifo_count
    BY <1>3 DEF HandleOneChange
  <2>2. CountsAgree'
    BY <1>1, <2>1 DEF CountsAgree
  <2>3. InUse' = InUse /\ opened' \subseteq Pipes
    BY <1>1, <1>2, <2>1 DEF InUse
  <2> QED BY <1>1, <1>2, <2>1, <2>2, <2>3
<1>4. CASE IsNew(e) /\ fifo_count # MaxFifos
  <2> DEFINE n == fifo_count + 1
             new == [fifos[n] EXCEPT !.fd = e.of, !.watch = TRUE]
  <2>1. /\ opened' = opened \union {e.of}
        /\ fifos' = [fifos EXCEPT ![n].fd = e.of, ![n].watch = TRUE]
        /\ fifo_count' = n
    BY <1>4 DEF HandleOneChange
  <2>2. n \in Slots /\ n \notin InUse /\ fifos[n] \in Fifo /\ n \in 1..MaxFifos
    BY <1>1, <1>4
  <2>3. new \in Fifo /\ new.fd = e.of /\ new.watch /\ new.len = fifos[n].len
        /\ new.add_to = fifos[n].add_to
    BY <1>2, <1>4, <2>2 DEF Fifo
  <2>4. fifos' = [fifos EXCEPT ![n] = new]
    BY <1>1, <2>1, <2>2
  <2> HIDE DEF new
  <2>5. fifos' \in [Slots -> Fifo] /\ fifos'[n] = new /\ \A i \in Slots : i # n => fifos'[i] = fifos[i]
    BY <1>1, <2>2, <2>3, <2>4
  <2>6. InUse' = 1..n /\ InUse' = InUse \union {n}
    BY <1>1, <2>1 DEF InUse
  <2>7. fifos[n].fd = NoFd /\ fifos[n].len = 0
    <3>1. n > fifo_count
      BY <1>1
    <3> QED BY <1>1, <2>2, <3>1 DEF CountsAgree
  <2>8. CountsAgree'
    <3>1. {i \in 1..n : fifos'[i].fd = NoFd} = {i \in 1..fifo_count : fifos[i].fd = NoFd}
      <4>1. new.fd # NoFd
        BY <1>1, <1>2, <1>4, <2>3
      <4>2. \A i \in 1..fifo_count : i \in 1..n /\ i # n /\ i \in Slots
        BY <1>1, <2>2
      <4>3. \A i \in 1..n : i # n => i \in 1..fifo_count
        BY <1>1, <2>2
      <4> QED BY <2>5, <4>1, <4>2, <4>3
    <3>2. closed_fifos' = Cardinality({i \in 1..fifo_count' : fifos'[i].fd = NoFd})
      BY <1>1, <2>1, <3>1 DEF CountsAgree
    <3>3. ASSUME NEW i \in Slots
          PROVE  /\ i > n => fifos'[i].fd = NoFd /\ fifos'[i].len = 0
                 /\ fifos'[i].fd = NoFd => ~fifos'[i].watch
      <4>1. CASE i = n
        BY <1>1, <1>2, <1>4, <2>2, <2>3, <2>5, <4>1
      <4>2. CASE i # n
        <5>1. i > n => i > fifo_count
          BY <1>1, <2>2
        <5> QED BY <1>1, <2>5, <4>2, <5>1 DEF CountsAgree
      <4> QED BY <4>1, <4>2
    <3> QED BY <2>1, <3>2, <3>3 DEF CountsAgree
  <2>9. \A i \in Slots :
          \/ fifos'[i] = fifos[i]
          \/ /\ i \notin InUse /\ IsNew(e) /\ fifos'[i].fd = e.of
             /\ fifos'[i].len = 0 /\ fifos'[i].add_to = fifos[i].add_to
    BY <1>4, <2>2, <2>3, <2>5, <2>7
  <2>10. \A i \in InUse : i \in InUse' /\ fifos'[i] = fifos[i]
    BY <1>1, <2>2, <2>5, <2>6
  <2>11. \A i \in InUse' : i \notin InUse => fifos'[i].watch
    BY <2>3, <2>5, <2>6
  <2>12. \A i, j \in Slots : fifos'[i] # fifos[i] /\ fifos'[j] # fifos[j] => i = j
    BY <2>5
  <2>13. opened' \subseteq Pipes /\ fifo_count' \in 0..MaxFifos
    BY <1>1, <1>2, <1>4, <2>1, <2>2
  <2> QED BY <1>2, <1>4, <2>1, <2>5, <2>8, <2>9, <2>10, <2>11, <2>12, <2>13
<1> QED BY <1>3, <1>4

LEMMA EmptyInOrder ==
  ASSUME AudioAssumption, NEW f, f.len = 0, f.add_to \in Positions, NEW s
  PROVE  Before(f, s)
<1>1. Size \in Nat \ {0}
  BY Bounds
<1>2. \A x \in Positions : ~Valid(f, x)
  BY <1>1 DEF Valid, Positions
<1> QED BY <1>2 DEF Before

LEMMA PlaybackDirChangedStep ==
  ASSUME AudioAssumption, IInv, PlaybackDirChanged PROVE IInv'
<1> DEFINE n == Least(Len(events), (Cells - offset) \div 2)
           b == [i \in 1..Cells |->
                   IF i - offset \in 1..2 * n
                   THEN LET p == events[(i - offset + 1) \div 2]
                        IN IF (i - offset) % 2 = 1 THEN Header(p) ELSE Name(p)
                   ELSE buf[i]]
           end == offset + 2 * n
           len == EventLen(b[1])
           left == SubSeq(events, n + 1, Len(events))
<1>1. /\ pipe' = pipe /\ closed_fifos' = closed_fifos /\ active' = active
      /\ spice_buffer' = spice_buffer /\ wall_timer_type' = wall_timer_type
      /\ ahead' = ahead /\ maxlen' = maxlen
      /\ at \in {"idle", "reading"}
  BY DEF PlaybackDirChanged
<1>2. /\ TypeOK /\ CountsAgree /\ NoneForgotten /\ Working /\ (Together \/ Sequential)
  BY DEF IInv
<1>3. CASE n = 0
  <2>1. /\ at' = "idle" /\ events' = events /\ buf' = buf /\ offset' = offset
        /\ opened' = opened /\ fifos' = fifos /\ fifo_count' = fifo_count
    BY <1>3 DEF PlaybackDirChanged
  <2> HIDE DEF n
  <2>2. TypeOK'
    BY <1>1, <1>2, <2>1 DEF TypeOK
  <2>3. CountsAgree'
    BY <1>1, <1>2, <2>1 DEF CountsAgree
  <2>4. NoneForgotten' /\ Working'
    BY <1>1, <1>2, <2>1 DEF NoneForgotten, Working, SomeData, InUse
  <2>5. Together \/ Sequential'
    BY <1>1, <1>2, <2>1, SequentialSame
  <2> QED BY <2>2, <2>3, <2>4, <2>5 DEF IInv
<1>4. CASE n # 0
  <2>1. /\ at' = "reading" /\ events' = left /\ HandleOneChange(b[1])
        /\ buf' = (IF end > len THEN MovedDown(b, end, len) ELSE b)
        /\ offset' = end - len
    BY <1>4 DEF PlaybackDirChanged
  <2>2. /\ Cells \in Nat /\ Cells >= 2 /\ offset \in 0..Cells /\ events \in Seq(Pipes)
        /\ Len(events) \in Nat /\ buf \in [1..Cells -> Halves]
    BY <1>2, Bounds DEF TypeOK
  <2>3. n \in 1..Len(events) /\ 2 * n <= Cells - offset
    <3>1. (Cells - offset) \div 2 \in Nat /\ 2 * ((Cells - offset) \div 2) <= Cells - offset
      BY <2>2
    <3> DEFINE q == (Cells - offset) \div 2
               l == Len(events)
    <3>2. n = IF l < q THEN l ELSE q
      BY DEF Least
    <3> HIDE DEF n, q, l
    <3>3. l \in Nat /\ q \in Nat
      BY <2>2, <3>1 DEF l, q
    <3>4. n \in 1..l /\ n <= q
      BY <1>4, <3>2, <3>3
    <3>5. 2 * q <= Cells - offset
      BY <3>1 DEF q
    <3> QED BY <2>2, <3>3, <3>4, <3>5 DEF l
  <2> HIDE DEF n
  <2>4. b \in [1..Cells -> Halves]
    <3>1. ASSUME NEW i \in 1..Cells, i - offset \in 1..2 * n
          PROVE events[(i - offset + 1) \div 2] \in Pipes
      <4>1. (i - offset + 1) \div 2 \in 1..n
        BY <2>2, <2>3, <3>1
      <4>2. (i - offset + 1) \div 2 \in 1..Len(events)
        BY <2>2, <2>3, <4>1
      <4> QED BY <2>2, <4>2
    <3>2. \A p \in Pipes : Header(p) \in Halves /\ Name(p) \in Halves
      BY DEF Header, Name, Halves
    <3> QED BY <2>2, <3>1, <3>2
  <2>5. b[1] \in Halves /\ len \in {1, 2}
    <3>1. 1 \in 1..Cells
      BY <2>2
    <3> HIDE DEF b
    <3> QED BY <2>4, <3>1 DEF EventLen
  <2>6. end \in 2..Cells
    BY <2>2, <2>3
  <2> HIDE DEF b, len, end
  <2>7. buf' \in [1..Cells -> Halves]
    <3>1. ASSUME NEW i \in 1..Cells, end + i <= Cells PROVE end + i \in 1..Cells
      BY <2>2, <2>6, <3>1
    <3>2. MovedDown(b, end, len) \in [1..Cells -> Halves]
      BY <2>4, <3>1 DEF MovedDown
    <3> QED BY <2>1, <2>4, <3>2
  <2>8. events' \in Seq(Pipes)
    <3>1. \A k \in n + 1..Len(events) : k \in 1..Len(events)
      BY <2>2, <2>3
    <3>2. n + 1 \in 1..Len(events) + 1 /\ Len(events) \in 1 - 1..Len(events)
      BY <2>2, <2>3
    <3> QED BY <2>1, <2>2, <2>3, <3>1, <3>2
  <2>9. offset' \in 0..Cells
    BY <2>1, <2>2, <2>5, <2>6
  <2> DEFINE e == b[1]
  <2> HIDE DEF left
  <2>10. /\ opened' \subseteq Pipes /\ fifos' \in [Slots -> Fifo] /\ fifo_count' \in 0..MaxFifos
         /\ CountsAgree'
         /\ IsNew(e) => e.of \in Pipes
         /\ opened' = IF IsNew(e) THEN opened \union {e.of} ELSE opened
         /\ \A i \in InUse : i \in InUse' /\ fifos'[i] = fifos[i]
         /\ \A i \in InUse' : i \notin InUse => fifos'[i].watch
         /\ \A i \in Slots :
              \/ fifos'[i] = fifos[i]
              \/ /\ i \notin InUse /\ IsNew(e) /\ fifos'[i].fd = e.of
                 /\ fifos'[i].len = 0 /\ fifos'[i].add_to = fifos[i].add_to
         /\ \A i, j \in Slots :
              fifos'[i] # fifos[i] /\ fifos'[j] # fifos[j] => i = j
    BY <1>1, <2>1, <2>5, HandleOneChangeKeeps
  <2>11. TypeOK'
    BY <1>1, <1>2, <2>1, <2>7, <2>8, <2>9, <2>10 DEF TypeOK
  <2>12. NoneForgotten'
    <3>1. ASSUME NEW i \in InUse', fifos'[i].fd # NoFd \/ fifos'[i].len > 0
          PROVE  fifos'[i].watch \/ wall_timer_type' = "period"
      <4>1. CASE i \in InUse
        BY <1>1, <1>2, <2>10, <3>1, <4>1 DEF NoneForgotten, InUse
      <4>2. CASE i \notin InUse
        BY <2>10, <4>2
      <4> QED BY <4>1, <4>2
    <3> QED BY <1>1, <1>2, <3>1 DEF NoneForgotten, InUse
  <2>13. Working'
    <3>1. ASSUME SomeData PROVE SomeData'
      <4>1. PICK i \in InUse : fifos[i].len > 0
        BY <3>1 DEF SomeData
      <4>2. i \in InUse' /\ fifos'[i].len > 0
        BY <2>10, <4>1
      <4> QED BY <4>2 DEF SomeData
    <3> QED BY <1>1, <1>2, <2>1, <3>1 DEF Working
  <2>14. ASSUME ~Together PROVE Sequential'
    <3>1. OneSlot /\ InOrder
      BY <1>2, <2>14 DEF Sequential
    <3>2. Len(events) = 1 /\ n = 1 /\ offset = 0
      <4>1. offset = 0 /\ Len(events) <= 1
        BY <3>1 DEF OneSlot
      <4> DEFINE l == Len(events)
      <4>2. n \in 1..l /\ l \in Nat /\ l <= 1
        BY <2>2, <2>3, <4>1
      <4> HIDE DEF l
      <4>3. l = 1 /\ n = 1
        BY <4>2
      <4> QED BY <4>1, <4>3 DEF l
    <3> DEFINE p == events[1]
    <3>3. e = Header(p) /\ p \in Pipes /\ p \in Range(events)
      <4>1. 1 \in 1..Cells /\ 1 - offset \in 1..2 * n /\ (1 - offset) % 2 = 1
            /\ (1 - offset + 1) \div 2 = 1
        BY <2>2, <3>2
      <4>2. e = Header(p)
        BY <4>1 DEF b
      <4>3. 1 \in DOMAIN events
        BY <2>2, <3>2
      <4>4. p \in Pipes
        BY <2>2, <3>2
      <4>5. p \in Range(events)
        BY <4>3, Zenon DEF Range
      <4> QED BY <4>2, <4>4, <4>5
    <3>4. len = 2 /\ end = 2 /\ offset' = 0
      BY <2>1, <3>2, <3>3 DEF len, end, EventLen, Header
    <3>5. events' = <<>>
      BY <2>1, <2>2, <3>2 DEF left
    <3>6. Len(events') = 0 /\ Range(events') = {}
      <4>1. DOMAIN <<>> = {} /\ Len(<<>>) = 0
        OBVIOUS
      <4>2. Range(<<>>) = {}
        BY <4>1, Zenon DEF Range
      <4> QED BY <3>5, <4>1, <4>2
    <3>7. e.of = p /\ e.half = "header"
      BY <3>3 DEF Header
    <3> HIDE DEF e, p
    <3>8. p \notin opened /\ \A i \in Slots : fifos[i].fd # p
      BY <3>1, <3>3 DEF OneSlot
    <3>9. ASSUME NEW q \in Pipes, pipe[q].state = "absent"
          PROVE  q \notin opened' /\ \A i \in Slots : fifos'[i].fd # q
      <4>1. q \notin opened /\ \A i \in Slots : fifos[i].fd # q
        BY <3>1, <3>9 DEF OneSlot
      <4>2. IsNew(e) => q # p
        BY <3>7, <3>9 DEF IsNew
      <4>3. q \notin opened'
        BY <2>10, <3>7, <4>1, <4>2
      <4>4. ASSUME NEW i \in Slots PROVE fifos'[i].fd # q
        BY <2>10, <3>7, <4>1, <4>2
      <4> QED BY <4>3, <4>4
    <3>10. ASSUME NEW i \in Slots, NEW j \in Slots,
                  fifos'[i].fd = fifos'[j].fd, fifos'[i].fd # NoFd
           PROVE  i = j
      <4>1. CASE fifos'[i] = fifos[i] /\ fifos'[j] = fifos[j]
        BY <3>1, <3>10, <4>1 DEF OneSlot
      <4>2. CASE fifos'[i] # fifos[i] /\ fifos'[j] # fifos[j]
        BY <2>10, <4>2
      <4>3. CASE fifos'[i] # fifos[i] /\ fifos'[j] = fifos[j]
        BY <2>10, <3>7, <3>8, <3>10, <4>3
      <4>4. CASE fifos'[i] = fifos[i] /\ fifos'[j] # fifos[j]
        BY <2>10, <3>7, <3>8, <3>10, <4>4
      <4> QED BY <4>1, <4>2, <4>3, <4>4
    <3>11. OneSlot'
      BY <1>1, <3>4, <3>6, <3>9, <3>10 DEF OneSlot
    <3>12. ASSUME NEW i \in Slots
           PROVE \E s \in Positions :
                   /\ Before(fifos'[i], s)
                   /\ fifos'[i].fd # NoFd => s = pipe[fifos'[i].fd].sent
      <4>1. CASE fifos'[i] = fifos[i]
        BY <3>1, <4>1 DEF InOrder
      <4>2. CASE fifos'[i] # fifos[i]
        <5>1. fifos'[i].fd = p /\ fifos'[i].len = 0 /\ fifos'[i].add_to = fifos[i].add_to
          BY <2>10, <3>7, <4>2
        <5>2. fifos'[i].add_to \in Positions /\ pipe[p].sent \in Positions
          BY <1>2, <3>3, <5>1 DEF TypeOK, Fifo, Pipe
        <5>3. Before(fifos'[i], pipe[p].sent)
          BY <5>1, <5>2, EmptyInOrder
        <5> QED BY <5>1, <5>2, <5>3
      <4> QED BY <4>1, <4>2
    <3>13. InOrder'
      BY <1>1, <3>12 DEF InOrder
    <3> QED BY <3>11, <3>13 DEF Sequential
  <2> QED BY <2>10, <2>11, <2>12, <2>13, <2>14 DEF IInv
<1> QED BY <1>3, <1>4

-----------------------------------------------------------------------------
(* read_from_fifos.                                                        *)

LEMMA PipesRead ==
  ASSUME AudioAssumption, TypeOK, pipe' = [p \in Pipes |-> PipeAfterRead(p)]
  PROVE  /\ pipe' \in [Pipes -> Pipe]
         /\ \A p \in Pipes : pipe'[p].state = pipe[p].state
         /\ \A p \in Pipes :
              pipe'[p].sent = (pipe[p].sent + (Unread(p) - Left[MaxFifos][p])) % Size
<1>1. /\ PipeRoom \in Nat /\ Size \in Nat \ {0} /\ MaxFifos \in Nat /\ Numbers = Size
  BY Bounds
<1>2. ASSUME NEW p \in Pipes
      PROVE  /\ PipeAfterRead(p) \in Pipe
             /\ PipeAfterRead(p).state = pipe[p].state
             /\ PipeAfterRead(p).sent =
                  (pipe[p].sent + (Unread(p) - Left[MaxFifos][p])) % Size
  <2> DEFINE n == Unread(p) - Left[MaxFifos][p]
             t == (pipe[p].sent + n) % Size
             r == pipe[p].room + n
  <2>1. pipe[p] \in Pipe /\ Left[MaxFifos][p] \in 0..PipeRoom
    <3>1. Left[MaxFifos] \in Contents
      BY <1>1, LeftTyped
    <3> QED BY <3>1 DEF TypeOK, Contents
  <2>2. r \in 0..PipeRoom /\ n \in Int
    BY <1>1, <2>1 DEF Unread, Pipe
  <2>3. t \in Positions
    <3>1. pipe[p].sent + n \in Int
      BY <1>1, <2>1, <2>2 DEF Pipe, Positions
    <3> HIDE DEF n
    <3> QED BY <1>1, <3>1 DEF Positions
  <2>4. PipeAfterRead(p) = [pipe[p] EXCEPT !.room = r, !.sent = t]
    BY <1>1 DEF PipeAfterRead
  <2>5. PipeAfterRead(p).sent = t /\ PipeAfterRead(p).state = pipe[p].state
        /\ PipeAfterRead(p) \in Pipe
    <3> HIDE DEF r, t
    <3> QED BY <2>1, <2>2, <2>3, <2>4 DEF Pipe
  <2> QED BY <2>5
<1> QED BY <1>2

LEMMA SamplesRead ==
  ASSUME AudioAssumption, TypeOK, OneSlot, InOrder, NEW i \in Slots,
         pipe' = [p \in Pipes |-> PipeAfterRead(p)]
  PROVE  \E s \in Positions :
           /\ Before(AfterRead(i), s)
           /\ AfterRead(i).fd # NoFd => s = pipe'[AfterRead(i).fd].sent
<1> DEFINE f == fifos[i]
           p == f.fd
           h == Holds(i)
           g == Filled(f, h, First(i))
<1>1. /\ Size \in Nat \ {0} /\ MaxFifos \in Nat /\ i \in 1..MaxFifos /\ PipeRoom \in Nat
      /\ f \in Fifo /\ p \in Pipes \union {NoFd}
  BY Bounds DEF Slots, TypeOK, Fifo
<1>2. \A j \in Slots : j # i => fifos[j].fd # p \/ p = NoFd
  BY DEF OneSlot
<1>3. \A q \in Pipes : /\ pipe[q].sent \in Positions
                       /\ pipe'[q].sent = (pipe[q].sent + (Unread(q) - Left[MaxFifos][q])) % Size
  BY PipesRead DEF TypeOK, Pipe
<1>4. PICK s \in Positions : Before(f, s) /\ (p # NoFd => s = pipe[p].sent)
  BY DEF InOrder
<1>5. \A q \in Pipes : Left[0][q] = Unread(q) /\ Unread(q) \in 0..PipeRoom
  <2>1. Left[0] = [q \in Pipes |-> Unread(q)] /\ Left[0] \in Contents
    <3>1. 0 \in 0..MaxFifos
      BY <1>1
    <3> QED BY <3>1, LeftUnfolds, LeftTyped DEF Turn
  <2> QED BY <2>1 DEF Contents
<1>6. CASE ~Read(i)
  <2>1. AfterRead(i) = f
    BY <1>6, AfterReadIs
  <2>2. ASSUME p # NoFd PROVE pipe'[p].sent = s
    <3>1. p \in Pipes
      BY <1>1, <2>2
    <3>2. Left[MaxFifos][p] = Left[0][p]
      <4>1. \A j \in 0 + 1..MaxFifos : fifos[j].fd # p \/ ~Read(j)
        BY <1>2, <1>6, <2>2 DEF Slots
      <4>2. 0 \in 0..MaxFifos /\ MaxFifos \in 0..MaxFifos
        BY <1>1
      <4> QED BY <3>1, <4>1, <4>2, LeftUntouched
    <3>3. pipe'[p].sent = s % Size
      <4>1. Unread(p) - Left[MaxFifos][p] = 0
        BY <1>1, <1>5, <3>1, <3>2
      <4>2. s + 0 = s
        BY DEF Positions
      <4> QED BY <1>3, <1>4, <2>2, <3>1, <4>1, <4>2
    <3>4. s % Size = s
      BY <1>1 DEF Positions
    <3> QED BY <3>3, <3>4
  <2> QED BY <1>4, <2>1, <2>2
<1>7. CASE Read(i)
  <2>1. p \in Pipes /\ p # NoFd
    BY <1>1, <1>7 DEF Read
  <2>2. h = Unread(p)
    <3>1. \A j \in 0 + 1..i - 1 : fifos[j].fd # p \/ ~Read(j)
      <4>1. \A j \in 0 + 1..i - 1 : j \in Slots /\ j # i
        BY <1>1 DEF Slots
      <4> QED BY <1>2, <2>1, <4>1
    <3>2. 0 \in 0..MaxFifos /\ i - 1 \in 0..MaxFifos
      BY <1>1
    <3>3. Left[i - 1][p] = Left[0][p]
      BY <2>1, <3>1, <3>2, LeftUntouched
    <3> QED BY <1>5, <2>1, <3>3 DEF Holds
  <2>3. First(i) = s
    <3>1. s \in Int /\ h \in Int
      BY <1>1, <1>5, <2>1, <2>2 DEF Positions
    <3> HIDE DEF h
    <3>2. First(i) = s + h - h
      BY <1>4, <2>1, <2>2 DEF First, h
    <3> QED BY <3>1, <3>2
  <2> DEFINE n == Got(f, h)
             t == (s + n) % Size
  <2>4. n \in 0..h /\ h \in Nat
    <3>1. h \in Nat /\ s \in Int
      BY <1>1, <1>5, <2>1, <2>2 DEF Positions
    <3> HIDE DEF h, f
    <3> QED BY <1>1, <3>1, FilledIs
  <2>5. Before(g, t)
    <3>1. g = Filled(f, h, s)
      BY <2>3
    <3> HIDE DEF g, h, f
    <3> QED BY <1>1, <1>4, <2>4, <3>1, FilledInOrder
  <2>6. Before(AfterRead(i), t)
    <3>1. /\ AfterRead(i).add_to = g.add_to /\ AfterRead(i).len = g.len
          /\ AfterRead(i).buffer = g.buffer
      BY <1>7, AfterReadIs
    <3> HIDE DEF g, t
    <3> QED BY <2>5, <3>1 DEF Before, Valid
  <2>7. Left[MaxFifos][p] = h - n
    <3>1. \A j \in i + 1..MaxFifos : fifos[j].fd # p \/ ~Read(j)
      <4>1. \A j \in i + 1..MaxFifos : j \in Slots /\ j # i
        BY <1>1 DEF Slots
      <4> QED BY <1>2, <2>1, <4>1
    <3>2. i \in 0..MaxFifos /\ MaxFifos \in i..MaxFifos /\ i - 1 \in 0..MaxFifos /\ i # 0
      BY <1>1
    <3>3. Left[MaxFifos][p] = Left[i][p]
      BY <2>1, <3>1, <3>2, LeftUntouched
    <3>4. Left[i] = [Left[i - 1] EXCEPT ![p] = @ - Got(f, @)] /\ Left[i - 1] \in Contents
      BY <1>7, <3>2, LeftUnfolds, LeftTyped DEF Turn
    <3>5. Left[i][p] = Left[i - 1][p] - Got(f, Left[i - 1][p])
      BY <2>1, <3>4 DEF Contents
    <3> QED BY <3>3, <3>5 DEF Holds
  <2>8. pipe'[p].sent = t
    <3>1. Unread(p) - Left[MaxFifos][p] = n
      <4> HIDE DEF h, n
      <4> QED BY <2>2, <2>4, <2>7
    <3> QED BY <1>3, <1>4, <2>1, <3>1
  <2>9. t \in Positions
    <3>1. s + n \in Int
      BY <2>4 DEF Positions
    <3> HIDE DEF n
    <3> QED BY <1>1, <3>1 DEF Positions
  <2>10. AfterRead(i).fd # NoFd => AfterRead(i).fd = p
    BY AfterReadIs
  <2> HIDE DEF t
  <2> QED BY <2>6, <2>8, <2>9, <2>10
<1> QED BY <1>6, <1>7

LEMMA ReadFromFifosStep == ASSUME AudioAssumption, IInv, ReadFromFifos PROVE IInv'
<1> DEFINE lens == {0} \union {AfterRead(i).len : i \in InUse}
           most == Max(lens)
           was == {i \in 1..fifo_count : fifos[i].fd = NoFd}
           ended == {i \in Slots : Ended(i)}
<1>1. /\ at = "called" /\ at' \in {"condensing", "processing"}
      /\ fifos' = [i \in Slots |-> AfterRead(i)]
      /\ closed_fifos' = closed_fifos + Cardinality(ended)
      /\ pipe' = [p \in Pipes |-> PipeAfterRead(p)]
      /\ maxlen' = most /\ active' = (active \/ most > 0)
      /\ wall_timer_type' = "none"
      /\ events' = events /\ buf' = buf /\ offset' = offset /\ opened' = opened
      /\ fifo_count' = fifo_count /\ spice_buffer' = spice_buffer /\ ahead' = ahead
  <2> DEFINE after == [i \in Slots |-> AfterRead(i)]
             m == Max({0} \union {after[i].len : i \in 1..fifo_count})
  <2>1. m = most
    <3>1. \A i \in 1..fifo_count : after[i] = AfterRead(i)
      BY SlotsOrdered DEF IInv
    <3> HIDE DEF after
    <3>2. {after[i].len : i \in 1..fifo_count} = {AfterRead(i).len : i \in 1..fifo_count}
      BY <3>1
    <3> QED BY <3>2 DEF InUse
  <2>2. /\ fifos' = after /\ maxlen' = m /\ active' = (active \/ m > 0)
        /\ at = "called" /\ at' \in {"condensing", "processing"}
        /\ closed_fifos' = closed_fifos + Cardinality({i \in Slots : Ended(i)})
        /\ pipe' = [p \in Pipes |-> PipeAfterRead(p)]
        /\ wall_timer_type' = "none"
        /\ events' = events /\ buf' = buf /\ offset' = offset /\ opened' = opened
        /\ fifo_count' = fifo_count /\ spice_buffer' = spice_buffer /\ ahead' = ahead
    BY DEF ReadFromFifos
  <2> HIDE DEF m, most
  <2> QED BY <2>1, <2>2
<1>2. /\ TypeOK /\ CountsAgree /\ NoneForgotten /\ Working /\ (Together \/ Sequential)
      /\ Size \in Nat \ {0} /\ MaxFifos \in Nat /\ NoFd \notin Pipes
      /\ fifo_count \in 0..MaxFifos /\ InUse \subseteq Slots /\ InUse = 1..fifo_count
      /\ Slots = 1..MaxFifos
  BY SlotsOrdered, Bounds DEF IInv, Slots
<1>3. \A i \in Slots :
        /\ fifos'[i] = AfterRead(i) /\ AfterRead(i) \in Fifo
        /\ ~Read(i) => AfterRead(i) = fifos[i]
        /\ AfterRead(i).len >= fifos[i].len
        /\ AfterRead(i).fd = IF Ended(i) THEN NoFd ELSE fifos[i].fd
        /\ AfterRead(i).watch => fifos[i].watch /\ ~Ended(i)
  <2>1. \A i \in Slots : fifos'[i] = AfterRead(i)
    BY <1>1
  <2>2. ASSUME NEW i \in Slots
        PROVE  /\ AfterRead(i) \in Fifo
               /\ ~Read(i) => AfterRead(i) = fifos[i]
               /\ AfterRead(i).len >= fifos[i].len
               /\ AfterRead(i).fd = IF Ended(i) THEN NoFd ELSE fifos[i].fd
               /\ AfterRead(i).watch => fifos[i].watch /\ ~Ended(i)
    BY <1>2, AfterReadIs
  <2> QED BY <2>1, <2>2
<1>4. most \in lens /\ (\A l \in lens : most >= l) /\ most \in 0..Size
  <2>1. lens \in SUBSET (0..Size) /\ lens # {}
    <3>1. ASSUME NEW i \in InUse PROVE AfterRead(i).len \in 0..Size
      BY <1>2, <1>3 DEF Fifo
    <3> QED BY <1>2, <3>1
  <2> HIDE DEF lens
  <2> QED BY <2>1, Greatest
<1>5. \A i \in ended : i \in InUse /\ fifos[i].fd # NoFd
  BY <1>2 DEF Ended, Read
<1>6. IsFiniteSet(ended) /\ IsFiniteSet(was) /\ Cardinality(ended) \in Nat
  <2>1. IsFiniteSet(1..MaxFifos) /\ ended \subseteq 1..MaxFifos /\ was \subseteq 1..MaxFifos
    <3>1. IsFiniteSet(1..MaxFifos)
      BY <1>2, FS_Interval
    <3>2. 1..fifo_count \subseteq 1..MaxFifos
      BY <1>2
    <3> QED BY <1>2, <3>1, <3>2
  <2>2. IsFiniteSet(ended) /\ IsFiniteSet(was)
    BY <2>1, FS_Subset
  <2> QED BY <2>2, FS_CardinalityType
<1> HIDE DEF most, lens
<1>7. TypeOK'
  <2>1. fifos' \in [Slots -> Fifo]
    BY <1>1, <1>3
  <2>2. pipe' \in [Pipes -> Pipe]
    BY <1>1, <1>2, PipesRead
  <2>3. closed_fifos' \in Int /\ maxlen' \in Int
    BY <1>1, <1>2, <1>4, <1>6 DEF TypeOK
  <2>4. active' \in BOOLEAN
    BY <1>1
  <2> QED BY <1>1, <1>2, <2>1, <2>2, <2>3, <2>4 DEF TypeOK
<1>8. CountsAgree'
  <2>1. {i \in 1..fifo_count : fifos'[i].fd = NoFd} = was \union ended
    <3>1. ASSUME NEW i \in 1..fifo_count
          PROVE fifos'[i].fd = NoFd <=> i \in was \/ i \in ended
      BY <1>2, <1>3
    <3>2. ended \subseteq 1..fifo_count /\ was \subseteq 1..fifo_count
      BY <1>2, <1>5
    <3> HIDE DEF was, ended
    <3> QED BY <3>1, <3>2
  <2>2. was \cap ended = {}
    BY <1>5
  <2>3. Cardinality(was \union ended) = Cardinality(was) + Cardinality(ended)
    <3>1. Cardinality(was \cap ended) = 0
      BY <2>2, FS_EmptySet
    <3>2. Cardinality(was) \in Nat
      BY <1>6, FS_CardinalityType
    <3>3. Cardinality(was \union ended) =
            Cardinality(was) + Cardinality(ended) - Cardinality(was \cap ended)
      BY <1>6, FS_Union
    <3> HIDE DEF was, ended
    <3> QED BY <1>6, <3>1, <3>2, <3>3
  <2>4. closed_fifos = Cardinality(was)
    BY <1>2 DEF CountsAgree
  <2>5. closed_fifos' = Cardinality({i \in 1..fifo_count' : fifos'[i].fd = NoFd})
    BY <1>1, <2>1, <2>3, <2>4
  <2>6. ASSUME NEW i \in Slots
        PROVE  /\ i > fifo_count => fifos'[i].fd = NoFd /\ fifos'[i].len = 0
               /\ fifos'[i].fd = NoFd => ~fifos'[i].watch
    <3>1. CASE i > fifo_count
      <4>1. ~Read(i)
        BY <1>2, <3>1 DEF Read
      <4> QED BY <1>2, <1>3, <3>1, <4>1 DEF CountsAgree
    <3>2. CASE ~(i > fifo_count)
      BY <1>2, <1>3, <3>2 DEF CountsAgree
    <3> QED BY <3>1, <3>2
  <2> QED BY <1>1, <2>5, <2>6 DEF CountsAgree
<1>9. NoneForgotten'
  BY <1>1 DEF NoneForgotten
<1>10. Working'
  <2>1. InUse' = InUse
    BY <1>1 DEF InUse
  <2>2. ASSUME NEW i \in InUse PROVE fifos'[i].len <= maxlen'
    <3>1. AfterRead(i).len \in lens
      BY DEF lens
    <3> QED BY <1>1, <1>2, <1>3, <1>4, <3>1
  <2>3. ASSUME most > 0 PROVE \E i \in InUse : fifos'[i].len = most
    <3>1. most \in {AfterRead(i).len : i \in InUse}
      BY <1>4, <2>3 DEF lens
    <3> QED BY <1>2, <1>3, <3>1
  <2>4. ASSUME spice_buffer PROVE most > 0
    <3>1. PICK i \in InUse : fifos[i].len > 0
      BY <1>1, <1>2, <2>4 DEF Working, SomeData
    <3>2. fifos[i].len \in Nat /\ AfterRead(i).len \in Nat /\ AfterRead(i).len >= fifos[i].len
      BY <1>2, <1>3 DEF TypeOK, Fifo
    <3>3. AfterRead(i).len <= most
      BY <1>4 DEF lens
    <3> QED BY <1>4, <3>1, <3>2, <3>3
  <2> QED BY <1>1, <2>1, <2>2, <2>3, <2>4 DEF Working
<1>11. ASSUME ~Together PROVE Sequential'
  <2>1. OneSlot /\ InOrder
    BY <1>2, <1>11 DEF Sequential
  <2>2. \A p \in Pipes : pipe'[p].state = pipe[p].state
    BY <1>1, <1>2, PipesRead
  <2>3. \A i \in Slots : fifos'[i].fd = NoFd \/ fifos'[i].fd = fifos[i].fd
    BY <1>3
  <2>4. ASSUME NEW p \in Pipes, pipe'[p].state = "absent" \/ p \in Range(events')
        PROVE  p \notin opened' /\ \A i \in Slots : fifos'[i].fd # p
    <3>1. p \notin opened /\ \A i \in Slots : fifos[i].fd # p
      BY <1>1, <2>1, <2>2, <2>4 DEF OneSlot
    <3> QED BY <1>1, <1>2, <2>3, <3>1
  <2>5. \A i, j \in Slots : fifos'[i].fd = fifos'[j].fd /\ fifos'[i].fd # NoFd => i = j
    BY <2>1, <2>3 DEF OneSlot
  <2>6. OneSlot'
    BY <1>1, <2>1, <2>4, <2>5 DEF OneSlot
  <2>7. ASSUME NEW i \in Slots
        PROVE  \E s \in Positions :
                 /\ Before(fifos'[i], s)
                 /\ fifos'[i].fd # NoFd => s = pipe'[fifos'[i].fd].sent
    <3>1. fifos'[i] = AfterRead(i)
      BY <1>3
    <3>2. \E s \in Positions :
            /\ Before(AfterRead(i), s)
            /\ AfterRead(i).fd # NoFd => s = pipe'[AfterRead(i).fd].sent
      BY <1>1, <1>2, <2>1, SamplesRead
    <3> QED BY <3>1, <3>2
  <2>8. InOrder'
    BY <2>7 DEF InOrder
  <2> QED BY <2>6, <2>8 DEF Sequential
<1> QED BY <1>7, <1>8, <1>9, <1>10, <1>11 DEF IInv

LEMMA CondenseStep == ASSUME AudioAssumption, IInv, Condense PROVE IInv'
<1>1. /\ pipe' = pipe /\ events' = events /\ buf' = buf /\ offset' = offset /\ opened' = opened
      /\ active' = active /\ spice_buffer' = spice_buffer /\ wall_timer_type' = wall_timer_type
      /\ ahead' = ahead /\ maxlen' = maxlen /\ at = "condensing"
  BY DEF Condense
<1>2. /\ TypeOK /\ CountsAgree /\ NoneForgotten /\ Working /\ (Together \/ Sequential)
      /\ MaxFifos \in Nat /\ NoFd \notin Pipes
      /\ fifo_count \in 0..MaxFifos /\ InUse \subseteq Slots /\ InUse = 1..fifo_count
      /\ Slots = 1..MaxFifos /\ fifos \in [Slots -> Fifo]
  BY SlotsOrdered, Bounds DEF IInv, Slots, TypeOK
<1>3. CASE Dropped = {} \/ closed_fifos = 0
  <2>1. /\ fifos' = fifos /\ fifo_count' = fifo_count /\ closed_fifos' = closed_fifos
        /\ at' = "processing"
    BY <1>3 DEF Condense
  <2>2. TypeOK'
    BY <1>1, <1>2, <2>1 DEF TypeOK
  <2>3. CountsAgree' /\ NoneForgotten' /\ Working'
    BY <1>1, <1>2, <2>1 DEF CountsAgree, NoneForgotten, Working, InUse
  <2>4. Together \/ Sequential'
    BY <1>1, <1>2, <2>1, SequentialSame
  <2> QED BY <2>2, <2>3, <2>4 DEF IInv
<1>4. CASE Dropped # {} /\ closed_fifos # 0
  <2> DEFINE m == Min(Dropped)
             c == fifo_count
             was == {i \in 1..c : fifos[i].fd = NoFd}
  <2>1. m \in Dropped
    <3>1. Dropped \in SUBSET Nat
      BY <1>2 DEF Dropped
    <3>2. \E n \in Dropped : \A k \in Dropped : n <= k
      BY <1>4, <3>1, LeastNumber
    <3> QED BY <3>2, Zenon DEF Min
  <2>2. /\ fifos' = [fifos EXCEPT ![m] = fifos[c], ![c] = fifos[m]]
        /\ fifo_count' = c - 1 /\ closed_fifos' = closed_fifos - 1 /\ at' = at
    BY <1>4 DEF Condense
  <2> HIDE DEF m
  <2>3. /\ m \in 1..c /\ m \in Slots /\ c \in Slots /\ c \in 1..c /\ fifos[m].fd = NoFd
        /\ fifos[m].len = 0
    BY <1>2, <2>1 DEF Dropped
  <2>4. /\ fifos' \in [Slots -> Fifo]
        /\ fifos'[c] = fifos[m] /\ (m # c => fifos'[m] = fifos[c])
        /\ \A i \in Slots : i # m /\ i # c => fifos'[i] = fifos[i]
    BY <1>2, <2>2, <2>3
  <2>5. InUse' = 1..c - 1 /\ \A i \in InUse' : i \in InUse /\ i # c
    BY <1>2, <2>2, <2>3 DEF InUse
  <2>6. TypeOK'
    <3>1. fifo_count' \in 0..MaxFifos /\ closed_fifos' \in Int
      BY <1>2, <2>2, <2>3 DEF TypeOK
    <3> QED BY <1>1, <1>2, <2>2, <2>4, <3>1 DEF TypeOK
  <2>7. CountsAgree'
    <3> DEFINE now == {i \in 1..c - 1 : fifos'[i].fd = NoFd}
               gone == IF fifos[c].fd = NoFd THEN c ELSE m
    <3>1. now = was \ {gone} /\ gone \in was
      <4>1. CASE fifos[c].fd = NoFd
        <5>1. gone = c /\ c \in was
          BY <2>3, <4>1
        <5>2. ASSUME NEW i \in 1..c - 1 PROVE fifos'[i].fd = NoFd <=> fifos[i].fd = NoFd
          <6>1. i \in Slots /\ i # c
            BY <1>2, <2>3
          <6>2. CASE i = m
            BY <2>3, <2>4, <4>1, <6>1, <6>2
          <6>3. CASE i # m
            BY <2>4, <6>1, <6>3
          <6> QED BY <6>2, <6>3
        <5>3. \A i \in 1..c : i # c <=> i \in 1..c - 1
          BY <1>2, <2>3
        <5>4. \A i \in 1..c - 1 : i \in 1..c
          BY <1>2
        <5> HIDE DEF gone
        <5> QED BY <5>1, <5>2, <5>3, <5>4
      <4>2. CASE fifos[c].fd # NoFd
        <5>1. gone = m /\ m \in was /\ m # c
          BY <2>3, <4>2
        <5>2. ASSUME NEW i \in 1..c - 1 PROVE fifos'[i].fd = NoFd <=> fifos[i].fd = NoFd /\ i # m
          <6>1. i \in Slots /\ i # c
            BY <1>2, <2>3
          <6>2. CASE i = m
            BY <2>4, <4>2, <5>1, <6>2
          <6>3. CASE i # m
            BY <2>4, <6>1, <6>3
          <6> QED BY <6>2, <6>3
        <5>3. \A i \in 1..c : i # c => i \in 1..c - 1
          BY <1>2, <2>3
        <5>4. \A i \in 1..c - 1 : i \in 1..c /\ i # c
          BY <1>2, <2>3
        <5> HIDE DEF gone
        <5> QED BY <4>2, <5>1, <5>2, <5>3, <5>4
      <4> QED BY <4>1, <4>2
    <3>2. IsFiniteSet(was)
      <4>1. IsFiniteSet(1..c) /\ was \subseteq 1..c
        BY <1>2, FS_Interval
      <4> QED BY <4>1, FS_Subset
    <3> HIDE DEF was, now, gone
    <3>3. Cardinality(now) = Cardinality(was) - 1
      BY <3>1, <3>2, FS_RemoveElement
    <3>4. closed_fifos = Cardinality(was)
      BY <1>2 DEF CountsAgree, was
    <3>5. closed_fifos' = Cardinality({i \in 1..fifo_count' : fifos'[i].fd = NoFd})
      BY <2>2, <3>3, <3>4 DEF now
    <3>6. ASSUME NEW i \in Slots
          PROVE  /\ i > c - 1 => fifos'[i].fd = NoFd /\ fifos'[i].len = 0
                 /\ fifos'[i].fd = NoFd => ~fifos'[i].watch
      <4>1. CASE i = c
        BY <1>2, <2>3, <2>4, <4>1 DEF CountsAgree
      <4>2. CASE i # c
        <5>1. i > c - 1 => i > c /\ i # m
          BY <1>2, <2>3, <4>2
        <5> QED BY <1>2, <2>3, <2>4, <4>2, <5>1 DEF CountsAgree
      <4> QED BY <4>1, <4>2
    <3> QED BY <2>2, <3>5, <3>6 DEF CountsAgree
  <2>8. NoneForgotten'
    BY <1>1, <2>2 DEF NoneForgotten
  <2>9. Working'
    <3>1. ASSUME NEW i \in InUse' PROVE fifos'[i].len = 0 \/ fifos'[i].len <= maxlen
      <4>1. i \in InUse /\ i # c /\ i \in Slots /\ c \in InUse
        BY <1>2, <2>3, <2>5
      <4>2. \A j \in InUse : fifos[j].len = 0 \/ fifos[j].len <= maxlen
        BY <1>1, <1>2 DEF Working
      <4> QED BY <2>4, <4>1, <4>2
    <3>2. ASSUME maxlen > 0 PROVE \E i \in InUse' : fifos'[i].len = maxlen
      <4>1. PICK i \in InUse : fifos[i].len = maxlen
        BY <1>1, <1>2, <3>2 DEF Working
      <4>2. i # m
        BY <2>3, <3>2, <4>1
      <4>3. CASE i = c
        <5>1. m \in InUse' /\ fifos'[m] = fifos[c]
          BY <1>2, <2>3, <2>4, <2>5, <4>2, <4>3
        <5> QED BY <4>1, <4>3, <5>1
      <4>4. CASE i # c
        <5>1. i \in InUse' /\ fifos'[i] = fifos[i]
          BY <1>2, <2>3, <2>4, <2>5, <4>1, <4>2, <4>4
        <5> QED BY <4>1, <5>1
      <4> QED BY <4>3, <4>4
    <3> QED BY <1>1, <1>2, <2>2, <3>1, <3>2 DEF Working
  <2>10. ASSUME ~Together PROVE Sequential'
    <3>1. OneSlot /\ InOrder
      BY <1>2, <2>10 DEF Sequential
    <3> DEFINE from(i) == IF i = m THEN c ELSE IF i = c THEN m ELSE i
    <3>2. \A i \in Slots : from(i) \in Slots /\ fifos'[i] = fifos[from(i)]
      BY <2>3, <2>4
    <3>3. \A i, j \in Slots : from(i) = from(j) => i = j
      OBVIOUS
    <3> HIDE DEF from
    <3>4. ASSUME NEW p \in Pipes, pipe'[p].state = "absent" \/ p \in Range(events')
          PROVE  p \notin opened' /\ \A i \in Slots : fifos'[i].fd # p
      BY <1>1, <3>1, <3>2, <3>4 DEF OneSlot
    <3>5. \A i, j \in Slots : fifos'[i].fd = fifos'[j].fd /\ fifos'[i].fd # NoFd => i = j
      BY <3>1, <3>2, <3>3 DEF OneSlot
    <3>6. OneSlot'
      BY <1>1, <3>1, <3>4, <3>5 DEF OneSlot
    <3>7. ASSUME NEW i \in Slots
          PROVE  \E s \in Positions :
                   /\ Before(fifos'[i], s)
                   /\ fifos'[i].fd # NoFd => s = pipe'[fifos'[i].fd].sent
      <4>1. from(i) \in Slots /\ fifos'[i] = fifos[from(i)]
        BY <3>2
      <4> QED BY <1>1, <3>1, <4>1 DEF InOrder
    <3>8. InOrder'
      BY <3>7 DEF InOrder
    <3> QED BY <3>6, <3>8 DEF Sequential
  <2> QED BY <2>6, <2>7, <2>8, <2>9, <2>10 DEF IInv
<1> QED BY <1>3, <1>4

LEMMA ProcessStep == ASSUME AudioAssumption, IInv, Process PROVE IInv'
<1>1. /\ pipe' = pipe /\ events' = events /\ buf' = buf /\ offset' = offset /\ opened' = opened
      /\ fifo_count' = fifo_count /\ closed_fifos' = closed_fifos /\ active' = active
      /\ at = "processing" /\ maxlen > 0
  BY DEF Process, Feeding
<1>2. /\ TypeOK /\ CountsAgree /\ NoneForgotten /\ Working /\ (Together \/ Sequential)
      /\ MaxFifos \in Nat /\ NoFd \notin Pipes /\ Size \in Nat \ {0}
      /\ fifo_count \in 0..MaxFifos /\ InUse \subseteq Slots /\ InUse = 1..fifo_count
      /\ Slots = 1..MaxFifos /\ fifos \in [Slots -> Fifo] /\ maxlen \in Int
  BY SlotsOrdered, Bounds DEF IInv, Slots, TypeOK
<1>3. InUse' = InUse
  BY <1>1 DEF InUse
<1>4. PICK held \in BOOLEAN :
        IF ahead < FeedAhead
        THEN /\ MixInFifos(Bytes(held)) /\ ahead' = ahead + Bytes(held)
             /\ maxlen' = maxlen - Bytes(held) /\ spice_buffer' = FALSE
             /\ at' = at /\ wall_timer_type' = wall_timer_type
        ELSE /\ spice_buffer' = held /\ wall_timer_type' = "period"
             /\ maxlen' = 0 /\ at' = "idle" /\ ahead' = ahead /\ fifos' = fifos
  BY DEF Process
<1>5. CASE ahead < FeedAhead
  <2> DEFINE b == Bytes(held)
  <2>1. b \in Nat \ {0}
    BY <1>2 DEF Bytes
  <2>2. /\ MixInFifos(b) /\ ahead' = ahead + b /\ maxlen' = maxlen - b /\ spice_buffer' = FALSE
        /\ at' = at /\ wall_timer_type' = wall_timer_type
    BY <1>4, <1>5
  <2> HIDE DEF b
  <2>3. ASSUME NEW i \in Slots
        PROVE  /\ fifos'[i] \in Fifo /\ fifos'[i].fd = fifos[i].fd
               /\ fifos'[i].watch = fifos[i].watch
               /\ i \in InUse => fifos'[i].len = fifos[i].len - Least(b, fifos[i].len)
               /\ i \notin InUse => fifos'[i] = fifos[i]
               /\ \A s \in Positions : Before(fifos[i], s) => Before(fifos'[i], s)
    <3>1. fifos'[i] = IF i <= fifo_count THEN Taken(fifos[i], Least(b, fifos[i].len))
                      ELSE fifos[i]
      BY <2>2, <2>3 DEF MixInFifos
    <3>2. i <= fifo_count <=> i \in InUse
      BY <1>2, <2>3
    <3> DEFINE n == Least(b, fifos[i].len)
    <3>3. n \in 0..fifos[i].len
      BY <1>2, <2>1 DEF Least, Fifo
    <3> HIDE DEF n
    <3>4. CASE i \in InUse
      <4>1. fifos'[i] = Taken(fifos[i], n) /\ fifos[i] \in Fifo
        BY <1>2, <3>1, <3>2, <3>4 DEF n
      <4>2. /\ fifos'[i] \in Fifo /\ fifos'[i].fd = fifos[i].fd
            /\ fifos'[i].watch = fifos[i].watch /\ fifos'[i].len = fifos[i].len - n
        BY <3>3, <4>1, TakenIs
      <4>3. \A s \in Positions : Before(fifos[i], s) => Before(fifos'[i], s)
        BY <3>3, <4>1, TakenInOrder
      <4> QED BY <3>4, <4>2, <4>3 DEF n
    <3>5. CASE i \notin InUse
      BY <1>2, <3>1, <3>2, <3>5
    <3> QED BY <3>4, <3>5
  <2>4. TypeOK'
    <3>1. fifos' \in [Slots -> Fifo]
      <4>1. \A i \in Slots : fifos'[i] \in Fifo
        BY <2>3
      <4>2. fifos' = [i \in Slots |-> fifos'[i]]
        BY <2>2 DEF MixInFifos
      <4> QED BY <4>1, <4>2
    <3>2. ahead' \in Nat /\ maxlen' \in Int
      BY <1>2, <2>1, <2>2 DEF TypeOK
    <3> QED BY <1>1, <1>2, <2>2, <3>1, <3>2 DEF TypeOK
  <2>5. CountsAgree'
    <3>1. {i \in 1..fifo_count : fifos'[i].fd = NoFd} = {i \in 1..fifo_count : fifos[i].fd = NoFd}
      BY <1>2, <2>3
    <3>2. closed_fifos' = Cardinality({i \in 1..fifo_count' : fifos'[i].fd = NoFd})
      BY <1>1, <1>2, <3>1 DEF CountsAgree
    <3>3. ASSUME NEW i \in Slots
          PROVE  /\ i > fifo_count => fifos'[i].fd = NoFd /\ fifos'[i].len = 0
                 /\ fifos'[i].fd = NoFd => ~fifos'[i].watch
      <4>1. i > fifo_count => i \notin InUse
        BY <1>2
      <4> QED BY <1>2, <2>3, <4>1 DEF CountsAgree
    <3> QED BY <1>1, <3>2, <3>3 DEF CountsAgree
  <2>6. NoneForgotten'
    BY <1>1, <2>2 DEF NoneForgotten
  <2>7. Working'
    <3>1. ASSUME NEW i \in InUse PROVE fifos'[i].len = 0 \/ fifos'[i].len <= maxlen'
      <4>1. i \in Slots /\ fifos[i].len \in Nat
        BY <1>2 DEF Fifo
      <4>2. fifos[i].len = 0 \/ fifos[i].len <= maxlen
        BY <1>1, <1>2 DEF Working
      <4>3. fifos'[i].len = fifos[i].len - Least(b, fifos[i].len)
        BY <2>3, <4>1
      <4> QED BY <1>2, <2>1, <2>2, <4>1, <4>2, <4>3 DEF Least
    <3>2. ASSUME maxlen' > 0 PROVE \E i \in InUse : fifos'[i].len = maxlen'
      <4>1. PICK i \in InUse : fifos[i].len = maxlen
        BY <1>1, <1>2 DEF Working
      <4>2. i \in Slots /\ fifos'[i].len = fifos[i].len - Least(b, fifos[i].len)
        BY <1>2, <2>3
      <4> QED BY <1>2, <2>1, <2>2, <3>2, <4>1, <4>2 DEF Least
    <3>3. active
      BY <1>1, <1>2 DEF Working
    <3> QED BY <1>1, <1>3, <2>2, <3>1, <3>2, <3>3 DEF Working
  <2>8. ASSUME ~Together PROVE Sequential'
    <3>1. OneSlot /\ InOrder
      BY <1>2, <2>8 DEF Sequential
    <3>2. \A i \in Slots : fifos'[i].fd = fifos[i].fd
      BY <2>3
    <3>3. OneSlot'
      BY <1>1, <3>1, <3>2 DEF OneSlot
    <3>4. ASSUME NEW i \in Slots
          PROVE  \E s \in Positions :
                   /\ Before(fifos'[i], s)
                   /\ fifos'[i].fd # NoFd => s = pipe'[fifos'[i].fd].sent
      BY <1>1, <2>3, <3>1, <3>2 DEF InOrder
    <3>5. InOrder'
      BY <3>4 DEF InOrder
    <3> QED BY <3>3, <3>5 DEF Sequential
  <2> QED BY <2>4, <2>5, <2>6, <2>7, <2>8 DEF IInv
<1>6. CASE ~(ahead < FeedAhead)
  <2>1. /\ spice_buffer' = held /\ wall_timer_type' = "period"
        /\ maxlen' = 0 /\ at' = "idle" /\ ahead' = ahead /\ fifos' = fifos
    BY <1>4, <1>6
  <2>2. TypeOK'
    BY <1>1, <1>2, <2>1 DEF TypeOK
  <2>3. CountsAgree'
    BY <1>1, <1>2, <2>1 DEF CountsAgree
  <2>4. active /\ SomeData
    BY <1>1, <1>2 DEF Working, SomeData
  <2>5. NoneForgotten' /\ Working'
    BY <1>1, <1>3, <2>1, <2>4 DEF NoneForgotten, Working, SomeData
  <2>6. Together \/ Sequential'
    BY <1>1, <1>2, <2>1, SequentialSame
  <2> QED BY <2>2, <2>3, <2>5, <2>6 DEF IInv
<1> QED BY <1>5, <1>6

LEMMA ProcessedStep == ASSUME AudioAssumption, IInv, Processed PROVE IInv'
<1>1. /\ pipe' = pipe /\ events' = events /\ buf' = buf /\ offset' = offset /\ opened' = opened
      /\ fifo_count' = fifo_count /\ closed_fifos' = closed_fifos /\ spice_buffer' = spice_buffer
      /\ ahead' = ahead /\ at = "processing" /\ maxlen <= 0 /\ at' = "idle" /\ maxlen' = 0
      /\ IF fifo_count > 0
         THEN StartWatching /\ wall_timer_type' = "idle" /\ active' = active
         ELSE active' = FALSE /\ fifos' = fifos /\ wall_timer_type' = wall_timer_type
  BY DEF Processed
<1>2. /\ TypeOK /\ CountsAgree /\ NoneForgotten /\ Working /\ (Together \/ Sequential)
      /\ MaxFifos \in Nat /\ NoFd \notin Pipes /\ Size \in Nat \ {0}
      /\ fifo_count \in 0..MaxFifos /\ InUse \subseteq Slots /\ InUse = 1..fifo_count
      /\ Slots = 1..MaxFifos /\ fifos \in [Slots -> Fifo] /\ maxlen \in Int
  BY SlotsOrdered, Bounds DEF IInv, Slots, TypeOK
<1>3. InUse' = InUse
  BY <1>1 DEF InUse
<1>4. ~spice_buffer /\ \A i \in InUse : fifos[i].len = 0
  <2>1. \A i \in InUse : fifos[i].len \in Nat /\ (fifos[i].len = 0 \/ fifos[i].len <= maxlen)
    BY <1>1, <1>2 DEF Working, Fifo
  <2>2. ~spice_buffer
    BY <1>1, <1>2 DEF Working
  <2> QED BY <1>1, <1>2, <2>1, <2>2
<1>5. ASSUME NEW i \in Slots
      PROVE  /\ fifos'[i] \in Fifo /\ fifos'[i].fd = fifos[i].fd /\ fifos'[i].len = fifos[i].len
             /\ fifos'[i].watch =>
                  fifos[i].watch \/ (i \in InUse /\ fifos[i].fd # NoFd)
             /\ i \in InUse /\ fifos[i].fd # NoFd => fifos'[i].watch
             /\ fifos'[i].add_to = fifos[i].add_to /\ fifos'[i].buffer = fifos[i].buffer
  <2>1. CASE fifo_count > 0
    <3>1. fifos'[i] = IF i > fifo_count \/ fifos[i].len = Size \/ fifos[i].fd = NoFd
                      THEN fifos[i] ELSE [fifos[i] EXCEPT !.watch = TRUE]
      BY <1>1, <1>5, <2>1 DEF StartWatching
    <3>2. (i > fifo_count <=> i \notin InUse) /\ fifos[i] \in Fifo
      BY <1>2
    <3>3. i \in InUse => fifos[i].len # Size
      BY <1>2, <1>4
    <3> QED BY <3>1, <3>2, <3>3 DEF Fifo
  <2>2. CASE ~(fifo_count > 0)
    <3>1. InUse = {} /\ fifos'[i] = fifos[i]
      BY <1>1, <1>2, <2>2
    <3> QED BY <1>2, <3>1
  <2> QED BY <2>1, <2>2
<1>6. TypeOK'
  <2>1. fifos' \in [Slots -> Fifo]
    <3>1. \A i \in Slots : fifos'[i] \in Fifo
      BY <1>5
    <3>2. fifos' = [i \in Slots |-> fifos'[i]]
      BY <1>1, <1>2 DEF StartWatching
    <3> QED BY <3>1, <3>2
  <2>2. active' \in BOOLEAN /\ wall_timer_type' \in {"none", "period", "idle"}
    BY <1>1, <1>2 DEF TypeOK
  <2> QED BY <1>1, <1>2, <2>1, <2>2 DEF TypeOK
<1>7. CountsAgree'
  <2>1. {i \in 1..fifo_count : fifos'[i].fd = NoFd} = {i \in 1..fifo_count : fifos[i].fd = NoFd}
    BY <1>2, <1>5
  <2>2. closed_fifos' = Cardinality({i \in 1..fifo_count' : fifos'[i].fd = NoFd})
    BY <1>1, <1>2, <2>1 DEF CountsAgree
  <2>3. ASSUME NEW i \in Slots
        PROVE  /\ i > fifo_count => fifos'[i].fd = NoFd /\ fifos'[i].len = 0
               /\ fifos'[i].fd = NoFd => ~fifos'[i].watch
    BY <1>2, <1>5 DEF CountsAgree
  <2> QED BY <1>1, <2>2, <2>3 DEF CountsAgree
<1>8. NoneForgotten' /\ Working'
  <2>1. ASSUME NEW i \in InUse, fifos'[i].fd # NoFd \/ fifos'[i].len > 0 PROVE fifos'[i].watch
    <3>1. i \in Slots /\ fifos'[i].len = 0
      BY <1>2, <1>4, <1>5
    <3> QED BY <1>5, <2>1, <3>1
  <2> QED BY <1>1, <1>2, <1>4, <2>1 DEF NoneForgotten, Working
<1>9. ASSUME ~Together PROVE Sequential'
  <2>1. OneSlot /\ InOrder
    BY <1>2, <1>9 DEF Sequential
  <2>2. OneSlot'
    BY <1>1, <1>5, <2>1 DEF OneSlot
  <2>3. ASSUME NEW i \in Slots
        PROVE  \E s \in Positions :
                 /\ Before(fifos'[i], s)
                 /\ fifos'[i].fd # NoFd => s = pipe'[fifos'[i].fd].sent
    <3>1. PICK s \in Positions :
            Before(fifos[i], s) /\ (fifos[i].fd # NoFd => s = pipe[fifos[i].fd].sent)
      BY <2>1 DEF InOrder
    <3>2. Before(fifos'[i], s)
      BY <1>5, <3>1 DEF Before, Valid
    <3> QED BY <1>1, <1>5, <3>1, <3>2
  <2>4. InOrder'
    BY <2>3 DEF InOrder
  <2> QED BY <2>2, <2>4 DEF Sequential
<1> QED BY <1>6, <1>7, <1>8, <1>9 DEF IInv

-----------------------------------------------------------------------------
(* The theorems.                                                           *)

LEMMA Step == ASSUME AudioAssumption, IInv, [AudioNext]_audiovars PROVE IInv'
<1>1. CASE Outside
  <2>1. PICK p \in Pipes : Create(p) \/ Writes(p) \/ Removed(p)
    BY <1>1 DEF Outside
  <2> QED BY <2>1, CreateStep, WritesStep, RemovedStep
<1>2. CASE Plays
  BY <1>2, PlaysStep
<1>3. CASE Driver
  BY <1>3, PlaybackDirChangedStep, CalledStep, WallTickerStep, ReadFromFifosStep, CondenseStep,
     ProcessStep, ProcessedStep DEF Driver, FifoWatch, Goes
<1>4. CASE UNCHANGED audiovars
  <2>1. /\ offset' = offset /\ buf' = buf /\ at' = at /\ fifos' = fifos /\ pipe' = pipe
        /\ fifo_count' = fifo_count /\ closed_fifos' = closed_fifos /\ opened' = opened
        /\ active' = active /\ spice_buffer' = spice_buffer /\ wall_timer_type' = wall_timer_type
        /\ maxlen' = maxlen /\ events' = events /\ ahead' = ahead
    BY <1>4 DEF audiovars, directory, data
  <2>2. /\ TypeOK /\ CountsAgree /\ NoneForgotten /\ Working /\ (Together \/ Sequential)
    BY DEF IInv
  <2>3. TypeOK'
    BY <2>1, <2>2 DEF TypeOK
  <2>4. CountsAgree' /\ NoneForgotten' /\ Working'
    BY <2>1, <2>2, DriverSame
  <2>5. Together \/ Sequential'
    BY <2>1, <2>2, SequentialSame
  <2> QED BY <2>3, <2>4, <2>5 DEF IInv
<1> QED BY <1>1, <1>2, <1>3, <1>4 DEF AudioNext

LEMMA Invariant == ASSUME AudioAssumption PROVE AudioSpec => []IInv
<1>1. AudioInit => IInv
  BY Starting
<1>2. IInv /\ [AudioNext]_audiovars => IInv'
  BY Step
<1> QED BY <1>1, <1>2, PTL DEF AudioSpec

(* Slots and counts agree, however fifos close, are dropped and swapped.   *)
THEOREM CountsAgreeTheorem == ASSUME AudioAssumption PROVE AudioSpec => []CountsAgree
<1>1. IInv => CountsAgree
  BY DEF IInv
<1> QED BY <1>1, Invariant, PTL

(* Each open fifo has a watch or the timer, and a kept buffer of the spice *)
(* server has the timer.                                                   *)
THEOREM NoneForgottenTheorem == ASSUME AudioAssumption PROVE AudioSpec => []NoneForgotten
<1>1. IInv => NoneForgotten
  BY DEF IInv
<1> QED BY <1>1, Invariant, PTL

(* As long as each event of the directory is read before the next comes,   *)
(* the ring buffers give what was written, in order and without a gap.     *)
THEOREM PlaysInOrderTheorem ==
  ASSUME AudioAssumption, ~Together PROVE AudioSpec => []PlaysInOrder
<1>1. IInv => PlaysInOrder
  <2> SUFFICES ASSUME IInv PROVE PlaysInOrder
    OBVIOUS
  <2>1. ASSUME NEW i \in 1..fifo_count, fifos[i].len > 0
        PROVE  LET f == fifos[i]
                   samples == Copied(f, f.len)
                   last == IF f.fd = NoFd THEN samples[f.len] ELSE pipe[f.fd].sent - 1
               IN samples = [k \in 1..f.len |-> (last + Numbers + k - f.len) % Numbers]
    <3> DEFINE f == fifos[i]
               last == IF f.fd = NoFd THEN Copied(f, f.len)[f.len] ELSE pipe[f.fd].sent - 1
    <3>1. f \in Fifo /\ i \in Slots /\ InOrder
      BY SlotsOrdered DEF IInv, TypeOK, InUse, Sequential
    <3>2. PICK s \in Positions : Before(f, s) /\ (f.fd # NoFd => s = pipe[f.fd].sent)
      BY <3>1 DEF InOrder
    <3>3. last = s - 1 \/ last = Copied(f, f.len)[f.len]
      BY <3>2
    <3>4. last \in Int
      <4>1. CASE f.fd = NoFd
        <5>1. Copied(f, f.len) \in [1..f.len -> Int]
          BY <2>1, <3>1, CopiedTyped
        <5>2. f.len \in 1..f.len
          BY <2>1, <3>1 DEF Fifo
        <5> QED BY <4>1, <5>1, <5>2
      <4>2. CASE f.fd # NoFd
        BY <3>2, <4>2 DEF Positions
      <4> QED BY <4>1, <4>2
    <3> HIDE DEF last
    <3>5. Copied(f, f.len) = [k \in 1..f.len |-> (last + Numbers + k - f.len) % Numbers]
      BY <2>1, <3>1, <3>2, <3>3, <3>4, CopiesInOrder
    <3> QED BY <3>5 DEF last
  <2> QED BY <2>1 DEF PlaysInOrder
<1> QED BY <1>1, Invariant, PTL
=============================================================================
